----------------------------- MODULE MCSoapyRead ------------------------------
(* Commands for SoapyRead: at once and at a time, for ever and for a burst. *)
EXTENDS SoapyRead

Now(n) == [timed |-> FALSE, ticks |-> 0, numElems |-> n]
At(t, n) == [timed |-> TRUE, ticks |-> t, numElems |-> n]

Mixed == {Now(0), Now(3), At(6, 0), At(9, 4)}
=============================================================================
