----------------------------- MODULE MCRingFIFO -----------------------------
(* Values for the constants of RingFIFO that a cfg cannot write down. *)
EXTENDS RingFIFO

ReceiveFlags == {{}}
TransmitFlags == {{"SYNC_TIMESTAMP"}, {"SYNC_TIMESTAMP", "END_BURST"}}
=============================================================================
