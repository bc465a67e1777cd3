--------------------------- MODULE MCTransmitLoop ----------------------------
(* Values for the constants of TransmitLoop that a cfg cannot write down. *)
EXTENDS TransmitLoop

\* Full packets with and without a time, and short ones that end a burst; of the
\* 1360 samples of a full packet, 9 make the payload three quanta of 48 bytes and
\* not a multiple of any.
AllKinds == {[flags |-> {"SYNC_TIMESTAMP"}, last |-> 1360],
             [flags |-> {}, last |-> 1360],
             [flags |-> {"SYNC_TIMESTAMP", "END_BURST"}, last |-> 9]}

FullKinds == {[flags |-> {"SYNC_TIMESTAMP"}, last |-> 680]}
=============================================================================
