---------------------------- MODULE MCVcoTuning ------------------------------
(* Intervals for VcoTuning: both ends around the places where a search turns. *)
EXTENDS VcoTuning

Ends == (-1..8) \cup {31, 64, 90} \cup (125..131) \cup {190, 223} \cup (248..256)

EdgeRanges == {r \in [lo : Ends \ {-1}, hi : Ends \ {256}] : r.lo <= r.hi + 1}

\* None, a single code, and intervals that overlap.
VcoRanges == {Silent, [lo |-> 40, hi |-> 60], [lo |-> 41, hi |-> 140], [lo |-> 200, hi |-> 200]}
=============================================================================
