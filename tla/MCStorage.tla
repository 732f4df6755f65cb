----------------------------- MODULE MCStorage -----------------------------
(* Storage with a probe that reads four values, so that some pairs are too    *)
(* close and some are not, whichever of the two is written; and three cells   *)
(* in pages of one under a window of two, so that the last window is cut      *)
(* short by the end of the flash and one read is longer than the window.      *)
EXTENDS Storage

MCReadings == 0..3
MCValues == {0, 1}
MCPages == {[at |-> p, len |-> 1] : p \in 0..2}
MCReads == MCPages \cup {[at |-> 0, len |-> l] : l \in {2, 3}}
MCWrites == {[at |-> 0, len |-> 2], [at |-> 2, len |-> 1]}
MCErases == {[at |-> 0, len |-> 1], [at |-> 2, len |-> 1]}
=============================================================================
