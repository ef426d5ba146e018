------------------------------ MODULE MCArena ------------------------------
(* Instances of Arena for TLC. *)
EXTENDS Arena, TLC

Alike == Permutations(Threads)

(* Three clients: one that aligns and resizes, one of the bin, one that    *)
(* makes the arena purge.                                                  *)
Clients == {[calls |-> {"large", "align", "resize"}, pages |-> {1}],
            [calls |-> {"large", "small"}, pages |-> {2}],
            [calls |-> {"large", "purge"}, pages |-> {2, NP}]}

(* Bound: runs allocated at a time. *)
MaxRuns == 2
FewRuns == Cardinality(DOMAIN objects) + Cardinality(DOMAIN bin.runs) <= MaxRuns
=============================================================================
