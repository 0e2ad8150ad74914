------------------------- MODULE MCModelEditSession -------------------------
(* Instances of ModelEditSession for TLC. *)
EXTENDS ModelEditSession, TLC

CONSTANTS o1, o2, c1, c2, t1, t2, t3

(* Transaction IDs carry no meaning, and neither does what an object says. *)
SessionSymmetry == Permutations(Tx) \cup Permutations(Content)
=============================================================================
