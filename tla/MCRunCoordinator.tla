-------------------------- MODULE MCRunCoordinator --------------------------
(* Instances of RunCoordinator for TLC. *)
EXTENDS RunCoordinator, TLC

CONSTANTS r1, r2

Calm(cancellable) ==
  [cancellable |-> cancellable, rollBack |-> FALSE, stepClock |-> FALSE]

(* Either run may be cancelled and nothing else goes wrong, or every fault  *)
(* may happen and one run is left to itself.                                *)
Faulty(r) == [cancellable |-> {r}, rollBack |-> TRUE, stepClock |-> TRUE]

CalmOrFaulty == {Calm({r1, r2}), Faulty(r1), Faulty(r2)}

RunSymmetry == Permutations(Run)

CalmOne == {Calm({r1})}
=============================================================================
