-------------------------- MODULE MCUpdateService --------------------------
(* UpdateService with two interchangeable updatables. *)
EXTENDS UpdateService, TLC

CONSTANTS u1, u2

MCUpdatable == {u1, u2}
Symmetry == Permutations(MCUpdatable)

==============================================================================
