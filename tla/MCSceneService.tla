---------------------------- MODULE MCSceneService ----------------------------
(* SceneService with two scenes and a node. *)
EXTENDS SceneService

CONSTANTS s1, s2, x

MCNodes == {s1, s2, x}
MCRoot == {s1, s2}
Symmetry == Permutations(MCRoot)

===============================================================================
