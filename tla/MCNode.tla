-------------------------------- MODULE MCNode --------------------------------
(* Node with one scene and two nodes. *)
EXTENDS Node

CONSTANTS scene, x, y

MCNodes == {scene, x, y}
Symmetry == Permutations({x, y})

===============================================================================
