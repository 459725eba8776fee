------------------------ MODULE MCPrefetcherService ------------------------
(* PrefetcherService with interchangeable files and batches. *)
EXTENDS PrefetcherService, TLC

CONSTANTS k1, k2, b1, b2, b3

MCKey == {k1, k2}
MCBatch == {b1, b2, b3}
Symmetry == Permutations(MCKey) \cup Permutations(MCBatch)

==============================================================================
