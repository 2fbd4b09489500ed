------------------------------ MODULE MCChunkStore ------------------------------
(***************************************************************************)
(* ChunkStore on small instances.  Three nodes are needed for a chunk with *)
(* two push targets, of which one may fail; the nodes are interchangeable  *)
(* (every choice of a node is a \E over a set), so safety runs use their   *)
(* symmetry and the liveness run, on two nodes, does not.  One chunk is    *)
(* enough: chunks meet only in the node map and the processes, whose       *)
(* changes the model allows at any time.  Two tries of ReplicateChunk (the *)
(* code has three) already give an abandoned attempt overlapping a new     *)
(* one.                                                                    *)
(***************************************************************************)
EXTENDS ChunkStore, TLC

Symmetry == Permutations(Nodes)
=============================================================================
