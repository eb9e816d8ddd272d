-------------------------- MODULE MCMemoryBackend --------------------------
(***************************************************************************)
(* The storage contract on a small instance: two partitions, two memories. *)
(***************************************************************************)
EXTENDS MemoryBackend, TLC

Symmetric == Permutations(Spaces) \cup Permutations(Contents)

=============================================================================
