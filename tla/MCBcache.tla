------------------------------ MODULE MCBcache ------------------------------
(* Instances of Bcache for TLC. *)
EXTENDS Bcache

Symmetry == Permutations(Block) \cup Permutations(Data) \cup Permutations(Proc)
=============================================================================
