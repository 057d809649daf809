------------------------------- MODULE MCPipe -------------------------------
(* Instances of Pipe for TLC. *)
EXTENDS Pipe, TLC

Symmetry == Permutations(Reader) \cup Permutations(Writer) \cup Permutations(Byte)
=============================================================================
