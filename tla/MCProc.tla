------------------------------- MODULE MCProc -------------------------------
(* Instances of Proc for TLC; the CPUs are interchangeable. *)
EXTENDS Proc, TLC

Symmetry == Permutations(CPU)
=============================================================================
