------------------------------- MODULE MCLog -------------------------------
(* Small instances of Log for TLC. *)
EXTENDS Log, TLC

(* Blocks and contents are compared for equality only, and no property     *)
(* names one of them, so both are symmetric; so are the processes.         *)
Symmetry == Permutations(Block) \cup Permutations(Data) \cup Permutations(Op)

(* mkfs leaves every block of the log the same. *)
MCInit == Init /\ \E d \in Data : dlog = [i \in 1..(NLOG - 1) |-> d]
MCSpec == MCInit /\ [][Next]_vars
=============================================================================
