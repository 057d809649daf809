----------------------------- MODULE AtomicDisk -----------------------------
(***************************************************************************)
(* What the logging layer (src/kernel/log.c) promises to the file system:  *)
(* a disk on which system calls bracketed by begin_op()/end_op() update    *)
(* blocks, and on which a crash leaves either all or none of the updates   *)
(* of every system call.  The contract is the comment log.c:10-23: updates *)
(* reach the disk only at a commit, and a commit happens only while no     *)
(* system call is active.                                                  *)
(***************************************************************************)
CONSTANTS Block,   \* block numbers of home locations
          Data,    \* contents of a block
          Op       \* file-system system calls (one per process)

VARIABLES durable, \* what a reboot would find, for every block
          current, \* what the running system sees, for every block
          active   \* system calls between begin_op() and end_op()

avars == <<durable, current, active>>

Init ==
  /\ durable \in [Block -> Data]
  /\ current = durable
  /\ active = {}

Begin(p) ==
  /\ p \notin active
  /\ active' = active \cup {p}
  /\ UNCHANGED <<durable, current>>

Write(p, b, d) ==
  /\ p \in active
  /\ current' = [current EXCEPT ![b] = d]
  /\ UNCHANGED <<durable, active>>

End(p) ==
  /\ p \in active
  /\ active' = active \ {p}
  /\ UNCHANGED <<durable, current>>

Commit ==
  /\ active = {}
  /\ durable' = current
  /\ UNCHANGED <<current, active>>

Crash ==
  /\ current' = durable
  /\ active' = {}
  /\ UNCHANGED durable

Next ==
  \/ \E p \in Op : Begin(p) \/ End(p)
  \/ \E p \in Op, b \in Block, d \in Data : Write(p, b, d)
  \/ Commit
  \/ Crash

Spec == Init /\ [][Next]_avars
=============================================================================
