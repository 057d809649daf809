----------------------------- MODULE BlockStore -----------------------------
(***************************************************************************)
(* What the buffer cache promises (src/kernel/bio.c:1-15): one copy of     *)
(* every block, used by one process at a time.                             *)
(***************************************************************************)
CONSTANTS Block, Data, Proc, NoProc

VARIABLES contents,  \* of every block, as bread() shows them
          user       \* the process between bread() and brelse(), or NoProc

svars == <<contents, user>>

Init ==
  /\ contents \in [Block -> Data]
  /\ user = [n \in Block |-> NoProc]

Bread(p, n) ==
  /\ user[n] = NoProc
  /\ user' = [user EXCEPT ![n] = p]
  /\ UNCHANGED contents

Modify(p, n, d) ==
  /\ user[n] = p
  /\ contents' = [contents EXCEPT ![n] = d]
  /\ UNCHANGED user

Brelse(p, n) ==
  /\ user[n] = p
  /\ user' = [user EXCEPT ![n] = NoProc]
  /\ UNCHANGED contents

Next ==
  \E p \in Proc, n \in Block :
    Bread(p, n) \/ Brelse(p, n) \/ \E d \in Data : Modify(p, n, d)

Spec == Init /\ [][Next]_svars
=============================================================================
