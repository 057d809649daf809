----------------------------- MODULE SleepLock ------------------------------
(***************************************************************************)
(* A sleep lock (src/kernel/sleeplock.c) with sleep(), wakeup() and kill() *)
(* (src/kernel/proc.c), one action per acquire() or release() of lk->lk    *)
(* and of the process locks.  This is the sleep/wakeup protocol every      *)
(* other part of the kernel uses, with the lock as its condition.          *)
(***************************************************************************)
EXTENDS Naturals

CONSTANTS NPROC,   \* processes that use the lock; wakeup() scans them in order
          NoProc   \* "nobody holds this lock"

ASSUME SleepLockAssumption == NPROC \in Nat /\ NoProc \notin Nat

VARIABLES lk,          \* the spin lock lk->lk: its holder
          locked, pid, \* struct sleeplock; pid NoProc for 0
          plock,       \* p->lock: its holder
          state,       \* p->state
          pc,          \* place of every process
          scan         \* wakeup()'s loop variable

vars == <<lk, locked, pid, plock, state, pc, scan>>

Proc == 1..NPROC

Init ==
  /\ lk = NoProc /\ locked = FALSE /\ pid = NoProc
  /\ plock = [p \in Proc |-> NoProc]
  /\ state = [p \in Proc |-> "RUNNING"]
  /\ pc = [p \in Proc |-> "out"]
  /\ scan = [p \in Proc |-> 1]

Goto(p, l) == pc' = [pc EXCEPT ![p] = l]

-----------------------------------------------------------------------------
(* acquiresleep(): acquire(&lk->lk), from outside or at the end of sleep() *)
acquiresleep_mutant(p) ==
  /\ pc[p] \in {"out", "awake"} /\ lk = NoProc
  /\ IF pc[p] = "awake"
       THEN locked' = TRUE /\ pid' = p /\ Goto(p, "in") /\ UNCHANGED lk
       ELSE lk' = p /\ Goto(p, "test") /\ UNCHANGED <<locked, pid>>
  /\ UNCHANGED <<plock, state, scan>>
acquiresleep(p) ==
  /\ pc[p] \in {"out", "awake"} /\ lk = NoProc
  /\ lk' = p
  /\ Goto(p, "test")
  /\ UNCHANGED <<locked, pid, plock, state, scan>>

(* while(lk->locked): the lock is free ... *)
take(p) ==
  /\ pc[p] = "test" /\ ~locked
  /\ locked' = TRUE /\ pid' = p
  /\ lk' = NoProc
  /\ Goto(p, "in")
  /\ UNCHANGED <<plock, state, scan>>

(* ... or sleep(lk, &lk->lk): acquire(&p->lock), *)
SleepLocks_mutant(p) == UNCHANGED plock
SleepLocks(p) == plock[p] = NoProc /\ plock' = [plock EXCEPT ![p] = p]

sleep(p) ==
  /\ pc[p] = "test" /\ locked
  /\ SleepLocks(p)
  /\ Goto(p, "sleep_release")
  /\ UNCHANGED <<lk, locked, pid, state, scan>>

(* release(lk), *)
sleep_release(p) ==
  /\ pc[p] = "sleep_release"
  /\ lk' = NoProc
  /\ Goto(p, "sleep_sched")
  /\ UNCHANGED <<locked, pid, plock, state, scan>>

(* p->state = SLEEPING, sched(), and scheduler() releases p->lock. *)
sleep_sched(p) ==
  /\ pc[p] = "sleep_sched"
  /\ state' = [state EXCEPT ![p] = "SLEEPING"]
  /\ plock' = [plock EXCEPT ![p] = NoProc]
  /\ Goto(p, "asleep")
  /\ UNCHANGED <<lk, locked, pid, scan>>

(* scheduler() runs p again, and sleep() releases p->lock. *)
resume(p) ==
  /\ pc[p] = "asleep" /\ state[p] = "RUNNABLE" /\ plock[p] = NoProc
  /\ state' = [state EXCEPT ![p] = "RUNNING"]
  /\ Goto(p, "awake")
  /\ UNCHANGED <<lk, locked, pid, plock, scan>>

-----------------------------------------------------------------------------
(* releasesleep(): acquire(&lk->lk), and the lock is free. *)
releasesleep_mutant(p) ==
  /\ pc[p] = "in" /\ lk = NoProc
  /\ lk' = p
  /\ locked' = FALSE
  /\ Goto(p, "wakeup")
  /\ UNCHANGED <<pid, plock, state, scan>>
releasesleep(p) ==
  /\ pc[p] = "in" /\ lk = NoProc
  /\ lk' = p
  /\ locked' = FALSE /\ pid' = NoProc
  /\ Goto(p, "wakeup")
  /\ UNCHANGED <<plock, state, scan>>

(* wakeup(lk): the next process, under its lock. *)
WakeTest_mutant(q) == state[q] = "SLEEPING" /\ q # 1
WakeTest(q) == state[q] = "SLEEPING"

wakeup(p) ==
  /\ pc[p] = "wakeup" /\ scan[p] \in Proc
  /\ plock[scan[p]] = NoProc
  /\ state' = [state EXCEPT ![scan[p]] = IF WakeTest(scan[p]) THEN "RUNNABLE" ELSE @]
  /\ scan' = [scan EXCEPT ![p] = @ + 1]
  /\ UNCHANGED <<lk, locked, pid, plock, pc>>

(* release(&lk->lk) *)
released(p) ==
  /\ pc[p] = "wakeup" /\ scan[p] > NPROC
  /\ lk' = NoProc
  /\ scan' = [scan EXCEPT ![p] = 1]
  /\ Goto(p, "out")
  /\ UNCHANGED <<locked, pid, plock, state>>

(* kill(): a sleeper wakes up with the lock still held. *)
kill(p) ==
  /\ plock[p] = NoProc /\ state[p] = "SLEEPING"
  /\ state' = [state EXCEPT ![p] = "RUNNABLE"]
  /\ UNCHANGED <<lk, locked, pid, plock, pc, scan>>

Step(p) ==
  \/ take(p) \/ sleep(p) \/ sleep_release(p) \/ sleep_sched(p) \/ resume(p)
  \/ releasesleep(p) \/ wakeup(p) \/ released(p)
  \/ pc[p] = "awake" /\ acquiresleep(p)

Next == \E p \in Proc : Step(p) \/ acquiresleep(p) \/ kill(p)

Spec == Init /\ [][Next]_vars

(* A process inside acquiresleep() or releasesleep() goes on, and a holder *)
(* releases the lock; nobody has to call acquiresleep().                   *)
FairSpec == Spec /\ \A p \in Proc : WF_vars(Step(p))

-----------------------------------------------------------------------------
(* Properties *)

TypeOK ==
  /\ lk \in Proc \cup {NoProc}
  /\ locked \in BOOLEAN
  /\ pid \in Proc \cup {NoProc}
  /\ plock \in [Proc -> Proc \cup {NoProc}]
  /\ state \in [Proc -> {"RUNNING", "SLEEPING", "RUNNABLE"}]
  /\ pc \in [Proc -> {"out", "test", "sleep_release", "sleep_sched", "asleep",
                      "awake", "in", "wakeup"}]
  /\ scan \in [Proc -> Proc \cup {NPROC + 1}]

(* Two processes never hold the sleep lock, and holdingsleep() is true for *)
(* the holder alone.                                                       *)
MutualExclusion == \A p \in Proc : pc[p] = "in" <=> locked /\ pid = p

(* p has decided to sleep, and nobody has woken it. *)
Committed(p) ==
  pc[p] \in {"sleep_release", "sleep_sched"} \/ (pc[p] = "asleep" /\ state[p] = "SLEEPING")

(* A wakeup() is under way that has still to look at p. *)
WakeupComes(p) == \E q \in Proc : pc[q] = "wakeup" /\ scan[q] <= p

(* No lost wakeup: "Once we hold p->lock, we can be guaranteed that we     *)
(* won't miss any wakeup (wakeup locks p->lock), so it's okay to release   *)
(* lk" (proc.c:376-379).  A process sleeps only while the lock is held or  *)
(* a wakeup() is on its way.                                               *)
NoLostWakeup == \A p \in Proc : Committed(p) => locked \/ WakeupComes(p)

(* The protocol implements atomic sleeping and waking.                     *)
Asleep == {p \in Proc : Committed(p) /\ ~WakeupComes(p)}

Abstract == INSTANCE BlockingLock WITH owner <- pid, asleep <- Asleep

(* sleep() and wakeup() implement the atomic sleep and wakeup of           *)
(* BlockingLock: no interleaving of their critical sections shows.         *)
AtomicSleep == Abstract!Spec

(* When somebody waits for the lock, somebody gets it: a release lets the  *)
(* sleepers of acquiresleep() compete again (not each of them wins: there  *)
(* is no queue).                                                           *)
SomebodyGetsIn ==
  (\E p \in Proc : pc[p] \notin {"out", "wakeup"}) ~> (\E p \in Proc : pc[p] = "in")
-----------------------------------------------------------------------------
(* Who holds which lock where; wakeup() scans with lk->lk held.            *)
PlaceInv ==
  /\ locked <=> pid # NoProc
  /\ \A p \in Proc :
       /\ pc[p] \in {"test", "sleep_release", "wakeup"} <=> lk = p
       /\ pc[p] \in {"sleep_release", "sleep_sched"} <=> plock[p] # NoProc
       /\ pc[p] = "asleep" <=> state[p] # "RUNNING"
       /\ IF pc[p] = "wakeup" THEN ~locked ELSE scan[p] = 1

(* The inductive invariant: nobody sleeps unnoticed.                       *)
SleepInv == TypeOK /\ MutualExclusion /\ NoLostWakeup /\ PlaceInv
=============================================================================
