-------------------------------- MODULE Proc --------------------------------
(***************************************************************************)
(* Process life cycle (src/kernel/proc.c): scheduler, fork, exit, wait and *)
(* kill, on several CPUs.  Every acquire() of a process lock that happens  *)
(* while another one is held, and every read of p->parent without the      *)
(* lock, is a step of its own; a critical section with no other process    *)
(* lock inside is one action.  System calls run with interrupts off, so    *)
(* only a process in user mode yields.  Files, memory and pids are left    *)
(* out (a slot of procs[] stands for the pid), and the only sleep here is  *)
(* the one in wait().                                                      *)
(***************************************************************************)
EXTENDS Naturals

CONSTANTS NPROC,     \* param.h: slots of procs[]
          CPU,       \* running CPUs
          NoCPU,     \* "nobody holds this lock"
          Killable   \* slots kill() is called for: bounds the instance

ASSUME ProcAssumption ==
  /\ NPROC \in Nat \ {0}
  /\ NoCPU \notin CPU
  /\ Killable \subseteq 2..NPROC   \* killing init panics by design

VARIABLES
  state, parent, killed,  \* struct proc; parent 0 is the null pointer
  lock,                   \* p->lock: the CPU that holds it
  cproc,                  \* c->proc, 0 if the CPU is in scheduler()
  pc,                     \* where the process is in the kernel
  scan, havekids,         \* loop variables of wait() and reparent()
  op                      \* exit(): original_parent

vars == <<state, parent, killed, lock, cproc, pc, scan, havekids, op>>

Slot == 1..NPROC
initproc == 1

Init ==
  /\ state = [p \in Slot |-> IF p = initproc THEN "RUNNABLE" ELSE "UNUSED"]
  /\ parent = [p \in Slot |-> 0]
  /\ killed = [p \in Slot |-> FALSE]
  /\ lock = [p \in Slot |-> NoCPU]
  /\ cproc = [c \in CPU |-> 0]
  /\ pc = [p \in Slot |-> "user"]
  /\ scan = [p \in Slot |-> 1]
  /\ havekids = [p \in Slot |-> FALSE]
  /\ op = [p \in Slot |-> 0]

Free(p) == lock[p] = NoCPU

(* Process p runs on CPU c and is at place l. *)
At(c, p, l) == cproc[c] = p /\ pc[p] = l

(* p is in user mode, and enters the kernel alive (swi_handler()). *)
Call(c, p) == At(c, p, "user") /\ ~killed[p]

(* wakeup1(p), by a holder of p->lock; asleep in wait() is the only sleep. *)
wakeup1(p) == IF state[p] = "SLEEPING" THEN "RUNNABLE" ELSE state[p]

-----------------------------------------------------------------------------
(* scheduler(): a RUNNABLE process gets CPU c.  forkret() and yield()      *)
(* release p->lock; sleep(p, &p->lock) returns to wait() with it held.     *)
dispatch(c, p) ==
  /\ cproc[c] = 0 /\ Free(p) /\ state[p] = "RUNNABLE"
  /\ state' = [state EXCEPT ![p] = "RUNNING"]
  /\ cproc' = [cproc EXCEPT ![c] = p]
  /\ IF pc[p] = "asleep"
       THEN /\ lock' = [lock EXCEPT ![p] = c]
            /\ pc' = [pc EXCEPT ![p] = "wait"]
       ELSE UNCHANGED <<lock, pc>>
  /\ UNCHANGED <<parent, killed, scan, havekids, op>>

(* A timer interrupt in user mode, with killed clear (irq_handler()). *)
yield(c, p) ==
  /\ Call(c, p) /\ Free(p)
  /\ state' = [state EXCEPT ![p] = "RUNNABLE"]
  /\ cproc' = [cproc EXCEPT ![c] = 0]
  /\ UNCHANGED <<parent, killed, lock, pc, scan, havekids, op>>

(* allocproc() returns some UNUSED slot (a lower one may have been freed   *)
(* after its scan passed it), with whatever it has in killed.              *)
allocproc_mutant(np) == Free(np) /\ state[np] \in {"UNUSED", "ZOMBIE"}
allocproc(np) == Free(np) /\ state[np] = "UNUSED"

fork(c, p, np) ==
  /\ Call(c, p) /\ allocproc(np)
  /\ state' = [state EXCEPT ![np] = "RUNNABLE"]
  /\ parent' = [parent EXCEPT ![np] = p]
  /\ UNCHANGED <<killed, lock, cproc, pc, scan, havekids, op>>

(* No memory for the child: freeproc(np) of a slot that is as freeproc()   *)
(* left it, except perhaps for killed.                                     *)
fork_fail(c, p, np) ==
  /\ Call(c, p) /\ allocproc(np)
  /\ killed' = [killed EXCEPT ![np] = FALSE]
  /\ UNCHANGED <<state, parent, lock, cproc, pc, scan, havekids, op>>

(* kill(pid): sets killed, and makes a sleeper runnable. *)
kill(c, p, q) ==
  /\ Call(c, p) /\ Free(q) /\ state[q] # "UNUSED"
  /\ killed' = [killed EXCEPT ![q] = TRUE]
  /\ state' = [state EXCEPT ![q] = IF @ = "SLEEPING" THEN "RUNNABLE" ELSE @]
  /\ UNCHANGED <<parent, lock, cproc, pc, scan, havekids, op>>

(* kill(0): a slot that is not in use has pid 0.  The scan takes one lock  *)
(* at a time, so a lower slot may have been freed since it went by.        *)
kill0(c, p, q) ==
  /\ Call(c, p) /\ Free(q) /\ state[q] = "UNUSED"
  /\ killed' = [killed EXCEPT ![q] = TRUE]
  /\ UNCHANGED <<state, parent, lock, cproc, pc, scan, havekids, op>>

-----------------------------------------------------------------------------
(* exit() *)

(* By itself or on a trap of a killed process: wake up init. *)
exit(c, p) ==
  /\ At(c, p, "user") /\ p # initproc
  /\ Free(initproc)
  /\ state' = [state EXCEPT ![initproc] = wakeup1(initproc)]
  /\ pc' = [pc EXCEPT ![p] = "exit_parent"]
  /\ UNCHANGED <<parent, killed, lock, cproc, scan, havekids, op>>

exit_parent(c, p) ==
  /\ At(c, p, "exit_parent") /\ Free(p)
  /\ op' = [op EXCEPT ![p] = parent[p]]
  /\ pc' = [pc EXCEPT ![p] = "exit_lock_parent"]
  /\ UNCHANGED <<state, parent, killed, lock, cproc, scan, havekids>>

exit_lock_parent(c, p) ==
  /\ At(c, p, "exit_lock_parent") /\ Free(op[p])
  /\ lock' = [lock EXCEPT ![op[p]] = c]
  /\ pc' = [pc EXCEPT ![p] = "exit_lock"]
  /\ UNCHANGED <<state, parent, killed, cproc, scan, havekids, op>>

exit_lock(c, p) ==
  /\ At(c, p, "exit_lock") /\ Free(p)
  /\ lock' = [lock EXCEPT ![p] = c]
  /\ pc' = [pc EXCEPT ![p] = "reparent"]
  /\ UNCHANGED <<state, parent, killed, cproc, scan, havekids, op>>

(* reparent(): the unlocked test of pp->parent, one slot at a time ... *)
reparent_mutant(c, p) ==
  /\ At(c, p, "reparent") /\ scan[p] \in Slot
  /\ IF scan[p] # p
       THEN pc' = [pc EXCEPT ![p] = "reparent_lock"] /\ UNCHANGED scan
       ELSE scan' = [scan EXCEPT ![p] = @ + 1] /\ UNCHANGED pc
  /\ UNCHANGED <<state, parent, killed, lock, cproc, havekids, op>>
reparent(c, p) ==
  /\ At(c, p, "reparent") /\ scan[p] \in Slot
  /\ IF parent[scan[p]] = p
       THEN pc' = [pc EXCEPT ![p] = "reparent_lock"] /\ UNCHANGED scan
       ELSE scan' = [scan EXCEPT ![p] = @ + 1] /\ UNCHANGED pc
  /\ UNCHANGED <<state, parent, killed, lock, cproc, havekids, op>>

(* ... and the update under pp->lock. *)
GiveTo_mutant(p) == op[p]
GiveTo(p) == initproc

reparent_lock(c, p) ==
  /\ At(c, p, "reparent_lock") /\ Free(scan[p])
  /\ parent' = [parent EXCEPT ![scan[p]] = GiveTo(p)]
  /\ scan' = [scan EXCEPT ![p] = @ + 1]
  /\ pc' = [pc EXCEPT ![p] = "reparent"]
  /\ UNCHANGED <<state, killed, lock, cproc, havekids, op>>

(* wakeup1(original_parent), ZOMBIE, release(&original_parent->lock). *)
ReleaseAtExit_mutant(p) == [lock EXCEPT ![op[p]] = NoCPU, ![p] = NoCPU]
ReleaseAtExit(p) == [lock EXCEPT ![op[p]] = NoCPU]
WokenAtExit_mutant(p) == state[op[p]]
WokenAtExit(p) == wakeup1(op[p])

exit_zombie(c, p) ==
  /\ At(c, p, "reparent") /\ scan[p] > NPROC
  /\ state' = [state EXCEPT ![op[p]] = WokenAtExit(p), ![p] = "ZOMBIE"]
  /\ lock' = ReleaseAtExit(p)
  /\ pc' = [pc EXCEPT ![p] = "zombie"]
  /\ scan' = [scan EXCEPT ![p] = 1]
  /\ op' = [op EXCEPT ![p] = 0]
  /\ UNCHANGED <<parent, killed, cproc, havekids>>

(* sched(), and scheduler() releases p->lock.  The next process in this    *)
(* slot starts in user mode.                                               *)
exit_sched(c, p) ==
  /\ At(c, p, "zombie")
  /\ cproc' = [cproc EXCEPT ![c] = 0]
  /\ lock' = [lock EXCEPT ![p] = NoCPU]
  /\ pc' = [pc EXCEPT ![p] = "user"]
  /\ UNCHANGED <<state, parent, killed, scan, havekids, op>>

-----------------------------------------------------------------------------
(* wait() *)

(* The end of a scan: the loop variables are as at the start of the next.  *)
EndScan(p) ==
  /\ scan' = [scan EXCEPT ![p] = 1]
  /\ havekids' = [havekids EXCEPT ![p] = FALSE]
  /\ UNCHANGED op

(* return from wait(). *)
Return(p) ==
  /\ lock' = [lock EXCEPT ![p] = NoCPU]
  /\ pc' = [pc EXCEPT ![p] = "user"]
  /\ EndScan(p)

wait(c, p) ==
  /\ Call(c, p) /\ Free(p)
  /\ lock' = [lock EXCEPT ![p] = c]
  /\ pc' = [pc EXCEPT ![p] = "wait"]
  /\ UNCHANGED <<state, parent, killed, cproc, scan, havekids, op>>

(* The unlocked test of np->parent. *)
wait_scan(c, p) ==
  /\ At(c, p, "wait") /\ scan[p] \in Slot
  /\ IF parent[scan[p]] = p
       THEN pc' = [pc EXCEPT ![p] = "wait_lock"] /\ UNCHANGED scan
       ELSE scan' = [scan EXCEPT ![p] = @ + 1] /\ UNCHANGED pc
  /\ UNCHANGED <<state, parent, killed, lock, cproc, havekids, op>>

(* freeproc() clears np->parent. *)
FreedParent_mutant(np) == parent
FreedParent(np) == [parent EXCEPT ![np] = 0]

(* Under np->lock: a living child ... *)
wait_living(c, p) ==
  /\ At(c, p, "wait_lock") /\ Free(scan[p])
  /\ state[scan[p]] # "ZOMBIE"
  /\ havekids' = [havekids EXCEPT ![p] = TRUE]
  /\ scan' = [scan EXCEPT ![p] = @ + 1]
  /\ pc' = [pc EXCEPT ![p] = "wait"]
  /\ UNCHANGED <<state, parent, killed, lock, cproc, op>>

(* ... or a zombie: freeproc(np), and both locks are released.             *)
wait_zombie(c, p) ==
  /\ At(c, p, "wait_lock") /\ Free(scan[p])
  /\ state[scan[p]] = "ZOMBIE"
  /\ state' = [state EXCEPT ![scan[p]] = "UNUSED"]
  /\ parent' = FreedParent(scan[p])
  /\ killed' = [killed EXCEPT ![scan[p]] = FALSE]
  /\ Return(p)
  /\ UNCHANGED cproc

(* copyout() of the exit status failed: return -1, the child stays.        *)
wait_fault(c, p) ==
  /\ At(c, p, "wait_lock") /\ Free(scan[p])
  /\ state[scan[p]] = "ZOMBIE"
  /\ Return(p)
  /\ UNCHANGED <<state, parent, killed, cproc>>

(* No kids, or killed: return -1. *)
wait_none(c, p) ==
  /\ At(c, p, "wait") /\ scan[p] > NPROC
  /\ ~havekids[p] \/ killed[p]
  /\ Return(p)
  /\ UNCHANGED <<state, parent, killed, cproc>>

(* sleep(p, &p->lock), up to scheduler()'s release of p->lock. *)
wait_sleep(c, p) ==
  /\ At(c, p, "wait") /\ scan[p] > NPROC
  /\ havekids[p] /\ ~killed[p]
  /\ state' = [state EXCEPT ![p] = "SLEEPING"]
  /\ cproc' = [cproc EXCEPT ![c] = 0]
  /\ lock' = [lock EXCEPT ![p] = NoCPU]
  /\ pc' = [pc EXCEPT ![p] = "asleep"]
  /\ EndScan(p)
  /\ UNCHANGED <<parent, killed>>

-----------------------------------------------------------------------------
Exit(c, p) ==
  \/ exit(c, p) \/ exit_parent(c, p) \/ exit_lock_parent(c, p) \/ exit_lock(c, p)
  \/ reparent(c, p) \/ reparent_lock(c, p) \/ exit_zombie(c, p) \/ exit_sched(c, p)

Wait(c, p) ==
  \/ wait(c, p) \/ wait_scan(c, p) \/ wait_living(c, p) \/ wait_zombie(c, p)
  \/ wait_fault(c, p) \/ wait_none(c, p) \/ wait_sleep(c, p)

Next ==
  \E c \in CPU, p \in Slot :
    \/ dispatch(c, p) \/ yield(c, p) \/ Exit(c, p) \/ Wait(c, p)
    \/ \E np \in Slot : fork(c, p, np) \/ fork_fail(c, p, np)
    \/ \E q \in Killable : kill(c, p, q) \/ kill0(c, p, q)

Spec == Init /\ [][Next]_vars
-----------------------------------------------------------------------------
(* Properties *)

TypeOK ==
  /\ state \in [Slot -> {"UNUSED", "SLEEPING", "RUNNABLE", "RUNNING", "ZOMBIE"}]
  /\ parent \in [Slot -> Slot \cup {0}]
  /\ killed \in [Slot -> BOOLEAN]
  /\ lock \in [Slot -> CPU \cup {NoCPU}]
  /\ cproc \in [CPU -> Slot \cup {0}]
  /\ pc \in [Slot -> {"user", "exit_parent", "exit_lock_parent", "exit_lock",
                      "reparent", "reparent_lock", "zombie", "wait",
                      "wait_lock", "asleep"}]
  /\ scan \in [Slot -> Slot \cup {NPROC + 1}]
  /\ havekids \in [Slot -> BOOLEAN]
  /\ op \in [Slot -> Slot \cup {0}]

(* A process runs on one CPU at a time, and its slot is not freed, reused  *)
(* or rescheduled while a CPU is still on its kernel stack: exit() holds   *)
(* p->lock from ZOMBIE until scheduler() has switched away.                *)
StackSafe ==
  \A c \in CPU : cproc[c] # 0 =>
    /\ \A d \in CPU : cproc[d] = cproc[c] => d = c
    /\ \/ state[cproc[c]] = "RUNNING"
       \/ state[cproc[c]] = "ZOMBIE" /\ lock[cproc[c]] = c

(* reparent() and wait() test pp->parent without pp->lock and rely on it   *)
(* when they have the lock: "np->parent can't change between the check and *)
(* the acquire() because only the parent changes it" (proc.c:339-340).     *)
ParentStable ==
  \A p \in Slot : pc[p] \in {"reparent_lock", "wait_lock"} => parent[scan[p]] = p

(* Every process but init has a parent that can still wait for it: exit()  *)
(* gives all children away before the process is a ZOMBIE, and no child is *)
(* missed by the scan.                                                     *)
NoOrphan ==
  \A p \in Slot \ {initproc} : state[p] # "UNUSED" =>
    parent[p] # 0 /\ state[parent[p]] \notin {"UNUSED", "ZOMBIE"}

(* p sleeps in wait() although child q is ready to be reaped.              *)
MissedExit(p, q) == state[p] = "SLEEPING" /\ parent[q] = p /\ state[q] = "ZOMBIE"

(* wait() misses no exit() of a child: "hold p->lock for the whole time to *)
(* avoid lost wakeups from a child's exit()" (proc.c:325-326).  Here for   *)
(* every process but init, whose children are also those it adopts.        *)
NoLostExit == \A p \in Slot \ {initproc}, q \in Slot : ~MissedExit(p, q)

(* A process is in exit() on its way to wakeup1(original_parent), and that *)
(* parent is init (proc.c:298-308).                                        *)
WillWakeInit(p) ==
  \/ pc[p] = "exit_parent" /\ parent[p] = initproc
  \/ /\ pc[p] \in {"exit_lock_parent", "exit_lock", "reparent", "reparent_lock"}
     /\ op[p] = initproc

(* The same for init: "this call to wait() returns if the shell exits, or  *)
(* if a parentless process exits" (user/init.c:38-39).  A zombie child may *)
(* find init asleep only while a process in exit() is going to wake it.    *)
InitReaps ==
  (\E q \in Slot : MissedExit(initproc, q)) => \E p \in Slot : WillWakeInit(p)

(* The lock that CPU c spins on, 0 if none. *)
Wants(c) ==
  LET p == cproc[c]
      l == IF p = 0 THEN "user" ELSE pc[p]
  IN CASE l \in {"exit_parent", "exit_lock"}       -> p
       [] l = "exit_lock_parent"                   -> op[p]
       [] l \in {"reparent_lock", "wait_lock"}     -> scan[p]
       [] OTHER                                    -> 0

(* The CPUs of S spin on locks that they hold among themselves.            *)
Stuck(S) == S # {} /\ \A c \in S : Wants(c) # 0 /\ lock[Wants(c)] \in S

(* No CPUs wait for each other's process locks.  exit() says of a race     *)
(* with an exiting parent that "the result will be a harmless spurious     *)
(* wakeup to a dead or wrong process" (proc.c:295-297).                    *)
NoDeadlock == \A S \in SUBSET CPU : ~Stuck(S)

(* The parent-then-child rule (proc.c:302-303) keeps exit() and wait() of  *)
(* parents, children and grandchildren from a deadlock, except through an  *)
(* exit() that has locked a stale original_parent.                         *)
ParentThenChild ==
  \A S \in SUBSET CPU : Stuck(S) =>
    \E c \in S : /\ pc[cproc[c]] \in {"exit_lock", "reparent_lock"}
                /\ op[cproc[c]] # parent[cproc[c]]

(* A process has killed set only if kill() was called for it: "If          *)
(* non-zero, have been killed" (proc.h:88).  A free slot has nobody to     *)
(* kill.                                                                   *)
BornAlive == \A p \in Slot : state[p] = "UNUSED" => ~killed[p]
-----------------------------------------------------------------------------
(* The inductive invariant behind StackSafe, ParentStable, NoOrphan and    *)
(* NoLostExit                                                              *)

OnCPU(p) == \E c \in CPU : cproc[c] = p

Exiting == {"exit_parent", "exit_lock_parent", "exit_lock", "reparent", "reparent_lock"}

(* Which locks a CPU holds, by the place of the process it runs.           *)
HoldInv ==
  \A c \in CPU, p \in Slot : cproc[c] = p =>
    /\ pc[p] \in {"reparent", "reparent_lock", "zombie", "wait", "wait_lock"} => lock[p] = c
    /\ pc[p] \in {"exit_lock", "reparent", "reparent_lock"} => lock[op[p]] = c

(* A process is at a place in the kernel, and RUNNING, only on a CPU.      *)
PlaceInv ==
  \A p \in Slot :
    /\ pc[p] = "zombie" <=> OnCPU(p) /\ state[p] = "ZOMBIE"
    /\ pc[p] \in Exiting => OnCPU(p) /\ state[p] = "RUNNING" /\ p # initproc
    /\ pc[p] \in {"wait", "wait_lock"} => OnCPU(p) /\ state[p] = "RUNNING"
    /\ pc[p] = "asleep" => ~OnCPU(p) /\ state[p] \in {"SLEEPING", "RUNNABLE"}
    /\ state[p] = "RUNNING" => OnCPU(p)
    /\ state[p] = "SLEEPING" => pc[p] = "asleep"
    /\ pc[p] \in {"reparent_lock", "wait_lock"} => scan[p] \in Slot

(* The process tree, and what exit() knows of the parent it read.          *)
TreeInv ==
  /\ parent[initproc] = 0
  /\ state[initproc] \notin {"UNUSED", "ZOMBIE"}
  /\ \A p \in Slot :
       /\ state[p] = "UNUSED" => parent[p] = 0
       /\ parent[p] # p
       /\ pc[p] \in Exiting \ {"exit_parent"} =>
            op[p] \in Slot \ {p} /\ parent[p] \in {op[p], initproc}

(* What the scans of reparent() and wait() have established so far.        *)
ScanInv ==
  \A p \in Slot :
    /\ pc[p] \notin {"reparent", "reparent_lock", "wait", "wait_lock"} => scan[p] = 1
    /\ \A q \in Slot : q < scan[p] =>
         /\ pc[p] \in {"reparent", "reparent_lock"} => parent[q] # p
         /\ pc[p] \in {"wait", "wait_lock"} /\ p # initproc /\ parent[q] = p =>
              state[q] # "ZOMBIE"

ProcInv ==
  /\ TypeOK /\ StackSafe /\ ParentStable /\ NoOrphan /\ NoLostExit
  /\ HoldInv /\ PlaceInv /\ TreeInv /\ ScanInv
=============================================================================
