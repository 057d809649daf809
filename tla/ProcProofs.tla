----------------------------- MODULE ProcProofs -----------------------------
(***************************************************************************)
(* Proofs about module Proc, for every number of slots and CPUs.  The      *)
(* invariant ProcInv is preserved conjunct by conjunct, one step per       *)
(* action.                                                                 *)
(***************************************************************************)
EXTENDS Proc, TLAPS

(* The arithmetic of procs[]: 0 is no slot, and a scan ends at NPROC + 1.  *)
LEMMA SlotFacts ==
  /\ 1 \in Slot /\ initproc \in Slot /\ 0 \notin Slot /\ NPROC + 1 \notin Slot
  /\ NPROC + 1 > NPROC /\ Killable \subseteq Slot
  /\ \A p \in Slot : /\ p \in Nat /\ ~(p < 1) /\ ~(p > NPROC) /\ p < NPROC + 1
                      /\ p + 1 \in Slot \cup {NPROC + 1}
  /\ \A p, q \in Slot : q < p + 1 => q < p \/ q = p
  BY ProcAssumption DEF Slot, initproc

(* A scan that has passed the last slot has passed every slot.             *)
LEMMA ScanEnd ==
  ASSUME TypeOK, NEW p \in Slot, scan[p] > NPROC
  PROVE  \A q \in Slot : q < scan[p]
<1>1. scan[p] \in Slot \cup {NPROC + 1}
  BY DEF TypeOK
<1>2. scan[p] = NPROC + 1
  BY <1>1, SlotFacts
<1> QED
  BY <1>2, SlotFacts

(* wakeup1() changes nothing but SLEEPING to RUNNABLE.                     *)
LEMMA Woken ==
  ASSUME TypeOK, NEW q \in Slot
  PROVE  /\ wakeup1(q) \in {"UNUSED", "SLEEPING", "RUNNABLE", "RUNNING", "ZOMBIE"}
         /\ wakeup1(q) \in {"UNUSED", "ZOMBIE", "RUNNING"} => wakeup1(q) = state[q]
         /\ state[q] \in {"UNUSED", "ZOMBIE", "RUNNING"} => wakeup1(q) = state[q]
  BY DEF TypeOK, wakeup1

(* Values stay in their types.                                             *)
LEMMA TypeStep == ProcInv /\ [Next]_vars => TypeOK'
<1> SUFFICES ASSUME ProcInv, [Next]_vars PROVE TypeOK'
  OBVIOUS
<1> USE ProcAssumption, SlotFacts DEF ProcInv, Free, TypeOK, OnCPU, PlaceInv,
      StackSafe, Exiting
<1>1. ASSUME NEW c \in CPU, NEW p \in Slot, dispatch(c, p) PROVE TypeOK'
  BY <1>1 DEF dispatch
<1>2. ASSUME NEW c \in CPU, NEW p \in Slot, yield(c, p) PROVE TypeOK'
  BY <1>2 DEF yield, Call, At
<1>3. ASSUME NEW c \in CPU, NEW p \in Slot, exit(c, p) PROVE TypeOK'
  BY <1>3 DEF exit, At, wakeup1
<1>4. ASSUME NEW c \in CPU, NEW p \in Slot, exit_parent(c, p) PROVE TypeOK'
  BY <1>4 DEF exit_parent, At
<1>5. ASSUME NEW c \in CPU, NEW p \in Slot, exit_lock_parent(c, p) PROVE TypeOK'
  BY ZenonT(40), <1>5 DEF exit_lock_parent, At
<1>6. ASSUME NEW c \in CPU, NEW p \in Slot, exit_lock(c, p) PROVE TypeOK'
  BY <1>6 DEF exit_lock, At
<1>7. ASSUME NEW c \in CPU, NEW p \in Slot, reparent(c, p) PROVE TypeOK'
  <2>1. CASE parent[scan[p]] = p
    BY <1>7, <2>1 DEF reparent, At
  <2>2. CASE parent[scan[p]] # p
    <3>1. scan[p] \in Slot /\ scan' = [scan EXCEPT ![p] = scan[p] + 1] /\ UNCHANGED <<state, parent, killed, lock, cproc, pc, havekids, op>>
      BY <1>7, <2>2 DEF reparent, At
    <3> QED
      BY ZenonT(40), <3>1
  <2> QED
    BY <2>1, <2>2
<1>8. ASSUME NEW c \in CPU, NEW p \in Slot, reparent_lock(c, p) PROVE TypeOK'
  BY ZenonT(40), <1>8 DEF reparent_lock, At, GiveTo
<1>9. ASSUME NEW c \in CPU, NEW p \in Slot, exit_zombie(c, p) PROVE TypeOK'
  <2>1. op[p] \in Slot
    BY <1>9 DEF exit_zombie, At, TreeInv
  <2>2. wakeup1(op[p]) \in {"UNUSED", "SLEEPING", "RUNNABLE", "RUNNING", "ZOMBIE"}
    BY ZenonT(40), <2>1, Woken
  <2> QED
    BY <1>9, <2>1, <2>2 DEF exit_zombie, At, WokenAtExit, ReleaseAtExit
<1>10. ASSUME NEW c \in CPU, NEW p \in Slot, exit_sched(c, p) PROVE TypeOK'
  BY <1>10 DEF exit_sched, At
<1>11. ASSUME NEW c \in CPU, NEW p \in Slot, wait(c, p) PROVE TypeOK'
  BY <1>11 DEF wait, Call, At
<1>12. ASSUME NEW c \in CPU, NEW p \in Slot, wait_scan(c, p) PROVE TypeOK'
  <2>1. CASE parent[scan[p]] = p
    BY <1>12, <2>1 DEF wait_scan, At
  <2>2. CASE parent[scan[p]] # p
    <3>1. scan[p] \in Slot /\ scan' = [scan EXCEPT ![p] = scan[p] + 1] /\ UNCHANGED <<state, parent, killed, lock, cproc, pc, havekids, op>>
      BY <1>12, <2>2 DEF wait_scan, At
    <3> QED
      BY ZenonT(40), <3>1
  <2> QED
    BY <2>1, <2>2
<1>13. ASSUME NEW c \in CPU, NEW p \in Slot, wait_living(c, p) PROVE TypeOK'
  BY ZenonT(40), <1>13 DEF wait_living, At
<1>14. ASSUME NEW c \in CPU, NEW p \in Slot, wait_zombie(c, p) PROVE TypeOK'
  <2>1. killed' \in [Slot -> BOOLEAN] /\ havekids' \in [Slot -> BOOLEAN]
    BY <1>14 DEF wait_zombie, At, EndScan, Return, FreedParent
  <2> QED
    BY <1>14, <2>1 DEF wait_zombie, At, EndScan, Return, FreedParent
<1>15. ASSUME NEW c \in CPU, NEW p \in Slot, wait_fault(c, p) PROVE TypeOK'
  <2>1. killed' \in [Slot -> BOOLEAN] /\ havekids' \in [Slot -> BOOLEAN]
    BY <1>15 DEF wait_fault, At, EndScan, Return
  <2> QED
    BY <1>15, <2>1 DEF wait_fault, At, EndScan, Return
<1>16. ASSUME NEW c \in CPU, NEW p \in Slot, wait_none(c, p) PROVE TypeOK'
  <2>1. killed' \in [Slot -> BOOLEAN] /\ havekids' \in [Slot -> BOOLEAN]
    BY <1>16 DEF wait_none, At, EndScan, Return
  <2> QED
    BY <1>16, <2>1 DEF wait_none, At, EndScan, Return
<1>17. ASSUME NEW c \in CPU, NEW p \in Slot, wait_sleep(c, p) PROVE TypeOK'
  <2>1. killed' \in [Slot -> BOOLEAN] /\ havekids' \in [Slot -> BOOLEAN]
    BY <1>17 DEF wait_sleep, At, EndScan
  <2> QED
    BY <1>17, <2>1 DEF wait_sleep, At, EndScan
<1>18. ASSUME NEW c \in CPU, NEW p \in Slot, NEW np \in Slot, fork(c, p, np)
       PROVE  TypeOK'
  BY <1>18 DEF fork, Call, At, allocproc
<1>19. ASSUME NEW c \in CPU, NEW p \in Slot, NEW q \in Killable, kill(c, p, q)
       PROVE  TypeOK'
  BY <1>19 DEF kill, Call, At
<1>20. ASSUME NEW c \in CPU, NEW p \in Slot, NEW q \in Killable, kill0(c, p, q)
       PROVE  TypeOK'
  BY <1>20 DEF kill0, Call, At
<1>22. ASSUME NEW c \in CPU, NEW p \in Slot, NEW np \in Slot, fork_fail(c, p, np)
       PROVE  TypeOK'
  BY <1>22 DEF fork_fail, Call, At, allocproc
<1>21. CASE UNCHANGED vars
  BY <1>21 DEF vars
<1> HIDE DEF ProcInv, Free, TypeOK, OnCPU, PlaceInv, StackSafe, Exiting
<1> QED
  BY <1>1, <1>2, <1>3, <1>4, <1>5, <1>6, <1>7, <1>8, <1>9, <1>10, <1>11,
     <1>12, <1>13, <1>14, <1>15, <1>16, <1>17, <1>18, <1>19, <1>20, <1>21, <1>22
     DEF Next, Exit, Wait

(* No step frees or reschedules a process that a CPU still runs.           *)
LEMMA StackStep == ProcInv /\ [Next]_vars => StackSafe'
<1> SUFFICES ASSUME ProcInv, [Next]_vars PROVE StackSafe'
  OBVIOUS
<1> USE ProcAssumption, SlotFacts DEF ProcInv, Free, TypeOK, StackSafe,
      HoldInv, PlaceInv, TreeInv, Exiting, OnCPU
<1>1. ASSUME NEW c \in CPU, NEW p \in Slot, dispatch(c, p) PROVE StackSafe'
  <2>1. cproc' = [cproc EXCEPT ![c] = p] /\ state' = [state EXCEPT ![p] = "RUNNING"] /\ ~OnCPU(p)
    BY <1>1 DEF dispatch
  <2>3. lock' = lock \/ lock' = [lock EXCEPT ![p] = c]
    BY <1>1 DEF dispatch
  <2>2. \A q \in Slot : q # p => lock'[q] = lock[q] /\ state'[q] = state[q]
    BY <2>1, <2>3
  <2>4. ASSUME NEW d \in CPU, d # c, cproc[d] # 0
        PROVE  /\ cproc[d] # p /\ cproc[d] \in Slot
               /\ lock'[cproc[d]] = lock[cproc[d]] /\ state'[cproc[d]] = state[cproc[d]]
    <3>1. cproc[d] \in Slot
      BY <2>4
    <3>2. cproc[d] # p
      BY <2>1, <2>4
    <3> QED
      BY ZenonT(40), <2>2, <3>1, <3>2
  <2>5. ASSUME NEW d \in CPU, cproc'[d] # 0
        PROVE  \/ state'[cproc'[d]] = "RUNNING"
               \/ state'[cproc'[d]] = "ZOMBIE" /\ lock'[cproc'[d]] = d
    <3>1. CASE d = c
      BY <2>1, <3>1
    <3>2. CASE d # c
      BY <2>1, <2>4, <2>5, <3>2
    <3> QED
      BY <3>1, <3>2
  <2>6. \A d, e \in CPU : cproc'[d] # 0 /\ cproc'[e] = cproc'[d] => e = d
    BY <2>1, <2>4
  <2> QED
    BY <2>5, <2>6
<1>2. ASSUME NEW c \in CPU, NEW p \in Slot, yield(c, p) PROVE StackSafe'
  BY <1>2 DEF yield, Call, At
<1>3. ASSUME NEW c \in CPU, NEW p \in Slot, exit(c, p) PROVE StackSafe'
  BY <1>3 DEF exit, At, wakeup1
<1>4. ASSUME NEW c \in CPU, NEW p \in Slot, exit_parent(c, p) PROVE StackSafe'
  BY <1>4 DEF exit_parent, At
<1>5. ASSUME NEW c \in CPU, NEW p \in Slot, exit_lock_parent(c, p)
      PROVE  StackSafe'
  BY <1>5 DEF exit_lock_parent, At
<1>6. ASSUME NEW c \in CPU, NEW p \in Slot, exit_lock(c, p) PROVE StackSafe'
  BY <1>6 DEF exit_lock, At
<1>7. ASSUME NEW c \in CPU, NEW p \in Slot, reparent(c, p) PROVE StackSafe'
  BY <1>7 DEF reparent, At
<1>8. ASSUME NEW c \in CPU, NEW p \in Slot, reparent_lock(c, p) PROVE StackSafe'
  BY <1>8 DEF reparent_lock, At, GiveTo
<1>9. ASSUME NEW c \in CPU, NEW p \in Slot, exit_zombie(c, p) PROVE StackSafe'
  <2>1. /\ cproc[c] = p /\ lock[p] = c /\ op[p] \in Slot /\ op[p] # p /\ lock[op[p]] = c
        /\ state' = [state EXCEPT ![op[p]] = wakeup1(op[p]), ![p] = "ZOMBIE"]
        /\ lock' = [lock EXCEPT ![op[p]] = NoCPU] /\ UNCHANGED cproc
    BY <1>9 DEF exit_zombie, At, ReleaseAtExit, WokenAtExit
  <2>2. lock'[p] = c /\ state'[p] = "ZOMBIE"
    BY <2>1
  <2>4. \A q \in Slot : q # p /\ q # op[p] => lock'[q] = lock[q] /\ state'[q] = state[q]
    BY <2>1
  <2>3. ASSUME NEW d \in CPU, cproc[d] # 0, d # c
        PROVE  \/ state'[cproc[d]] = "RUNNING"
               \/ state'[cproc[d]] = "ZOMBIE" /\ lock'[cproc[d]] = d
    <3>1. cproc[d] \in Slot /\ cproc[d] # p
      BY <2>1, <2>3
    <3>2. CASE cproc[d] = op[p]
      <4>1. state[op[p]] = "RUNNING"
        BY <2>1, <2>3, <3>2
      <4>2. wakeup1(op[p]) = "RUNNING"
        BY ZenonT(40), <2>1, <4>1, Woken
      <4> QED
        BY <2>1, <3>1, <3>2, <4>2
    <3>3. CASE cproc[d] # op[p]
      <4>1. state'[cproc[d]] = state[cproc[d]] /\ lock'[cproc[d]] = lock[cproc[d]]
        BY ZenonT(40), <2>4, <3>1, <3>3
      <4> QED
        BY <2>3, <4>1
    <3> QED
      BY <3>2, <3>3
  <2>5. ASSUME NEW d \in CPU, cproc'[d] # 0
        PROVE  \/ state'[cproc'[d]] = "RUNNING"
               \/ state'[cproc'[d]] = "ZOMBIE" /\ lock'[cproc'[d]] = d
    <3>1. cproc'[d] = cproc[d]
      BY <2>1
    <3>2. CASE d = c
      BY <2>1, <2>2, <3>1, <3>2
    <3>3. CASE d # c
      BY <2>3, <2>5, <3>1, <3>3
    <3> QED
      BY <3>2, <3>3
  <2>6. \A d, e \in CPU : cproc'[d] # 0 /\ cproc'[e] = cproc'[d] => e = d
    BY <2>1
  <2> QED
    BY <2>5, <2>6
<1>10. ASSUME NEW c \in CPU, NEW p \in Slot, exit_sched(c, p) PROVE StackSafe'
  BY <1>10 DEF exit_sched, At
<1>11. ASSUME NEW c \in CPU, NEW p \in Slot, wait(c, p) PROVE StackSafe'
  BY <1>11 DEF wait, Call, At
<1>12. ASSUME NEW c \in CPU, NEW p \in Slot, wait_scan(c, p) PROVE StackSafe'
  BY <1>12 DEF wait_scan, At
<1>13. ASSUME NEW c \in CPU, NEW p \in Slot, wait_living(c, p) PROVE StackSafe'
  BY <1>13 DEF wait_living, At
<1>14. ASSUME NEW c \in CPU, NEW p \in Slot, wait_zombie(c, p) PROVE StackSafe'
  BY <1>14 DEF wait_zombie, At, FreedParent, Return, EndScan
<1>15. ASSUME NEW c \in CPU, NEW p \in Slot, wait_fault(c, p) PROVE StackSafe'
  BY <1>15 DEF wait_fault, At, Return, EndScan
<1>16. ASSUME NEW c \in CPU, NEW p \in Slot, wait_none(c, p) PROVE StackSafe'
  BY <1>16 DEF wait_none, At, Return, EndScan
<1>17. ASSUME NEW c \in CPU, NEW p \in Slot, wait_sleep(c, p) PROVE StackSafe'
  BY <1>17 DEF wait_sleep, At, EndScan
<1>18. ASSUME NEW c \in CPU, NEW p \in Slot, NEW np \in Slot, fork(c, p, np)
       PROVE  StackSafe'
  BY <1>18 DEF fork, Call, At, allocproc
<1>19. ASSUME NEW c \in CPU, NEW p \in Slot, NEW q \in Killable, kill(c, p, q)
       PROVE  StackSafe'
  BY <1>19 DEF kill, Call, At
<1>20. ASSUME NEW c \in CPU, NEW p \in Slot, NEW q \in Killable, kill0(c, p, q)
       PROVE  StackSafe'
  BY <1>20 DEF kill0, Call, At
<1>22. ASSUME NEW c \in CPU, NEW p \in Slot, NEW np \in Slot, fork_fail(c, p, np)
       PROVE  StackSafe'
  BY <1>22 DEF fork_fail, Call, At, allocproc
<1>21. CASE UNCHANGED vars
  BY <1>21 DEF vars
<1> HIDE DEF ProcInv, Free, TypeOK, StackSafe, HoldInv, PlaceInv, TreeInv,
      Exiting, OnCPU
<1> QED
  BY <1>1, <1>2, <1>3, <1>4, <1>5, <1>6, <1>7, <1>8, <1>9, <1>10, <1>11,
     <1>12, <1>13, <1>14, <1>15, <1>16, <1>17, <1>18, <1>19, <1>20, <1>21, <1>22
     DEF Next, Exit, Wait

(* Nobody else changes the parent of a child between check and acquire.    *)
LEMMA ParentStep == ProcInv /\ [Next]_vars => ParentStable'
<1> SUFFICES ASSUME ProcInv, [Next]_vars PROVE ParentStable'
  OBVIOUS
<1> USE ProcAssumption, SlotFacts DEF ProcInv, Free, TypeOK, StackSafe,
      ParentStable, PlaceInv, TreeInv, NoOrphan, Exiting, OnCPU
<1>1. ASSUME NEW c \in CPU, NEW p \in Slot, dispatch(c, p) PROVE ParentStable'
  BY <1>1 DEF dispatch
<1>2. ASSUME NEW c \in CPU, NEW p \in Slot, yield(c, p) PROVE ParentStable'
  BY <1>2 DEF yield, Call, At
<1>3. ASSUME NEW c \in CPU, NEW p \in Slot, exit(c, p) PROVE ParentStable'
  BY <1>3 DEF exit, At, wakeup1
<1>4. ASSUME NEW c \in CPU, NEW p \in Slot, exit_parent(c, p)
      PROVE  ParentStable'
  BY <1>4 DEF exit_parent, At
<1>5. ASSUME NEW c \in CPU, NEW p \in Slot, exit_lock_parent(c, p)
      PROVE  ParentStable'
  BY <1>5 DEF exit_lock_parent, At
<1>6. ASSUME NEW c \in CPU, NEW p \in Slot, exit_lock(c, p) PROVE ParentStable'
  BY <1>6 DEF exit_lock, At
<1>7. ASSUME NEW c \in CPU, NEW p \in Slot, reparent(c, p) PROVE ParentStable'
  BY <1>7 DEF reparent, At
<1>8. ASSUME NEW c \in CPU, NEW p \in Slot, reparent_lock(c, p)
      PROVE  ParentStable'
  BY <1>8 DEF reparent_lock, At, GiveTo
<1>9. ASSUME NEW c \in CPU, NEW p \in Slot, exit_zombie(c, p)
      PROVE  ParentStable'
  BY <1>9 DEF exit_zombie, At, WokenAtExit, wakeup1, ReleaseAtExit
<1>10. ASSUME NEW c \in CPU, NEW p \in Slot, exit_sched(c, p)
       PROVE  ParentStable'
  BY <1>10 DEF exit_sched, At
<1>11. ASSUME NEW c \in CPU, NEW p \in Slot, wait(c, p) PROVE ParentStable'
  BY <1>11 DEF wait, Call, At
<1>12. ASSUME NEW c \in CPU, NEW p \in Slot, wait_scan(c, p) PROVE ParentStable'
  BY <1>12 DEF wait_scan, At
<1>13. ASSUME NEW c \in CPU, NEW p \in Slot, wait_living(c, p)
       PROVE  ParentStable'
  BY <1>13 DEF wait_living, At
<1>14. ASSUME NEW c \in CPU, NEW p \in Slot, wait_zombie(c, p)
       PROVE  ParentStable'
  BY <1>14 DEF wait_zombie, At, FreedParent, Return, EndScan
<1>15. ASSUME NEW c \in CPU, NEW p \in Slot, wait_fault(c, p)
       PROVE  ParentStable'
  BY <1>15 DEF wait_fault, At, Return, EndScan
<1>16. ASSUME NEW c \in CPU, NEW p \in Slot, wait_none(c, p) PROVE ParentStable'
  BY <1>16 DEF wait_none, At, Return, EndScan
<1>17. ASSUME NEW c \in CPU, NEW p \in Slot, wait_sleep(c, p)
       PROVE  ParentStable'
  BY <1>17 DEF wait_sleep, At, EndScan
<1>18. ASSUME NEW c \in CPU, NEW p \in Slot, NEW np \in Slot, fork(c, p, np)
       PROVE  ParentStable'
  BY <1>18 DEF fork, Call, At, allocproc
<1>19. ASSUME NEW c \in CPU, NEW p \in Slot, NEW q \in Killable, kill(c, p, q)
       PROVE  ParentStable'
  BY <1>19 DEF kill, Call, At
<1>20. ASSUME NEW c \in CPU, NEW p \in Slot, NEW q \in Killable, kill0(c, p, q)
       PROVE  ParentStable'
  BY <1>20 DEF kill0, Call, At
<1>22. ASSUME NEW c \in CPU, NEW p \in Slot, NEW np \in Slot, fork_fail(c, p, np)
       PROVE  ParentStable'
  BY <1>22 DEF fork_fail, Call, At, allocproc
<1>21. CASE UNCHANGED vars
  BY <1>21 DEF vars
<1> HIDE DEF ProcInv, Free, TypeOK, StackSafe, ParentStable, PlaceInv,
      TreeInv, NoOrphan, Exiting, OnCPU
<1> QED
  BY <1>1, <1>2, <1>3, <1>4, <1>5, <1>6, <1>7, <1>8, <1>9, <1>10, <1>11,
     <1>12, <1>13, <1>14, <1>15, <1>16, <1>17, <1>18, <1>19, <1>20, <1>21, <1>22
     DEF Next, Exit, Wait

(* exit() is past its scan of all slots before it leaves the tree.         *)
LEMMA OrphanStep == ProcInv /\ [Next]_vars => NoOrphan'
<1> SUFFICES ASSUME ProcInv, [Next]_vars PROVE NoOrphan'
  OBVIOUS
<1> USE ProcAssumption, SlotFacts DEF ProcInv, Free, TypeOK, StackSafe,
      ParentStable, PlaceInv, TreeInv, ScanInv, NoOrphan, Exiting, OnCPU
<1>1. ASSUME NEW c \in CPU, NEW p \in Slot, dispatch(c, p) PROVE NoOrphan'
  BY <1>1 DEF dispatch
<1>2. ASSUME NEW c \in CPU, NEW p \in Slot, yield(c, p) PROVE NoOrphan'
  BY <1>2 DEF yield, Call, At
<1>3. ASSUME NEW c \in CPU, NEW p \in Slot, exit(c, p) PROVE NoOrphan'
  BY <1>3 DEF exit, At, wakeup1
<1>4. ASSUME NEW c \in CPU, NEW p \in Slot, exit_parent(c, p) PROVE NoOrphan'
  BY <1>4 DEF exit_parent, At
<1>5. ASSUME NEW c \in CPU, NEW p \in Slot, exit_lock_parent(c, p)
      PROVE  NoOrphan'
  BY <1>5 DEF exit_lock_parent, At
<1>6. ASSUME NEW c \in CPU, NEW p \in Slot, exit_lock(c, p) PROVE NoOrphan'
  BY <1>6 DEF exit_lock, At
<1>7. ASSUME NEW c \in CPU, NEW p \in Slot, reparent(c, p) PROVE NoOrphan'
  BY <1>7 DEF reparent, At
<1>8. ASSUME NEW c \in CPU, NEW p \in Slot, reparent_lock(c, p) PROVE NoOrphan'
  BY <1>8 DEF reparent_lock, At, GiveTo
<1>9. ASSUME NEW c \in CPU, NEW p \in Slot, exit_zombie(c, p) PROVE NoOrphan'
  <2>1. /\ op[p] \in Slot /\ op[p] # p /\ p # initproc /\ state[p] = "RUNNING"
        /\ state' = [state EXCEPT ![op[p]] = wakeup1(op[p]), ![p] = "ZOMBIE"] /\ UNCHANGED parent
    BY <1>9 DEF exit_zombie, At, WokenAtExit
  <2>2. \A q \in Slot : parent[q] # p
    <3>1. scan[p] > NPROC /\ pc[p] = "reparent"
      BY <1>9 DEF exit_zombie, At
    <3>2. \A q \in Slot : q < scan[p]
      BY <3>1, ScanEnd
    <3> QED
      BY <3>1, <3>2
  <2>3. ASSUME NEW q \in Slot, q # p
        PROVE  state'[q] \in {"UNUSED", "ZOMBIE"} => state'[q] = state[q]
    BY <2>1, <2>3, Woken
  <2>4. ASSUME NEW q \in Slot, q # initproc, state'[q] # "UNUSED"
        PROVE  parent'[q] # 0 /\ state'[parent'[q]] \notin {"UNUSED", "ZOMBIE"}
    <3>1. state[q] # "UNUSED"
      <4>1. CASE q = p
        BY <2>1, <4>1
      <4>2. CASE q = op[p]
        BY <2>1, <2>4, <4>2, Woken
      <4>3. CASE q # p /\ q # op[p]
        BY <2>1, <2>4, <4>3
      <4> QED
        BY <4>1, <4>2, <4>3
    <3>2. parent[q] \in Slot /\ parent[q] # p /\ state[parent[q]] \notin {"UNUSED", "ZOMBIE"}
      BY <2>2, <2>4, <3>1
    <3>3. parent'[q] = parent[q]
      BY <2>1
    <3>4. state'[parent[q]] \notin {"UNUSED", "ZOMBIE"}
      BY ZenonT(40), <2>3, <3>2
    <3> QED
      BY <3>2, <3>3, <3>4
  <2> QED
    BY <2>4
<1>10. ASSUME NEW c \in CPU, NEW p \in Slot, exit_sched(c, p) PROVE NoOrphan'
  BY <1>10 DEF exit_sched, At
<1>11. ASSUME NEW c \in CPU, NEW p \in Slot, wait(c, p) PROVE NoOrphan'
  BY <1>11 DEF wait, Call, At
<1>12. ASSUME NEW c \in CPU, NEW p \in Slot, wait_scan(c, p) PROVE NoOrphan'
  BY <1>12 DEF wait_scan, At
<1>13. ASSUME NEW c \in CPU, NEW p \in Slot, wait_living(c, p) PROVE NoOrphan'
  BY <1>13 DEF wait_living, At
<1>14. ASSUME NEW c \in CPU, NEW p \in Slot, wait_zombie(c, p) PROVE NoOrphan'
  BY <1>14 DEF wait_zombie, At, FreedParent, Return, EndScan
<1>15. ASSUME NEW c \in CPU, NEW p \in Slot, wait_fault(c, p) PROVE NoOrphan'
  BY <1>15 DEF wait_fault, At, Return, EndScan
<1>16. ASSUME NEW c \in CPU, NEW p \in Slot, wait_none(c, p) PROVE NoOrphan'
  BY <1>16 DEF wait_none, At, Return, EndScan
<1>17. ASSUME NEW c \in CPU, NEW p \in Slot, wait_sleep(c, p) PROVE NoOrphan'
  BY <1>17 DEF wait_sleep, At, EndScan
<1>18. ASSUME NEW c \in CPU, NEW p \in Slot, NEW np \in Slot, fork(c, p, np)
       PROVE  NoOrphan'
  <2>1. /\ state[p] = "RUNNING" /\ state[np] = "UNUSED" /\ p # np
        /\ state' = [state EXCEPT ![np] = "RUNNABLE"] /\ parent' = [parent EXCEPT ![np] = p]
    BY <1>18 DEF fork, Call, At, allocproc
  <2> QED
    BY <2>1
<1>19. ASSUME NEW c \in CPU, NEW p \in Slot, NEW q \in Killable, kill(c, p, q)
       PROVE  NoOrphan'
  BY <1>19 DEF kill, Call, At
<1>20. ASSUME NEW c \in CPU, NEW p \in Slot, NEW q \in Killable, kill0(c, p, q)
       PROVE  NoOrphan'
  BY <1>20 DEF kill0, Call, At
<1>22. ASSUME NEW c \in CPU, NEW p \in Slot, NEW np \in Slot, fork_fail(c, p, np)
       PROVE  NoOrphan'
  BY <1>22 DEF fork_fail, Call, At, allocproc
<1>21. CASE UNCHANGED vars
  BY <1>21 DEF vars
<1> HIDE DEF ProcInv, Free, TypeOK, StackSafe, ParentStable, PlaceInv,
      TreeInv, ScanInv, NoOrphan, Exiting, OnCPU
<1> QED
  BY <1>1, <1>2, <1>3, <1>4, <1>5, <1>6, <1>7, <1>8, <1>9, <1>10, <1>11,
     <1>12, <1>13, <1>14, <1>15, <1>16, <1>17, <1>18, <1>19, <1>20, <1>21, <1>22
     DEF Next, Exit, Wait

(* A child's exit() finds its parent before the scan, or asleep.           *)
LEMMA LostExitStep == ProcInv /\ [Next]_vars => NoLostExit'
<1> SUFFICES ASSUME ProcInv, [Next]_vars PROVE NoLostExit'
  OBVIOUS
<1> USE ProcAssumption, SlotFacts DEF ProcInv, Free, TypeOK, StackSafe,
      ParentStable, NoLostExit, MissedExit, PlaceInv, HoldInv, TreeInv,
      ScanInv, NoOrphan, Exiting, OnCPU
<1>1. ASSUME NEW c \in CPU, NEW p \in Slot, dispatch(c, p) PROVE NoLostExit'
  BY <1>1 DEF dispatch
<1>2. ASSUME NEW c \in CPU, NEW p \in Slot, yield(c, p) PROVE NoLostExit'
  BY <1>2 DEF yield, Call, At
<1>3. ASSUME NEW c \in CPU, NEW p \in Slot, exit(c, p) PROVE NoLostExit'
  BY <1>3 DEF exit, At, wakeup1
<1>4. ASSUME NEW c \in CPU, NEW p \in Slot, exit_parent(c, p) PROVE NoLostExit'
  BY <1>4 DEF exit_parent, At
<1>5. ASSUME NEW c \in CPU, NEW p \in Slot, exit_lock_parent(c, p)
      PROVE  NoLostExit'
  BY <1>5 DEF exit_lock_parent, At
<1>6. ASSUME NEW c \in CPU, NEW p \in Slot, exit_lock(c, p) PROVE NoLostExit'
  BY <1>6 DEF exit_lock, At
<1>7. ASSUME NEW c \in CPU, NEW p \in Slot, reparent(c, p) PROVE NoLostExit'
  BY <1>7 DEF reparent, At
<1>8. ASSUME NEW c \in CPU, NEW p \in Slot, reparent_lock(c, p)
      PROVE  NoLostExit'
  BY <1>8 DEF reparent_lock, At, GiveTo
<1>9. ASSUME NEW c \in CPU, NEW p \in Slot, exit_zombie(c, p) PROVE NoLostExit'
  BY <1>9 DEF exit_zombie, At, WokenAtExit, wakeup1, ReleaseAtExit
<1>10. ASSUME NEW c \in CPU, NEW p \in Slot, exit_sched(c, p) PROVE NoLostExit'
  BY <1>10 DEF exit_sched, At
<1>11. ASSUME NEW c \in CPU, NEW p \in Slot, wait(c, p) PROVE NoLostExit'
  BY <1>11 DEF wait, Call, At
<1>12. ASSUME NEW c \in CPU, NEW p \in Slot, wait_scan(c, p) PROVE NoLostExit'
  BY <1>12 DEF wait_scan, At
<1>13. ASSUME NEW c \in CPU, NEW p \in Slot, wait_living(c, p) PROVE NoLostExit'
  BY <1>13 DEF wait_living, At
<1>14. ASSUME NEW c \in CPU, NEW p \in Slot, wait_zombie(c, p) PROVE NoLostExit'
  BY <1>14 DEF wait_zombie, At, FreedParent, Return, EndScan
<1>15. ASSUME NEW c \in CPU, NEW p \in Slot, wait_fault(c, p) PROVE NoLostExit'
  BY <1>15 DEF wait_fault, At, Return, EndScan
<1>16. ASSUME NEW c \in CPU, NEW p \in Slot, wait_none(c, p) PROVE NoLostExit'
  BY <1>16 DEF wait_none, At, Return, EndScan
<1>17. ASSUME NEW c \in CPU, NEW p \in Slot, wait_sleep(c, p) PROVE NoLostExit'
  <2>1. scan[p] > NPROC /\ pc[p] = "wait"
    BY <1>17 DEF wait_sleep, At
  <2>2. \A q \in Slot : q < scan[p]
    BY <2>1, ScanEnd
  <2>4. p # initproc => \A q \in Slot : parent[q] = p => state[q] # "ZOMBIE"
    BY <2>1, <2>2
  <2>3. state' = [state EXCEPT ![p] = "SLEEPING"] /\ UNCHANGED parent
    BY <1>17 DEF wait_sleep
  <2> QED
    BY <2>4, <2>3
<1>18. ASSUME NEW c \in CPU, NEW p \in Slot, NEW np \in Slot, fork(c, p, np)
       PROVE  NoLostExit'
  BY <1>18 DEF fork, Call, At, allocproc
<1>19. ASSUME NEW c \in CPU, NEW p \in Slot, NEW q \in Killable, kill(c, p, q)
       PROVE  NoLostExit'
  BY <1>19 DEF kill, Call, At
<1>20. ASSUME NEW c \in CPU, NEW p \in Slot, NEW q \in Killable, kill0(c, p, q)
       PROVE  NoLostExit'
  BY <1>20 DEF kill0, Call, At
<1>22. ASSUME NEW c \in CPU, NEW p \in Slot, NEW np \in Slot, fork_fail(c, p, np)
       PROVE  NoLostExit'
  BY <1>22 DEF fork_fail, Call, At, allocproc
<1>21. CASE UNCHANGED vars
  BY <1>21 DEF vars
<1> HIDE DEF ProcInv, Free, TypeOK, StackSafe, ParentStable, NoLostExit,
      MissedExit, PlaceInv, HoldInv, TreeInv, ScanInv, NoOrphan, Exiting, OnCPU
<1> QED
  BY <1>1, <1>2, <1>3, <1>4, <1>5, <1>6, <1>7, <1>8, <1>9, <1>10, <1>11,
     <1>12, <1>13, <1>14, <1>15, <1>16, <1>17, <1>18, <1>19, <1>20, <1>21, <1>22
     DEF Next, Exit, Wait

(* Locks are released by the CPU that took them.                           *)
LEMMA HoldStep == ProcInv /\ [Next]_vars => HoldInv'
<1> SUFFICES ASSUME ProcInv, [Next]_vars PROVE HoldInv'
  OBVIOUS
<1> USE ProcAssumption, SlotFacts DEF ProcInv, Free, TypeOK, StackSafe,
      HoldInv, PlaceInv, TreeInv, Exiting, OnCPU
<1>1. ASSUME NEW c \in CPU, NEW p \in Slot, dispatch(c, p) PROVE HoldInv'
  <2>1. /\ cproc' = [cproc EXCEPT ![c] = p] /\ ~OnCPU(p) /\ UNCHANGED op
        /\ lock[p] = NoCPU
    BY <1>1 DEF dispatch
  <2>2. CASE pc[p] = "asleep"
    <3>1. lock' = [lock EXCEPT ![p] = c] /\ pc' = [pc EXCEPT ![p] = "wait"]
      BY <1>1, <2>2 DEF dispatch
    <3> QED
      BY <2>1, <3>1
  <2>3. CASE pc[p] # "asleep"
    <3>1. UNCHANGED <<lock, pc>> /\ pc[p] = "user"
      BY <1>1, <2>1, <2>3 DEF dispatch
    <3> QED
      BY <2>1, <3>1
  <2> QED
    BY <2>2, <2>3
<1>2. ASSUME NEW c \in CPU, NEW p \in Slot, yield(c, p) PROVE HoldInv'
  BY <1>2 DEF yield, Call, At
<1>3. ASSUME NEW c \in CPU, NEW p \in Slot, exit(c, p) PROVE HoldInv'
  BY <1>3 DEF exit, At, wakeup1
<1>4. ASSUME NEW c \in CPU, NEW p \in Slot, exit_parent(c, p) PROVE HoldInv'
  BY <1>4 DEF exit_parent, At
<1>5. ASSUME NEW c \in CPU, NEW p \in Slot, exit_lock_parent(c, p)
      PROVE  HoldInv'
  BY <1>5 DEF exit_lock_parent, At
<1>6. ASSUME NEW c \in CPU, NEW p \in Slot, exit_lock(c, p) PROVE HoldInv'
  BY <1>6 DEF exit_lock, At
<1>7. ASSUME NEW c \in CPU, NEW p \in Slot, reparent(c, p) PROVE HoldInv'
  BY <1>7 DEF reparent, At
<1>8. ASSUME NEW c \in CPU, NEW p \in Slot, reparent_lock(c, p) PROVE HoldInv'
  BY <1>8 DEF reparent_lock, At, GiveTo
<1>9. ASSUME NEW c \in CPU, NEW p \in Slot, exit_zombie(c, p) PROVE HoldInv'
  BY <1>9 DEF exit_zombie, At, WokenAtExit, wakeup1, ReleaseAtExit
<1>10. ASSUME NEW c \in CPU, NEW p \in Slot, exit_sched(c, p) PROVE HoldInv'
  BY <1>10 DEF exit_sched, At
<1>11. ASSUME NEW c \in CPU, NEW p \in Slot, wait(c, p) PROVE HoldInv'
  BY <1>11 DEF wait, Call, At
<1>12. ASSUME NEW c \in CPU, NEW p \in Slot, wait_scan(c, p) PROVE HoldInv'
  BY <1>12 DEF wait_scan, At
<1>13. ASSUME NEW c \in CPU, NEW p \in Slot, wait_living(c, p) PROVE HoldInv'
  BY <1>13 DEF wait_living, At
<1>14. ASSUME NEW c \in CPU, NEW p \in Slot, wait_zombie(c, p) PROVE HoldInv'
  BY <1>14 DEF wait_zombie, At, FreedParent, Return, EndScan
<1>15. ASSUME NEW c \in CPU, NEW p \in Slot, wait_fault(c, p) PROVE HoldInv'
  BY <1>15 DEF wait_fault, At, Return, EndScan
<1>16. ASSUME NEW c \in CPU, NEW p \in Slot, wait_none(c, p) PROVE HoldInv'
  BY <1>16 DEF wait_none, At, Return, EndScan
<1>17. ASSUME NEW c \in CPU, NEW p \in Slot, wait_sleep(c, p) PROVE HoldInv'
  BY <1>17 DEF wait_sleep, At, EndScan
<1>18. ASSUME NEW c \in CPU, NEW p \in Slot, NEW np \in Slot, fork(c, p, np)
       PROVE  HoldInv'
  BY <1>18 DEF fork, Call, At, allocproc
<1>19. ASSUME NEW c \in CPU, NEW p \in Slot, NEW q \in Killable, kill(c, p, q)
       PROVE  HoldInv'
  BY <1>19 DEF kill, Call, At
<1>20. ASSUME NEW c \in CPU, NEW p \in Slot, NEW q \in Killable, kill0(c, p, q)
       PROVE  HoldInv'
  BY <1>20 DEF kill0, Call, At
<1>22. ASSUME NEW c \in CPU, NEW p \in Slot, NEW np \in Slot, fork_fail(c, p, np)
       PROVE  HoldInv'
  BY <1>22 DEF fork_fail, Call, At, allocproc
<1>21. CASE UNCHANGED vars
  BY <1>21 DEF vars
<1> HIDE DEF ProcInv, Free, TypeOK, StackSafe, HoldInv, PlaceInv, TreeInv,
      Exiting, OnCPU
<1> QED
  BY <1>1, <1>2, <1>3, <1>4, <1>5, <1>6, <1>7, <1>8, <1>9, <1>10, <1>11,
     <1>12, <1>13, <1>14, <1>15, <1>16, <1>17, <1>18, <1>19, <1>20, <1>21, <1>22
     DEF Next, Exit, Wait

(* Only a process on a CPU is inside the kernel.                           *)
LEMMA PlaceStep == ProcInv /\ [Next]_vars => PlaceInv'
<1> SUFFICES ASSUME ProcInv, [Next]_vars PROVE PlaceInv'
  OBVIOUS
<1> USE ProcAssumption, SlotFacts DEF ProcInv, Free, TypeOK, StackSafe,
      HoldInv, PlaceInv, TreeInv, Exiting, OnCPU
<1>1. ASSUME NEW c \in CPU, NEW p \in Slot, dispatch(c, p) PROVE PlaceInv'
  BY <1>1 DEF dispatch
<1>2. ASSUME NEW c \in CPU, NEW p \in Slot, yield(c, p) PROVE PlaceInv'
  BY <1>2 DEF yield, Call, At
<1>3. ASSUME NEW c \in CPU, NEW p \in Slot, exit(c, p) PROVE PlaceInv'
  <2>1. /\ cproc[c] = p /\ state[p] = "RUNNING" /\ p # initproc /\ pc[p] = "user"
        /\ pc' = [pc EXCEPT ![p] = "exit_parent"] /\ UNCHANGED <<cproc, scan>>
        /\ state' = [state EXCEPT ![initproc] = wakeup1(initproc)]
    BY <1>3 DEF exit, At
  <2>2. state[initproc] # "SLEEPING" => state' = state
    BY <2>1 DEF wakeup1
  <2>3. state[initproc] = "SLEEPING" => state' = [state EXCEPT ![initproc] = "RUNNABLE"]
    BY <2>1 DEF wakeup1
  <2> QED
    BY <2>1, <2>2, <2>3
<1>4. ASSUME NEW c \in CPU, NEW p \in Slot, exit_parent(c, p) PROVE PlaceInv'
  BY <1>4 DEF exit_parent, At
<1>5. ASSUME NEW c \in CPU, NEW p \in Slot, exit_lock_parent(c, p)
      PROVE  PlaceInv'
  BY <1>5 DEF exit_lock_parent, At
<1>6. ASSUME NEW c \in CPU, NEW p \in Slot, exit_lock(c, p) PROVE PlaceInv'
  BY <1>6 DEF exit_lock, At
<1>7. ASSUME NEW c \in CPU, NEW p \in Slot, reparent(c, p) PROVE PlaceInv'
  BY <1>7 DEF reparent, At
<1>8. ASSUME NEW c \in CPU, NEW p \in Slot, reparent_lock(c, p) PROVE PlaceInv'
  BY <1>8 DEF reparent_lock, At, GiveTo
<1>9. ASSUME NEW c \in CPU, NEW p \in Slot, exit_zombie(c, p) PROVE PlaceInv'
  BY <1>9 DEF exit_zombie, At, WokenAtExit, wakeup1, ReleaseAtExit
<1>10. ASSUME NEW c \in CPU, NEW p \in Slot, exit_sched(c, p) PROVE PlaceInv'
  BY <1>10 DEF exit_sched, At
<1>11. ASSUME NEW c \in CPU, NEW p \in Slot, wait(c, p) PROVE PlaceInv'
  BY <1>11 DEF wait, Call, At
<1>12. ASSUME NEW c \in CPU, NEW p \in Slot, wait_scan(c, p) PROVE PlaceInv'
  BY <1>12 DEF wait_scan, At
<1>13. ASSUME NEW c \in CPU, NEW p \in Slot, wait_living(c, p) PROVE PlaceInv'
  BY <1>13 DEF wait_living, At
<1>14. ASSUME NEW c \in CPU, NEW p \in Slot, wait_zombie(c, p) PROVE PlaceInv'
  BY <1>14 DEF wait_zombie, At, FreedParent, Return, EndScan
<1>15. ASSUME NEW c \in CPU, NEW p \in Slot, wait_fault(c, p) PROVE PlaceInv'
  BY <1>15 DEF wait_fault, At, Return, EndScan
<1>16. ASSUME NEW c \in CPU, NEW p \in Slot, wait_none(c, p) PROVE PlaceInv'
  BY <1>16 DEF wait_none, At, Return, EndScan
<1>17. ASSUME NEW c \in CPU, NEW p \in Slot, wait_sleep(c, p) PROVE PlaceInv'
  BY <1>17 DEF wait_sleep, At, EndScan
<1>18. ASSUME NEW c \in CPU, NEW p \in Slot, NEW np \in Slot, fork(c, p, np)
       PROVE  PlaceInv'
  BY <1>18 DEF fork, Call, At, allocproc
<1>19. ASSUME NEW c \in CPU, NEW p \in Slot, NEW q \in Killable, kill(c, p, q)
       PROVE  PlaceInv'
  BY <1>19 DEF kill, Call, At
<1>20. ASSUME NEW c \in CPU, NEW p \in Slot, NEW q \in Killable, kill0(c, p, q)
       PROVE  PlaceInv'
  BY <1>20 DEF kill0, Call, At
<1>22. ASSUME NEW c \in CPU, NEW p \in Slot, NEW np \in Slot, fork_fail(c, p, np)
       PROVE  PlaceInv'
  BY <1>22 DEF fork_fail, Call, At, allocproc
<1>21. CASE UNCHANGED vars
  BY <1>21 DEF vars
<1> HIDE DEF ProcInv, Free, TypeOK, StackSafe, HoldInv, PlaceInv, TreeInv,
      Exiting, OnCPU
<1> QED
  BY <1>1, <1>2, <1>3, <1>4, <1>5, <1>6, <1>7, <1>8, <1>9, <1>10, <1>11,
     <1>12, <1>13, <1>14, <1>15, <1>16, <1>17, <1>18, <1>19, <1>20, <1>21, <1>22
     DEF Next, Exit, Wait

(* The parent that exit() has read is its parent, unless now it is init.   *)
LEMMA TreeStep == ProcInv /\ [Next]_vars => TreeInv'
<1> SUFFICES ASSUME ProcInv, [Next]_vars PROVE TreeInv'
  OBVIOUS
<1> USE ProcAssumption, SlotFacts DEF ProcInv, Free, TypeOK, StackSafe,
      ParentStable, HoldInv, PlaceInv, TreeInv, NoOrphan, Exiting, OnCPU
<1>1. ASSUME NEW c \in CPU, NEW p \in Slot, dispatch(c, p) PROVE TreeInv'
  BY <1>1 DEF dispatch
<1>2. ASSUME NEW c \in CPU, NEW p \in Slot, yield(c, p) PROVE TreeInv'
  BY <1>2 DEF yield, Call, At
<1>3. ASSUME NEW c \in CPU, NEW p \in Slot, exit(c, p) PROVE TreeInv'
  BY <1>3 DEF exit, At, wakeup1
<1>4. ASSUME NEW c \in CPU, NEW p \in Slot, exit_parent(c, p) PROVE TreeInv'
  BY <1>4 DEF exit_parent, At
<1>5. ASSUME NEW c \in CPU, NEW p \in Slot, exit_lock_parent(c, p)
      PROVE  TreeInv'
  BY <1>5 DEF exit_lock_parent, At
<1>6. ASSUME NEW c \in CPU, NEW p \in Slot, exit_lock(c, p) PROVE TreeInv'
  BY <1>6 DEF exit_lock, At
<1>7. ASSUME NEW c \in CPU, NEW p \in Slot, reparent(c, p) PROVE TreeInv'
  BY <1>7 DEF reparent, At
<1>8. ASSUME NEW c \in CPU, NEW p \in Slot, reparent_lock(c, p) PROVE TreeInv'
  BY <1>8 DEF reparent_lock, At, GiveTo
<1>9. ASSUME NEW c \in CPU, NEW p \in Slot, exit_zombie(c, p) PROVE TreeInv'
  BY <1>9 DEF exit_zombie, At, WokenAtExit, wakeup1, ReleaseAtExit
<1>10. ASSUME NEW c \in CPU, NEW p \in Slot, exit_sched(c, p) PROVE TreeInv'
  BY <1>10 DEF exit_sched, At
<1>11. ASSUME NEW c \in CPU, NEW p \in Slot, wait(c, p) PROVE TreeInv'
  BY <1>11 DEF wait, Call, At
<1>12. ASSUME NEW c \in CPU, NEW p \in Slot, wait_scan(c, p) PROVE TreeInv'
  BY <1>12 DEF wait_scan, At
<1>13. ASSUME NEW c \in CPU, NEW p \in Slot, wait_living(c, p) PROVE TreeInv'
  BY <1>13 DEF wait_living, At
<1>14. ASSUME NEW c \in CPU, NEW p \in Slot, wait_zombie(c, p) PROVE TreeInv'
  BY <1>14 DEF wait_zombie, At, FreedParent, Return, EndScan
<1>15. ASSUME NEW c \in CPU, NEW p \in Slot, wait_fault(c, p) PROVE TreeInv'
  BY <1>15 DEF wait_fault, At, Return, EndScan
<1>16. ASSUME NEW c \in CPU, NEW p \in Slot, wait_none(c, p) PROVE TreeInv'
  BY <1>16 DEF wait_none, At, Return, EndScan
<1>17. ASSUME NEW c \in CPU, NEW p \in Slot, wait_sleep(c, p) PROVE TreeInv'
  BY <1>17 DEF wait_sleep, At, EndScan
<1>18. ASSUME NEW c \in CPU, NEW p \in Slot, NEW np \in Slot, fork(c, p, np)
       PROVE  TreeInv'
  BY <1>18 DEF fork, Call, At, allocproc
<1>19. ASSUME NEW c \in CPU, NEW p \in Slot, NEW q \in Killable, kill(c, p, q)
       PROVE  TreeInv'
  BY <1>19 DEF kill, Call, At
<1>20. ASSUME NEW c \in CPU, NEW p \in Slot, NEW q \in Killable, kill0(c, p, q)
       PROVE  TreeInv'
  BY <1>20 DEF kill0, Call, At
<1>22. ASSUME NEW c \in CPU, NEW p \in Slot, NEW np \in Slot, fork_fail(c, p, np)
       PROVE  TreeInv'
  BY <1>22 DEF fork_fail, Call, At, allocproc
<1>21. CASE UNCHANGED vars
  BY <1>21 DEF vars
<1> HIDE DEF ProcInv, Free, TypeOK, StackSafe, ParentStable, HoldInv,
      PlaceInv, TreeInv, NoOrphan, Exiting, OnCPU
<1> QED
  BY <1>1, <1>2, <1>3, <1>4, <1>5, <1>6, <1>7, <1>8, <1>9, <1>10, <1>11,
     <1>12, <1>13, <1>14, <1>15, <1>16, <1>17, <1>18, <1>19, <1>20, <1>21, <1>22
     DEF Next, Exit, Wait

(* What a scan has established stays true until it ends.                   *)
LEMMA ScanStep == ProcInv /\ [Next]_vars => ScanInv'
<1> SUFFICES ASSUME ProcInv, [Next]_vars PROVE ScanInv'
  OBVIOUS
<1> USE ProcAssumption, SlotFacts DEF ProcInv, Free, TypeOK, StackSafe,
      ParentStable, HoldInv, PlaceInv, TreeInv, ScanInv, NoOrphan, Exiting,
      OnCPU
<1>1. ASSUME NEW c \in CPU, NEW p \in Slot, dispatch(c, p) PROVE ScanInv'
  BY <1>1 DEF dispatch
<1>2. ASSUME NEW c \in CPU, NEW p \in Slot, yield(c, p) PROVE ScanInv'
  BY <1>2 DEF yield, Call, At
<1>3. ASSUME NEW c \in CPU, NEW p \in Slot, exit(c, p) PROVE ScanInv'
  BY <1>3 DEF exit, At, wakeup1
<1>4. ASSUME NEW c \in CPU, NEW p \in Slot, exit_parent(c, p) PROVE ScanInv'
  BY <1>4 DEF exit_parent, At
<1>5. ASSUME NEW c \in CPU, NEW p \in Slot, exit_lock_parent(c, p)
      PROVE  ScanInv'
  BY <1>5 DEF exit_lock_parent, At
<1>6. ASSUME NEW c \in CPU, NEW p \in Slot, exit_lock(c, p) PROVE ScanInv'
  BY <1>6 DEF exit_lock, At
<1>7. ASSUME NEW c \in CPU, NEW p \in Slot, reparent(c, p) PROVE ScanInv'
  <2>1. CASE parent[scan[p]] = p
    BY <1>7, <2>1 DEF reparent, At
  <2>2. CASE parent[scan[p]] # p
    <3>1. scan' = [scan EXCEPT ![p] = scan[p] + 1] /\ UNCHANGED <<pc, parent, state>> /\ pc[p] = "reparent" /\ scan[p] \in Slot
      BY <1>7, <2>2 DEF reparent, At
    <3>2. \A q \in Slot : q < scan[p] + 1 => q < scan[p] \/ q = scan[p]
      BY ZenonT(40), <3>1
    <3> QED
      BY <2>2, <3>1, <3>2
  <2> QED
    BY <2>1, <2>2
<1>8. ASSUME NEW c \in CPU, NEW p \in Slot, reparent_lock(c, p) PROVE ScanInv'
  <2>1. scan' = [scan EXCEPT ![p] = scan[p] + 1] /\ scan[p] \in Slot /\ UNCHANGED state
        /\ parent' = [parent EXCEPT ![scan[p]] = initproc] /\ pc' = [pc EXCEPT ![p] = "reparent"]
        /\ pc[p] = "reparent_lock" /\ p # initproc
    BY <1>8 DEF reparent_lock, At, GiveTo
  <2>2. \A q \in Slot : q < scan[p] + 1 => q < scan[p] \/ q = scan[p]
    BY ZenonT(40), <2>1
  <2>3. ASSUME NEW r \in Slot, NEW q \in Slot, q < scan'[r], pc'[r] \in {"reparent", "reparent_lock"}
        PROVE  parent'[q] # r
    <3>1. r # initproc
      BY <2>1, <2>3
    <3>2. CASE r = p
      BY <2>1, <2>2, <2>3, <3>1, <3>2
    <3>3. CASE r # p
      BY <2>1, <2>3, <3>1, <3>3
    <3> QED
      BY <3>2, <3>3
  <2> QED
    BY <2>1, <2>3
<1>9. ASSUME NEW c \in CPU, NEW p \in Slot, exit_zombie(c, p) PROVE ScanInv'
  BY <1>9 DEF exit_zombie, At, WokenAtExit, wakeup1, ReleaseAtExit
<1>10. ASSUME NEW c \in CPU, NEW p \in Slot, exit_sched(c, p) PROVE ScanInv'
  BY <1>10 DEF exit_sched, At
<1>11. ASSUME NEW c \in CPU, NEW p \in Slot, wait(c, p) PROVE ScanInv'
  BY <1>11 DEF wait, Call, At
<1>12. ASSUME NEW c \in CPU, NEW p \in Slot, wait_scan(c, p) PROVE ScanInv'
  <2>1. CASE parent[scan[p]] = p
    BY <1>12, <2>1 DEF wait_scan, At
  <2>2. CASE parent[scan[p]] # p
    <3>1. scan' = [scan EXCEPT ![p] = scan[p] + 1] /\ UNCHANGED <<pc, parent, state>> /\ pc[p] = "wait" /\ scan[p] \in Slot
      BY <1>12, <2>2 DEF wait_scan, At
    <3>2. \A q \in Slot : q < scan[p] + 1 => q < scan[p] \/ q = scan[p]
      BY ZenonT(40), <3>1
    <3> QED
      BY <2>2, <3>1, <3>2
  <2> QED
    BY <2>1, <2>2
<1>13. ASSUME NEW c \in CPU, NEW p \in Slot, wait_living(c, p) PROVE ScanInv'
  <2>1. scan' = [scan EXCEPT ![p] = scan[p] + 1] /\ scan[p] \in Slot /\ UNCHANGED <<state, parent>>
        /\ pc' = [pc EXCEPT ![p] = "wait"] /\ pc[p] = "wait_lock" /\ state[scan[p]] # "ZOMBIE"
    BY <1>13 DEF wait_living, At
  <2>2. \A q \in Slot : q < scan[p] + 1 => q < scan[p] \/ q = scan[p]
    BY ZenonT(40), <2>1
  <2> QED
    BY <2>1, <2>2
<1>14. ASSUME NEW c \in CPU, NEW p \in Slot, wait_zombie(c, p) PROVE ScanInv'
  BY <1>14 DEF wait_zombie, At, FreedParent, Return, EndScan
<1>15. ASSUME NEW c \in CPU, NEW p \in Slot, wait_fault(c, p) PROVE ScanInv'
  BY <1>15 DEF wait_fault, At, Return, EndScan
<1>16. ASSUME NEW c \in CPU, NEW p \in Slot, wait_none(c, p) PROVE ScanInv'
  BY <1>16 DEF wait_none, At, Return, EndScan
<1>17. ASSUME NEW c \in CPU, NEW p \in Slot, wait_sleep(c, p) PROVE ScanInv'
  BY <1>17 DEF wait_sleep, At, EndScan
<1>18. ASSUME NEW c \in CPU, NEW p \in Slot, NEW np \in Slot, fork(c, p, np)
       PROVE  ScanInv'
  BY <1>18 DEF fork, Call, At, allocproc
<1>19. ASSUME NEW c \in CPU, NEW p \in Slot, NEW q \in Killable, kill(c, p, q)
       PROVE  ScanInv'
  BY <1>19 DEF kill, Call, At
<1>20. ASSUME NEW c \in CPU, NEW p \in Slot, NEW q \in Killable, kill0(c, p, q)
       PROVE  ScanInv'
  BY <1>20 DEF kill0, Call, At
<1>22. ASSUME NEW c \in CPU, NEW p \in Slot, NEW np \in Slot, fork_fail(c, p, np)
       PROVE  ScanInv'
  BY <1>22 DEF fork_fail, Call, At, allocproc
<1>21. CASE UNCHANGED vars
  BY <1>21 DEF vars
<1> HIDE DEF ProcInv, Free, TypeOK, StackSafe, ParentStable, HoldInv,
      PlaceInv, TreeInv, ScanInv, NoOrphan, Exiting, OnCPU
<1> QED
  BY <1>1, <1>2, <1>3, <1>4, <1>5, <1>6, <1>7, <1>8, <1>9, <1>10, <1>11,
     <1>12, <1>13, <1>14, <1>15, <1>16, <1>17, <1>18, <1>19, <1>20, <1>21, <1>22
     DEF Next, Exit, Wait

(* The invariant holds at boot: init alone, RUNNABLE, no lock held.        *)
LEMMA ProcInvInit == Init => ProcInv
<1> SUFFICES ASSUME Init PROVE ProcInv
  OBVIOUS
<1> USE ProcAssumption, SlotFacts DEF Init
<1>1. TypeOK
  BY DEF TypeOK
<1>2. ~ \E p \in Slot : OnCPU(p)
  BY DEF OnCPU
<1>3. StackSafe /\ HoldInv /\ PlaceInv
  BY <1>2 DEF StackSafe, HoldInv, PlaceInv, OnCPU, Exiting
<1>4. ParentStable /\ NoOrphan /\ NoLostExit /\ TreeInv
  BY DEF ParentStable, NoOrphan, NoLostExit, MissedExit, TreeInv, Exiting
<1>5. ScanInv
  BY DEF ScanInv
<1> QED
  BY <1>1, <1>3, <1>4, <1>5 DEF ProcInv

(* ProcInv holds in every reachable state, for any number of slots and     *)
(* CPUs.                                                                   *)
THEOREM ProcInvariant == Spec => []ProcInv
<1>1. ProcInv /\ [Next]_vars => ProcInv'
  <2> SUFFICES ASSUME ProcInv, [Next]_vars PROVE ProcInv'
    OBVIOUS
  <2>1. TypeOK' /\ StackSafe' /\ ParentStable' /\ NoOrphan' /\ NoLostExit'
    BY TypeStep, StackStep, ParentStep, OrphanStep, LostExitStep
  <2>2. HoldInv' /\ PlaceInv' /\ TreeInv' /\ ScanInv'
    BY HoldStep, PlaceStep, TreeStep, ScanStep
  <2> QED
    BY <2>1, <2>2 DEF ProcInv
<1> QED
  BY ProcInvInit, <1>1, PTL DEF Spec

(* A process is never on two CPUs, and its slot is not reused while a CPU  *)
(* runs on its kernel stack (exit() and scheduler(), proc.c:261-315,       *)
(* 444-468).                                                               *)
THEOREM StacksAreSafe == Spec => []StackSafe
<1>1. ProcInv => StackSafe
  BY DEF ProcInv
<1> QED
  BY ProcInvariant, <1>1, PTL

(* The unlocked reads of p->parent in reparent() and wait() are stable:    *)
(* the claim of the comment proc.c:339-340.                                *)
THEOREM ParentsAreStable == Spec => []ParentStable
<1>1. ProcInv => ParentStable
  BY DEF ProcInv
<1> QED
  BY ProcInvariant, <1>1, PTL

(* Every process has a parent that can reap it (reparent(), exit()).       *)
THEOREM TreeIsKept == Spec => []NoOrphan
<1>1. ProcInv => NoOrphan
  BY DEF ProcInv
<1> QED
  BY ProcInvariant, <1>1, PTL

(* wait() of a process other than init misses no exit() of a child.        *)
THEOREM NoExitIsLost == Spec => []NoLostExit
<1>1. ProcInv => NoLostExit
  BY DEF ProcInv
<1> QED
  BY ProcInvariant, <1>1, PTL

=============================================================================
