-------------------------- MODULE SleepLockProofs ---------------------------
(***************************************************************************)
(* Proofs about module SleepLock, for every number of processes: the       *)
(* invariant, mutual exclusion, no lost wakeup, and that the protocol      *)
(* implements atomic sleeping and waking.                                  *)
(***************************************************************************)
EXTENDS SleepLock, TLAPS

(* The processes are numbers, and none of them is NoProc.                  *)
LEMMA ProcFacts ==
  /\ NoProc \notin Proc /\ NPROC + 1 \notin Proc /\ Proc \subseteq Nat
  /\ \A p \in Proc : /\ 1 <= p /\ 1 \in Proc /\ p + 1 \in Proc \cup {NPROC + 1}
                      /\ ~(p > NPROC) /\ ~(NPROC + 1 <= p)
  /\ \A p, q \in Proc : q + 1 <= p <=> q <= p /\ q # p
  BY SleepLockAssumption DEF Proc

(* The invariant holds at boot.                                            *)
LEMMA SleepInvInit == Init => SleepInv
<1> SUFFICES ASSUME Init PROVE SleepInv
  OBVIOUS
<1> USE ProcFacts DEF Init
<1>1. TypeOK
  BY ZenonT(40) DEF TypeOK
<1>2. MutualExclusion /\ NoLostWakeup
  BY DEF MutualExclusion, NoLostWakeup, Committed
<1>3. PlaceInv
  BY DEF PlaceInv
<1> QED
  BY <1>1, <1>2, <1>3 DEF SleepInv

(* Values stay in their types.                                             *)
LEMMA TypeStep == SleepInv /\ [Next]_vars => TypeOK'
<1> SUFFICES ASSUME SleepInv, [Next]_vars PROVE TypeOK'
  OBVIOUS
<1> USE ProcFacts DEF SleepInv, Goto, TypeOK
<1>1. ASSUME NEW p \in Proc, acquiresleep(p) PROVE TypeOK'
  BY <1>1 DEF acquiresleep
<1>2. ASSUME NEW p \in Proc, take(p) PROVE TypeOK'
  BY <1>2 DEF take
<1>3. ASSUME NEW p \in Proc, sleep(p) PROVE TypeOK'
  BY <1>3 DEF sleep, SleepLocks
<1>4. ASSUME NEW p \in Proc, sleep_release(p) PROVE TypeOK'
  BY <1>4 DEF sleep_release
<1>5. ASSUME NEW p \in Proc, sleep_sched(p) PROVE TypeOK'
  BY <1>5 DEF sleep_sched
<1>6. ASSUME NEW p \in Proc, resume(p) PROVE TypeOK'
  BY <1>6 DEF resume
<1>7. ASSUME NEW p \in Proc, releasesleep(p) PROVE TypeOK'
  BY ZenonT(40), <1>7 DEF releasesleep
<1>8. ASSUME NEW p \in Proc, wakeup(p) PROVE TypeOK'
  BY ZenonT(40), <1>8 DEF wakeup, WakeTest
<1>9. ASSUME NEW p \in Proc, released(p) PROVE TypeOK'
  BY <1>9 DEF released
<1>10. ASSUME NEW p \in Proc, kill(p) PROVE TypeOK'
  BY <1>10 DEF kill
<1>11. CASE UNCHANGED vars
  BY <1>11 DEF vars
<1> HIDE DEF SleepInv, Goto, TypeOK
<1> QED
  BY <1>1, <1>2, <1>3, <1>4, <1>5, <1>6, <1>7, <1>8, <1>9, <1>10, <1>11
     DEF Next, Step

(* Only the test under lk->lk gives the lock.                              *)
LEMMA ExclusionStep == SleepInv /\ [Next]_vars => MutualExclusion'
<1> SUFFICES ASSUME SleepInv, [Next]_vars PROVE MutualExclusion'
  OBVIOUS
<1> USE ProcFacts DEF SleepInv, Goto, MutualExclusion, TypeOK
<1>1. ASSUME NEW p \in Proc, acquiresleep(p) PROVE MutualExclusion'
  BY <1>1 DEF acquiresleep
<1>2. ASSUME NEW p \in Proc, take(p) PROVE MutualExclusion'
  BY <1>2 DEF take
<1>3. ASSUME NEW p \in Proc, sleep(p) PROVE MutualExclusion'
  BY <1>3 DEF sleep, SleepLocks
<1>4. ASSUME NEW p \in Proc, sleep_release(p) PROVE MutualExclusion'
  BY <1>4 DEF sleep_release
<1>5. ASSUME NEW p \in Proc, sleep_sched(p) PROVE MutualExclusion'
  BY <1>5 DEF sleep_sched
<1>6. ASSUME NEW p \in Proc, resume(p) PROVE MutualExclusion'
  BY <1>6 DEF resume
<1>7. ASSUME NEW p \in Proc, releasesleep(p) PROVE MutualExclusion'
  BY <1>7 DEF releasesleep
<1>8. ASSUME NEW p \in Proc, wakeup(p) PROVE MutualExclusion'
  BY <1>8 DEF wakeup, WakeTest
<1>9. ASSUME NEW p \in Proc, released(p) PROVE MutualExclusion'
  BY <1>9 DEF released
<1>10. ASSUME NEW p \in Proc, kill(p) PROVE MutualExclusion'
  BY <1>10 DEF kill
<1>11. CASE UNCHANGED vars
  BY <1>11 DEF vars
<1> HIDE DEF SleepInv, Goto, MutualExclusion, TypeOK
<1> QED
  BY <1>1, <1>2, <1>3, <1>4, <1>5, <1>6, <1>7, <1>8, <1>9, <1>10, <1>11
     DEF Next, Step

(* Locks are held where the code says.                                     *)
LEMMA PlaceStep == SleepInv /\ [Next]_vars => PlaceInv'
<1> SUFFICES ASSUME SleepInv, [Next]_vars PROVE PlaceInv'
  OBVIOUS
<1> USE ProcFacts DEF SleepInv, Goto, PlaceInv, MutualExclusion, TypeOK
<1>1. ASSUME NEW p \in Proc, acquiresleep(p) PROVE PlaceInv'
  BY <1>1 DEF acquiresleep
<1>2. ASSUME NEW p \in Proc, take(p) PROVE PlaceInv'
  BY <1>2 DEF take
<1>3. ASSUME NEW p \in Proc, sleep(p) PROVE PlaceInv'
  BY <1>3 DEF sleep, SleepLocks
<1>4. ASSUME NEW p \in Proc, sleep_release(p) PROVE PlaceInv'
  BY <1>4 DEF sleep_release
<1>5. ASSUME NEW p \in Proc, sleep_sched(p) PROVE PlaceInv'
  BY <1>5 DEF sleep_sched
<1>6. ASSUME NEW p \in Proc, resume(p) PROVE PlaceInv'
  BY <1>6 DEF resume
<1>7. ASSUME NEW p \in Proc, releasesleep(p) PROVE PlaceInv'
  BY <1>7 DEF releasesleep
<1>8. ASSUME NEW p \in Proc, wakeup(p) PROVE PlaceInv'
  BY <1>8 DEF wakeup, WakeTest
<1>9. ASSUME NEW p \in Proc, released(p) PROVE PlaceInv'
  BY <1>9 DEF released
<1>10. ASSUME NEW p \in Proc, kill(p) PROVE PlaceInv'
  BY <1>10 DEF kill
<1>11. CASE UNCHANGED vars
  BY <1>11 DEF vars
<1> HIDE DEF SleepInv, Goto, PlaceInv, MutualExclusion, TypeOK
<1> QED
  BY <1>1, <1>2, <1>3, <1>4, <1>5, <1>6, <1>7, <1>8, <1>9, <1>10, <1>11
     DEF Next, Step

(* Nobody goes to sleep, and no wakeup() passes, unnoticed.                *)
LEMMA WakeupStep == SleepInv /\ [Next]_vars => NoLostWakeup'
<1> SUFFICES ASSUME SleepInv, [Next]_vars PROVE NoLostWakeup'
  OBVIOUS
<1> USE ProcFacts DEF SleepInv, Goto, NoLostWakeup, TypeOK, MutualExclusion,
      Committed, WakeupComes, PlaceInv
<1>1. ASSUME NEW p \in Proc, acquiresleep(p) PROVE NoLostWakeup'
  BY <1>1 DEF acquiresleep
<1>2. ASSUME NEW p \in Proc, take(p) PROVE NoLostWakeup'
  BY <1>2 DEF take
<1>3. ASSUME NEW p \in Proc, sleep(p) PROVE NoLostWakeup'
  BY <1>3 DEF sleep, SleepLocks
<1>4. ASSUME NEW p \in Proc, sleep_release(p) PROVE NoLostWakeup'
  BY <1>4 DEF sleep_release
<1>5. ASSUME NEW p \in Proc, sleep_sched(p) PROVE NoLostWakeup'
  BY <1>5 DEF sleep_sched
<1>6. ASSUME NEW p \in Proc, resume(p) PROVE NoLostWakeup'
  BY <1>6 DEF resume
<1>7. ASSUME NEW p \in Proc, releasesleep(p) PROVE NoLostWakeup'
  BY <1>7 DEF releasesleep
<1>8. ASSUME NEW p \in Proc, wakeup(p) PROVE NoLostWakeup'
  <2>1. /\ pc[p] = "wakeup" /\ ~locked /\ ~locked' /\ scan[p] \in Proc /\ plock[scan[p]] = NoProc
        /\ scan' = [scan EXCEPT ![p] = scan[p] + 1] /\ UNCHANGED pc
        /\ state' = [state EXCEPT ![scan[p]] = IF state[scan[p]] = "SLEEPING" THEN "RUNNABLE" ELSE @]
    BY <1>8 DEF wakeup, WakeTest
  <2>2. \A q \in Proc : pc[q] = "wakeup" => q = p
    BY <2>1
  <2>3. ASSUME NEW r \in Proc, Committed(r)' PROVE WakeupComes(r)'
    <3>1. Committed(r) /\ r # scan[p]
      BY <2>1, <2>3
    <3>2. scan[p] <= r
      BY <2>1, <2>2, <3>1
    <3>3. scan[p] + 1 <= r
      BY ZenonT(40), <2>1, <3>1, <3>2
    <3>4. scan'[p] <= r /\ pc'[p] = "wakeup"
      BY <2>1, <3>3
    <3> QED
      BY <3>4
  <2> QED
    BY <2>3
<1>9. ASSUME NEW p \in Proc, released(p) PROVE NoLostWakeup'
  <2>1. /\ pc[p] = "wakeup" /\ ~locked /\ scan[p] = NPROC + 1 /\ UNCHANGED state
        /\ pc' = [pc EXCEPT ![p] = "out"]
    BY ZenonT(40), <1>9 DEF released
  <2>2. \A q \in Proc : pc[q] = "wakeup" => q = p
    BY <2>1
  <2>3. \A r \in Proc : ~Committed(r)
    BY <2>1, <2>2
  <2>4. \A r \in Proc : ~Committed(r)'
    BY <2>1, <2>3
  <2> QED
    BY <2>4
<1>10. ASSUME NEW p \in Proc, kill(p) PROVE NoLostWakeup'
  BY <1>10 DEF kill
<1>11. CASE UNCHANGED vars
  BY <1>11 DEF vars
<1> HIDE DEF SleepInv, Goto, NoLostWakeup, TypeOK, MutualExclusion, Committed,
      WakeupComes, PlaceInv
<1> QED
  BY <1>1, <1>2, <1>3, <1>4, <1>5, <1>6, <1>7, <1>8, <1>9, <1>10, <1>11
     DEF Next, Step

(* SleepInv holds in every reachable state.                                *)
THEOREM SleepInvariant == Spec => []SleepInv
<1>1. SleepInv /\ [Next]_vars => SleepInv'
  BY TypeStep, ExclusionStep, PlaceStep, WakeupStep DEF SleepInv
<1> QED
  BY SleepInvInit, <1>1, PTL DEF Spec

(* At most one process holds a sleep lock (acquiresleep(), releasesleep()). *)
THEOREM Exclusion == Spec => []MutualExclusion
<1>1. SleepInv => MutualExclusion
  BY DEF SleepInv
<1> QED
  BY SleepInvariant, <1>1, PTL

(* No wakeup is lost between the test and the sleep: the claim of the      *)
(* comment in sleep(), proc.c:376-379.                                     *)
THEOREM NoWakeupIsLost == Spec => []NoLostWakeup
<1>1. SleepInv => NoLostWakeup
  BY DEF SleepInv
<1> QED
  BY SleepInvariant, <1>1, PTL

(* Every step of the protocol is a step of the atomic lock, or none.       *)
LEMMA Simulation == SleepInv /\ SleepInv' /\ [Next]_vars => [Abstract!Next]_(Abstract!bvars)
<1> SUFFICES ASSUME SleepInv, SleepInv', [Next]_vars
             PROVE  [Abstract!Next]_(Abstract!bvars)
  OBVIOUS
<1> USE ProcFacts DEF Goto
<1>k. ASSUME pid' = pid, Asleep' = Asleep PROVE [Abstract!Next]_(Abstract!bvars)
  BY <1>k DEF Abstract!bvars
<1>e. ~locked => Asleep = {}
  BY ZenonT(40) DEF SleepInv, NoLostWakeup, Asleep
<1>f. ~locked' => Asleep' = {}
  BY ZenonT(40) DEF SleepInv, NoLostWakeup, Asleep
<1>1. ASSUME NEW p \in Proc, acquiresleep(p)
      PROVE  [Abstract!Next]_(Abstract!bvars)
  <2>1. Asleep' = Asleep
    BY <1>1 DEF acquiresleep, Asleep, Committed, WakeupComes, SleepInv, TypeOK
  <2> QED
    BY <1>1, <1>k, <2>1 DEF acquiresleep
<1>2. ASSUME NEW p \in Proc, take(p) PROVE [Abstract!Next]_(Abstract!bvars)
  <2>1. Asleep' = Asleep /\ p \notin Asleep
    BY <1>2 DEF take, Asleep, Committed, WakeupComes, SleepInv, TypeOK
  <2>2. Abstract!Acquire(p)
    BY <1>2, <2>1 DEF take, Abstract!Acquire, SleepInv, PlaceInv
  <2> QED
    BY <2>2 DEF Abstract!Next
<1>3. ASSUME NEW p \in Proc, sleep(p) PROVE [Abstract!Next]_(Abstract!bvars)
  <2>1. \A q \in Proc : pc[q] # "wakeup" /\ pc'[q] # "wakeup"
    BY <1>3 DEF sleep, SleepInv, PlaceInv, TypeOK
  <2>2. Asleep' = Asleep \cup {p} /\ p \notin Asleep
    BY <1>3, <2>1 DEF sleep, Asleep, Committed, WakeupComes, SleepInv, TypeOK
  <2>3. Abstract!Sleep(p)
    BY <1>3, <2>2 DEF sleep, Abstract!Sleep, SleepInv, PlaceInv
  <2> QED
    BY <2>3 DEF Abstract!Next
<1>4. ASSUME NEW p \in Proc, sleep_release(p)
      PROVE  [Abstract!Next]_(Abstract!bvars)
  <2>1. Asleep' = Asleep
    BY <1>4 DEF sleep_release, Asleep, Committed, WakeupComes, SleepInv, TypeOK
  <2> QED
    BY <1>4, <1>k, <2>1 DEF sleep_release
<1>5. ASSUME NEW p \in Proc, sleep_sched(p)
      PROVE  [Abstract!Next]_(Abstract!bvars)
  <2>1. Asleep' = Asleep
    BY <1>5 DEF sleep_sched, Asleep, Committed, WakeupComes, SleepInv, TypeOK
  <2> QED
    BY <1>5, <1>k, <2>1 DEF sleep_sched
<1>6. ASSUME NEW p \in Proc, resume(p) PROVE [Abstract!Next]_(Abstract!bvars)
  <2>1. Asleep' = Asleep
    BY <1>6 DEF resume, Asleep, Committed, WakeupComes, SleepInv, TypeOK
  <2> QED
    BY <1>6, <1>k, <2>1 DEF resume
<1>7. ASSUME NEW p \in Proc, releasesleep(p)
      PROVE  [Abstract!Next]_(Abstract!bvars)
  <2>1. Asleep' = {}
    BY <1>7, <1>f DEF releasesleep
  <2>2. Abstract!Release(p)
    BY <1>7, <2>1 DEF releasesleep, Abstract!Release, SleepInv, MutualExclusion
  <2> QED
    BY <2>2 DEF Abstract!Next
<1>8. ASSUME NEW p \in Proc, wakeup(p) PROVE [Abstract!Next]_(Abstract!bvars)
  BY <1>8, <1>e, <1>f, <1>k DEF wakeup, SleepInv, PlaceInv
<1>9. ASSUME NEW p \in Proc, released(p) PROVE [Abstract!Next]_(Abstract!bvars)
  BY <1>9, <1>e, <1>f, <1>k DEF released, SleepInv, PlaceInv
<1>10. ASSUME NEW p \in Proc, kill(p) PROVE [Abstract!Next]_(Abstract!bvars)
  <2>1. Asleep' = Asleep \ {p}
    BY <1>10 DEF kill, Asleep, Committed, WakeupComes, SleepInv, PlaceInv,
       TypeOK
  <2>2. Abstract!Kill(p)
    BY <1>10, <2>1 DEF kill, Abstract!Kill
  <2> QED
    BY <2>2 DEF Abstract!Next
<1>11. CASE UNCHANGED vars
  BY <1>11, <1>k DEF vars, Asleep, Committed, WakeupComes
<1> QED
  BY <1>1, <1>2, <1>3, <1>4, <1>5, <1>6, <1>7, <1>8, <1>9, <1>10, <1>11
     DEF Next, Step

(* sleep() and wakeup(), with their two locks, implement atomic sleeping   *)
(* and waking; Log relies on it.                                           *)
THEOREM SleepIsAtomic == Spec => AtomicSleep
<1>1. Init => Abstract!Init
  BY DEF Init, Abstract!Init, Asleep, Committed
<1> QED
  BY <1>1, SleepInvariant, Simulation, PTL DEF Spec, AtomicSleep, Abstract!Spec

=============================================================================
