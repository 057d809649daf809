--------------------------- MODULE LogRefinement ----------------------------
(* The log implements the atomic disk, for every size of it. *)
EXTENDS LogProofs

USE SMTT(90)

(* The position of a block in a header without repetitions.               *)
LEMMA IndexUnique ==
  ASSUME NEW s, NEW i \in 1..Len(s), \A j, k \in 1..Len(s) : s[j] = s[k] => j = k
  PROVE  (CHOOSE j \in 1..Len(s) : s[j] = s[i]) = i
  OBVIOUS

(* Recovery takes a logged block from its place in the log, and any other  *)
(* block from home.                                                        *)
RecoveredBlocks ==
  /\ \A i \in 1..Len(dhead) : Recovered(dhead[i]) = dlog[i]
  /\ \A b \in Block : (\A i \in 1..Len(dhead) : dhead[i] # b) => Recovered(b) = home[b]

(* What recovery makes of a block, by whether the header names it ...      *)
LEMMA RecoverySplit == HeadInv => RecoveredBlocks
<1> SUFFICES ASSUME HeadInv PROVE RecoveredBlocks
  OBVIOUS
<1>1. ASSUME NEW i \in 1..Len(dhead) PROVE Recovered(dhead[i]) = dlog[i]
  BY IndexUnique DEF HeadInv, Recovered
<1>2. ASSUME NEW b \in Block, \A i \in 1..Len(dhead) : dhead[i] # b
      PROVE  Recovered(b) = home[b]
  BY <1>2 DEF Recovered
<1> QED
  BY <1>1, <1>2 DEF RecoveredBlocks

(* ... and the same after a step.                                          *)
LEMMA RecoverySplitNext == HeadInv' => RecoveredBlocks'
  BY RecoverySplit, PTL

(* Every step of the log is a step of the atomic disk or leaves it alone;  *)
(* the header write is the commit.                                         *)
LEMMA Simulation == LogInv /\ LogInv' /\ [Next]_vars => [Abstract!Next]_(Abstract!avars)
<1> SUFFICES ASSUME LogInv, LogInv', [Next]_vars PROVE [Abstract!Next]_(Abstract!avars)
  OBVIOUS
<1>r. RecoveredBlocks /\ RecoveredBlocks'
  BY RecoverySplit, RecoverySplitNext DEF LogInv
<1>d. ASSUME dhead' = dhead, \A i \in 1..Len(dhead) : dlog'[i] = dlog[i],
             \A b \in Block : (\A i \in 1..Len(dhead) : dhead[i] # b) => home'[b] = home[b]
      PROVE  Durable' = Durable
  <2>1. ASSUME NEW b \in Block PROVE Recovered(b)' = Recovered(b)
    <3>1. CASE \E i \in 1..Len(dhead) : dhead[i] = b
      <4>1. PICK i \in 1..Len(dhead) : dhead[i] = b
        BY <3>1
      <4> QED
        BY <1>r, <1>d, <4>1 DEF RecoveredBlocks
    <3>2. CASE ~ \E i \in 1..Len(dhead) : dhead[i] = b
      BY <1>r, <1>d, <3>2 DEF RecoveredBlocks
    <3> QED
      BY <3>1, <3>2
  <2> QED
    BY <2>1 DEF Durable
<1>c. ASSUME Booted' = Booted, Durable' = Durable,
             Booted => \A b \in Block : Contents(b)' = Contents(b)
      PROVE  Current' = Current
  <2>1. \A b \in Block : Recovered(b)' = Recovered(b)
    BY <1>c DEF Durable
  <2> QED
    BY <1>c, <2>1 DEF Current
<1>k. ASSUME Durable' = Durable, Current' = Current, Active' = Active
      PROVE  [Abstract!Next]_(Abstract!avars)
  BY <1>k DEF Abstract!avars
<1> USE DEF disk, bcache, proc
<1>f. ASSUME UNCHANGED <<disk, cache>>, Booted' = Booted
      PROVE  Durable' = Durable /\ Current' = Current
  <2>1. Durable' = Durable
    BY <1>d, <1>f
  <2> QED
    BY <1>c, <1>f, <2>1 DEF Contents
<1>1. ASSUME NEW p \in Op, begin_op(p) PROVE [Abstract!Next]_(Abstract!avars)
  <2>1. Durable' = Durable /\ Current' = Current
    BY <1>1, <1>f DEF begin_op, Booted
  <2>2. CASE committing \/ LogFull
    <3>1. pc' = [pc EXCEPT ![p] = "asleep"] /\ pc[p] \in {"idle", "woken"}
      BY <1>1, <2>2 DEF begin_op
    <3>2. Active' = Active
      BY <3>1 DEF Active, LogInv, TypeOK
    <3> QED
      BY <1>k, <2>1, <3>2
  <2>3. CASE ~(committing \/ LogFull)
    <3>1. pc' = [pc EXCEPT ![p] = "in_op"] /\ pc[p] \in {"idle", "woken"}
      BY <1>1, <2>3 DEF begin_op
    <3>2. Active' = Active \cup {p} /\ p \notin Active
      BY <3>1 DEF Active, LogInv, TypeOK
    <3>3. Abstract!Begin(p)
      BY <2>1, <3>2 DEF Abstract!Begin
    <3> QED
      BY <3>3 DEF Abstract!Next
  <2> QED
    BY <2>2, <2>3
<1>2. ASSUME NEW p \in Op, NEW b \in Block, NEW d \in Data, modify(p, b, d)
      PROVE  [Abstract!Next]_(Abstract!avars)
  <2>1. p \in Active /\ phase = "up" /\ Active' = Active
    BY <1>2, ModifyActive
  <2>2. Durable' = Durable
    BY <1>2, <1>d DEF modify
  <2>3. \A c \in Block : Contents(c)' = IF c = b THEN d ELSE Contents(c)
    BY <1>2, LogAssumption DEF modify, Contents, LogInv, TypeOK
  <2>4. Booted /\ Booted'
    BY <1>2, <2>1 DEF modify, Booted
  <2>5. Current' = [Current EXCEPT ![b] = d]
    BY ZenonT(40), <2>3, <2>4 DEF Current
  <2>6. Abstract!Write(p, b, d)
    BY <2>1, <2>2, <2>5 DEF Abstract!Write
  <2> QED
    BY <2>6 DEF Abstract!Next
<1>3. ASSUME NEW p \in Op, log_write(p) PROVE [Abstract!Next]_(Abstract!avars)
  <2>1. Active' = Active
    BY <1>3 DEF log_write, Active, LogInv, TypeOK
  <2> QED
    BY <1>3, <1>f, <1>k, <2>1 DEF log_write, Booted
<1>4. ASSUME NEW p \in Op, end_op(p) PROVE [Abstract!Next]_(Abstract!avars)
  <2>1. p \in Active /\ phase = "up" /\ ~committing
    BY <1>4 DEF end_op, Active, LogInv, ProcInv
  <2>2. Booted /\ Booted'
    BY <1>4, <2>1 DEF end_op, Booted
  <2>3. Durable' = Durable /\ Current' = Current
    BY <1>4, <1>f, <2>2 DEF end_op
  <2>4. Active' = Active \ {p}
    BY <1>4, <2>1 DEF end_op, Wakeup, Active, LogInv, TypeOK
  <2>5. Abstract!End(p)
    BY <2>1, <2>3, <2>4 DEF Abstract!End
  <2> QED
    BY <2>5 DEF Abstract!Next
<1>5. ASSUME NEW p \in Op, end_commit(p) PROVE [Abstract!Next]_(Abstract!avars)
  <2>1. Booted /\ Booted'
    BY <1>5 DEF end_commit, Booted, LogInv, ProcInv
  <2>2. Active' = Active
    BY <1>5 DEF end_commit, Wakeup, Active, LogInv, TypeOK
  <2> QED
    BY <1>5, <1>f, <1>k, <2>1, <2>2 DEF end_commit
<1>6. ASSUME NEW p \in Op, kill(p) PROVE [Abstract!Next]_(Abstract!avars)
  <2>1. Active' = Active
    BY <1>6 DEF kill, Active, LogInv, TypeOK
  <2> QED
    BY <1>6, <1>f, <1>k, <2>1 DEF kill, Booted
<1>7. ASSUME write_log PROVE [Abstract!Next]_(Abstract!avars)
  <2>1. tail + 1 \in 1..Len(lh) /\ lh[tail + 1] \in Block /\ dhead = <<>> /\ committing
    BY <1>7 DEF write_log, LogInv, TypeOK, HeadInv, ProcInv
  <2>2. Durable' = Durable
    BY <1>7, <1>d, <2>1 DEF write_log
  <2>3. \A b \in Block : Contents(b)' = Contents(b)
    BY <1>7, <2>1 DEF write_log, Contents, LogInv, TypeOK
  <2>4. Current' = Current
    BY <1>7, <1>c, <2>1, <2>2, <2>3 DEF write_log, Booted
  <2> QED
    BY <1>7, <1>k, <2>2, <2>4 DEF write_log, Active
<1>8. ASSUME write_head PROVE [Abstract!Next]_(Abstract!avars)
  <2>1. /\ phase = "write_head" /\ committing /\ committing' /\ dhead' = lh
        /\ UNCHANGED <<home, dlog, cache, pc>>
    BY <1>8 DEF write_head, LogInv, ProcInv
  <2>2. Active = {} /\ Active' = {}
    BY <2>1 DEF Active, LogInv, ProcInv
  <2>3. ASSUME NEW b \in Block PROVE Recovered(b)' = Contents(b)
    <3>1. CASE \E i \in 1..Len(lh) : lh[i] = b
      <4>1. PICK i \in 1..Len(lh) : lh[i] = b
        BY <3>1
      <4>2. Recovered(b)' = dlog[i]
        BY <1>r, <2>1, <4>1 DEF RecoveredBlocks
      <4>3. dlog[i] = Contents(b)
        BY <2>1, <4>1 DEF LogInv, DiskInv, Saved, Booted
      <4> QED
        BY <4>2, <4>3
    <3>2. CASE ~ \E i \in 1..Len(lh) : lh[i] = b
      <4>1. Recovered(b)' = home[b]
        BY <1>r, <2>1, <3>2 DEF RecoveredBlocks
      <4>2. b \notin Logged
        BY <3>2 DEF Logged
      <4>3. \A p \in Op : held[p] = NoBlock
        BY <2>2 DEF LogInv, ProcInv, Active
      <4>4. \A p \in Op : held[p] # b
        BY <4>3, LogAssumption
      <4>5. cache[b] \in {NoBuf, home[b]}
        BY <4>2, <4>4 DEF LogInv, CacheInv
      <4> QED
        BY <4>1, <4>5 DEF Contents
    <3> QED
      BY <3>1, <3>2
  <2>4. Current' = Current /\ Durable' = Current
    BY <2>1, <2>3 DEF Durable, Current, Booted, Contents
  <2>5. Abstract!Commit
    BY <2>2, <2>4 DEF Abstract!Commit
  <2> QED
    BY <2>5 DEF Abstract!Next
<1>9. ASSUME read_head PROVE [Abstract!Next]_(Abstract!avars)
  <2>1. ~Booted /\ ~Booted'
    BY <1>9 DEF read_head, Booted, LogInv, ProcInv
  <2>2. Booted' = Booted
    BY <2>1 DEF Booted
  <2>3. UNCHANGED <<disk, cache>> /\ Active' = Active
    BY <1>9 DEF read_head, Active
  <2> QED
    BY <1>f, <1>k, <2>2, <2>3
<1>10. ASSUME install_trans PROVE [Abstract!Next]_(Abstract!avars)
  <2>1. /\ tail + 1 \in 1..Len(lh) /\ lh[tail + 1] \in Block /\ dhead = lh
        /\ phase = "install_trans" /\ phase' # "up" /\ committing' = committing
    BY <1>10 DEF install_trans, Advance, LogInv, TypeOK, HeadInv
  <2>2. /\ cache' = [cache EXCEPT ![lh[tail + 1]] = dlog[tail + 1]]
        /\ home' = [home EXCEPT ![lh[tail + 1]] = dlog[tail + 1]]
        /\ UNCHANGED <<dlog, dhead, pc>>
    BY <1>10 DEF install_trans, InstallBlock
  <2>3. Durable' = Durable
    BY <1>d, <2>1, <2>2 DEF LogInv, TypeOK
  <2>4. ASSUME Booted, NEW b \in Block PROVE Contents(b)' = Contents(b)
    <3>1. dlog[tail + 1] = Contents(lh[tail + 1])
      BY <2>1, <2>4 DEF LogInv, DiskInv, Saved
    <3>2. CASE b = lh[tail + 1]
      BY <2>1, <2>2, <3>1, <3>2 DEF Contents, LogInv, TypeOK
    <3>3. CASE b # lh[tail + 1]
      BY <2>1, <2>2, <3>3 DEF Contents, LogInv, TypeOK
    <3> QED
      BY <3>2, <3>3
  <2>5. Current' = Current
    BY <1>c, <2>1, <2>3, <2>4 DEF Booted
  <2> QED
    BY <1>k, <2>2, <2>3, <2>5 DEF Active
<1>11. ASSUME erase PROVE [Abstract!Next]_(Abstract!avars)
  <2>1. /\ phase = "erase" /\ dhead = lh /\ dhead' = <<>> /\ phase' = (IF committing THEN "committed" ELSE "up")
        /\ UNCHANGED <<home, dlog, cache, pc, committing>>
    BY <1>11 DEF erase, recovering, LogInv, HeadInv
  <2>2. ASSUME NEW b \in Block
        PROVE  Recovered(b)' = home[b] /\ Recovered(b) = home[b]
    <3>1. Recovered(b)' = home[b]
      BY <1>r, <2>1 DEF RecoveredBlocks
    <3>2. CASE \E i \in 1..Len(lh) : lh[i] = b
      <4>1. PICK i \in 1..Len(lh) : lh[i] = b
        BY <3>2
      <4>2. Recovered(b) = dlog[i]
        BY <1>r, <2>1, <4>1 DEF RecoveredBlocks
      <4>3. home[b] = dlog[i]
        BY <2>1, <4>1 DEF LogInv, DiskInv, Installed
      <4> QED
        BY <3>1, <4>2, <4>3
    <3>3. CASE ~ \E i \in 1..Len(lh) : lh[i] = b
      BY <1>r, <2>1, <3>1, <3>3 DEF RecoveredBlocks
    <3> QED
      BY <3>2, <3>3
  <2>3. Durable' = Durable
    BY <2>2 DEF Durable
  <2>4. CASE committing
    <3>1. Booted /\ Booted'
      BY <2>1, <2>4 DEF Booted
    <3>2. Current' = Current
      BY <1>c, <2>1, <2>3, <3>1 DEF Contents
    <3> QED
      BY <1>k, <2>1, <2>3, <3>2 DEF Active
  <2>5. CASE ~committing
    <3>1. ~Booted /\ Booted'
      BY <2>1, <2>5 DEF Booted
    <3>2. ASSUME NEW b \in Block PROVE Contents(b)' = home[b]
      <4>1. cache[b] \in {NoBuf, home[b]}
        <5>1. CASE b \in Logged
          <6>1. PICK i \in 1..Len(lh) : lh[i] = b
            BY <5>1 DEF Logged
          <6> QED
            BY <2>1, <6>1 DEF LogInv, CacheInv, Installed
        <5>2. CASE b \notin Logged
          <6>1. \A p \in Op : held[p] # b
            BY <3>1, LogAssumption DEF LogInv, ProcInv
          <6> QED
            BY <5>2, <6>1 DEF LogInv, CacheInv
        <5> QED
          BY <5>1, <5>2
      <4> QED
        BY <2>1, <4>1 DEF Contents
    <3>3. Current' = Current
      BY <2>2, <3>1, <3>2 DEF Current
    <3> QED
      BY <1>k, <2>1, <2>3, <3>3 DEF Active
  <2> QED
    BY <2>4, <2>5
<1>12. ASSUME NEW b \in Block, evict(b) PROVE [Abstract!Next]_(Abstract!avars)
  <2>1. /\ pins[b] = 0 /\ (\A p \in Op : held[p] # b) /\ cache' = [cache EXCEPT ![b] = NoBuf]
        /\ UNCHANGED <<home, dlog, dhead, phase, committing, pc>>
    BY <1>12 DEF evict
  <2>2. Durable' = Durable
    BY <1>d, <2>1
  <2>3. ASSUME Booted PROVE cache[b] \in {NoBuf, home[b]}
    <3>1. CASE b \in Logged
      <4>1. PICK i \in 1..Len(lh) : lh[i] = b
        BY <3>1 DEF Logged
      <4>2. Installed(i)
        BY <2>1, <2>3, <4>1 DEF LogInv, CacheInv
      <4> QED
        BY <4>1, <4>2 DEF LogInv, CacheInv
    <3>2. CASE b \notin Logged
      BY <2>1, <3>2 DEF LogInv, CacheInv
    <3> QED
      BY <3>1, <3>2
  <2>4. ASSUME Booted, NEW c \in Block PROVE Contents(c)' = Contents(c)
    BY <2>1, <2>3, <2>4 DEF Contents, LogInv, TypeOK
  <2>5. Current' = Current
    BY <1>c, <2>1, <2>2, <2>4 DEF Booted
  <2> QED
    BY <1>k, <2>1, <2>2, <2>5 DEF Active
<1>13. ASSUME crash PROVE [Abstract!Next]_(Abstract!avars)
  <2>1. dhead' = dhead /\ phase' = "read_head" /\ committing' = FALSE /\ pc' = [p \in Op |-> "idle"]
    BY <1>13 DEF crash
  <2>2. \A i \in 1..Len(dhead) : dlog'[i] = dlog[i]
    <3>1. CASE phase = "write_log"
      BY <3>1 DEF LogInv, HeadInv
    <3>2. CASE phase # "write_log"
      BY <1>13, <3>2 DEF crash
    <3> QED
      BY <3>1, <3>2
  <2>3. \A b \in Block : (\A i \in 1..Len(dhead) : dhead[i] # b) => home'[b] = home[b]
    <3>1. CASE phase = "install_trans"
      <4>1. tail + 1 \in 1..Len(dhead) /\ dhead = lh
        BY <3>1 DEF LogInv, TypeOK, HeadInv
      <4>2. home' = home \/ home' = [home EXCEPT ![lh[tail + 1]] = Torn]
        BY <1>13, <3>1 DEF crash, Tear
      <4> QED
        BY <4>1, <4>2 DEF LogInv, TypeOK
    <3>2. CASE phase # "install_trans"
      BY <1>13, <3>2 DEF crash
    <3> QED
      BY <3>1, <3>2
  <2>4. Durable' = Durable
    BY <1>d, <2>1, <2>2, <2>3
  <2>5. ~Booted'
    BY <2>1 DEF Booted
  <2>6. Current' = Durable
    <3>1. Current' = Durable'
      BY <2>5 DEF Current, Durable
    <3> QED
      BY <2>4, <3>1
  <2>7. Active' = {}
    BY <2>1 DEF Active
  <2>8. Abstract!Crash
    BY <2>4, <2>6, <2>7 DEF Abstract!Crash
  <2> QED
    BY <2>8 DEF Abstract!Next
<1>14. CASE UNCHANGED vars
  <2>1. UNCHANGED <<home, dlog, dhead, cache, phase, committing, pc>>
    BY <1>14 DEF vars
  <2> QED
    BY <1>f, <1>k, <2>1 DEF Booted, Active
<1> QED
  BY <1>1, <1>2, <1>3, <1>4, <1>5, <1>6, <1>7, <1>8, <1>9, <1>10, <1>11, <1>12,
     <1>13, <1>14 DEF Next, LogIO

(* The log implements the atomic disk: a crash at any point, inside commit *)
(* and inside recovery included, leaves the updates of whole system calls. *)
THEOREM Implements == Spec => CrashAtomic
<1>1. Init => Abstract!Init
  <2> SUFFICES ASSUME Init PROVE Abstract!Init
    OBVIOUS
  <2>1. dhead = <<>> /\ home \in [Block -> Data] /\ ~Booted /\ pc = [p \in Op |-> "idle"]
    BY DEF Init, Booted
  <2>2. \A b \in Block : Recovered(b) = home[b]
    BY <2>1 DEF Recovered
  <2>3. Durable \in [Block -> Data] /\ Current = Durable
    BY <2>1, <2>2 DEF Durable, Current
  <2>4. Active = {}
    BY <2>1 DEF Active
  <2> QED
    BY <2>3, <2>4 DEF Abstract!Init
<1> QED
  BY <1>1, LogInvariant, Simulation, PTL DEF Spec, CrashAtomic, Abstract!Spec

=============================================================================
