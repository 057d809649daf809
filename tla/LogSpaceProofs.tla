--------------------------- MODULE LogSpaceProofs ---------------------------
(* The log: types, system calls, reservations and the header. *)
EXTENDS Log, FiniteSetTheorems, TLAPS

USE SMTT(90)

(* The reservation leaves room: the log never outgrows LOGSIZE, nor the    *)
(* log blocks on disk.                                                     *)
LEMMA LogFits ==
  ASSUME LogInv
  PROVE  /\ IsFiniteSet(Active) /\ IsFiniteSet(Tokens)
         /\ Cardinality(Tokens) \in Nat
         /\ Len(lh) \in Nat /\ Len(lh) <= LOGSIZE /\ Len(lh) <= NLOG - 1
         /\ Slack \in Nat /\ Slack + Len(lh) <= LOGSIZE
<1>1. IsFiniteSet(Active)
  BY FS_Subset, LogAssumption DEF Active
<1>2. IsFiniteSet(Op \X (1..MAXOPBLOCKS))
  <2>1. IsFiniteSet(1..MAXOPBLOCKS) /\ IsFiniteSet(Op)
    BY FS_Interval, LogAssumption
  <2> QED
    BY ZenonT(40), <2>1, FS_Product
<1>3. IsFiniteSet(Tokens)
  BY <1>2, FS_Subset DEF Tokens
<1>4. Cardinality(Tokens) \in Nat
  BY <1>3, FS_CardinalityType
<1> QED
  BY <1>1, <1>3, <1>4, LogAssumption DEF LogInv, TypeOK, SpaceInv, Slack

-----------------------------------------------------------------------------
(* Every action keeps the types, and pins a block at most once.            *)
LEMMA TypeStep == LogInv /\ [Next]_vars => TypeOK'
<1> SUFFICES ASSUME LogInv, [Next]_vars PROVE TypeOK'
  OBVIOUS
<1> USE LogAssumption DEF LogInv, TypeOK, disk, bcache, proc
<1>1. ASSUME NEW p \in Op, begin_op(p) PROVE TypeOK'
  <2>1. CASE committing \/ LogFull
    BY ZenonT(40), <1>1, <2>1 DEF begin_op
  <2>2. CASE ~(committing \/ LogFull)
    <3>0. pc' = [pc EXCEPT ![p] = "in_op"]
      BY <1>1, <2>2 DEF begin_op
    <3>1. pc' \in [Op -> {"idle", "asleep", "woken", "in_op", "log_write", "commit", "panic"}]
      BY <3>0
    <3>2. outstanding' \in Nat
      BY <1>1, <2>2 DEF begin_op
    <3> QED
      BY <1>1, <3>1, <3>2 DEF begin_op
  <2> QED
    BY <2>1, <2>2
<1>2. ASSUME NEW p \in Op, NEW b \in Block, NEW d \in Data, modify(p, b, d)
      PROVE  TypeOK'
  BY <1>2 DEF modify
<1>3. ASSUME NEW p \in Op, log_write(p) PROVE TypeOK'
  <2>1. held[p] \in Block
    BY <1>3 DEF log_write, ProcInv
  <2>2. lh' \in Seq(Block) /\ pins' \in [Block -> 0..1]
    <3>1. CASE held[p] \in Logged
      BY <1>3, <3>1 DEF log_write
    <3>2. CASE held[p] \notin Logged
      <4>1. pins[held[p]] = 0
        BY <3>2, <2>1 DEF CacheInv
      <4>2. lh' = Append(lh, held[p]) /\ pins' = [pins EXCEPT ![held[p]] = @ + 1]
        BY <1>3, <3>2 DEF log_write, bpin
      <4>3. pins' \in [Block -> 0..1]
        BY <2>1, <4>1, <4>2
      <4> QED
        BY <2>1, <4>2, <4>3
    <3> QED
      BY <3>1, <3>2
  <2>3. wrote' \in [Op -> SUBSET Block]
    BY <1>3, <2>1 DEF log_write
  <2> QED
    BY <1>3, <2>2, <2>3 DEF log_write
<1>4. ASSUME NEW p \in Op, end_op(p) PROVE TypeOK'
  <2>1. outstanding' \in Nat
    <3>1. IsFiniteSet(Active) /\ p \in Active
      BY <1>4, LogFits DEF end_op, Active
    <3>2. Cardinality(Active) \in Nat /\ Cardinality(Active) # 0
      BY <3>1, FS_CardinalityType, FS_EmptySet
    <3> QED
      BY <1>4, <3>2 DEF end_op, ProcInv
  <2>2. wrote' \in [Op -> SUBSET Block]
    BY <1>4 DEF end_op
  <2>3. pc' \in [Op -> {"idle", "asleep", "woken", "in_op", "log_write", "commit", "panic"}]
    BY ZenonT(40), <1>4 DEF end_op, Wakeup
  <2> QED
    BY ZenonT(40), <1>4, <2>1, <2>2, <2>3 DEF end_op
<1>5. ASSUME NEW p \in Op, end_commit(p) PROVE TypeOK'
  BY ZenonT(40), <1>5 DEF end_commit, Wakeup
<1>6. ASSUME NEW p \in Op, kill(p) PROVE TypeOK'
  BY <1>6 DEF kill
<1>7. ASSUME write_log PROVE TypeOK'
  <2>1. tail + 1 \in 1..Len(lh) /\ tail + 1 \in 1..(NLOG - 1) /\ lh[tail + 1] \in Block
    BY <1>7, LogFits DEF write_log, HeadInv
  <2>2. Contents(lh[tail + 1]) \in Data
    <3>1. dhead = <<>> /\ home[lh[tail + 1]] \in Data
      BY <1>7, <2>1 DEF write_log, HeadInv, DiskInv
    <3> QED
      BY <2>1, <3>1 DEF Contents
  <2>3. dlog' \in [1..(NLOG - 1) -> Data \cup {Torn}] /\ cache' \in [Block -> Data \cup {NoBuf}]
    BY <1>7, <2>1, <2>2 DEF write_log
  <2> QED
    BY <1>7, <2>3 DEF write_log, Advance
<1>8. ASSUME write_head PROVE TypeOK'
  BY <1>8 DEF write_head
<1>9. ASSUME read_head PROVE TypeOK'
  BY <1>9 DEF read_head
<1>10. ASSUME install_trans PROVE TypeOK'
  <2>1. tail + 1 \in 1..Len(lh) /\ tail + 1 \in 1..(NLOG - 1) /\ lh[tail + 1] \in Block
    BY <1>10, LogFits DEF install_trans, HeadInv
  <2>2. dlog[tail + 1] \in Data
    BY <1>10, <2>1 DEF install_trans, HeadInv, DiskInv
  <2>3. pins' \in [Block -> 0..1]
    <3>1. ~Installed(tail + 1)
      BY <1>10 DEF install_trans, Installed
    <3>2. CASE committing
      <4>1. pins[lh[tail + 1]] = 1
        BY <2>1, <3>1, <3>2 DEF CacheInv, Booted
      <4> QED
        BY <1>10, <2>1, <3>2, <4>1 DEF install_trans, recovering, bunpin
    <3>3. CASE ~committing
      BY <1>10, <3>3 DEF install_trans, recovering
    <3> QED
      BY <3>2, <3>3
  <2>4. home' \in [Block -> Data \cup {Torn}] /\ cache' \in [Block -> Data \cup {NoBuf}]
    BY <1>10, <2>1, <2>2 DEF install_trans, InstallBlock
  <2> QED
    BY <1>10, <2>3, <2>4 DEF install_trans, Advance
<1>11. ASSUME erase PROVE TypeOK'
  BY <1>11 DEF erase
<1>12. ASSUME NEW b \in Block, evict(b) PROVE TypeOK'
  BY <1>12 DEF evict
<1>13. ASSUME crash PROVE TypeOK'
  <2>1. home' \in [Block -> Data \cup {Torn}]
    <3>1. CASE phase = "install_trans"
      <4>1. home' = home \/ home' = [home EXCEPT ![lh[tail + 1]] = Torn]
        BY <1>13, <3>1 DEF crash, Tear
      <4> QED
        BY ZenonT(40), <4>1
    <3>2. CASE phase # "install_trans"
      BY <1>13, <3>2 DEF crash
    <3> QED
      BY <3>1, <3>2
  <2>2. dlog' \in [1..(NLOG - 1) -> Data \cup {Torn}]
    <3>1. CASE phase = "write_log"
      <4>1. dlog' = dlog \/ dlog' = [dlog EXCEPT ![tail + 1] = Torn]
        BY <1>13, <3>1 DEF crash, Tear
      <4> QED
        BY <4>1
    <3>2. CASE phase # "write_log"
      BY <1>13, <3>2 DEF crash
    <3> QED
      BY <3>1, <3>2
  <2>3. /\ cache' \in [Block -> Data \cup {NoBuf}]
        /\ pins' \in [Block -> 0..1]
        /\ held' \in [Op -> Block \cup {NoBlock}]
        /\ wrote' \in [Op -> SUBSET Block]
    BY <1>13 DEF crash
  <2>4. pc' \in [Op -> {"idle", "asleep", "woken", "in_op", "log_write", "commit", "panic"}]
    BY <1>13 DEF crash
  <2>5. /\ dhead' \in Seq(Block) /\ lh' \in Seq(Block)
        /\ outstanding' \in Nat /\ tail' \in Nat /\ committing' \in BOOLEAN
    <3>1. /\ dhead' = dhead /\ lh' = <<>> /\ outstanding' = 0 /\ tail' = 0
          /\ committing' = FALSE
      BY <1>13 DEF crash
    <3>2. lh' \in Seq(Block)
      BY <3>1
    <3>3. committing' \in BOOLEAN
      BY ZenonT(40), <3>1
    <3> QED
      BY <3>1, <3>2, <3>3
  <2>6. phase' = "read_head"
    BY <1>13 DEF crash
  <2> QED
    BY <2>1, <2>2, <2>3, <2>4, <2>5, <2>6
<1>14. CASE UNCHANGED vars
  BY <1>14 DEF vars
<1> HIDE DEF LogInv, TypeOK, disk, bcache, proc
<1> QED
  BY <1>1, <1>2, <1>3, <1>4, <1>5, <1>6, <1>7, <1>8, <1>9, <1>10, <1>11, <1>12,
     <1>13, <1>14 DEF Next, LogIO

-----------------------------------------------------------------------------
(* A system call that is active is counted. *)
LEMMA ActiveCounted ==
  ASSUME LogInv, NEW p \in Active
  PROVE  outstanding \in Nat /\ outstanding > 0
<1>1. Cardinality(Active) \in Nat /\ Cardinality(Active) # 0
  BY LogFits, FS_CardinalityType, FS_EmptySet
<1> QED
  BY <1>1 DEF LogInv, ProcInv

(* A system call that changes a buffer stays in its system call, even if   *)
(* log_write() panics.                                                     *)
LEMMA ModifyActive ==
  ASSUME LogInv, NEW p \in Op, NEW b \in Block, NEW d \in Data, modify(p, b, d)
  PROVE  /\ p \in Active /\ phase = "up" /\ Active' = Active
         /\ pc[p] = "in_op" /\ pc'[p] \in {"log_write", "panic"}
         /\ pc' = [pc EXCEPT ![p] = pc'[p]]
<1>1. p \in Active /\ pc[p] = "in_op"
  BY DEF modify, Active
<1>2. PICK l \in {"log_write", "panic"} : pc' = [pc EXCEPT ![p] = l]
  BY Zenon DEF modify
<1>3. pc'[p] = l
  BY <1>2 DEF LogInv, TypeOK
<1> QED
  BY <1>1, <1>2, <1>3 DEF Active, LogInv, TypeOK, ProcInv

(* Log.outstanding counts the active system calls. *)
LEMMA CountStep == LogInv /\ [Next]_vars => outstanding' = Cardinality(Active')
<1> SUFFICES ASSUME LogInv, [Next]_vars PROVE outstanding' = Cardinality(Active')
  OBVIOUS
<1>0. outstanding = Cardinality(Active) /\ IsFiniteSet(Active)
  BY LogFits DEF LogInv, ProcInv
<1> USE DEF disk, bcache, proc
<1>a. ASSUME outstanding' = outstanding, Active' = Active
      PROVE  outstanding' = Cardinality(Active')
  BY <1>0, <1>a
<1>1. ASSUME NEW p \in Op, begin_op(p) PROVE outstanding' = Cardinality(Active')
  <2>1. CASE committing \/ LogFull
    <3>1. pc' = [pc EXCEPT ![p] = "asleep"] /\ pc[p] \in {"idle", "woken"} /\ outstanding' = outstanding
      BY <1>1, <2>1 DEF begin_op
    <3>2. Active' = Active
      BY <3>1 DEF Active, LogInv, TypeOK
    <3> QED
      BY <1>a, <3>1, <3>2
  <2>2. CASE ~(committing \/ LogFull)
    <3>1. pc' = [pc EXCEPT ![p] = "in_op"] /\ pc[p] \in {"idle", "woken"} /\ outstanding' = outstanding + 1
      BY <1>1, <2>2 DEF begin_op
    <3>2. Active' = Active \cup {p} /\ p \notin Active
      BY <3>1 DEF Active, LogInv, TypeOK
    <3> QED
      BY <1>0, <3>1, <3>2, FS_AddElement
  <2> QED
    BY <2>1, <2>2
<1>2. ASSUME NEW p \in Op, NEW b \in Block, NEW d \in Data, modify(p, b, d)
      PROVE  outstanding' = Cardinality(Active')
  <2>1. Active' = Active
    BY <1>2, ModifyActive
  <2> QED
    BY <1>a, <1>2, <2>1 DEF modify
<1>3. ASSUME NEW p \in Op, log_write(p)
      PROVE  outstanding' = Cardinality(Active')
  <2>1. Active' = Active
    BY <1>3 DEF log_write, Active, LogInv, TypeOK
  <2> QED
    BY <1>a, <1>3, <2>1 DEF log_write
<1>4. ASSUME NEW p \in Op, end_op(p) PROVE outstanding' = Cardinality(Active')
  <2>1. p \in Active /\ ~committing
    BY <1>4 DEF end_op, Active, LogInv, ProcInv
  <2>2. Active' = Active \ {p}
    BY <1>4, <2>1 DEF end_op, Wakeup, Active, LogInv, TypeOK
  <2> QED
    BY ZenonT(40), <1>0, <1>4, <2>1, <2>2, FS_RemoveElement DEF end_op
<1>5. ASSUME NEW p \in Op, end_commit(p)
      PROVE  outstanding' = Cardinality(Active')
  <2>1. Active' = Active
    BY <1>5 DEF end_commit, Wakeup, Active, LogInv, TypeOK
  <2> QED
    BY <1>a, <1>5, <2>1 DEF end_commit
<1>6. ASSUME NEW p \in Op, kill(p) PROVE outstanding' = Cardinality(Active')
  <2>1. Active' = Active
    BY <1>6 DEF kill, Active, LogInv, TypeOK
  <2> QED
    BY <1>a, <1>6, <2>1 DEF kill
<1>7. ASSUME LogIO PROVE outstanding' = Cardinality(Active')
  <2>1. pc' = pc /\ outstanding' = outstanding
    BY <1>7 DEF LogIO, write_log, write_head, read_head, install_trans, erase
  <2> QED
    BY <1>a, <2>1 DEF Active
<1>8. ASSUME NEW b \in Block, evict(b) PROVE outstanding' = Cardinality(Active')
  BY <1>a, <1>8 DEF evict, Active
<1>9. ASSUME crash PROVE outstanding' = Cardinality(Active')
  <2>1. outstanding' = 0 /\ pc' = [p \in Op |-> "idle"]
    BY <1>9 DEF crash
  <2>2. Active' = {}
    BY <2>1 DEF Active
  <2> QED
    BY <2>1, <2>2, FS_EmptySet
<1>10. CASE UNCHANGED vars
  BY <1>a, <1>10 DEF vars, Active
<1> QED
  BY <1>1, <1>2, <1>3, <1>4, <1>5, <1>6, <1>7, <1>8, <1>9, <1>10 DEF Next

(* Every action keeps the processes where the phase of the log allows.     *)
LEMMA ProcStep == LogInv /\ [Next]_vars => ProcInv'
<1> SUFFICES ASSUME LogInv, [Next]_vars PROVE ProcInv'
  OBVIOUS
<1>0. outstanding' = Cardinality(Active')
  BY CountStep
<1> USE DEF LogInv, TypeOK, ProcInv, Active, Booted, disk, bcache, proc
<1>1. ASSUME NEW p \in Op, begin_op(p) PROVE ProcInv'
  BY ZenonT(40), <1>0, <1>1, LogAssumption DEF begin_op
<1>2. ASSUME NEW p \in Op, NEW b \in Block, NEW d \in Data, modify(p, b, d)
      PROVE  ProcInv'
  <2>1. /\ pc' = [pc EXCEPT ![p] = pc'[p]] /\ pc'[p] \in {"log_write", "panic"}
        /\ pc[p] = "in_op" /\ phase = "up"
        /\ held' = [held EXCEPT ![p] = b] /\ \A q \in Op : held[q] # b
        /\ UNCHANGED <<outstanding, committing, phase>>
    BY ZenonT(40), <1>2, ModifyActive DEF modify
  <2> QED
    BY <1>0, <2>1, LogAssumption
<1>3. ASSUME NEW p \in Op, log_write(p) PROVE ProcInv'
  BY <1>0, <1>3, LogAssumption DEF log_write
<1>4. ASSUME NEW p \in Op, end_op(p) PROVE ProcInv'
  <2>1. /\ p \in Active /\ phase = "up" /\ ~committing /\ pc[p] = "in_op"
        /\ held' = held
    BY <1>4 DEF end_op
  <2>2. CASE outstanding = 1
    <3>1. /\ committing' = TRUE /\ phase' \in {"write_log", "committed"}
          /\ pc' = [pc EXCEPT ![p] = "commit"] /\ outstanding' = 0
      BY <1>4, <2>1, <2>2 DEF end_op
    <3>2. Active' = {}
      <4>1. Active' \subseteq Active
        BY <2>1, <3>1
      <4>2. IsFiniteSet(Active')
        BY <4>1, LogFits, FS_Subset
      <4> QED
        BY ZenonT(40), <1>0, <3>1, <4>2, FS_EmptySet
    <3> QED
      BY <1>0, <2>1, <3>1, <3>2, LogAssumption
  <2>3. CASE outstanding # 1
    <3>1. /\ UNCHANGED <<committing, phase>>
          /\ pc' = [q \in Op |-> IF q = p THEN "idle" ELSE IF pc[q] = "asleep" THEN "woken" ELSE pc[q]]
      BY <1>4, <2>1, <2>3 DEF end_op, Wakeup
    <3> QED
      BY <1>0, <2>1, <3>1, LogAssumption
  <2> QED
    BY Zenon, <2>2, <2>3
<1>5. ASSUME NEW p \in Op, end_commit(p) PROVE ProcInv'
  BY <1>0, <1>5, LogAssumption DEF end_commit, Wakeup
<1>6. ASSUME NEW p \in Op, kill(p) PROVE ProcInv'
  BY ZenonT(40), <1>0, <1>6, LogAssumption DEF kill
<1>7. ASSUME LogIO PROVE ProcInv'
  BY <1>0, <1>7, LogAssumption DEF LogIO, write_log, write_head, read_head,
     install_trans, erase, Advance, recovering
<1>8. ASSUME NEW b \in Block, evict(b) PROVE ProcInv'
  BY <1>0, <1>8 DEF evict
<1>9. ASSUME crash PROVE ProcInv'
  BY Zenon, <1>0, <1>9, LogAssumption DEF crash
<1>10. CASE UNCHANGED vars
  BY <1>0, <1>10 DEF vars
<1> HIDE DEF LogInv, TypeOK, ProcInv, Active, Booted, disk, bcache, proc
<1> QED
  BY <1>1, <1>2, <1>3, <1>4, <1>5, <1>6, <1>7, <1>8, <1>9, <1>10 DEF Next

-----------------------------------------------------------------------------
(* What log_write() adds to the blocks its system call has logged. *)
LEMMA LogWriteCounts ==
  ASSUME LogInv, NEW p \in Op, log_write(p)
  PROVE  /\ p \in Active /\ Active' = Active /\ held[p] \in Block
         /\ Logged \subseteq Logged' /\ held[p] \in Logged'
         /\ wrote' = [wrote EXCEPT ![p] = wrote[p] \cup {held[p]}]
         /\ IsFiniteSet(wrote'[p]) /\ Cardinality(wrote'[p]) <= OPBLOCKS
         /\ Cardinality(wrote[p]) \in Nat /\ Cardinality(wrote'[p]) \in Nat
         /\ IF held[p] \in wrote[p]
              THEN lh' = lh /\ wrote' = wrote
              ELSE Cardinality(wrote'[p]) = Cardinality(wrote[p]) + 1
<1>1. /\ p \in Active /\ Active' = Active /\ held[p] \in Block
      /\ wrote' = [wrote EXCEPT ![p] = wrote[p] \cup {held[p]}]
      /\ wrote'[p] = wrote[p] \cup {held[p]} /\ lh \in Seq(Block)
  BY DEF log_write, Active, LogInv, ProcInv, TypeOK
<1>2. Logged \subseteq Logged' /\ held[p] \in Logged'
  <2>1. CASE held[p] \in Logged
    BY Zenon, <2>1 DEF log_write, Logged
  <2>2. CASE held[p] \notin Logged
    <3>0. lh' = Append(lh, held[p])
      BY Zenon, <2>2 DEF log_write
    <3>1. /\ Len(lh') = Len(lh) + 1 /\ Len(lh) \in Nat
          /\ lh'[Len(lh) + 1] = held[p] /\ \A i \in 1..Len(lh) : lh'[i] = lh[i]
      BY <1>1, <3>0
    <3>2. \A i \in 1..Len(lh) : i \in 1..Len(lh') /\ lh'[i] = lh[i]
      BY <3>1
    <3>3. Len(lh) + 1 \in 1..Len(lh')
      BY <3>1
    <3> QED
      BY Zenon, <3>1, <3>2, <3>3 DEF Logged
  <2> QED
    BY <2>1, <2>2
<1>3. IsFiniteSet(wrote[p]) /\ wrote[p] \subseteq Logged
  BY <1>1 DEF LogInv, WroteInv
<1>4. Cardinality(wrote[p]) \in Nat
  BY <1>3, FS_CardinalityType
<1>5. CASE held[p] \in wrote[p]
  <2>0. wrote[p] \cup {held[p]} = wrote[p]
    BY Zenon, <1>5
  <2>1. held[p] \in Logged /\ wrote'[p] = wrote[p]
    BY Zenon, <1>1, <1>3, <1>5, <2>0
  <2>2. lh' = lh /\ wrote' = wrote
    BY <1>1, <2>1 DEF log_write, LogInv, TypeOK
  <2>3. Cardinality(wrote[p]) <= OPBLOCKS
    BY <1>5 DEF LogInv, WroteInv
  <2> QED
    BY <1>1, <1>2, <1>3, <1>4, <1>5, <2>1, <2>2, <2>3
<1>6. CASE held[p] \notin wrote[p]
  <2>1. IsFiniteSet(wrote'[p]) /\ Cardinality(wrote'[p]) = Cardinality(wrote[p]) + 1
    BY <1>1, <1>3, <1>6, FS_AddElement
  <2>2. Cardinality(wrote[p]) < OPBLOCKS
    BY <1>1, <1>6, LogAssumption DEF LogInv, WroteInv
  <2> QED
    BY <1>1, <1>2, <1>3, <1>4, <1>6, <2>1, <2>2, LogAssumption
<1> QED
  BY <1>5, <1>6

(* While a commit or a recovery runs, no system call has logged anything. *)
LEMMA NobodyWrote ==
  ASSUME LogInv, phase # "up"
  PROVE  Active = {} /\ \A p \in Op : wrote[p] = {}
<1>1. Active = {}
  BY DEF LogInv, ProcInv, Active
<1> QED
  BY <1>1 DEF LogInv, WroteInv

(* Every action keeps what the active system calls have logged in the log. *)
LEMMA WroteStep == LogInv /\ [Next]_vars => WroteInv'
<1> SUFFICES ASSUME LogInv, [Next]_vars PROVE WroteInv'
  OBVIOUS
<1>0. WroteInv
  BY DEF LogInv
<1> USE DEF disk, bcache, proc
<1>a. ASSUME wrote' = wrote, held' = held, lh' = lh, Active' = Active PROVE WroteInv'
  BY <1>0, <1>a DEF WroteInv, Logged
<1>1. ASSUME NEW p \in Op, begin_op(p) PROVE WroteInv'
  <2>1. /\ pc[p] \in {"idle", "woken"} /\ p \notin Active /\ Active \subseteq Active'
        /\ UNCHANGED <<wrote, held, lh>> /\ \A q \in Op : q \in Active' => q \in Active \/ q = p
    BY <1>1 DEF begin_op, Active, LogInv, TypeOK
  <2>2. wrote[p] = {}
    BY <1>0, <2>1 DEF WroteInv
  <2> QED
    BY <1>0, <2>1, <2>2 DEF WroteInv, Logged
<1>2. ASSUME NEW p \in Op, NEW b \in Block, NEW d \in Data, modify(p, b, d)
      PROVE  WroteInv'
  <2>1. /\ Active' = Active /\ wrote' = wrote /\ lh' = lh /\ p \in Active
        /\ held' = [held EXCEPT ![p] = b] /\ Cardinality(wrote[p] \cup {b}) <= OPBLOCKS
    BY ZenonT(40), <1>2, ModifyActive DEF modify
  <2>2. IsFiniteSet(wrote[p]) /\ held'[p] = b /\ \A q \in Op : q # p => held'[q] = held[q]
    BY <1>0, <2>1 DEF WroteInv, LogInv, TypeOK
  <2>3. Cardinality(wrote[p]) \in Nat
    BY <2>2, FS_CardinalityType
  <2>4. IF b \in wrote[p] THEN Cardinality(wrote[p]) <= OPBLOCKS ELSE Cardinality(wrote[p]) < OPBLOCKS
    <3>1. CASE b \in wrote[p]
      <4>1. wrote[p] \cup {b} = wrote[p]
        BY <3>1
      <4> QED
        BY <2>1, <3>1, <4>1
    <3>2. CASE b \notin wrote[p]
      <4>1. Cardinality(wrote[p] \cup {b}) = Cardinality(wrote[p]) + 1
        BY Zenon, <2>2, <3>2, FS_AddElement
      <4> QED
        BY <2>1, <2>3, <3>2, <4>1, LogAssumption
    <3> QED
      BY <3>1, <3>2
  <2>5. b # NoBlock
    BY LogAssumption
  <2> QED
    BY <1>0, <2>1, <2>2, <2>4, <2>5 DEF WroteInv, Logged
<1>3. ASSUME NEW p \in Op, log_write(p) PROVE WroteInv'
  <2>1. /\ p \in Active /\ Active' = Active /\ Logged \subseteq Logged' /\ held[p] \in Logged'
        /\ wrote' = [wrote EXCEPT ![p] = wrote[p] \cup {held[p]}]
        /\ IsFiniteSet(wrote'[p]) /\ Cardinality(wrote'[p]) <= OPBLOCKS
    BY <1>3, LogWriteCounts
  <2>2. held' = [held EXCEPT ![p] = NoBlock]
    BY <1>3 DEF log_write
  <2>3. \A q \in Op : q # p => wrote'[q] = wrote[q] /\ held'[q] = held[q]
    BY <2>1, <2>2 DEF LogInv, TypeOK
  <2>4. wrote'[p] = wrote[p] \cup {held[p]} /\ held'[p] = NoBlock
    BY <2>1, <2>2 DEF LogInv, TypeOK
  <2> QED
    BY <1>0, <2>1, <2>3, <2>4 DEF WroteInv
<1>4. ASSUME NEW p \in Op, end_op(p) PROVE WroteInv'
  <2>1. /\ pc[p] = "in_op" /\ ~committing /\ wrote' = [wrote EXCEPT ![p] = {}]
        /\ lh' = lh /\ held' = held
    BY <1>4 DEF end_op, LogInv, ProcInv, Active
  <2>2. Active' = Active \ {p}
    BY <1>4, <2>1 DEF end_op, Wakeup, Active, LogInv, TypeOK
  <2>3. held[p] = NoBlock
    BY <2>1 DEF LogInv, ProcInv
  <2>4. IsFiniteSet({}) /\ Cardinality({}) = 0
    BY FS_EmptySet
  <2> QED
    BY <1>0, <2>1, <2>2, <2>3, <2>4, LogAssumption DEF WroteInv, Logged, LogInv, TypeOK
<1>5. ASSUME NEW p \in Op, end_commit(p) PROVE WroteInv'
  <2>1. Active' = Active /\ wrote' = wrote /\ lh' = lh /\ held' = held
    BY <1>5 DEF end_commit, Wakeup, Active, LogInv, TypeOK
  <2> QED
    BY <1>a, <2>1
<1>6. ASSUME NEW p \in Op, kill(p) PROVE WroteInv'
  <2>1. Active' = Active /\ wrote' = wrote /\ lh' = lh /\ held' = held
    BY <1>6 DEF kill, Active, LogInv, TypeOK
  <2> QED
    BY <1>a, <2>1
<1>7. ASSUME LogIO PROVE WroteInv'
  <2>1. phase # "up" /\ wrote' = wrote /\ held' = held /\ pc' = pc
    BY <1>7 DEF LogIO, write_log, write_head, read_head, install_trans, erase
  <2>2. Active' = {} /\ \A p \in Op : wrote'[p] = {}
    BY <2>1, NobodyWrote DEF Active
  <2> QED
    BY <1>0, <2>1, <2>2 DEF WroteInv
<1>8. ASSUME NEW b \in Block, evict(b) PROVE WroteInv'
  BY <1>a, <1>8 DEF evict, Active
<1>9. ASSUME crash PROVE WroteInv'
  <2>1. /\ wrote' = [p \in Op |-> {}] /\ held' = [p \in Op |-> NoBlock]
    BY <1>9 DEF crash
  <2>2. IsFiniteSet({}) /\ Cardinality({}) = 0
    BY FS_EmptySet
  <2> QED
    BY <2>1, <2>2, LogAssumption DEF WroteInv
<1>10. CASE UNCHANGED vars
  BY <1>a, <1>10 DEF vars, Active
<1> QED
  BY <1>1, <1>2, <1>3, <1>4, <1>5, <1>6, <1>7, <1>8, <1>9, <1>10 DEF Next

-----------------------------------------------------------------------------
(* Reservations: the blocks logged and those that may still be logged fit. *)
LEMMA SpaceStep == LogInv /\ [Next]_vars => SpaceInv'
<1> SUFFICES ASSUME LogInv, [Next]_vars PROVE SpaceInv'
  OBVIOUS
<1>0. /\ IsFiniteSet(Tokens) /\ Cardinality(Tokens) \in Nat /\ Len(lh) \in Nat
      /\ Cardinality(Tokens) + Len(lh) <= LOGSIZE /\ LOGSIZE \in Nat
      /\ Slack + Len(lh) <= LOGSIZE /\ Slack \in Nat
  BY LogFits, LogAssumption DEF LogInv, SpaceInv
<1> USE DEF disk, bcache, proc
<1>a. ASSUME Tokens' \subseteq Tokens, Len(lh') \in Nat, Len(lh') <= Len(lh)
      PROVE  SpaceInv'
  <2>1. IsFiniteSet(Tokens') /\ Cardinality(Tokens') <= Cardinality(Tokens)
    BY <1>0, <1>a, FS_Subset
  <2>2. Cardinality(Tokens') \in Nat
    BY <2>1, FS_CardinalityType
  <2> QED
    BY <1>0, <1>a, <2>1, <2>2 DEF SpaceInv
<1>b. ASSUME pc' = pc, wrote' = wrote PROVE Tokens' \subseteq Tokens
  BY <1>b DEF Tokens, Active
<1>1. ASSUME NEW p \in Op, begin_op(p) PROVE SpaceInv'
  <2>1. CASE committing \/ LogFull
    <3>1. pc' = [pc EXCEPT ![p] = "asleep"] /\ wrote' = wrote /\ lh' = lh
      BY <1>1, <2>1 DEF begin_op
    <3>2. Tokens' \subseteq Tokens
      BY <3>1 DEF Tokens, Active, LogInv, TypeOK
    <3> QED
      BY <1>0, <1>a, <3>1, <3>2
  <2>2. CASE ~(committing \/ LogFull)
    <3>1. outstanding' = outstanding + 1 /\ lh' = lh /\ ~LogFull
      BY <1>1, <2>2 DEF begin_op
    <3>2. IsFiniteSet(Active') /\ Cardinality(Active') = outstanding + 1 /\ outstanding \in Nat
      <4>1. IsFiniteSet(Active')
        BY FS_Subset, LogAssumption DEF Active
      <4> QED
        BY <3>1, <4>1, CountStep DEF LogInv, TypeOK
    <3>3. IsFiniteSet(1..MAXOPBLOCKS) /\ Cardinality(1..MAXOPBLOCKS) = MAXOPBLOCKS
      BY FS_Interval, LogAssumption
    <3>4. /\ IsFiniteSet(Active' \X (1..MAXOPBLOCKS))
          /\ Cardinality(Active' \X (1..MAXOPBLOCKS)) = (outstanding + 1) * MAXOPBLOCKS
      BY ZenonT(40), <3>2, <3>3, FS_Product
    <3>5. Tokens' \in SUBSET (Active' \X (1..MAXOPBLOCKS))
      BY DEF Tokens
    <3>6. /\ IsFiniteSet(Tokens')
          /\ Cardinality(Tokens') <= (outstanding + 1) * MAXOPBLOCKS
      BY <3>4, <3>5, FS_Subset
    <3>7. Cardinality(Tokens') \in Nat
      BY <3>6, FS_CardinalityType
    <3>8. /\ (outstanding + 1) * MAXOPBLOCKS \in Nat
          /\ Len(lh) + (outstanding + 1) * MAXOPBLOCKS <= LOGSIZE
      BY <1>0, <3>1, <3>2, LogAssumption DEF LogFull
    <3> QED
      BY <1>0, <3>1, <3>6, <3>7, <3>8 DEF SpaceInv
  <2> QED
    BY <2>1, <2>2
<1>2. ASSUME NEW p \in Op, NEW b \in Block, NEW d \in Data, modify(p, b, d)
      PROVE  SpaceInv'
  <2>1. Tokens' \subseteq Tokens
    <3>1. Active' = Active /\ wrote' = wrote
      BY ZenonT(40), <1>2, ModifyActive DEF modify
    <3> QED
      BY <3>1 DEF Tokens
  <2> QED
    BY <1>0, <1>2, <1>a, <2>1 DEF modify
<1>3. ASSUME NEW p \in Op, log_write(p) PROVE SpaceInv'
  <2>0. p \in Active /\ Active' = Active
    BY <1>3, LogWriteCounts
  <2>1. CASE held[p] \in wrote[p]
    <3>1. lh' = lh /\ wrote' = wrote
      BY <1>3, <2>1, LogWriteCounts
    <3>2. Tokens' \subseteq Tokens
      BY <2>0, <3>1 DEF Tokens
    <3> QED
      BY <1>0, <1>a, <3>1, <3>2
  <2>2. CASE held[p] \notin wrote[p]
    <3> DEFINE n == MAXOPBLOCKS - Cardinality(wrote[p])
    <3>1. /\ Cardinality(wrote[p]) \in Nat /\ Cardinality(wrote'[p]) = Cardinality(wrote[p]) + 1
          /\ wrote' = [wrote EXCEPT ![p] = wrote[p] \cup {held[p]}]
          /\ Cardinality(wrote'[p]) <= OPBLOCKS /\ held[p] \in Block
      BY <1>3, <2>2, LogWriteCounts
    <3>2. n \in 1..MAXOPBLOCKS /\ n >= Slack + 1 /\ n + Cardinality(wrote[p]) = MAXOPBLOCKS
      BY <3>1, LogAssumption DEF Slack
    <3>3. \A q \in Op : q # p => wrote'[q] = wrote[q]
      BY <3>1 DEF LogInv, TypeOK
    <3>4. ~(n + Cardinality(wrote'[p]) <= MAXOPBLOCKS)
      BY <3>1, <3>2, LogAssumption
    <3>5. \A i \in 1..MAXOPBLOCKS : i + Cardinality(wrote'[p]) <= MAXOPBLOCKS =>
                                    i + Cardinality(wrote[p]) <= MAXOPBLOCKS
      BY <3>1, LogAssumption
    <3> HIDE DEF n
    <3>6. Tokens' \subseteq Tokens \ {<<p, n>>}
      <4> SUFFICES ASSUME NEW t \in Tokens' PROVE t \in Tokens /\ t # <<p, n>>
        OBVIOUS
      <4>1. /\ t \in Op \X (1..MAXOPBLOCKS) /\ t[1] \in Active /\ t[1] \in Op /\ t[2] \in 1..MAXOPBLOCKS
            /\ t[2] + Cardinality(wrote'[t[1]]) <= MAXOPBLOCKS
        BY <2>0 DEF Tokens
      <4>2. t[2] + Cardinality(wrote[t[1]]) <= MAXOPBLOCKS
        BY <3>3, <3>5, <4>1
      <4> QED
        BY <3>4, <4>1, <4>2 DEF Tokens
    <3>7. <<p, n>> \in Tokens
      BY <2>0, <3>1, <3>2, LogAssumption DEF Tokens
    <3>8. /\ IsFiniteSet(Tokens \ {<<p, n>>})
          /\ Cardinality(Tokens \ {<<p, n>>}) = Cardinality(Tokens) - 1
      BY ZenonT(40), <1>0, <3>7, FS_RemoveElement
    <3>9. IsFiniteSet(Tokens') /\ Cardinality(Tokens') <= Cardinality(Tokens) - 1
      BY <3>6, <3>8, FS_Subset
    <3>10. Cardinality(Tokens') \in Nat
      BY <3>9, FS_CardinalityType
    <3>11. Len(lh') \in Nat /\ Len(lh') <= Len(lh) + 1
      <4>1. lh' = lh \/ lh' = Append(lh, held[p])
        BY <1>3 DEF log_write
      <4> QED
        BY <1>0, <3>1, <4>1 DEF LogInv, TypeOK
    <3>12. Cardinality(Tokens) >= n
      <4>1. {p} \X (1..n) \in SUBSET Tokens
        BY <2>0, <3>1, <3>2, LogAssumption DEF Tokens
      <4>2. IsFiniteSet(1..n) /\ Cardinality(1..n) = n
        BY <3>2, FS_Interval
      <4>3. IsFiniteSet({p}) /\ Cardinality({p}) = 1
        BY Zenon, FS_Singleton
      <4>4. Cardinality({p} \X (1..n)) = 1 * n
        BY ZenonT(40), <4>2, <4>3, FS_Product
      <4>5. Cardinality({p} \X (1..n)) <= Cardinality(Tokens)
        BY <1>0, <4>1, FS_Subset
      <4> QED
        BY <3>2, <4>4, <4>5
    <3> QED
      BY <1>0, <3>2, <3>9, <3>10, <3>11, <3>12 DEF SpaceInv
  <2> QED
    BY <2>1, <2>2
<1>4. ASSUME NEW p \in Op, end_op(p) PROVE SpaceInv'
  <2>1. pc[p] = "in_op" /\ ~committing /\ wrote' = [wrote EXCEPT ![p] = {}] /\ lh' = lh
    BY <1>4 DEF end_op, LogInv, ProcInv, Active
  <2>2. Active' = Active \ {p}
    BY <1>4, <2>1 DEF end_op, Wakeup, Active, LogInv, TypeOK
  <2>3. Tokens' \subseteq Tokens
    <3>1. \A q \in Active' : wrote'[q] = wrote[q] /\ q \in Active
      BY <2>1, <2>2 DEF Active, LogInv, TypeOK
    <3> QED
      BY <3>1 DEF Tokens
  <2> QED
    BY <1>0, <1>a, <2>1, <2>3
<1>5. ASSUME NEW p \in Op, end_commit(p) PROVE SpaceInv'
  <2>1. Active' \subseteq Active /\ wrote' = wrote /\ lh' = lh
    BY <1>5 DEF end_commit, Wakeup, Active, LogInv, TypeOK
  <2>2. Tokens' \subseteq Tokens
    BY <2>1 DEF Tokens
  <2> QED
    BY <1>0, <1>a, <2>1, <2>2
<1>6. ASSUME NEW p \in Op, kill(p) PROVE SpaceInv'
  <2>1. Active' \subseteq Active /\ wrote' = wrote /\ lh' = lh
    BY <1>6 DEF kill, Active, LogInv, TypeOK
  <2>2. Tokens' \subseteq Tokens
    BY <2>1 DEF Tokens
  <2> QED
    BY <1>0, <1>a, <2>1, <2>2
<1>7. ASSUME write_log \/ write_head \/ install_trans PROVE SpaceInv'
  <2>1. pc' = pc /\ wrote' = wrote /\ lh' = lh
    BY <1>7 DEF write_log, write_head, install_trans
  <2> QED
    BY <1>0, <1>a, <1>b, <2>1
<1>8. ASSUME read_head PROVE SpaceInv'
  <2>1. Tokens' = {}
    <3>1. Active' = {}
      BY <1>8, NobodyWrote DEF read_head, Active
    <3> QED
      BY <3>1 DEF Tokens
  <2>2. Cardinality(Tokens') = 0
    BY <2>1, FS_EmptySet
  <2> QED
    BY <1>0, <1>8, <2>2 DEF read_head, SpaceInv, LogInv, TypeOK, HeadInv
<1>9. ASSUME erase PROVE SpaceInv'
  <2>1. pc' = pc /\ wrote' = wrote /\ lh' = <<>>
    BY <1>9 DEF erase
  <2> QED
    BY <1>0, <1>a, <1>b, <2>1
<1>10. ASSUME NEW b \in Block, evict(b) PROVE SpaceInv'
  <2>1. pc' = pc /\ wrote' = wrote /\ lh' = lh
    BY <1>10 DEF evict
  <2> QED
    BY <1>0, <1>a, <1>b, <2>1
<1>11. ASSUME crash PROVE SpaceInv'
  <2>1. pc' = [p \in Op |-> "idle"] /\ lh' = <<>>
    BY <1>11 DEF crash
  <2>2. Tokens' = {}
    BY <2>1 DEF Tokens, Active
  <2> QED
    BY <1>0, <1>a, <2>1, <2>2
<1>12. CASE UNCHANGED vars
  <2>1. pc' = pc /\ wrote' = wrote /\ lh' = lh
    BY <1>12 DEF vars
  <2> QED
    BY <1>0, <1>a, <1>b, <2>1
<1> QED
  BY <1>1, <1>2, <1>3, <1>4, <1>5, <1>6, <1>7, <1>8, <1>9, <1>10, <1>11, <1>12
  DEF Next, LogIO

-----------------------------------------------------------------------------
(* What log_write() does to the log, element by element. *)
LEMMA LogWriteAppends ==
  ASSUME LogInv, NEW p \in Op, log_write(p), held[p] \notin Logged
  PROVE  /\ held[p] \in Block /\ phase = "up" /\ ~committing
         /\ lh' = Append(lh, held[p]) /\ lh' \in Seq(Block) /\ Len(lh') = Len(lh) + 1
         /\ \A i \in 1..Len(lh) : lh'[i] = lh[i] /\ lh[i] # held[p]
         /\ lh'[Len(lh) + 1] = held[p]
<1>1. held[p] \in Block /\ phase = "up" /\ ~committing
  BY DEF log_write, LogInv, ProcInv, Active, TypeOK
<1>2. lh' = Append(lh, held[p]) /\ lh \in Seq(Block)
  BY DEF log_write, LogInv, TypeOK
<1>3. \A i \in 1..Len(lh) : lh[i] # held[p]
  BY DEF Logged
<1> QED
  BY <1>1, <1>2, <1>3

(* Every action keeps the header on disk empty or equal to that in memory. *)
LEMMA HeadStep == LogInv /\ [Next]_vars => HeadInv'
<1> SUFFICES ASSUME LogInv, [Next]_vars PROVE HeadInv'
  OBVIOUS
<1> USE DEF LogInv, TypeOK, HeadInv, disk, bcache, proc
<1>1. ASSUME NEW p \in Op, begin_op(p) PROVE HeadInv'
  BY <1>1 DEF begin_op
<1>2. ASSUME NEW p \in Op, NEW b \in Block, NEW d \in Data, modify(p, b, d)
      PROVE  HeadInv'
  BY <1>2 DEF modify
<1>3. ASSUME NEW p \in Op, log_write(p) PROVE HeadInv'
  <2>1. p \in Active /\ phase = "up" /\ UNCHANGED <<phase, dhead, tail, outstanding>>
    BY <1>3 DEF log_write, ProcInv, Active
  <2>2. outstanding # 0
    BY <2>1, ActiveCounted
  <2>3. CASE held[p] \in Logged
    BY <1>3, <2>1, <2>3 DEF log_write
  <2>4. CASE held[p] \notin Logged
    <3>1. \A i, j \in 1..Len(lh') : lh'[i] = lh'[j] => i = j
      <4>1. /\ Len(lh) \in Nat /\ Len(lh') = Len(lh) + 1 /\ lh'[Len(lh) + 1] = held[p]
            /\ \A i \in 1..Len(lh) : lh'[i] = lh[i] /\ lh[i] # held[p]
        BY <1>3, <2>4, LogWriteAppends
      <4>2. \A i \in 1..Len(lh') : i \in 1..Len(lh) \/ i = Len(lh) + 1
        BY <4>1
      <4> QED
        BY ZenonT(40), <4>1, <4>2
    <3> QED
      BY <2>1, <2>2, <3>1
  <2> QED
    BY <2>3, <2>4
<1>4. ASSUME NEW p \in Op, end_op(p) PROVE HeadInv'
  <2>1. p \in Active /\ phase = "up" /\ ~committing /\ UNCHANGED <<dhead, lh, tail>>
    BY <1>4 DEF end_op, ProcInv, Active
  <2>2. CASE outstanding = 1
    <3>1. phase' = IF Len(lh) > 0 THEN "write_log" ELSE "committed"
      BY <1>4, <2>1, <2>2 DEF end_op, SomethingToCommit
    <3> QED
      BY <2>1, <3>1
  <2>3. CASE outstanding # 1
    <3>1. outstanding' # 0 /\ phase' = phase
      BY <1>4, <2>1, <2>3 DEF end_op
    <3> QED
      BY <2>1, <3>1
  <2> QED
    BY <2>2, <2>3
<1>5. ASSUME NEW p \in Op, end_commit(p) PROVE HeadInv'
  BY <1>5 DEF end_commit
<1>6. ASSUME NEW p \in Op, kill(p) PROVE HeadInv'
  BY <1>6 DEF kill
<1>7. ASSUME write_log PROVE HeadInv'
  BY <1>7 DEF write_log, Advance
<1>8. ASSUME write_head PROVE HeadInv'
  BY <1>8, LogFits DEF write_head
<1>9. ASSUME read_head PROVE HeadInv'
  BY <1>9 DEF read_head
<1>10. ASSUME install_trans PROVE HeadInv'
  BY <1>10 DEF install_trans, Advance
<1>11. ASSUME erase PROVE HeadInv'
  BY <1>11, LogAssumption DEF erase, Slack
<1>12. ASSUME NEW b \in Block, evict(b) PROVE HeadInv'
  BY <1>12 DEF evict
<1>13. ASSUME crash PROVE HeadInv'
  <2>1. dhead' = dhead /\ lh' = <<>> /\ phase' = "read_head" /\ tail' = 0
    BY <1>13 DEF crash
  <2> QED
    BY <2>1
<1>14. CASE UNCHANGED vars
  BY <1>14 DEF vars
<1> HIDE DEF LogInv, TypeOK, HeadInv, disk, bcache, proc
<1> QED
  BY <1>1, <1>2, <1>3, <1>4, <1>5, <1>6, <1>7, <1>8, <1>9, <1>10, <1>11, <1>12,
     <1>13, <1>14 DEF Next, LogIO

=============================================================================
