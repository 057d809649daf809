----------------------------- MODULE LogProofs ------------------------------
(* The log: disk and cache, and the invariant of every size of it. *)
EXTENDS LogSpaceProofs

USE SMTT(90)

(* A write to a buffer the log does not cover changes no log block. *)
LEMMA DiskStep == LogInv /\ [Next]_vars => DiskInv'
<1> SUFFICES ASSUME LogInv, [Next]_vars PROVE DiskInv'
  OBVIOUS
<1>t. /\ home \in [Block -> Data \cup {Torn}] /\ dlog \in [1..(NLOG - 1) -> Data \cup {Torn}]
      /\ dhead \in Seq(Block) /\ lh \in Seq(Block) /\ tail \in Nat
      /\ cache \in [Block -> Data \cup {NoBuf}] /\ pins \in [Block -> 0..1]
      /\ held \in [Op -> Block \cup {NoBlock}]
  BY DEF LogInv, TypeOK
<1>i. DiskInv /\ ProcInv /\ HeadInv /\ CacheInv
  BY DEF LogInv
<1> USE <1>t, <1>i DEF DiskInv, Installed, Saved, Contents, Booted, disk, bcache, proc
<1>1. ASSUME NEW p \in Op, begin_op(p) PROVE DiskInv'
  BY <1>1 DEF begin_op
<1>2. ASSUME NEW p \in Op, NEW b \in Block, NEW d \in Data, modify(p, b, d)
      PROVE  DiskInv'
  <2>1. phase = "up"
    BY <1>2, ModifyActive
  <2> QED
    BY <1>2, <2>1 DEF modify, HeadInv
<1>3. ASSUME NEW p \in Op, log_write(p) PROVE DiskInv'
  <2>1. phase = "up"
    BY <1>3 DEF log_write, ProcInv, Active
  <2> QED
    BY <1>3, <2>1 DEF log_write, HeadInv
<1>4. ASSUME NEW p \in Op, end_op(p) PROVE DiskInv'
  <2>1. phase = "up" /\ ~committing
    BY <1>4 DEF end_op, ProcInv, Active
  <2>2. phase' \in {"up", "write_log", "committed"}
    BY <1>4, <2>1 DEF end_op
  <2> QED
    BY <1>4, <2>1, <2>2 DEF end_op, HeadInv
<1>5. ASSUME NEW p \in Op, end_commit(p) PROVE DiskInv'
  BY <1>5 DEF end_commit, HeadInv
<1>6. ASSUME NEW p \in Op, kill(p) PROVE DiskInv'
  BY Zenon, <1>6 DEF kill
<1>7. ASSUME write_log PROVE DiskInv'
  <2>1. /\ tail \in Nat /\ tail + 1 \in 1..Len(lh) /\ tail + 1 \in 1..(NLOG - 1)
        /\ lh[tail + 1] \in Block /\ dhead = <<>> /\ dhead' = <<>> /\ lh' = lh
        /\ \A i \in 1..Len(lh) : lh[i] \in Block
    BY <1>7, LogFits, LogAssumption DEF write_log, HeadInv
  <2>2. /\ dlog' = [dlog EXCEPT ![tail + 1] = Contents(lh[tail + 1])]
        /\ phase' \in {"write_log", "write_head"} /\ home' = home /\ committing' = committing
        /\ phase' = "write_log" => tail' = tail + 1
        /\ phase' = "write_head" => tail + 1 = Len(lh)
    BY <1>7 DEF write_log, Advance
  <2>3. \A b \in Block : Contents(b)' = Contents(b)
    BY <1>7, <2>1 DEF write_log
  <2>4. \A i \in 1..Len(lh) : Saved(i)' => i \in 1..(NLOG - 1) /\ i <= tail + 1
    BY <2>1, <2>2, LogFits, LogAssumption
  <2>5. \A i \in 1..Len(lh) : i <= tail => Saved(i)
    BY <1>7 DEF write_log
  <2>6. \A i \in 1..Len(lh) : Saved(i)' /\ Booted' => dlog'[i] = Contents(lh[i])
    <3> SUFFICES ASSUME NEW i \in 1..Len(lh), Saved(i)', Booted' PROVE dlog'[i] = Contents(lh[i])
      OBVIOUS
    <3>1. CASE i = tail + 1
      BY <2>1, <2>2, <3>1
    <3>2. CASE i # tail + 1
      <4>1. i <= tail /\ Saved(i) /\ Booted /\ i \in 1..(NLOG - 1)
        BY <1>7, <2>1, <2>4, <2>5, <3>2 DEF write_log, ProcInv
      <4>2. dlog[i] = Contents(lh[i])
        BY <4>1
      <4> QED
        BY <2>1, <2>2, <3>2, <4>1, <4>2
    <3> QED
      BY <3>1, <3>2
  <2>7. \A b \in Block : home'[b] \in Data
    BY <2>1, <2>2
  <2>8. \A i \in 1..Len(lh) : ~Installed(i)'
    BY <2>2
  <2>9. 1..Len(dhead') = {}
    BY <2>1
  <2> QED
    BY <2>1, <2>3, <2>6, <2>7, <2>8, <2>9
<1>8. ASSUME write_head PROVE DiskInv'
  <2>1. /\ phase = "write_head" /\ committing /\ dhead = <<>> /\ dhead' = lh /\ tail' = 0
        /\ phase' = "install_trans" /\ UNCHANGED <<home, dlog, cache, lh, committing>>
    BY <1>8 DEF write_head, HeadInv, ProcInv
  <2>2. \A b \in Block : home[b] \in Data /\ Contents(b) \in Data
    BY <2>1
  <2>3. \A i \in 1..Len(lh) : dlog[i] = Contents(lh[i]) /\ lh[i] \in Block
    BY <2>1
  <2>4. \A i \in 1..Len(lh) : dlog[i] \in Data
    BY ZenonT(40), <2>2, <2>3
  <2> QED
    BY <2>1, <2>2, <2>3, <2>4
<1>9. ASSUME read_head PROVE DiskInv'
  BY <1>9 DEF read_head, HeadInv, ProcInv
<1>10. ASSUME install_trans PROVE DiskInv'
  BY <1>10, LogFits DEF install_trans, InstallBlock, Advance, HeadInv
<1>11. ASSUME erase PROVE DiskInv'
  BY <1>11 DEF erase, HeadInv, recovering
<1>12. ASSUME NEW b \in Block, evict(b) PROVE DiskInv'
  BY <1>12 DEF evict, CacheInv
<1>13. ASSUME crash PROVE DiskInv'
  <2>1. dhead' = dhead /\ lh' = <<>> /\ phase' = "read_head" /\ committing' = FALSE
    BY <1>13 DEF crash
  <2>2. \A i \in 1..Len(dhead) : dlog'[i] = dlog[i]
    <3>1. CASE phase = "write_log"
      BY <3>1 DEF HeadInv
    <3>2. CASE phase # "write_log"
      BY <1>13, <3>2 DEF crash
    <3> QED
      BY <3>1, <3>2
  <2>3. \A b \in Block : home'[b] = home[b] \/ \E i \in 1..Len(dhead) : dhead[i] = b
    <3>1. CASE phase = "install_trans"
      <4>1. tail + 1 \in 1..Len(dhead) /\ dhead = lh
        BY <3>1 DEF HeadInv
      <4>2. home' = home \/ home' = [home EXCEPT ![lh[tail + 1]] = Torn]
        BY <1>13, <3>1 DEF crash, Tear
      <4> QED
        BY <4>1, <4>2
    <3>2. CASE phase # "install_trans"
      BY <1>13, <3>2 DEF crash
    <3> QED
      BY <3>1, <3>2
  <2> QED
    BY ZenonT(40), <2>1, <2>2, <2>3
<1>14. CASE UNCHANGED vars
  BY <1>14 DEF vars
<1> HIDE DEF DiskInv, Installed, Saved, Contents, Booted
<1> QED
  BY <1>1, <1>2, <1>3, <1>4, <1>5, <1>6, <1>7, <1>8, <1>9, <1>10, <1>11, <1>12,
     <1>13, <1>14 DEF Next, LogIO

(* Every action keeps the cache, the pins and the home blocks in step.     *)
LEMMA CacheStep == LogInv /\ [Next]_vars => CacheInv'
<1> SUFFICES ASSUME LogInv, [Next]_vars PROVE CacheInv'
  OBVIOUS
<1>t. /\ home \in [Block -> Data \cup {Torn}] /\ dlog \in [1..(NLOG - 1) -> Data \cup {Torn}]
      /\ dhead \in Seq(Block) /\ lh \in Seq(Block) /\ tail \in Nat
      /\ cache \in [Block -> Data \cup {NoBuf}] /\ pins \in [Block -> 0..1]
      /\ held \in [Op -> Block \cup {NoBlock}]
  BY DEF LogInv, TypeOK
<1>i. CacheInv /\ ProcInv /\ HeadInv /\ DiskInv
  BY DEF LogInv
<1> USE <1>t, <1>i DEF CacheInv, Logged, Installed, Booted, disk, bcache, proc
<1>1. ASSUME NEW p \in Op, begin_op(p) PROVE CacheInv'
  BY <1>1 DEF begin_op
<1>2. ASSUME NEW p \in Op, NEW b \in Block, NEW d \in Data, modify(p, b, d)
      PROVE  CacheInv'
  <2>1. /\ phase = "up" /\ cache' = [cache EXCEPT ![b] = d] /\ held' = [held EXCEPT ![p] = b]
        /\ held[p] = NoBlock /\ UNCHANGED <<home, pins, lh, phase, tail, committing>>
    BY ZenonT(40), <1>2, ModifyActive DEF modify, ProcInv
  <2>2. d # NoBuf /\ b # NoBlock
    BY LogAssumption
  <2>3. \A q \in Op : held'[q] = IF q = p THEN b ELSE held[q]
    BY <2>1
  <2>4. \A c \in Block : cache'[c] = IF c = b THEN d ELSE cache[c]
    BY <2>1
  <2>5. \A i \in 1..Len(lh) : lh[i] \in Block
    OBVIOUS
  <2>6. \A c \in Block : c \notin Logged' /\ (\A q \in Op : held'[q] # c) => cache'[c] \in {NoBuf, home'[c]}
    <3> SUFFICES ASSUME NEW c \in Block, c \notin Logged', \A q \in Op : held'[q] # c
                 PROVE  cache'[c] \in {NoBuf, home'[c]}
      OBVIOUS
    <3>1. c # b
      BY ZenonT(40), <2>3
    <3>2. \A q \in Op : held[q] # c
      BY <2>1, <2>3, LogAssumption
    <3>3. c \notin Logged
      BY <2>1
    <3> QED
      BY <2>1, <2>4, <3>1, <3>2, <3>3
  <2> QED
    BY <2>1, <2>2, <2>3, <2>4, <2>5, <2>6
<1>3. ASSUME NEW p \in Op, log_write(p) PROVE CacheInv'
  <2>1. /\ phase = "up" /\ UNCHANGED <<home, cache, phase, tail, committing>>
        /\ held[p] \in Block /\ held' = [held EXCEPT ![p] = NoBlock] /\ ~committing
    BY <1>3 DEF log_write, ProcInv, Active
  <2>2. \A q \in Op : held'[q] = IF q = p THEN NoBlock ELSE held[q]
    BY <2>1
  <2>3. cache[held[p]] # NoBuf
    BY <2>1, LogAssumption
  <2>4. CASE held[p] \in Logged
    <3>1. lh' = lh /\ pins' = pins
      BY <1>3, <2>4 DEF log_write
    <3> QED
      BY <2>1, <2>2, <2>4, <3>1
  <2>5. CASE held[p] \notin Logged
    <3>1. /\ Len(lh) \in Nat /\ Len(lh') = Len(lh) + 1 /\ lh'[Len(lh) + 1] = held[p]
          /\ \A i \in 1..Len(lh) : lh'[i] = lh[i] /\ lh[i] # held[p] /\ lh[i] \in Block
      BY <1>3, <2>5, LogWriteAppends
    <3>2. \A c \in Block : pins'[c] = IF c = held[p] THEN pins[c] + 1 ELSE pins[c]
      BY <1>3, <2>1, <2>5 DEF log_write, bpin
    <3>3. \A i \in 1..Len(lh') : i \in 1..Len(lh) \/ i = Len(lh) + 1
      BY <3>1
    <3>4. Logged' = Logged \cup {held[p]}
      <4>1. ASSUME NEW c \in Logged' PROVE c \in Logged \cup {held[p]}
        <5>1. PICK i \in 1..Len(lh') : c = lh'[i]
          OBVIOUS
        <5>2. i \in 1..Len(lh) \/ i = Len(lh) + 1
          BY <3>3
        <5> QED
          BY <3>1, <5>1, <5>2
      <4>2. Logged \subseteq Logged'
        BY <3>1
      <4>3. held[p] \in Logged'
        <5>1. Len(lh) + 1 \in 1..Len(lh')
          BY <3>1
        <5> QED
          BY ZenonT(40), <3>1, <5>1
      <4> QED
        BY ZenonT(40), <4>1, <4>2, <4>3
    <3>5. \A c \in Block : /\ c \notin Logged' => pins'[c] = 0
                           /\ c \notin Logged' /\ (\A q \in Op : held'[q] # c)
                                => cache'[c] \in {NoBuf, home'[c]}
      <4> SUFFICES ASSUME NEW c \in Block, c \notin Logged, c # held[p]
                   PROVE  /\ pins'[c] = 0
                          /\ (\A q \in Op : held'[q] # c) => cache[c] \in {NoBuf, home[c]}
        BY ZenonT(40), <2>1, <3>4
      <4>1. pins[c] = 0 /\ ((\A q \in Op : held[q] # c) => cache[c] \in {NoBuf, home[c]})
        OBVIOUS
      <4>2. (\A q \in Op : held'[q] # c) => \A q \in Op : held[q] # c
        BY <2>2
      <4> QED
        BY <3>2, <4>1, <4>2
    <3>6. \A i \in 1..Len(lh') : pins'[lh'[i]] = 1 /\ cache'[lh'[i]] # NoBuf
      <4>1. ASSUME NEW i \in 1..Len(lh)
            PROVE  pins'[lh'[i]] = 1 /\ cache'[lh'[i]] # NoBuf
        <5>1. pins[lh[i]] = 1 /\ cache[lh[i]] # NoBuf
          BY <2>1
        <5> QED
          BY <2>1, <3>1, <3>2, <5>1
      <4>2. pins'[held[p]] = 1
        <5>1. pins[held[p]] = 0
          BY <2>1, <2>5
        <5> QED
          BY <2>1, <3>2, <5>1
      <4> QED
        BY <2>1, <2>3, <3>1, <3>3, <4>1, <4>2
    <3> QED
      BY <2>1, <2>2, <3>5, <3>6
  <2> QED
    BY <2>4, <2>5
<1>4. ASSUME NEW p \in Op, end_op(p) PROVE CacheInv'
  <2>1. phase = "up" /\ ~committing
    BY <1>4 DEF end_op, ProcInv, Active
  <2>2. phase' \in {"up", "write_log", "committed"} /\ (phase' # "up" => committing')
    BY Zenon, <1>4, <2>1 DEF end_op
  <2> QED
    BY <1>4, <2>1, <2>2 DEF end_op, HeadInv
<1>5. ASSUME NEW p \in Op, end_commit(p) PROVE CacheInv'
  BY <1>5 DEF end_commit, HeadInv
<1>6. ASSUME NEW p \in Op, kill(p) PROVE CacheInv'
  BY <1>6 DEF kill
<1>7. ASSUME write_log PROVE CacheInv'
  <2>1. committing /\ phase = "write_log" /\ phase' \in {"write_log", "write_head"}
    BY <1>7 DEF write_log, Advance, ProcInv
  <2>2. tail + 1 \in 1..Len(lh) /\ lh[tail + 1] \in Block
    BY <2>1 DEF HeadInv
  <2>3. cache[lh[tail + 1]] # NoBuf
    BY <2>1, <2>2
  <2>4. UNCHANGED <<home, cache, pins, lh, committing, held>>
    BY <1>7, <2>2, <2>3 DEF write_log, Contents
  <2> QED
    BY <2>1, <2>4
<1>8. ASSUME write_head PROVE CacheInv'
  BY <1>8, LogFits DEF write_head, HeadInv, ProcInv
<1>9. ASSUME read_head PROVE CacheInv'
  BY <1>9 DEF read_head, HeadInv, ProcInv
<1>10. ASSUME install_trans PROVE CacheInv'
  <2> DEFINE x == lh[tail + 1]
  <2>1. /\ tail \in Nat /\ tail + 1 \in 1..Len(lh) /\ x \in Block /\ Len(lh) \in Nat
        /\ \A i \in 1..Len(lh) : lh[i] = x => i = tail + 1
    BY <1>10, LogFits DEF install_trans, HeadInv
  <2>2. /\ phase = "install_trans" /\ phase' \in {"install_trans", "erase"}
        /\ phase' = "install_trans" => tail' = tail + 1
        /\ phase' = "erase" => tail + 1 = Len(lh)
        /\ UNCHANGED <<lh, committing, held>>
    BY <1>10 DEF install_trans, Advance
  <2>3. \A i \in 1..Len(lh) : Installed(i)' <=> i <= tail + 1
    <3> HIDE DEF CacheInv, x
    <3>1. CASE phase' = "install_trans"
      BY <2>2, <3>1
    <3>2. CASE phase' = "erase"
      BY <2>1, <2>2, <3>2
    <3> QED
      BY <2>2, <3>1, <3>2
  <2>4. \A c \in Block : /\ c # x => /\ cache'[c] = cache[c] /\ home'[c] = home[c]
                                     /\ pins'[c] = pins[c]
                         /\ cache'[x] = home'[x]
    BY <1>10, <2>1 DEF install_trans, InstallBlock, bunpin
  <2>5. pins'[x] = 0
    <3>1. CASE committing
      <4>1. pins[x] = 1
        BY <2>1, <2>2, <3>1
      <4> QED
        BY <1>10, <2>1, <3>1, <4>1 DEF install_trans, recovering, bunpin
    <3>2. CASE ~committing
      <4>1. pins[x] = 0
        BY <2>1, <2>2, <3>2
      <4> QED
        BY <1>10, <2>1, <3>2, <4>1 DEF install_trans, recovering, bunpin
    <3> QED
      BY <3>1, <3>2
  <2>6. \A i \in 1..Len(lh) :
          IF i <= tail + 1
            THEN pins'[lh[i]] = 0 /\ cache'[lh[i]] \in {NoBuf, home'[lh[i]]}
            ELSE IF committing THEN pins'[lh[i]] = 1 /\ cache'[lh[i]] # NoBuf
                               ELSE pins'[lh[i]] = 0 /\ cache'[lh[i]] = NoBuf
    <3> SUFFICES ASSUME NEW i \in 1..Len(lh), i # tail + 1
                 PROVE IF i <= tail + 1
                        THEN pins'[lh[i]] = 0 /\ cache'[lh[i]] \in {NoBuf, home'[lh[i]]}
                        ELSE IF committing THEN pins'[lh[i]] = 1 /\ cache'[lh[i]] # NoBuf
                                           ELSE pins'[lh[i]] = 0 /\ cache'[lh[i]] = NoBuf
      BY <2>1, <2>4, <2>5
    <3>1. lh[i] # x /\ lh[i] \in Block
      BY <2>1
    <3>2. i <= tail + 1 <=> Installed(i)
      BY <2>1, <2>2
    <3> QED
      BY <2>2, <2>4, <3>1, <3>2
  <2>7. \A c \in Block : c \notin Logged => c # x
    BY <2>1
  <2>8. \A p \in Op : held[p] = NoBlock
    BY <2>2 DEF ProcInv, Active
  <2> HIDE DEF x
  <2>9. \A c \in Block :
          /\ c \notin Logged' => pins'[c] = 0
          /\ c \notin Logged' /\ (\A p \in Op : held'[p] # c) => cache'[c] \in {NoBuf, home'[c]}
    <3>1. Logged' = Logged
      BY <2>2
    <3>2. \A c \in Block : c \notin Logged => /\ pins'[c] = pins[c] /\ cache'[c] = cache[c]
                                            /\ home'[c] = home[c]
      BY Zenon, <2>4, <2>7
    <3> HIDE DEF Logged
    <3> QED
      BY Zenon, <2>2, <3>1, <3>2
  <2>10. \A i \in 1..Len(lh) :
           IF Installed(i)'
             THEN pins'[lh[i]] = 0 /\ cache'[lh[i]] \in {NoBuf, home'[lh[i]]}
             ELSE IF Booted' THEN pins'[lh[i]] = 1 /\ cache'[lh[i]] # NoBuf
                             ELSE pins'[lh[i]] = 0 /\ cache'[lh[i]] = NoBuf
    <3>1. committing <=> Booted'
      BY <2>2
    <3> HIDE DEF Installed, Booted
    <3> QED
      BY Zenon, <2>3, <2>6, <3>1
  <2>11. lh' = lh /\ phase' # "read_head" /\ \A p \in Op : held'[p] = NoBlock
    BY <2>2, <2>8
  <2> QED
    BY Zenon, <2>9, <2>10, <2>11
<1>11. ASSUME erase PROVE CacheInv'
  BY <1>11 DEF erase, HeadInv, recovering
<1>12. ASSUME NEW b \in Block, evict(b) PROVE CacheInv'
  BY <1>12 DEF evict
<1>13. ASSUME crash PROVE CacheInv'
  <2>1. /\ lh' = <<>> /\ phase' = "read_head"
        /\ \A b \in Block : cache'[b] = NoBuf /\ pins'[b] = 0
        /\ \A p \in Op : held'[p] = NoBlock
    BY <1>13 DEF crash
  <2> HIDE <1>t, <1>i
  <2> QED
    BY <2>1
<1>14. CASE UNCHANGED vars
  <2>1. UNCHANGED <<home, cache, pins, lh, phase, tail, committing, held>>
    BY <1>14 DEF vars
  <2> QED
    BY <2>1
<1> HIDE DEF CacheInv, Logged, Installed, Booted
<1> QED
  BY <1>1, <1>2, <1>3, <1>4, <1>5, <1>6, <1>7, <1>8, <1>9, <1>10, <1>11, <1>12,
     <1>13, <1>14 DEF Next, LogIO

-----------------------------------------------------------------------------
(* A formatted disk with an empty log satisfies the invariant.             *)
LEMMA LogInvInit == Init => LogInv
<1> SUFFICES ASSUME Init PROVE LogInv
  OBVIOUS
<1>1. Active = {} /\ Tokens = {}
  BY DEF Init, Active, Tokens
<1>2. Cardinality(Active) = 0 /\ Cardinality(Tokens) = 0
  BY <1>1, FS_EmptySet
<1>3. lh \in Seq(Block) /\ dhead \in Seq(Block) /\ Len(lh) = 0 /\ Len(dhead) = 0 /\ lh = <<>>
  BY DEF Init
<1>4. TypeOK
  <2>1. committing \in BOOLEAN
    BY ZenonT(40) DEF Init
  <2>2. pc \in [Op -> {"idle", "asleep", "woken", "in_op", "log_write", "commit", "panic"}]
    BY DEF Init
  <2>3. /\ home \in [Block -> Data \cup {Torn}] /\ dlog \in [1..(NLOG - 1) -> Data \cup {Torn}]
        /\ cache \in [Block -> Data \cup {NoBuf}] /\ pins \in [Block -> 0..1]
        /\ held \in [Op -> Block \cup {NoBlock}] /\ wrote \in [Op -> SUBSET Block]
    BY LogAssumption DEF Init
  <2>4. outstanding = 0 /\ tail = 0 /\ phase = "read_head"
    BY DEF Init
  <2> QED
    BY <1>3, <2>1, <2>2, <2>3, <2>4 DEF TypeOK
<1>5. ProcInv
  BY <1>1, <1>2 DEF Init, ProcInv, Booted
<1>6. SpaceInv
  BY <1>2, <1>3, LogAssumption DEF SpaceInv, Slack
<1>7. HeadInv
  BY <1>3, LogAssumption DEF Init, HeadInv, Slack
<1>8. DiskInv
  BY <1>3 DEF Init, DiskInv
<1>9. CacheInv
  BY <1>3 DEF Init, CacheInv, Logged
<1>10. WroteInv
  <2>1. IsFiniteSet({}) /\ Cardinality({}) = 0
    BY FS_EmptySet
  <2> QED
    BY <2>1, LogAssumption DEF Init, WroteInv
<1> QED
  BY <1>4, <1>5, <1>6, <1>7, <1>8, <1>9, <1>10 DEF LogInv

(* LogInv is inductive: it holds in every reachable state of the log. *)
THEOREM LogInvariant == Spec => []LogInv
<1>1. LogInv /\ [Next]_vars => LogInv'
  BY TypeStep, ProcStep, WroteStep, SpaceStep, HeadStep, DiskStep, CacheStep DEF LogInv
<1> QED
  BY LogInvInit, <1>1, PTL DEF Spec

(* Type correctness of the log's state, for every log size and any number  *)
(* of concurrent system calls.                                             *)
THEOREM TypeCorrect == Spec => []TypeOK
<1>1. LogInv => TypeOK
  BY DEF LogInv
<1> QED
  BY LogInvariant, <1>1, PTL

(* No interleaving of system calls reaches a panic of log_write() or       *)
(* end_op() (log.c:152, 211-214), however often they log a block, if each  *)
(* leaves a block of its reservation unused and the log on disk is not     *)
(* smaller than the transactions that the reservations admit.              *)
THEOREM NeverPanics == RoomToAbsorb => (Spec => []NoPanic)
<1> SUFFICES ASSUME RoomToAbsorb PROVE Spec => []NoPanic
  OBVIOUS
<1>1. Init => NoPanic
  BY DEF Init, NoPanic
<1>2. LogInv /\ NoPanic /\ [Next]_vars => NoPanic'
  <2> SUFFICES ASSUME LogInv, NoPanic, [Next]_vars PROVE NoPanic'
    OBVIOUS
  <2>t. pc \in [Op -> {"idle", "asleep", "woken", "in_op", "log_write", "commit", "panic"}]
    BY DEF LogInv, TypeOK
  <2> USE <2>t DEF NoPanic, disk, bcache, proc
  <2>1. ASSUME NEW p \in Op, begin_op(p) PROVE NoPanic'
    BY <2>1 DEF begin_op
  <2>2. ASSUME NEW p \in Op, NEW b \in Block, NEW d \in Data, modify(p, b, d)
        PROVE  NoPanic'
    <3>1. Len(lh) < LOGSIZE /\ Len(lh) + 1 < NLOG
      BY LogFits, LogAssumption DEF RoomToAbsorb
    <3>2. outstanding \in Nat /\ outstanding > 0
      BY <2>2, ModifyActive, ActiveCounted
    <3>3. ~(Len(lh) >= LOGSIZE \/ Len(lh) + 1 >= NLOG \/ outstanding < 1)
      BY <3>1, <3>2, LogFits, LogAssumption
    <3>4. pc' = [pc EXCEPT ![p] = "log_write"]
      BY Zenon, <2>2, <3>3 DEF modify
    <3> QED
      BY <3>4
  <2>3. ASSUME NEW p \in Op, log_write(p) PROVE NoPanic'
    BY <2>3 DEF log_write
  <2>4. ASSUME NEW p \in Op, end_op(p) PROVE NoPanic'
    <3>1. ~committing
      BY <2>4 DEF end_op, LogInv, ProcInv, Active
    <3> QED
      BY <2>4, <3>1 DEF end_op, Wakeup
  <2>5. ASSUME NEW p \in Op, end_commit(p) PROVE NoPanic'
    BY <2>5 DEF end_commit, Wakeup
  <2>6. ASSUME NEW p \in Op, kill(p) PROVE NoPanic'
    BY <2>6 DEF kill
  <2>7. ASSUME LogIO PROVE NoPanic'
    BY <2>7 DEF LogIO, write_log, write_head, read_head, install_trans, erase
  <2>8. ASSUME NEW b \in Block, evict(b) PROVE NoPanic'
    BY <2>8 DEF evict
  <2>9. ASSUME crash PROVE NoPanic'
    BY <2>9 DEF crash
  <2>10. CASE UNCHANGED vars
    BY <2>10 DEF vars
  <2> HIDE DEF NoPanic, disk, bcache, proc
  <2> QED
    BY <2>1, <2>2, <2>3, <2>4, <2>5, <2>6, <2>7, <2>8, <2>9, <2>10 DEF Next
<1> QED
  BY LogInvariant, <1>1, <1>2, PTL DEF Spec

(* Once the last end_op() has returned, what the system shows is what a    *)
(* reboot would find (log.c:143-168).                                      *)
THEOREM IdleIsDurable == Spec => []DurableWhenIdle
<1>1. LogInv => DurableWhenIdle
  <2> SUFFICES ASSUME LogInv, phase = "up", outstanding = 0, NEW b \in Block
               PROVE  Recovered(b) = Contents(b)
    BY DEF DurableWhenIdle
  <2>1. lh = <<>> /\ dhead = <<>>
    BY DEF LogInv, HeadInv
  <2>2. \A p \in Op : held[p] = NoBlock
    <3>1. Active = {}
      BY ZenonT(40), LogFits, FS_EmptySet DEF LogInv, ProcInv
    <3> QED
      BY <3>1 DEF LogInv, ProcInv, Active
  <2>3. b \notin Logged /\ \A p \in Op : held[p] # b
    BY <2>1, <2>2, LogAssumption DEF Logged
  <2>4. cache[b] \in {NoBuf, home[b]}
    BY <2>3 DEF LogInv, CacheInv
  <2> QED
    BY <2>1, <2>4 DEF Recovered, Contents
<1> QED
  BY LogInvariant, <1>1, PTL

=============================================================================
