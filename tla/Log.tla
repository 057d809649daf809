-------------------------------- MODULE Log --------------------------------
(***************************************************************************)
(* The write-ahead redo log of src/kernel/log.c, with the part of the      *)
(* buffer cache it relies on (pinning and eviction, src/kernel/bio.c), the *)
(* disk, crashes and recovery.                                             *)
(*                                                                         *)
(* A critical section under Log.lock is one action; sleep(&Log, &Log.lock) *)
(* gives the lock up atomically (module SleepLock checks that protocol).   *)
(* Every bwrite() is an action of its own: it is a disk request the        *)
(* process waits for, and a crash may hit before, during or after it.      *)
(* A definition X_mutant is a plausible bug in X that a property catches.  *)
(***************************************************************************)
EXTENDS Naturals, Sequences, FiniteSets

CONSTANTS Block,        \* home block numbers the system calls update
          Data,         \* contents of a block
          Op,           \* processes that execute file-system system calls
          MAXOPBLOCKS,  \* param.h: blocks begin_op() reserves for a system call
          OPBLOCKS,     \* different blocks that a system call logs at most
          LOGSIZE,      \* param.h: blocks in a transaction
          NLOG,         \* superblock nlog: log blocks on disk, header included
          Torn,         \* contents of a block whose write a crash interrupted
          NoBuf,        \* "no buffer of the cache holds this block"
          NoBlock       \* "this process holds no buffer"

(* What a system call reserves and never uses. *)
Slack == MAXOPBLOCKS - OPBLOCKS

(* A system call logs no more blocks than it reserves ("max # of blocks    *)
(* any FS op writes", param.h:6), however often it logs each of them.  The *)
(* log on disk has the blocks the reservations let a transaction grow to:  *)
(* mkfs makes it, and initlog() takes its size without a check (log.c:62). *)
ASSUME LogAssumption ==
  /\ IsFiniteSet(Op)
  /\ MAXOPBLOCKS \in Nat /\ OPBLOCKS \in Nat /\ OPBLOCKS <= MAXOPBLOCKS
  /\ LOGSIZE \in Nat /\ LOGSIZE >= MAXOPBLOCKS
  /\ NLOG \in Nat /\ NLOG + Slack > LOGSIZE
  /\ Torn \notin Data /\ NoBuf \notin Data /\ NoBuf # Torn
  /\ NoBlock \notin Block

VARIABLES
  home, dlog, dhead,            \* the disk: home blocks, log blocks, header
  cache, pins,                  \* bcache: contents and pins (bpin) per block
  lh, outstanding, committing,  \* struct log
  phase, tail,                  \* what commit() or recovery is doing to the
                                \*   disk, "up" if neither runs; loop variable
  pc, held, wrote               \* per process: place, buffer it holds,
                                \*   blocks its system call has logged

disk == <<home, dlog, dhead>>
bcache == <<cache, pins>>
proc == <<pc, held, wrote>>
vars == <<disk, bcache, lh, outstanding, committing, phase, tail, proc>>

Logged == {lh[i] : i \in 1..Len(lh)}

(* bread(): the cached copy, or else the block read from the disk. *)
Contents(b) == IF cache[b] = NoBuf THEN home[b] ELSE cache[b]

(* wakeup(&Log): every process asleep on the log runs again. *)
Wakeup_mutant(f) == f
Wakeup(f) == [q \in Op |-> IF f[q] = "asleep" THEN "woken" ELSE f[q]]

(* Processes make system calls once initlog() has returned. *)
Booted == committing \/ phase = "up"

Init ==
  /\ home \in [Block -> Data]
  /\ dlog \in [1..(NLOG - 1) -> Data]
  /\ dhead = <<>>
  /\ cache = [b \in Block |-> NoBuf]
  /\ pins = [b \in Block |-> 0]
  /\ lh = <<>> /\ outstanding = 0 /\ committing = FALSE
  /\ phase = "read_head" /\ tail = 0
  /\ pc = [p \in Op |-> "idle"]
  /\ held = [p \in Op |-> NoBlock]
  /\ wrote = [p \in Op |-> {}]

-----------------------------------------------------------------------------
(* System calls *)

(* "this op might exhaust log space; wait for commit." *)
LogFull_mutant == Len(lh) + outstanding * MAXOPBLOCKS > LOGSIZE
LogFull == Len(lh) + (outstanding + 1) * MAXOPBLOCKS > LOGSIZE

begin_op(p) ==
  /\ Booted
  /\ pc[p] \in {"idle", "woken"}
  /\ IF committing \/ LogFull
       THEN /\ pc' = [pc EXCEPT ![p] = "asleep"]
            /\ UNCHANGED outstanding
       ELSE /\ pc' = [pc EXCEPT ![p] = "in_op"]
            /\ outstanding' = outstanding + 1
  /\ UNCHANGED <<disk, bcache, lh, committing, phase, tail, held, wrote>>

(* A caller of log_write(): bread(), change the data, and the checks that  *)
(* log_write() makes before it takes Log.lock, whether or not the block is *)
(* one that the log already holds.  A system call may log a block again    *)
(* and again (bfree() the bitmap, for every block itrunc() frees).         *)
modify(p, b, d) ==
  /\ pc[p] = "in_op" /\ Cardinality(wrote[p] \cup {b}) <= OPBLOCKS
  /\ \A q \in Op : held[q] # b
  /\ cache' = [cache EXCEPT ![b] = d]
  /\ held' = [held EXCEPT ![p] = b]
  /\ pc' = [pc EXCEPT ![p] =
       IF Len(lh) >= LOGSIZE \/ Len(lh) + 1 >= NLOG \/ outstanding < 1
         THEN "panic" ELSE "log_write"]
  /\ UNCHANGED <<disk, pins, lh, outstanding, committing, phase, tail, wrote>>

bpin_mutant(b) == pins
bpin(b) == [pins EXCEPT ![b] = @ + 1]

(* log_write() under Log.lock, absorbing a block already in the log, and   *)
(* the caller's brelse().                                                  *)
log_write(p) ==
  /\ pc[p] = "log_write"
  /\ IF held[p] \in Logged
       THEN UNCHANGED <<lh, pins>>
       ELSE lh' = Append(lh, held[p]) /\ pins' = bpin(held[p])
  /\ wrote' = [wrote EXCEPT ![p] = @ \cup {held[p]}]
  /\ held' = [held EXCEPT ![p] = NoBlock]
  /\ pc' = [pc EXCEPT ![p] = "in_op"]
  /\ UNCHANGED <<disk, cache, outstanding, committing, phase, tail>>

(* commit(): if(Log.lh.n > 0) *)
SomethingToCommit_mutant == Len(lh) > 1
SomethingToCommit == Len(lh) > 0

end_op(p) ==
  /\ pc[p] = "in_op"
  /\ outstanding' = outstanding - 1
  /\ IF committing
       THEN /\ pc' = [pc EXCEPT ![p] = "panic"]
            /\ UNCHANGED <<committing, phase>>
       ELSE IF outstanding = 1
         THEN /\ committing' = TRUE
              /\ phase' = IF SomethingToCommit THEN "write_log" ELSE "committed"
              /\ pc' = [pc EXCEPT ![p] = "commit"]
         ELSE /\ pc' = Wakeup([pc EXCEPT ![p] = "idle"])
              /\ UNCHANGED <<committing, phase>>
  /\ wrote' = [wrote EXCEPT ![p] = {}]
  /\ UNCHANGED <<disk, bcache, lh, tail, held>>

-----------------------------------------------------------------------------
(* commit(), run by the process whose end_op() was the last, and the       *)
(* recovery that initlog() runs before the first system call.              *)

(* The end of an iteration over the log; after the last one, phase l.      *)
Advance(l) ==
  /\ tail' = IF tail + 1 = Len(lh) THEN 0 ELSE tail + 1
  /\ phase' = IF tail + 1 = Len(lh) THEN l ELSE phase

write_log ==
  /\ phase = "write_log"
  /\ dlog' = [dlog EXCEPT ![tail + 1] = Contents(lh[tail + 1])]
  /\ cache' = [cache EXCEPT ![lh[tail + 1]] = Contents(lh[tail + 1])]
  /\ Advance("write_head")
  /\ UNCHANGED <<home, dhead, pins, lh, outstanding, committing, proc>>

write_head ==
  /\ phase = "write_head"
  /\ dhead' = lh
  /\ phase' = "install_trans"
  /\ UNCHANGED <<home, dlog, bcache, lh, outstanding, committing, tail, proc>>

(* recover_from_log() starts with read_head(). *)
read_head ==
  /\ phase = "read_head"
  /\ lh' = dhead
  /\ phase' = IF Len(dhead) > 0 THEN "install_trans" ELSE "erase"
  /\ UNCHANGED <<disk, bcache, outstanding, committing, tail, proc>>

(* install_trans(): the log block goes to the cached copy of its home      *)
(* block and to the disk.                                                  *)
InstallBlock_mutant ==
  /\ cache' = [cache EXCEPT ![lh[tail + 1]] = dlog[tail + 1]]
  /\ home' = home
InstallBlock ==
  /\ cache' = [cache EXCEPT ![lh[tail + 1]] = dlog[tail + 1]]
  /\ home' = [home EXCEPT ![lh[tail + 1]] = dlog[tail + 1]]

bunpin_mutant(b) == pins
bunpin(b) == [pins EXCEPT ![b] = @ - 1]

(* commit() calls install_trans(0) while Log.committing is set, recovery   *)
(* calls install_trans(1) before it ever is.                               *)
recovering == ~committing

install_trans ==
  /\ phase = "install_trans"
  /\ InstallBlock
  /\ pins' = IF recovering THEN pins ELSE bunpin(lh[tail + 1])
  /\ Advance("erase")
  /\ UNCHANGED <<dlog, dhead, lh, outstanding, committing, proc>>

(* Log.lh.n = 0; write_head() *)
erase ==
  /\ phase = "erase"
  /\ lh' = <<>>
  /\ dhead' = <<>>
  /\ phase' = IF recovering THEN "up" ELSE "committed"
  /\ UNCHANGED <<home, dlog, bcache, outstanding, committing, tail, proc>>

(* The last critical section of end_op(). *)
end_commit(p) ==
  /\ pc[p] = "commit" /\ phase = "committed"
  /\ committing' = FALSE
  /\ phase' = "up"
  /\ pc' = Wakeup([pc EXCEPT ![p] = "idle"])
  /\ UNCHANGED <<disk, bcache, lh, outstanding, tail, held, wrote>>

-----------------------------------------------------------------------------
(* The rest of the kernel, and crashes *)

(* bget() recycles the buffer of a block nobody holds or has pinned. *)
evict(b) ==
  /\ cache[b] # NoBuf
  /\ pins[b] = 0
  /\ \A p \in Op : held[p] # b
  /\ cache' = [cache EXCEPT ![b] = NoBuf]
  /\ UNCHANGED <<disk, pins, lh, outstanding, committing, phase, tail, proc>>

(* kill() makes a sleeping process runnable. *)
kill(p) ==
  /\ pc[p] = "asleep"
  /\ pc' = [pc EXCEPT ![p] = "woken"]
  /\ UNCHANGED <<disk, bcache, lh, outstanding, committing, phase, tail, held,
                 wrote>>

(* A crash may interrupt the write of a log block or of a home block.  The *)
(* header is 4 + 4 * LOGSIZE bytes, less than a sector: its write is       *)
(* atomic.                                                                 *)
Tear(blocks, i) == {blocks, [blocks EXCEPT ![i] = Torn]}

(* Power fails: memory is lost, the disk stays, and the kernel boots.      *)
crash ==
  /\ home' \in IF phase = "install_trans" THEN Tear(home, lh[tail + 1]) ELSE {home}
  /\ dlog' \in IF phase = "write_log" THEN Tear(dlog, tail + 1) ELSE {dlog}
  /\ dhead' = dhead
  /\ cache' = [b \in Block |-> NoBuf]
  /\ pins' = [b \in Block |-> 0]
  /\ lh' = <<>> /\ outstanding' = 0 /\ committing' = FALSE
  /\ phase' = "read_head" /\ tail' = 0
  /\ pc' = [p \in Op |-> "idle"]
  /\ held' = [p \in Op |-> NoBlock]
  /\ wrote' = [p \in Op |-> {}]

-----------------------------------------------------------------------------
LogIO == write_log \/ write_head \/ read_head \/ install_trans \/ erase

Next ==
  \/ \E p \in Op : begin_op(p) \/ log_write(p) \/ end_op(p) \/ end_commit(p) \/ kill(p)
  \/ \E p \in Op, b \in Block, d \in Data : modify(p, b, d)
  \/ LogIO
  \/ \E b \in Block : evict(b)
  \/ crash

Spec == Init /\ [][Next]_vars

(* The scheduler runs every runnable process (proc.c:444-468) and the disk *)
(* answers every request, so a process inside a system call goes on; the   *)
(* loops around its log_write() calls are bounded by a file, a directory   *)
(* or a chunk of filewrite(), so it gets to its end_op(): strong fairness, *)
(* since between two log_write() calls it is not there.  Nothing makes a   *)
(* process start a system call.                                            *)
Fairness ==
  /\ WF_vars(LogIO)
  /\ \A p \in Op :
       /\ SF_vars(end_op(p))
       /\ WF_vars(log_write(p) \/ end_commit(p))
       /\ WF_vars(pc[p] = "woken" /\ begin_op(p))

FairSpec == Spec /\ Fairness

-----------------------------------------------------------------------------
(* Properties *)

(* Type invariant.  A block is pinned at most once, however many system    *)
(* calls log it: log_write() pins it when it enters the log, install_trans *)
(* unpins it.                                                              *)
TypeOK ==
  /\ home \in [Block -> Data \cup {Torn}]
  /\ dlog \in [1..(NLOG - 1) -> Data \cup {Torn}]
  /\ dhead \in Seq(Block)
  /\ cache \in [Block -> Data \cup {NoBuf}]
  /\ pins \in [Block -> 0..1]
  /\ lh \in Seq(Block)
  /\ outstanding \in Nat
  /\ committing \in BOOLEAN
  /\ phase \in {"read_head", "install_trans", "erase", "up", "write_log",
                "write_head", "committed"}
  /\ tail \in Nat
  /\ pc \in [Op -> {"idle", "asleep", "woken", "in_op", "log_write", "commit",
                    "panic"}]
  /\ held \in [Op -> Block \cup {NoBlock}]
  /\ wrote \in [Op -> SUBSET Block]

(* The space begin_op() reserves is enough: whatever the interleaving of   *)
(* system calls that log at most OPBLOCKS different blocks each, any       *)
(* number of times, none of them meets "too big a transaction" or          *)
(* "log_write outside of trans" (log.c:211-214), although those checks     *)
(* read Log.lh.n without the lock and before log_write() looks whether the *)
(* block is in the log already, and end_op() never meets "log.committing"  *)
(* (log.c:152).                                                            *)
NoPanic == \A p \in Op : pc[p] # "panic"

(* What NoPanic takes of the sizes: a system call leaves a block of its    *)
(* reservation unused, and the log on disk is not smaller than the log     *)
(* grows (the header takes one of its NLOG blocks).  With OPBLOCKS =       *)
(* MAXOPBLOCKS a full log makes the next log_write() panic even when the   *)
(* block is in the log (run log_full).                                     *)
RoomToAbsorb == Slack > 0 /\ NLOG + Slack > LOGSIZE + 1

(* What recover_from_log() makes of the disk if the machine stops now.     *)
Recovered(b) ==
  IF \E i \in 1..Len(dhead) : dhead[i] = b
    THEN dlog[CHOOSE i \in 1..Len(dhead) : dhead[i] = b]
    ELSE home[b]

(* When no system call is active and no commit is under way, everything    *)
(* the system shows of the file system has reached the disk: end_op() of   *)
(* the last system call is a durability point (log.c:143-168).             *)
DurableWhenIdle ==
  phase = "up" /\ outstanding = 0 =>
    \A b \in Block : Recovered(b) = Contents(b)

(* The atomic disk that the log implements: what a reboot would find, what *)
(* the system shows, and the system calls under way.                       *)
Durable == [b \in Block |-> Recovered(b)]
Current == [b \in Block |-> IF Booted THEN Contents(b) ELSE Recovered(b)]
Active == {p \in Op : pc[p] \in {"in_op", "log_write", "panic"}}

Abstract == INSTANCE AtomicDisk WITH
  durable <- Durable, current <- Current, active <- Active

(* The log implements an atomic disk: what a reboot would find changes     *)
(* only at the header write, to what the system shows at that moment, and  *)
(* then no system call is active; a crash anywhere, during recovery        *)
(* included, loses whole system calls or nothing.                          *)
CrashAtomic == Abstract!Spec

(* A process asleep in begin_op() is woken (or the machine crashes): no    *)
(* end_op() forgets the wakeup it owes (log.c:157, 165).                   *)
SleepersWoken == \A p \in Op : pc[p] = "asleep" ~> pc[p] # "asleep"
-----------------------------------------------------------------------------
(* The inductive invariant behind the safety properties *)

(* The blocks that active system calls have reserved and not yet logged. *)
Tokens ==
  {t \in Op \X (1..MAXOPBLOCKS) :
     t[1] \in Active /\ t[2] + Cardinality(wrote[t[1]]) <= MAXOPBLOCKS}

(* Who is where: one committer, and no system call active while it runs;   *)
(* during recovery nobody runs.                                            *)
ProcInv ==
  /\ outstanding = Cardinality(Active)
  /\ \A p \in Op :
       /\ held[p] # NoBlock <=> pc[p] \in {"log_write", "panic"}
       /\ p \in Active => phase = "up"
       /\ pc[p] = "commit" => committing
       /\ ~Booted => pc[p] = "idle"
  /\ \A p, q \in Op :
       /\ held[p] = held[q] /\ held[p] # NoBlock => p = q
       /\ pc[p] = "commit" /\ pc[q] = "commit" => p = q
  /\ IF committing
       THEN phase \in {"write_log", "write_head", "install_trans", "erase", "committed"}
       ELSE phase \in {"read_head", "install_trans", "erase", "up"}

(* What an active system call has logged stays in the log, so that logging *)
(* it again takes no space.                                                *)
WroteInv ==
  \A p \in Op :
    /\ wrote[p] \subseteq IF p \in Active THEN Logged ELSE {}
    /\ IsFiniteSet(wrote[p])
    /\ IF held[p] = NoBlock \/ held[p] \in wrote[p]
         THEN Cardinality(wrote[p]) <= OPBLOCKS
         ELSE Cardinality(wrote[p]) < OPBLOCKS

SpaceInv ==
  /\ Cardinality(Tokens) + Len(lh) <= LOGSIZE
  /\ Slack + Len(lh) <= LOGSIZE

(* The header on disk is empty or is the header in memory, by phase.       *)
HeadInv ==
  /\ \A i, j \in 1..Len(lh) : lh[i] = lh[j] => i = j
  /\ \A i, j \in 1..Len(dhead) : dhead[i] = dhead[j] => i = j
  /\ Slack + Len(dhead) <= LOGSIZE
  /\ IF phase \in {"write_log", "install_trans"} THEN tail < Len(lh) ELSE tail = 0
  /\ phase = "write_head" => Len(lh) > 0
  /\ phase \in {"install_trans", "erase"} => dhead = lh
  /\ phase \in {"up", "write_log", "write_head", "committed"} => dhead = <<>>
  /\ phase \in {"read_head", "committed"} => lh = <<>>
  /\ phase = "up" /\ outstanding = 0 => lh = <<>>

(* The i-th logged block has been copied to its home location.             *)
Installed(i) == phase = "erase" \/ (phase = "install_trans" /\ i <= tail)

(* The i-th log block on disk is written, for the transaction in lh.       *)
Saved(i) == \/ phase \in {"write_head", "install_trans", "erase"}
            \/ phase = "write_log" /\ i <= tail

(* Only a block with a good copy in a committed log may be torn, and a log *)
(* block that counts holds what the cache holds.                           *)
DiskInv ==
  /\ \A b \in Block : (\A i \in 1..Len(dhead) : dhead[i] # b) => home[b] \in Data
  /\ \A i \in 1..Len(dhead) : dlog[i] \in Data
  /\ \A i \in 1..Len(lh) : Installed(i) => home[lh[i]] = dlog[i]
  /\ \A i \in 1..Len(lh) : Saved(i) /\ Booted => dlog[i] = Contents(lh[i])

(* A cached block differs from its home only if it is pinned by the log or *)
(* held by a system call, and then it is not evicted.                      *)
CacheInv ==
  /\ \A b \in Block :
       /\ b \notin Logged => pins[b] = 0
       /\ b \notin Logged /\ (\A p \in Op : held[p] # b) => cache[b] \in {NoBuf, home[b]}
  /\ \A i \in 1..Len(lh) :
       IF Installed(i)
         THEN pins[lh[i]] = 0 /\ cache[lh[i]] \in {NoBuf, home[lh[i]]}
         ELSE IF Booted THEN pins[lh[i]] = 1 /\ cache[lh[i]] # NoBuf
                        ELSE pins[lh[i]] = 0 /\ cache[lh[i]] = NoBuf
  /\ \A p \in Op : held[p] # NoBlock => cache[held[p]] # NoBuf
  /\ phase = "read_head" => \A b \in Block : cache[b] = NoBuf

(* A dirty block stays pinned until it is home, what the system calls have *)
(* logged and may still log fits, and the disk holds a committed copy of   *)
(* every block that may be torn.                                           *)
LogInv == TypeOK /\ ProcInv /\ WroteInv /\ SpaceInv /\ HeadInv /\ DiskInv /\ CacheInv
=============================================================================
