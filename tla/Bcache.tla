------------------------------- MODULE Bcache -------------------------------
(***************************************************************************)
(* The buffer cache (src/kernel/bio.c): lookup, LRU recycling, the sleep   *)
(* lock of every buffer, reference counts and the pins of the log.  A      *)
(* critical section under bcache.lock is one action, and so is a disk      *)
(* transfer, for which the process sleeps with the buffer locked.  A       *)
(* process uses one buffer at a time.                                      *)
(***************************************************************************)
EXTENDS Naturals, Sequences, SequencesExt, FiniteSets

CONSTANTS NBUF,    \* param.h: buffers
          Block, Data, Proc,
          NoBlock, \* block number of a buffer that was never used
          NoProc   \* "the sleep lock is free"

ASSUME BcacheAssumption ==
  NBUF \in Nat \ {0} /\ NoBlock \notin Block /\ NoProc \notin Proc

Buf == 1..NBUF

VARIABLES lru,      \* the list from bcache.head.next: most recently used first
          blockno, valid, refcnt, data, lock,  \* struct buf
          disk,     \* blocks on disk
          pinned,   \* blocks the log has pinned
          pc, buf   \* per process: place, and its buffer

bufs == <<lru, blockno, valid, refcnt, data, lock>>
vars == <<bufs, disk, pinned, pc, buf>>

(* binit() *)
Init ==
  /\ lru = [i \in 1..NBUF |-> NBUF + 1 - i]
  /\ blockno = [b \in Buf |-> NoBlock]
  /\ valid = [b \in Buf |-> FALSE]
  /\ refcnt = [b \in Buf |-> 0]
  /\ disk \in [Block -> Data]
  /\ \E d \in Data : data = [b \in Buf |-> d]
  /\ lock = [b \in Buf |-> NoProc]
  /\ pinned = {}
  /\ pc = [p \in Proc |-> "idle"]
  /\ buf = [p \in Proc |-> 0]

-----------------------------------------------------------------------------
(* acquire(&bcache.lock): a bget() that panicked never releases it. *)
Lockable == \A p \in Proc : pc[p] # "panic"

Cached_mutant(n) == \E b \in Buf : blockno[b] = n /\ valid[b]
Cached(n) == \E b \in Buf : blockno[b] = n

(* bget(): the block is cached ... *)
bget_hit(p, n) ==
  \E b \in Buf :
    /\ Lockable /\ pc[p] = "idle" /\ blockno[b] = n
    /\ refcnt' = [refcnt EXCEPT ![b] = @ + 1]
    /\ buf' = [buf EXCEPT ![p] = b]
    /\ pc' = [pc EXCEPT ![p] = "lock"]
    /\ UNCHANGED <<lru, blockno, valid, data, lock, disk, pinned>>

(* ... or the least recently used buffer that is free is recycled, ... *)
Recyclable_mutant(b) == lock[b] = NoProc
Recyclable(b) == refcnt[b] = 0

Victim(i) == Recyclable(lru[i]) /\ \A j \in (i + 1)..NBUF : ~Recyclable(lru[j])

Recycled_mutant(b) == valid
Recycled(b) == [valid EXCEPT ![b] = FALSE]

bget_recycle(p, n) ==
  \E i \in 1..NBUF :
    /\ Lockable /\ pc[p] = "idle" /\ ~Cached(n)
    /\ Victim(i)
    /\ blockno' = [blockno EXCEPT ![lru[i]] = n]
    /\ valid' = Recycled(lru[i])
    /\ refcnt' = [refcnt EXCEPT ![lru[i]] = 1]
    /\ buf' = [buf EXCEPT ![p] = lru[i]]
    /\ pc' = [pc EXCEPT ![p] = "lock"]
    /\ UNCHANGED <<lru, data, lock, disk, pinned>>

(* ... or there is none: panic("bget: no buffers"). *)
bget_panic(p, n) ==
  /\ Lockable /\ pc[p] = "idle" /\ ~Cached(n) /\ \A b \in Buf : ~Recyclable(b)
  /\ pc' = [pc EXCEPT ![p] = "panic"]
  /\ UNCHANGED <<bufs, disk, pinned, buf>>

(* acquiresleep(&b->lock), and bread() looks at b->valid. *)
bget_lock(p) ==
  /\ pc[p] = "lock" /\ lock[buf[p]] = NoProc
  /\ lock' = [lock EXCEPT ![buf[p]] = p]
  /\ pc' = [pc EXCEPT ![p] = IF valid[buf[p]] THEN "use" ELSE "read"]
  /\ UNCHANGED <<lru, blockno, valid, refcnt, data, disk, pinned, buf>>

(* bread(): virtio_disk_rw(b, 0), b->valid = 1. *)
bread(p) ==
  /\ pc[p] = "read"
  /\ data' = [data EXCEPT ![buf[p]] = disk[blockno[buf[p]]]]
  /\ valid' = [valid EXCEPT ![buf[p]] = TRUE]
  /\ pc' = [pc EXCEPT ![p] = "use"]
  /\ UNCHANGED <<lru, blockno, refcnt, lock, disk, pinned, buf>>

-----------------------------------------------------------------------------
(* The users of a buffer: a system call changes it and log_write() pins it *)
(* unless it is in the log already, ...                                    *)
bpin(p, d) ==
  LET b == buf[p] IN
  /\ Lockable /\ pc[p] = "use"
  /\ data' = [data EXCEPT ![b] = d]
  /\ pinned' = pinned \cup {blockno[b]}
  /\ refcnt' = [refcnt EXCEPT ![b] = IF blockno[b] \in pinned THEN @ ELSE @ + 1]
  /\ UNCHANGED <<lru, blockno, valid, lock, disk, pc, buf>>

(* ... and install_trans() writes it to the disk ...                       *)
bwrite_home(p) ==
  /\ pc[p] = "use" /\ blockno[buf[p]] \in pinned
  /\ disk' = [disk EXCEPT ![blockno[buf[p]]] = data[buf[p]]]
  /\ pc' = [pc EXCEPT ![p] = "unpin"]
  /\ UNCHANGED <<bufs, pinned, buf>>

(* ... and then unpins it; or write_log() and write_head() change a buffer *)
(* and write it at once.                                                   *)
bunpin(p) ==
  LET b == buf[p] IN
  /\ Lockable /\ pc[p] = "unpin"
  /\ pinned' = pinned \ {blockno[b]}
  /\ refcnt' = [refcnt EXCEPT ![b] = @ - 1]
  /\ pc' = [pc EXCEPT ![p] = "use"]
  /\ UNCHANGED <<lru, blockno, valid, data, lock, disk, buf>>

bwrite(p, d) ==
  LET b == buf[p] IN
  /\ pc[p] = "use"
  /\ data' = [data EXCEPT ![b] = d]
  /\ disk' = [disk EXCEPT ![blockno[b]] = d]
  /\ UNCHANGED <<lru, blockno, valid, refcnt, lock, pinned, pc, buf>>

(* brelse(): releasesleep(&b->lock) ... *)
brelse(p) ==
  /\ pc[p] = "use"
  /\ lock' = [lock EXCEPT ![buf[p]] = NoProc]
  /\ pc' = [pc EXCEPT ![p] = "brelse"]
  /\ UNCHANGED <<lru, blockno, valid, refcnt, data, disk, pinned, buf>>

(* ... and, under bcache.lock, the reference goes; an unreferenced buffer  *)
(* becomes the most recently used.                                         *)
Unreference(b) == [refcnt EXCEPT ![b] = @ - 1]

MoveToFront_mutant(b) == <<b>> \o lru
MoveToFront(b) == <<b>> \o Remove(lru, b)

brelse_list(p) ==
  LET b == buf[p] IN
  /\ Lockable /\ pc[p] = "brelse"
  /\ refcnt' = Unreference(b)
  /\ lru' = IF refcnt[b] = 1 THEN MoveToFront(b) ELSE lru
  /\ buf' = [buf EXCEPT ![p] = 0]
  /\ pc' = [pc EXCEPT ![p] = "idle"]
  /\ UNCHANGED <<blockno, valid, data, lock, disk, pinned>>

Next ==
  \E p \in Proc :
    \/ \E n \in Block : bget_hit(p, n) \/ bget_recycle(p, n) \/ bget_panic(p, n)
    \/ \E d \in Data : bpin(p, d) \/ bwrite(p, d)
    \/ bget_lock(p) \/ bread(p) \/ bwrite_home(p) \/ bunpin(p)
    \/ brelse(p) \/ brelse_list(p)

Spec == Init /\ [][Next]_vars

-----------------------------------------------------------------------------
(* Properties *)

Users(b) == {p \in Proc : buf[p] = b}

(* Type invariant; the list always holds every buffer once. *)
TypeOK ==
  /\ Len(lru) = NBUF /\ ToSet(lru) = Buf
  /\ refcnt \in [Buf -> Nat]
  /\ blockno \in [Buf -> Block \cup {NoBlock}]
  /\ valid \in [Buf -> BOOLEAN]
  /\ data \in [Buf -> Data]
  /\ lock \in [Buf -> Proc \cup {NoProc}]
  /\ disk \in [Block -> Data]
  /\ pinned \subseteq Block
  /\ pc \in [Proc -> {"idle", "lock", "read", "use", "unpin", "brelse", "panic"}]
  /\ buf \in [Proc -> Buf \cup {0}]

(* refcnt counts exactly the processes that use a buffer or wait for it,   *)
(* and the pin of the log, whatever the order of bget(), brelse(), bpin()  *)
(* and bunpin(): a count too low recycles a buffer in use, one too high    *)
(* takes it out of the cache for good.                                     *)
RefCounts ==
  \A b \in Buf :
    refcnt[b] = Cardinality(Users(b)) + (IF blockno[b] \in pinned THEN 1 ELSE 0)

(* "Is the block already cached?" (bio.c:63) and the recycling are one     *)
(* critical section: no two buffers are ever copies of the same block.     *)
OneBuffer ==
  \A b, c \in Buf : blockno[b] = blockno[c] /\ blockno[b] # NoBlock => b = c

(* What bread() of block n would show, and who uses it. *)
Contents(n) ==
  IF \E b \in Buf : blockno[b] = n /\ valid[b]
    THEN data[CHOOSE b \in Buf : blockno[b] = n /\ valid[b]]
    ELSE disk[n]

User(n) ==
  IF \E p \in Proc : pc[p] \in {"use", "unpin"} /\ blockno[buf[p]] = n
    THEN CHOOSE p \in Proc : pc[p] \in {"use", "unpin"} /\ blockno[buf[p]] = n
    ELSE NoProc

Store == INSTANCE BlockStore WITH
  contents <- [n \in Block |-> Contents(n)], user <- [n \in Block |-> User(n)]

(* The cache implements a block store: one process at a time uses a block, *)
(* and only it changes what bread() shows; recycling a buffer loses no     *)
(* change that the log has pinned or that is on the disk.                  *)
IsStore == Store!Spec
=============================================================================
