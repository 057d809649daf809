# A verification of xv6 on ARMv8

TLA+ specifications of the parts of this kernel where processes, CPUs, the disk
and crashes meet, checked on small instances with TLC and, for the core, proved for
every size with TLAPS.

## The system

xv6 runs on two CPUs (`run.sh`, `entry.S`). A process enters the kernel by a system
call or an interrupt (`trap.c`) and runs there with interrupts off; it gives up its
CPU in `sleep()`, in `exit()`, or in `yield()` when the timer interrupts user mode.

| Part | State | Operations | What is hard |
|---|---|---|---|
| Write-ahead log (`log.c`) | `Log.lh`, `outstanding`, `committing`; log blocks and header on disk | `begin_op`, `log_write`, `end_op`, `commit`, recovery | crashes at and inside every block write, also during recovery; several system calls in one transaction; space |
| Buffer cache (`bio.c`) | `refcnt`, `valid`, LRU list, a sleep lock per buffer | `bget`, `bread`, `bwrite`, `brelse`, `bpin`, `bunpin` | recycling against waiting, pinned and locked buffers |
| Processes (`proc.c`) | `procs[]`, `p->lock`, `cpu->proc` | `fork`, `exit`, `reparent`, `wait`, `kill`, `scheduler`, `yield` | unlocked reads of `parent`, slot reuse, lock order, zombies on their stacks |
| Sleep locks, `sleep`/`wakeup` | `locked`, `pid`, `state`, `chan` | `acquiresleep`, `releasesleep`, `sleep`, `wakeup` | lost wakeups, kill of a sleeper |
| Pipes (`pipe.c`) | ring buffer, `nread`, `nwrite`, open flags | `pipewrite`, `piperead`, `pipeclose` | wrapping counters, owed wakeups, close and kill |
| Spin locks (`spinlock.c`) | `locked`, `cpu`, `noff`, `intena` | `acquire`, `release`, `push_off`, `pop_off` | nesting with interrupts |
| Files and descriptors (`file.c`, `sysfile.c`) | `ftable`, `ofile[]` | `filealloc`, `filedup`, `fileclose`, `sys_*` | reference counts |
| Inodes and directories (`fs.c`, `sysfile.c`) | `icache`, on-disk inodes | `iget`, `ilock`, `iput`, `create`, `sys_link`, `sys_unlink` | last reference against lookup, lock order |
| Disk driver (`virtio_disk.c`) | descriptors, used ring | `virtio_disk_rw`, `virtio_disk_intr` | partial allocation, completions out of order |
| Console and UART | input line, transmit ring | `consoleread`, `consolewrite`, `consoleintr`, `uartputc` | sleeping with a spin lock, transmit interrupts |
| Memory (`kalloc.c`, `vm.c`, `exec.c`) | free list, page tables | `kalloc`, `uvmalloc`, `uvmcopy`, `exec` | rollback when memory runs out |

The log sits on the buffer cache, which uses sleep locks and the disk; every blocking
operation uses `sleep`/`wakeup`, which use the process locks.

## The modules

* **Log** models `log.c` with the part of `bio.c` it relies on (pins, eviction). The
  disk is `home` (the file system's blocks), `dlog` and `dhead`. A system call is a
  process that goes through `begin_op`, any number of pairs of `modify` and
  `log_write` on at most OPBLOCKS different blocks, and `end_op` (`wrote` is the set of
  blocks the call has logged; `bfree()` under `itrunc()` logs the same bitmap block
  for every block it frees). `modify` ends with the checks `log_write` makes without
  the lock and before it looks whether the block is in the log. The steps of `commit` and of recovery are one action per
  block written. `crash` forgets the memory; the block being written may be torn,
  except the header, which the log takes to be written atomically.
  **AtomicDisk** is the contract: durable contents change only to the current contents,
  at a moment when no system call is active.
* **Bcache** models `bio.c`. A critical section under `bcache.lock` is one action, and
  so is a disk transfer. When every buffer is taken `bget` panics, and the kernel stops. **BlockStore** is the contract: one copy and one user of
  every block.
* **Proc** models the process table. A lock is held by a CPU. The scans of `wait` and
  `reparent` go slot by slot, their unlocked tests of `parent` in steps of their own.
  Closing files and dropping the current directory in `exit` are left out: they may
  sleep, on channels that neither `exit` nor `wait` of another process wakes. Slot 1 is init, which never exits; `allocproc` may return any
  free slot.
* **SleepLock** models one sleep lock with every lock operation of `sleep` and
  `wakeup` a step. **BlockingLock** is the contract: going to sleep and being woken
  are atomic.
* **Pipe** models a pipe after `pipealloc`. `W` is the number of values of the counters
  (2^32 in C), a multiple of PIPESIZE. `sleep` and `wakeup` are atomic here, which is what
  SleepLock shows of them. **Fifo** is the contract.

`MCLog`, `MCProc`, `MCPipe` and `MCBcache` add the symmetry sets; SleepLock needs none.
Actions have the names of the functions they model, with a suffix where a function is
several steps. `X_mutant` next to a definition is a plausible bug in it; substituting
it for `X` makes TLC report the property listed for it in `PROJECT.json`.

## The runs

| Run | Instance | Shows |
|---|---|---|
| `log_atomic` | 2 calls of 2 blocks, 3 blocks, 2 values, room for both | the log implements AtomicDisk; durability when idle; the inductive invariant |
| `log_space` | 3 calls of 1 block, 5 blocks, log of 5, room for 2 reservations of 2 | no panic in `log_write` or `end_op` |
| `log_live` | 3 calls, room for 2 | sleepers in `begin_op` are woken |
| `bcache_store` | 3 processes, 3 blocks, 2 buffers | the cache implements BlockStore; exact reference counts; one buffer per block |
| `proc_tree` | 4 slots, 2 CPUs, kill | stacks, parents, orphans, lost exits, lock order |
| `sleeplock` | 4 processes, kill | mutual exclusion, no lost wakeup, refinement; a wanted lock is taken by somebody |
| `pipe_safe` | 2 readers, 2 writers, 2 bytes, size 2, W 4 | the ring is a bounded queue; a writer sleeps only on a full pipe, a reader only on an empty one or after a writer that gave up |
| `pipe_live` | 1 reader, 1 writer | calls end once the other end is closed |

Four runs refute what a comment says; see `findings` in `PROJECT.json`:

* `proc_deadlock`: `exit()` can lock a stale `original_parent` whose slot is now its
  grandchild, and deadlock with its own child (the comment calls the race harmless).
  `ParentThenChild`, which holds in `proc_tree`, says that every deadlock of process
  locks there goes through such a stale parent.
* `proc_init`: init can sleep in `wait()` with an adopted zombie and nobody on the way
  to wake it. `exit()` wakes init before it gives its children away; a second wakeup
  follows only if the process that exits is a child of init. So it takes four slots:
  init, a child, a grandchild that exits, and the zombie it leaves.
* `proc_kill0`: `kill(0)` marks a free slot, whose next process is born killed.
* `log_full`: `log_write` asks for room before it looks whether it needs any. If every
  call logs all the MAXOPBLOCKS blocks that `param.h` allows it, the log can be full
  of blocks that are reserved, and logging one of them again panics. The calls in the
  repository log fewer (a chunk of `filewrite` 7, `itrunc` with its inode 2), so
  OPBLOCKS is less than MAXOPBLOCKS in the other runs, and there `NoPanic` holds.

**Bounds.** Two contenders race, and a third or fourth waits behind a waiter. Four
slots are what the deadlock of `proc_deadlock` takes: init, the exiting process, its
child, and the slot of its dead parent, reused for its grandchild. The pipe moves more bytes per
call than it holds, and its counters wrap after two rounds. More blocks than buffers
force recycling. The log runs bound how many different blocks a call logs, not how
often it logs them; `log_space` has as many blocks as the log has places, and
reservations that do not divide LOGSIZE, so that the last call is admitted at the limit.
`log_atomic` starts with the log blocks that mkfs leaves (`MCSpec`): what they hold does
not matter before a commit has written them. The killed writer of `pipe_safe` sets the
history variable `missed` when it gives up on a full pipe without a wakeup
(`pipe.c:86-88`), until the next writer wakes the readers: `ReaderSleepsEmpty` excuses
a sleeping reader only then.

**Fairness.** Weak fairness of the steps of a process inside a call: `scheduler()`
scans all slots for ever, and the timer takes the CPU from user code. A holder of a
sleep lock is taken to release it. The log also needs its disk writes to complete, and
`end_op` strong fairness: between two `log_write` calls a system call could end, and
its loops are bounded by a file, a directory or a chunk, so it does.
Nothing forces a process to make a call. Starvation of one particular waiter is
possible (a woken process competes again), so no property denies it.

**Deadlock check.** It is off in `proc_tree` (everybody may be asleep, see
`proc_init`), in the pipe runs (both ends closed) and in `bcache_store` (a kernel that
has panicked stops).

## The proofs

For every number of processes, CPUs, slots, blocks and log blocks:

* `LogSpaceProofs`, `LogProofs`, `LogRefinement`: `LogInv` is inductive, so `TypeOK` and `DurableWhenIdle` hold,
  and `Implements` shows that Log refines AtomicDisk, step by step. `NeverPanics` shows
  `NoPanic` from it under `RoomToAbsorb` (OPBLOCKS < MAXOPBLOCKS, and log blocks on disk
  for what a transaction can grow to); `log_full` shows that the first is needed.
  `NoPanic` alone is not inductive: `SpaceInv` counts the blocks in the log together
  with the blocks the active calls have reserved and not yet logged, and `WroteInv` says
  that what a call has logged is in the log, so that logging it again takes no place. `HeadInv`, `DiskInv` and `CacheInv` say which blocks
  are already copied to the log or installed in each phase of a commit. Assumed:
  a system call logs no more different blocks than it reserves (`param.h:6`), and the
  log area on disk holds the blocks that the reservations allow (`initlog` takes its
  size from the superblock mkfs made, which is not in the repository, and does not
  compare it with LOGSIZE). It may be smaller than LOGSIZE by what the calls reserve
  and never use, so the test against `Log.size` in `log_write` is not implied by the
  one against LOGSIZE.
* `ProcProofs`: `ProcInv` is inductive and implies `StackSafe`, `ParentStable`,
  `NoOrphan` and `NoLostExit`. `HoldInv` says who holds which lock, `PlaceInv` where a
  process is in which state, `TreeInv` who may be whose parent, and `ScanInv` what the
  slots a scan has passed look like; the last is what keeps an exit from being lost.
* `SleepLockProofs`: `SleepInv` is inductive; `MutualExclusion`, `NoLostWakeup` and the
  refinement of BlockingLock follow.

Only model-checked: liveness (outside the prover's reach), `ParentThenChild`, and the
properties of Pipe and Bcache.

## Not modelled, and the plan

Next, in this order: Spinlock (nesting of `push_off`/`pop_off` with interrupts, with a
proof), the virtio queue, files and descriptors, the inode cache with link counts,
physical pages with the rollback of `uvmalloc` and `uvmcopy`, console and UART, and
user-level `malloc`; proofs for Bcache and Pipe; and a composition of Log and Bcache
for the number of buffers a commit needs. Assembly (trap entry, context switch),
boot, formatting and the user programs stay out: they have no concurrent state
that TLC could explore beyond what the modules above contain.
