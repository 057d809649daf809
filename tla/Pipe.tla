-------------------------------- MODULE Pipe --------------------------------
(***************************************************************************)
(* A pipe (src/kernel/pipe.c): a ring buffer with free-running counters    *)
(* under pi->lock, readers and writers that sleep, close and kill.  A byte *)
(* is copied per action, with pi->lock held; sleep() is atomic (module     *)
(* SleepLock).  A counter is a uint: it wraps at W.                        *)
(***************************************************************************)
EXTENDS Naturals, Sequences

CONSTANTS Reader, Writer,  \* processes
          Byte,            \* values of a byte
          PIPESIZE, W,     \* size of the buffer, and 2^32
          MaxN,            \* bound: the largest n of a call
          NoProc           \* "pi->lock is free"

ASSUME PipeAssumption ==
  /\ PIPESIZE \in Nat \ {0} /\ W \in Nat /\ W > PIPESIZE /\ W % PIPESIZE = 0
  /\ Reader \cap Writer = {} /\ NoProc \notin Reader \cup Writer

Proc == Reader \cup Writer

VARIABLES lock, data, nread, nwrite, readopen, writeopen,  \* struct pipe
          pc, left,  \* per call: place, and the n - i bytes still to copy
          killed,
          missed     \* history: a writer has returned at pipe.c:88 and nobody
                     \*   has called wakeup(&pi->nread) since

pipe == <<data, nread, nwrite, readopen, writeopen>>
vars == <<lock, pipe, pc, left, killed, missed>>

(* pipealloc() *)
Init ==
  /\ lock = NoProc
  /\ data \in [0..(PIPESIZE - 1) -> Byte]
  /\ nread = 0 /\ nwrite = 0
  /\ readopen = TRUE /\ writeopen = TRUE
  /\ pc = [p \in Proc |-> "idle"]
  /\ left = [p \in Proc |-> 0]
  /\ killed = [p \in Proc |-> FALSE]
  /\ missed = FALSE

-----------------------------------------------------------------------------
(* wakeup(&pi->nread) and wakeup(&pi->nwrite): the processes S that sleep  *)
(* there run again.                                                        *)
Wake(f, S) == [p \in Proc |-> IF p \in S /\ f[p] = "asleep" THEN "woken" ELSE f[p]]

Full_mutant == nwrite >= nread + PIPESIZE
Full == nwrite = (nread + PIPESIZE) % W

Empty == nread = nwrite

(* A living process makes a call: acquire(&pi->lock). *)
Call(p, m) ==
  /\ pc[p] = "idle" /\ ~killed[p] /\ lock = NoProc
  /\ lock' = p
  /\ pc' = [pc EXCEPT ![p] = "loop"]
  /\ left' = [left EXCEPT ![p] = m]
  /\ UNCHANGED <<pipe, killed, missed>>

pipewrite(p, m) == writeopen /\ Call(p, m)
piperead(p, m) == readopen /\ Call(p, m)

(* acquire(&pi->lock) at the end of sleep(). *)
resume(p) ==
  /\ pc[p] = "woken" /\ lock = NoProc
  /\ lock' = p
  /\ pc' = [pc EXCEPT ![p] = "loop"]
  /\ UNCHANGED <<pipe, left, killed, missed>>

(* Processes S are woken, the lock is released, and p goes to place l.     *)
Leave(p, l, S) ==
  /\ pc' = Wake([pc EXCEPT ![p] = l], S)
  /\ lock' = NoProc
  /\ left' = [left EXCEPT ![p] = IF l = "idle" THEN 0 ELSE @]
  /\ UNCHANGED killed

-----------------------------------------------------------------------------
(* pipewrite() in its loop: the pipe is full and nobody will read it, ... *)
write_fail_mutant(p) ==
  /\ pc[p] = "loop" /\ lock = p /\ left[p] > 0
  /\ Full /\ (~readopen \/ killed[p])
  /\ pc' = [pc EXCEPT ![p] = "idle"]
  /\ missed' = TRUE
  /\ UNCHANGED <<lock, pipe, left, killed>>
write_fail(p) ==
  /\ pc[p] = "loop" /\ lock = p /\ left[p] > 0
  /\ Full /\ (~readopen \/ killed[p])
  /\ Leave(p, "idle", {})
  /\ missed' = TRUE
  /\ UNCHANGED pipe

(* ... or it is full and the writer sleeps, ... *)
write_sleep(p) ==
  /\ pc[p] = "loop" /\ lock = p /\ left[p] > 0
  /\ Full /\ readopen /\ ~killed[p]
  /\ Leave(p, "asleep", Reader)
  /\ missed' = FALSE
  /\ UNCHANGED pipe

(* ... or a byte goes in. *)
write_byte(p, d) ==
  /\ pc[p] = "loop" /\ lock = p /\ left[p] > 0
  /\ ~Full
  /\ data' = [data EXCEPT ![nwrite % PIPESIZE] = d]
  /\ nwrite' = (nwrite + 1) % W
  /\ left' = [left EXCEPT ![p] = @ - 1]
  /\ UNCHANGED <<lock, nread, readopen, writeopen, pc, killed, missed>>

(* The end of the loop, or copyin() failed for the next byte.              *)
ToWake_mutant(S) == {}
ToWake(S) == S

write_done(p) ==
  /\ pc[p] = "loop" /\ lock = p
  /\ left[p] = 0 \/ ~Full
  /\ Leave(p, "idle", ToWake(Reader))
  /\ missed' = FALSE
  /\ UNCHANGED pipe

-----------------------------------------------------------------------------
(* piperead(): nothing to read, and the reader is killed ... *)
read_fail(p) ==
  /\ pc[p] = "loop" /\ lock = p /\ Empty /\ writeopen /\ killed[p]
  /\ Leave(p, "idle", {})
  /\ UNCHANGED <<pipe, missed>>

(* ... or sleeps, ... *)
read_sleep(p) ==
  /\ pc[p] = "loop" /\ lock = p /\ Empty /\ writeopen /\ ~killed[p]
  /\ Leave(p, "asleep", {})
  /\ UNCHANGED <<pipe, missed>>

(* ... or the copy starts. *)
read_start(p) ==
  /\ pc[p] = "loop" /\ lock = p /\ ~(Empty /\ writeopen)
  /\ pc' = [pc EXCEPT ![p] = "copy"]
  /\ UNCHANGED <<lock, pipe, left, killed, missed>>

(* A byte goes out.  If copyout() fails it is gone, and the read ends.     *)
read_byte(p, fault) ==
  /\ pc[p] = "copy" /\ left[p] > 0 /\ ~Empty
  /\ nread' = (nread + 1) % W
  /\ IF fault
       THEN Leave(p, "idle", Writer)
       ELSE left' = [left EXCEPT ![p] = @ - 1] /\ UNCHANGED <<lock, pc, killed>>
  /\ UNCHANGED <<data, nwrite, readopen, writeopen, missed>>

read_done(p) ==
  /\ pc[p] = "copy" /\ (left[p] = 0 \/ Empty)
  /\ Leave(p, "idle", ToWake(Writer))
  /\ UNCHANGED <<pipe, missed>>

-----------------------------------------------------------------------------
(* pipeclose(), when the last descriptor of an end goes: no process is     *)
(* inside a call that uses it.                                             *)
CloseWakes_mutant(S) == {}
CloseWakes(S) == S

close_write ==
  /\ writeopen /\ lock = NoProc /\ \A p \in Writer : pc[p] = "idle"
  /\ writeopen' = FALSE
  /\ pc' = Wake(pc, CloseWakes(Reader))
  /\ missed' = FALSE
  /\ UNCHANGED <<lock, data, nread, nwrite, readopen, left, killed>>

close_read ==
  /\ readopen /\ lock = NoProc /\ \A p \in Reader : pc[p] = "idle"
  /\ readopen' = FALSE
  /\ pc' = Wake(pc, CloseWakes(Writer))
  /\ UNCHANGED <<lock, data, nread, nwrite, writeopen, left, killed, missed>>

(* kill() of a process inside a call, which makes no other one. *)
kill(p) ==
  /\ ~killed[p] /\ pc[p] # "idle"
  /\ killed' = [killed EXCEPT ![p] = TRUE]
  /\ pc' = Wake(pc, {p})
  /\ UNCHANGED <<lock, pipe, left, missed>>

Write(p) ==
  \/ write_fail(p) \/ write_sleep(p) \/ (\E d \in Byte : write_byte(p, d))
  \/ write_done(p)

Read(p) ==
  \/ read_fail(p) \/ read_sleep(p) \/ read_start(p) \/ read_done(p)
  \/ \E fault \in BOOLEAN : read_byte(p, fault)

Next ==
  \/ \E p \in Writer, m \in 1..MaxN : pipewrite(p, m)
  \/ \E p \in Reader, m \in 1..MaxN : piperead(p, m)
  \/ \E p \in Writer : Write(p)
  \/ \E p \in Reader : Read(p)
  \/ \E p \in Proc : resume(p) \/ kill(p)
  \/ close_write \/ close_read

Spec == Init /\ [][Next]_vars

(* A process inside a call goes on when it can; nobody has to call.        *)
FairSpec ==
  /\ Spec
  /\ \A p \in Writer : WF_vars(Write(p) \/ resume(p))
  /\ \A p \in Reader : WF_vars(Read(p) \/ resume(p))

-----------------------------------------------------------------------------
(* Properties *)

(* Type invariant.  A process inside the loops holds pi->lock.             *)
TypeOK ==
  /\ lock \in Proc \cup {NoProc}
  /\ data \in [0..(PIPESIZE - 1) -> Byte]
  /\ nread \in 0..(W - 1) /\ nwrite \in 0..(W - 1)
  /\ readopen \in BOOLEAN /\ writeopen \in BOOLEAN
  /\ pc \in [Proc -> {"idle", "loop", "copy", "asleep", "woken"}]
  /\ left \in [Proc -> 0..MaxN]
  /\ killed \in [Proc -> BOOLEAN] /\ missed \in BOOLEAN
  /\ \A p \in Proc : pc[p] \in {"loop", "copy"} <=> lock = p

(* The bytes in the pipe, oldest first. *)
Count == (nwrite + W - nread) % W
Queue == [k \in 1..Count |-> data[(nread + k - 1) % PIPESIZE]]

Abstract == INSTANCE Fifo WITH queue <- Queue, Capacity <- PIPESIZE

(* The ring buffer implements a bounded queue, when the counters wrap too: *)
(* no byte is lost, duplicated, reordered or overwritten before it is read. *)
IsFifo == Abstract!Spec

(* A reader sleeps only on an empty pipe that has a writer: every write    *)
(* and the close of the write end wake the readers (pipe.c:64, 90, 97).    *)
(* The one exception is a writer that fills the pipe, is killed, and       *)
(* returns without a wakeup (pipe.c:86-88): until the next wakeup of the   *)
(* readers, and no longer, one of them may sleep on a pipe with bytes.     *)
ReaderSleepsEmpty ==
  \A p \in Reader : pc[p] = "asleep" /\ lock = NoProc =>
    writeopen /\ (Empty \/ missed)

(* A writer sleeps only on a full pipe that has a reader: every read and   *)
(* the close of the read end wake the writers.                             *)
WriterSleepsFull ==
  \A p \in Writer : pc[p] = "asleep" /\ lock = NoProc => Full /\ readopen

(* When the other end is closed, nobody stays in a call: a reader gets     *)
(* what is left or end-of-file, a writer fails once the pipe is full.      *)
CallsEnd ==
  /\ \A p \in Reader : ~writeopen /\ pc[p] # "idle" ~> pc[p] = "idle"
  /\ \A p \in Writer : ~readopen /\ pc[p] # "idle" ~> pc[p] = "idle"
=============================================================================
