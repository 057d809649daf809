---------------------------- MODULE BlockingLock ----------------------------
(***************************************************************************)
(* What sleep() and wakeup() promise, seen through a sleep lock: testing   *)
(* the lock and going to sleep is one step, and so are releasing it and    *)
(* waking every sleeper.  The modules that model other users of sleep()    *)
(* and wakeup() (Log, Pipe) use them in this form.                         *)
(***************************************************************************)
CONSTANTS Proc, NoProc

VARIABLES owner,   \* the process that holds the lock, or NoProc
          asleep   \* the processes that sleep until a release

bvars == <<owner, asleep>>

Init == owner = NoProc /\ asleep = {}

Acquire(p) ==
  /\ owner = NoProc /\ p \notin asleep
  /\ owner' = p
  /\ UNCHANGED asleep

Sleep(p) ==
  /\ owner # NoProc /\ p \notin asleep
  /\ asleep' = asleep \cup {p}
  /\ UNCHANGED owner

Release(p) ==
  /\ owner = p
  /\ owner' = NoProc
  /\ asleep' = {}

(* kill() makes any sleeper run. *)
Kill(p) ==
  /\ asleep' = asleep \ {p}
  /\ UNCHANGED owner

Next == \E p \in Proc : Acquire(p) \/ Sleep(p) \/ Release(p) \/ Kill(p)

Spec == Init /\ [][Next]_bvars
=============================================================================
