\* Four slots on two CPUs, with kill(): a slot can be reused while an old child
\* still has it as its original_parent.  Everybody may end up asleep (see the
\* run proc_init), so TLC's deadlock check is off.
CONSTANTS
  NPROC = 4
  CPU = {c1, c2}
  NoCPU = NoCPU
  Killable = {2, 3}
SPECIFICATION Spec
SYMMETRY Symmetry
INVARIANTS StackSafe ParentStable NoOrphan NoLostExit ParentThenChild ProcInv
CHECK_DEADLOCK FALSE
