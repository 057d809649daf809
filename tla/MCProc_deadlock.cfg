\* Four slots on two CPUs.
CONSTANTS
  NPROC = 4
  CPU = {c1, c2}
  NoCPU = NoCPU
  Killable = {}
SPECIFICATION Spec
SYMMETRY Symmetry
INVARIANTS NoDeadlock
