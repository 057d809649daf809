\* init and two more slots on two CPUs, with kill().
CONSTANTS
  NPROC = 3
  CPU = {c1, c2}
  NoCPU = NoCPU
  Killable = {2, 3}
SPECIFICATION Spec
SYMMETRY Symmetry
INVARIANTS BornAlive
