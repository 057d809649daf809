\* init, a child, a grandchild and a great-grandchild of it on two CPUs.
CONSTANTS
  NPROC = 4
  CPU = {c1, c2}
  NoCPU = NoCPU
  Killable = {}
SPECIFICATION Spec
SYMMETRY Symmetry
INVARIANTS InitReaps
