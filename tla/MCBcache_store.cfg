\* Three processes use three blocks through two buffers.  A kernel that has
\* panicked stops: no deadlock check.
CONSTANTS
  NBUF = 2
  Block = {b1, b2, b3}
  Data = {d1, d2}
  Proc = {p1, p2, p3}
  NoBlock = NoBlock
  NoProc = NoProc
SPECIFICATION Spec
SYMMETRY Symmetry
INVARIANTS TypeOK RefCounts OneBuffer
PROPERTY IsStore
CHECK_DEADLOCK FALSE
