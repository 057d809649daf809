\* Two system calls of two blocks each, on three blocks; a transaction has
\* room for both (LOGSIZE = 6).
CONSTANTS
  Block = {b1, b2, b3}
  Data = {d1, d2}
  Op = {p1, p2}
  MAXOPBLOCKS = 3
  OPBLOCKS = 2
  LOGSIZE = 6
  NLOG = 6
  Torn = Torn
  NoBuf = NoBuf
  NoBlock = NoBlock
SPECIFICATION MCSpec
SYMMETRY Symmetry
INVARIANTS TypeOK DurableWhenIdle LogInv
PROPERTY CrashAtomic
