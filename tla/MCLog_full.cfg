\* Two system calls use the whole of their reservations of one block.
CONSTANTS
  Block = {b1, b2}
  Data = {d1}
  Op = {p1, p2}
  MAXOPBLOCKS = 1
  OPBLOCKS = 1
  LOGSIZE = 2
  NLOG = 3
  Torn = Torn
  NoBuf = NoBuf
  NoBlock = NoBlock
SPECIFICATION Spec
INVARIANTS NoPanic
