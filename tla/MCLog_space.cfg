\* Three system calls compete for a log with room for two reservations,
\* each using one block of its two, with as many blocks as fill the log and
\* may be logged again.  Contents do not matter here.
CONSTANTS
  Block = {b1, b2, b3, b4, b5}
  Data = {d1}
  Op = {p1, p2, p3}
  MAXOPBLOCKS = 2
  OPBLOCKS = 1
  LOGSIZE = 5
  NLOG = 6
  Torn = Torn
  NoBuf = NoBuf
  NoBlock = NoBlock
SPECIFICATION Spec
SYMMETRY Symmetry
INVARIANTS NoPanic
