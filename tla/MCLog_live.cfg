\* Two reservations of two blocks, one of them used, for three system calls.
CONSTANTS
  Block = {b1, b2}
  Data = {d1}
  Op = {p1, p2, p3}
  MAXOPBLOCKS = 2
  OPBLOCKS = 1
  LOGSIZE = 4
  NLOG = 5
  Torn = Torn
  NoBuf = NoBuf
  NoBlock = NoBlock
SPECIFICATION FairSpec
PROPERTY SleepersWoken
