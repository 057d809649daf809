\* Two readers and two writers; a call moves more bytes than the pipe holds, and
\* the counters wrap after two rounds.  When both ends are closed, or everybody is
\* killed, nothing happens any more: no deadlock check.
CONSTANTS
  Reader = {r1, r2}
  Writer = {w1, w2}
  Byte = {b1, b2}
  PIPESIZE = 2
  W = 4
  MaxN = 3
  NoProc = NoProc
SPECIFICATION Spec
SYMMETRY Symmetry
INVARIANTS TypeOK ReaderSleepsEmpty WriterSleepsFull
PROPERTY IsFifo
CHECK_DEADLOCK FALSE
