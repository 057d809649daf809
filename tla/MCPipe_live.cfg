\* One reader and one writer.  When both ends are closed nothing happens any more:
\* no deadlock check.
CONSTANTS
  Reader = {r1}
  Writer = {w1}
  Byte = {0}
  PIPESIZE = 2
  W = 4
  MaxN = 3
  NoProc = NoProc
SPECIFICATION FairSpec
PROPERTY CallsEnd
CHECK_DEADLOCK FALSE
