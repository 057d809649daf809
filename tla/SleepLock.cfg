\* Four processes compete for one sleep lock, with kill().
CONSTANTS
  NPROC = 4
  NoProc = NoProc
SPECIFICATION FairSpec
INVARIANTS MutualExclusion NoLostWakeup SleepInv
PROPERTIES AtomicSleep SomebodyGetsIn
