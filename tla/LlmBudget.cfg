SPECIFICATION FairSpec
CONSTANTS
  Threads = {t1, t2}
  Totals <- SmallTotals
INVARIANTS TypeOK WithinTotal NoStarvation SharesFit OneLateCallPerThread
PROPERTY CancelledFallsSilent
CHECK_DEADLOCK FALSE
