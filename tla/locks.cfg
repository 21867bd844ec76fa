\* Long-lived servers among which only a pid may be impossible to probe, and processes to which
\* everything happens: then the lock may be lost, but it is never left behind
\* or wedged.
SPECIFICATION FairSpec
CONSTANTS
  Proc = {p1, p2, p3}
  None = None
  Torn = Torn
  FaultPlans = {{"unknown"}, {"exit", "crash", "expire", "io", "unknown"}}
\* Once every process has died nothing happens any more.
CHECK_DEADLOCK FALSE
INVARIANT TypeOK
PROPERTY ImplementsLock
INVARIANT HolderOnRecord
INVARIANT QuietClean
PROPERTY AbandonedLockRecovered
