\* A burst of three edits and a commit, with throttling; in some behaviours
\* workers are killed and writes fail, in some locks are reaped under running
\* workers, in some indexers fail.
SPECIFICATION Spec
CONSTANTS
  IndexWorkers = {e1, e2, e3}
  EmbedWorkers = {c1}
  None = None
  Throttle = TRUE
  FaultPlans = {{"crash", "io"}, {"expire"}, {"run"}}
SYMMETRY WorkerPermutations
\* The workers return.
CHECK_DEADLOCK FALSE
INVARIANT TypeOK
INVARIANT SingleFlight
INVARIANT NoLockLeft
PROPERTY RequestAnswered
