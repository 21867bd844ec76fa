\* Two edits, nothing fails, no throttling.
SPECIFICATION Spec
CONSTANTS
  IndexWorkers = {e1, e2}
  EmbedWorkers = {}
  None = None
  Throttle = FALSE
  FaultPlans = {{}}
CHECK_DEADLOCK FALSE
INVARIANT NoEditLeftOut
