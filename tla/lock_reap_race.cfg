\* One process of three exits normally while another examines the lock.
SPECIFICATION Spec
CONSTANTS
  Proc = {p1, p2, p3}
  None = None
  Torn = Torn
  FaultPlans = {{"exit"}}
SYMMETRY ProcPermutations
CHECK_DEADLOCK FALSE
INVARIANT MutualExclusion
