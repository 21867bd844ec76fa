\* Three invocations that race for the lock.  In some behaviours they register
\* and unregister, nothing is killed and no holder takes five minutes; in the
\* others gc runs too, invocations are killed and locks are lost.
SPECIFICATION Spec
CONSTANTS
  p1 = p1
  p2 = p2
  p3 = p3
  w1 = w1
  w2 = w2
  n1 = n1
  n2 = n2
  committed = committed
  Proc = {p1, p2, p3}
  Roots = {w1, w2}
  Names = {n1, n2}
  Ids <- AllIds
  Manifest <- OneCommitted
  None = None
  Plans <- AllPlans
SYMMETRY ProcPermutations
CHECK_DEADLOCK FALSE
INVARIANTS TypeOK NamesUnique NoLockLeft
PROPERTIES IdKept Linearizable
