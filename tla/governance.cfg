SPECIFICATION Spec
CONSTANTS
  written = written
  found = found
  s1 = s1
  s2 = s2
  Item = {written, found}
  Session = {s1, s2}
  PlanText = {written}
  MaxVersion = 3
  None = None
  Plans <- AllPlans
INVARIANT TypeOK
INVARIANT NothingLost
INVARIANT DispositionStands
INVARIANT OneOpenSession
PROPERTY ArtifactKept
PROPERTY Implements
