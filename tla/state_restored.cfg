\* A migration fails at its sidecar, the graph is written in the state
\* directory, and the one in the tree is restored.
SPECIFICATION Spec
CONSTANTS
  Root = {r1}
  Id = {i1}
  None = None
  MaxVersion = 2
  Plans <- Forked
CHECK_DEADLOCK FALSE
PROPERTY IgnoredKept
