SPECIFICATION Spec
CONSTANTS
  a = a
  b = b
  File <- MCFile
  Imports <- MCImports
  Impacts <- MCImpacts
  MaxVersion = 2
  MaxDoc = 2
  MaxFaults = 0
INVARIANT ImpactsKept
