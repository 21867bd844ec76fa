\* Two files, one fault.  None of these properties reads the impact edges.
SPECIFICATION FairSpec
CONSTANTS
  a = a
  b = b
  File <- MCFile
  Imports <- MCImports
  Impacts <- MCNoImpacts
  MaxVersion = 2
  MaxDoc = 2
  MaxFaults = 1
INVARIANTS TypeOK UnchangedIsParsed  ImportsSound 
PROPERTY FullRunResolves 
