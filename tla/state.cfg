SPECIFICATION Spec
CONSTANTS
  Root = {r1, r2}
  Id = {i1, i2}
  None = None
  MaxVersion = 2
  Plans <- AllPlans
SYMMETRY Sym
CHECK_DEADLOCK FALSE
INVARIANTS TypeOK NewestKept ServedNewest NoTornLeft NoneDetached
PROPERTIES MarkTravels GcSpares
