\* One change, one move of HEAD and one failure, at any moment of the calls and
\* runs of one server and of the index of an edit hook.
SPECIFICATION FairSpec
CONSTANTS
  Thread = {t1, t2}
  None = None
  MaxChange = 1
  MaxHead = 1
  MaxFaults = 1
INVARIANTS TypeOK SingleFlight 
PROPERTIES  GraphAdvances 
