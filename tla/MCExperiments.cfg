SPECIFICATION Spec
CONSTANTS
  s1 = s1
  s2 = s2
  o1 = o1
  o2 = o2
  x = x
  y = y
  None = None
  NCells = 2
  Contents = {x, y}
  Services = {s1, s2}
  Operators = {o1, o2}
  MaxCalls = 3
  MaxFaults = 1
CHECK_DEADLOCK FALSE
SYMMETRY Symmetric
INVARIANTS AllocationIsComplete
PROPERTY ImplementsLedger
