SPECIFICATION Spec
CONSTANTS
  o1 = o1
  o2 = o2
  MinStack = 6
  Objects = {o1, o2}
  Userdata = {"u1"}
  MaxStates = 2
  MaxNest = 2
  MaxLeaks = 1
INVARIANTS
  RefsKept
  StateFound
  ClosedUntouched
  NothingElseLeft
PROPERTY
  OwnEnv
SYMMETRY Symmetry
CHECK_DEADLOCK FALSE
