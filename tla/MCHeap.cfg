SPECIFICATION Spec
CONSTANTS
  Tables = {"t1", "t2"}
  Closures = {"c1"}
  UpVals = {"u1"}
  Userdatas = {"d1"}
  Strings = {"s1"}
  Coroutines = {"co"}
  Starts <- MCStarts
  Slots = {1, 2}
INVARIANTS
  NothingLiveFreed
  TriColour
  FinalizedOnce
  GarbageGone
CHECK_DEADLOCK FALSE
