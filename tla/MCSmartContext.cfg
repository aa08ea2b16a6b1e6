SPECIFICATION Spec
CONSTANTS
  w = w
  p = p
  q = q
  i1 = i1
  i2 = i2
  i3 = i3
  i4 = i4
  NoInstance = NoInstance
  a1 = a1
  a2 = a2
  a3 = a3
  a4 = a4
  NoActivity = NoActivity
  Activities = {a1, a2, a3, a4}
  NativeNames = {w}
  InternalNames = {p, q}
  Definitions <- Rules
  Order <- Ids
  Instances = {i1, i2, i3, i4}
  Screens = {"ea"}
  MaxPosted = 2
INVARIANTS
  IInv
  ServiceHolders
  LuaFollows
  ViewsFollow
