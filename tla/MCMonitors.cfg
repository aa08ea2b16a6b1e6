SPECIFICATION Spec
CONSTANTS
  i1 = i1
  i2 = i2
  NoInstance = NoInstance
  Instances = {i1, i2}
INVARIANTS
  TypeOK
  ChainsGoOn
  ListenerThere
  ListenersEnd
PROPERTIES
  StopsWhenDestroyed
