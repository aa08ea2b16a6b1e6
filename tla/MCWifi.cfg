SPECIFICATION Spec
CONSTANTS
  Home = Home
  Office = Office
  x = x
  y = y
  b1 = b1
  b2 = b2
  NoSsid = NoSsid
  NullText = NullText
  NoFile = NoFile
  NoScan = NoScan
  Contexts = {Home, Office}
  Ssids = {x, y}
  Bssids = {b1, b2}
  Levels <- SignalLevels
  ScanItems <- Signals
  AssetLines <- AssetRules
  MaxCopies = 1
  MaxRules = 2
  MaxLeaked = 1
INVARIANTS
  TypeOK
  RefsAccounted
  EnteredOnEvidence
  FileAgrees
PROPERTIES
  ScanDecides
