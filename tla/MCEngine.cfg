SPECIFICATION Spec
CONSTANTS
  a = a
  b = b
  p = p
  q = q
  r = r
  bad = bad
  NULL = NULL
  SystemNames = {a, b}
  LocalNames = {p, q, r}
  BadNames = {bad}
  Namespaces = {"n"}
  MaxClauses = 3
  RuleLines <- Lines
INVARIANTS
  TypeOK
  Settled
  ReportedInOrder
  NoChangeLost
  ResetChangesNothing
  UpdateInv
PROPERTIES
  UpdateEnds
  ImplementsSymbolRules
