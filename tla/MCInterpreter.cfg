SPECIFICATION Spec
CONSTANTS
  Programs <- MCPrograms
  HashOf <- MCHashOf
  Answers <- BoolAnswers
  MaxAnswers = 4
  MaxIndexRK = 2
  FieldsPerFlush = 2
  MaxCaptures = 3
  MaxDepth = 3
  PatternOf <- MCPatternOf
  PartsOf <- MCPartsOf
  Dumped <- MCDumped
INVARIANTS
  CodeChecked
  MeaningKept
  TablesAgree
