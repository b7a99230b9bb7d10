CONSTANTS
  X = X
  A = A
  B = B
  NoAlias = NoAlias
  Programs <- MCSelfReferences
  Questions <- MCSelfQuestions
  MaxDepth = 3
SPECIFICATION Spec
INVARIANTS LookupsEnd
CHECK_DEADLOCK FALSE
