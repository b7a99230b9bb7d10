CONSTANTS
  ActorCount = 4
  MaxEdges = 3
  MaxSelectorEdges = 0
  MaxMixedEdges = 0
  MaxInputs = 1
  CompilerOrder <- MCOrder
  RouteApps <- MCApps
  None = None
  Variants <- MCVariants
SPECIFICATION TSpec
INVARIANT OpenFamiliesReachOutputs
CHECK_DEADLOCK FALSE
