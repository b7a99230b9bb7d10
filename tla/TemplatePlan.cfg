CONSTANTS
  ActorCount = 4
  MaxEdges = 3
  MaxSelectorEdges = 2
  MaxMixedEdges = 2
  MaxInputs = 1
  CompilerOrder <- MCOrder
  RouteApps <- MCApps
  None = None
  Variants <- MCVariants
SPECIFICATION TSpec
INVARIANTS
  CutsMeanNeeds CohortsShareCuts TransitionsDerivable FieldsMatchCut
  OutputsCarryContext CheckSeparatesBuilds
CHECK_DEADLOCK FALSE
