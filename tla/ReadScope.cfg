CONSTANTS
  ActorCount = 4
  MaxEdges = 2
  MaxSelectorEdges = 0
  MaxMixedEdges = 0
  MaxInputs = 1
  CompilerOrder <- MCOrder
  RouteApps <- MCApps
  None = None
  Variants <- MCVariants
SPECIFICATION TSpec
INVARIANT TemplatesReadWhereHeld
CHECK_DEADLOCK FALSE
