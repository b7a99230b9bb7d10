SPECIFICATION BuildingSpec

CONSTANTS
  A = A
  B = B
  Actor <- MCActor
  Alien = Alien
  Entries <- MCEntries
  States = {"s"}
  InitCoins <- MCCoins
  InitOutpoints = 3
  MaxInputs = 2
  MaxOutputs = 3
  MaxGroups = 2
  MaxOutpoints = 6
  NoKey = NoKey
  Static = Static
  MaxDeclared = 4
  Contexts <- BuilderContexts
  Apps <- ProofApps
  Altered <- AlteredPackages
  S = S
  L = L
  Refused = Refused
  OwnKind = FALSE

INVARIANTS
  SpawnsComplete
  SpawnsDistinct
  BuiltIsAccepted
  PackagesTellGroups
  ScriptMeansDeclaration
  ArgumentsFit

CHECK_DEADLOCK FALSE
