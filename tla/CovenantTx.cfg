SPECIFICATION MCSpec

CONSTANTS
  L = L
  D = D
  X = X
  Actor <- MCActor
  Apps <- MCApps
  Alien = Alien
  c1 = c1
  c2 = c2
  Cov <- MCCov
  NoCov = NoCov
  MaxInputs = 4
  MaxOutputs = 2
  MaxCoins = 3
  MaxCardinality = 3

INVARIANTS
  ClosedDomain
  LeaderIntegrity
  InputClosure
  ContinuationOwnership
  DelegatePositionIntegrity
  AuthorizedOutputIntegrity
  BatchIndependence
  PrecheckSound

PROPERTY
  ImplementsApp
