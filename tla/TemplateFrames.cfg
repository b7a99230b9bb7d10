CONSTANTS
  ActorCount = 3
  Byte = {0, 1}
  MaxBytecode = 2
  MaxUsize = 5
  Missing = Missing
  Contracts <- MCContracts
SPECIFICATION TemplatesSpec
INVARIANTS NeverPanics FalsePositivesCross FramesDisjoint OutputsCheckedOnce TargetsAreCurrent EntryRefusalJustified OwnArtifactVerifies VerifiedReadsOneWay
CHECK_DEADLOCK FALSE
