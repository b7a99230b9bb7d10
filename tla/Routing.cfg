CONSTANTS
  ActorCount = 3
  MaxConsumes = 2
SPECIFICATION RoutingSpec
INVARIANTS NeedsCorrect
PROPERTIES Terminates JourneyEndsExactly
CHECK_DEADLOCK FALSE
