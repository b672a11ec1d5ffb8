SPECIFICATION Spec
CONSTANT MaxInFlight = 5
INVARIANTS
  TypeOK
  ArmedWhenAwake
  AudioFollowsSleep
PROPERTIES
  ReleasedWhenDown
  SuspendProceeds
