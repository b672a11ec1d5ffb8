SPECIFICATION Spec
CONSTANT MaxEvents = 3
INVARIANTS
  TypeOK
  TeardownComplete
  StatusMatchesConnection
  OneTransport
PROPERTIES
  ImplementsLifecycle
  TeardownTerminates
