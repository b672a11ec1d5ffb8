SPECIFICATION PathSpec
CONSTANTS
  Nals = {n1, n2}
INVARIANTS
  PathTypeOK
  NoUseAfterFree
  ThreadOwnedOnce
PROPERTY FedReachesScreen
