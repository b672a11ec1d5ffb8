SPECIFICATION Spec
CONSTANTS
  Requests = {r1, r2, r3}
  NoRequest = none
  TimeoutTicks = 2
INVARIANTS
  TypeOK
  DialogIsUnanswered
  CancelHitsItsRequest
PROPERTIES
  AnsweredOnce
  RequestEnds
