CONSTANTS
  v1 = v1
  v2 = v2
  s1 = s1
  None = None
  Requests = {v1, v2, s1}
  Channel <- MCChannel
SPECIFICATION FairSpec
CHECK_DEADLOCK FALSE
INVARIANTS
  TypeOK
  SingleCompleter
  NeverForgotten
  SlotHoldsOpenRequest
  ReferencesBalanced
PROPERTIES
  CancelledRequestsReturn
  ImplementsLifecycle
