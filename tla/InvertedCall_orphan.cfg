CONSTANTS
  v1 = v1
  v2 = v2
  s1 = s1
  None = None
  Requests = {v1, v2, s1}
  Channel <- MCChannel
SPECIFICATION Spec
CHECK_DEADLOCK FALSE
INVARIANT PendedIsReachable
