CONSTANTS
  c0 = c0
  c1 = c1
  c2 = c2
  o1 = o1
  o2 = o2
  o3 = o3
  o4 = o4
  b0 = b0
  b1 = b1
  b2 = b2
  Client = {c0, c1}
  Op = {o1, o2, o3}
  Buffer = {b0, b1}
  Owner <- OwnerOfTwo
  World <- TwoRanks
  Request <- OneWayRequests
  Write <- OneWrite
  Data = {0, 1}
  Zero = 0
  None = None
  MaxAttach = 1
SPECIFICATION FairSpec
CHECK_DEADLOCK FALSE
PROPERTIES
  DeliveredAsSubmitted
  CounterpartsFinish
