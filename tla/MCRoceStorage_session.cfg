CONSTANTS
  b0 = b0
  Op = {o1, o2}
  Buffer = {b0}
  Request <- Requests
  Data = {0, 1}
  Zero = 0
  Stored = 1
  None = None
  AllowWrites = TRUE
SPECIFICATION FairSpec
CHECK_DEADLOCK FALSE
INVARIANTS
  TypeOK
  RequestExclusive
  CleanWhenConnected
  WindowsAccounted
PROPERTIES
  SuccessMeansTransferred
  RequestFinishes
  KeepsAsyncIo
