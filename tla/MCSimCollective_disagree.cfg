CONSTANTS
  c0 = c0
  c1 = c1
  c2 = c2
  o1 = o1
  o2 = o2
  o3 = o3
  b0 = b0
  b1 = b1
  b2 = b2
  Client = {c0, c1, c2}
  Op = {o1, o2, o3}
  Buffer = {b0, b1, b2}
  Owner <- OwnerOfThree
  World <- ThreeRanks
  Request <- DisagreeingRequests
  None = None
  MaxAttach = 1
  Modulus = 4
SPECIFICATION FairSpec
CHECK_DEADLOCK FALSE
PROPERTIES
  RoundFinishes
