CONSTANTS
  c0 = c0
  c1 = c1
  c2 = c2
  o1 = o1
  o2 = o2
  o3 = o3
  b0 = b0
  b1 = b1
  b2 = b2
  Client = {c0, c1}
  Op = {o1, o2, o3}
  Buffer = {b0, b1}
  Owner <- OwnerOfTwo
  World <- Worlds
  Request <- MixedRequests
  None = None
  MaxAttach = 2
  Modulus = 4
SPECIFICATION Spec
SYMMETRY Symmetry
CHECK_DEADLOCK FALSE
INVARIANTS
  TypeOK
  RefCountsExact
  EntriesSound
  NoOrphanHandle
  AllRanksTogether
PROPERTIES
  KeepsAsyncIo
