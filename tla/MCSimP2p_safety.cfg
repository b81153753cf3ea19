CONSTANTS
  c0 = c0
  c1 = c1
  c2 = c2
  o1 = o1
  o2 = o2
  o3 = o3
  o4 = o4
  b0 = b0
  b1 = b1
  b2 = b2
  Client = {c0, c1}
  Op = {o1, o2, o3}
  Buffer = {b0, b1}
  Owner <- OwnerOfTwo
  World <- Reattached
  Request <- PairRequests
  Write <- NoWrite
  Data = {0}
  Zero = 0
  None = None
  MaxAttach = 2
SPECIFICATION Spec
SYMMETRY Symmetry
CHECK_DEADLOCK FALSE
INVARIANTS
  TypeOK
  RefCountsExact
  EntriesAlive
  NoOrphanHandle
  EachMessageOnce
PROPERTIES
  KeepsAsyncIo
