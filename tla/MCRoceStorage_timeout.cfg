CONSTANTS
  b0 = b0
  Op = {o1}
  Buffer = {b0}
  Request <- Reads
  Data = {0, 1}
  Zero = 0
  Stored = 1
  None = None
  AllowWrites = TRUE
SPECIFICATION FairSpec
CHECK_DEADLOCK FALSE
INVARIANTS
  WindowKept
