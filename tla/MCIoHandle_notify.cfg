CONSTANTS
  Thread = {t1, t2}
  Kind = {"pending"}
  Patience = {"never"}
SPECIFICATION FairSpec
CHECK_DEADLOCK FALSE
INVARIANTS
  NotifierAlive
