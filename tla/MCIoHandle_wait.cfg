CONSTANTS
  Thread = {t1, t2, t3}
  Kind = {"pending", "stream"}
  Patience = {"zero", "finite", "never"}
SPECIFICATION FairSpec
CHECK_DEADLOCK FALSE
INVARIANTS
  TypeOK
  NoLostWakeup
  OneSynchroniser
  PendingKept
PROPERTIES
  VerdictFinal
  HonestResult
  WaitReturns
