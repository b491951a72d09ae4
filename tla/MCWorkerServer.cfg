CONSTANTS
  Exec   = {e1, e2}
  Name   = {j1}
  Worker = {w1, w2}
  NoTask = NoTask
  Endings = {"ok", "error", "panic"}
  Policies = {"Allow", "Forbid"}
SPECIFICATION Spec
SYMMETRY Symmetry
INVARIANTS TypeOK LiveLockExclusive ForbidExclusiveUnderLease LockCoversExecution HistoryIsTruthful
           CleanRunIsRecorded
PROPERTIES FinalRecordIsKept NobodyElseUnlocks UsesLocker ImplementsLeaseLock
CHECK_DEADLOCK FALSE
