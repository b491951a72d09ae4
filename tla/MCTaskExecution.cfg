CONSTANTS
  MaxRetries <- RetriesAsked
  Null = Null
SPECIFICATION Spec
INVARIANTS TypeOK StoredJobsAreRunnable
CHECK_DEADLOCK FALSE
