CONSTANTS
  Node = {m1, m2}
  Name = {x}
  Request = {r1, r2}
  Initial = Initial
  NoJob = NoJob
  NoEntry = NoEntry
  NoNode = NoNode
  FaultKinds = {"write", "list", "crash"}
  MaxFaults = 1
  MaxTerms = 2
SPECIFICATION Spec
SYMMETRY Symmetry
INVARIANTS TypeOK NameLeadsToEntry OneEntryPerJob OnlyStoredJobsRun SettledAgrees
CHECK_DEADLOCK FALSE
