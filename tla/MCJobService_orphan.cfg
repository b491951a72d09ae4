CONSTANTS
  Node = {m1}
  Name = {x}
  Request = {r1, r2}
  Initial = Initial
  NoJob = NoJob
  NoEntry = NoEntry
  NoNode = NoNode
  FaultKinds = {}
  MaxFaults = 0
  MaxTerms = 1
SPECIFICATION Spec
INVARIANT RemovedMeansGone
CHECK_DEADLOCK FALSE
