CONSTANTS
  Node = {m1, m2}
  MaxCampaigns = 3
  MaxFaults = 2
  FaultKinds = {"session", "propose", "wait", "list", "expire", "crash"}
SPECIFICATION Spec
SYMMETRY Symmetry
INVARIANTS TypeOK OneLeaderKey LeadershipInOrder LiveLeaderExclusive CronCanBeStopped
           CronWasLoadedAsLeader
PROPERTIES UsesElection ImplementsLeaseLock
CHECK_DEADLOCK FALSE
