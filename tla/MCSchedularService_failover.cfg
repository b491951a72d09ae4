CONSTANTS
  Node = {m1, m2}
  MaxCampaigns = 3
  MaxFaults = 2
  FaultKinds = {"wait", "crash"}
SPECIFICATION FairSpec
PROPERTY Failover
CHECK_DEADLOCK FALSE
