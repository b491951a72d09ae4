CONSTANTS
  Node = {m1, m2}
  MaxCampaigns = 2
  MaxFaults = 1
  FaultKinds = {"expire"}
SPECIFICATION Spec
INVARIANT SingleActiveScheduler
CHECK_DEADLOCK FALSE
