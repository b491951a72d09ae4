CONSTANTS
  Node = {m1, m2}
  MaxCampaigns = 2
  MaxFaults = 1
  FaultKinds = {"session", "expire", "crash"}
SPECIFICATION FairSpec
PROPERTIES TakeOver DeposedStepsDown
CHECK_DEADLOCK FALSE
