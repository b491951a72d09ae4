CONSTANTS
  Exec   = {e1, e2}
  Name   = {j1}
  Worker = {w1}
  NoTask = NoTask
  Endings = {"panic"}
  Policies = {"Forbid"}
SPECIFICATION FairSpec
PROPERTIES ExecutionsFinish KeysAreFreed
CHECK_DEADLOCK FALSE
