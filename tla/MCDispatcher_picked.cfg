CONSTANTS
  Worker     = {w1, w2}
  Hosts = {{w1},{w2}}
  MasterHost = {w1}
  Task       = {t1}
  Nobody     = Nobody
  FaultKinds = {"grant", "put", "revoke", "list", "watch", "expire", "crash"}
  MaxFaults = 0
SPECIFICATION Spec
INVARIANT PickedWorkerGetsTask
CHECK_DEADLOCK FALSE
