CONSTANTS
  Worker     = {w1, w2}
  Hosts      = {{w1, w2}}
  MasterHost = {w1, w2}
  Task       = {t1}
  Nobody     = Nobody
  FaultKinds = {"grant", "put", "revoke", "list", "watch", "expire", "crash"}
  MaxFaults  = 2
SPECIFICATION FairSpec
INVARIANTS TypeOK ServingIsRegistered ListConverges FailedMeansNotRun
PROPERTIES ImplementsTaskDelivery RegistryIsFollowed DispatchEnds
CHECK_DEADLOCK FALSE
