SPECIFICATION FairSpec
CONSTANTS
  NumSessions = 4
  Concurrency = 3
  MaxWorkers = 2
  PrepConcurrency = 2
  HostSessions = {2}
  FaultKinds = {"load", "prepare", "record", "log", "start", "replay", "stop"}
CHECK_DEADLOCK FALSE
INVARIANTS
  AllReadyStart
  PermitsBalanced
  ContainersFinalized
  EverySessionReported
PROPERTIES
  ImplementsAllReadyReplay
