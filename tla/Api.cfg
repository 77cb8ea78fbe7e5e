SPECIFICATION FairSpec
CONSTANTS
  r1 = r1
  r2 = r2
  r3 = r3
  ann = ann
  bob = bob
  tok = tok
  new = new
  line1 = line1
  line2 = line2
  line3 = line3
  None = None
  Requests <- MCRequests
  Users <- MCUsers
  Devices <- MCDevices
  Scenarios <- MCScenarios
  Closable <- MCClosable
  PerSecond = 2
  WindowSeconds = 1
  Limit = 1
  PruneAt = 2
  MaxTime = 4
  MaxFaults = 1
INVARIANTS
  OneAccountEach
  SignUpTold
  GoneTokensOff
  WindowRespected
  RetryHonoured
PROPERTIES
  RefusedForCause
  EveryRequestAnswered
CHECK_DEADLOCK FALSE
