CONSTANTS
  Null = Null
  scheduled = scheduled  startup = startup  retry = retry
  a = a  b = b  SME = SME  UNKNOWN = UNKNOWN
  ScrapeJobs = {scheduled}
  RetryJob = retry
  Ids = {a, b}
  Responses <- AllResponses
  MinConfidence = 50
  RetentionMode = "on_failure"
  MaxRuns = 3
  MaxFaults = 1
SPECIFICATION FairSpec
INVARIANTS
  TypeOK
  RetriesBounded
  LossReported
PROPERTIES
  ImplementsStore
  SnapshotsTellChanges
  KnownStaysKnown
  EveryScrapeEnds
CHECK_DEADLOCK FALSE
