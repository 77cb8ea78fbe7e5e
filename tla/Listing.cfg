SPECIFICATION Spec
CONSTANTS
  None = None
  Datasets <- MCDatasets
  Queries <- MCQueries
  FirstDay = 17
  LastDay = 18
  MaxScrapes = 1
INVARIANTS
  LabelsAgree
  OnlyWanted
  EachOnce
  CountHonest
CHECK_DEADLOCK FALSE
