CONSTANTS
  Null = Null
  Parts <- Contained
  Sources <- MCSources
  Today <- Dec30
SPECIFICATION Spec
INVARIANTS
  MappingStable
  ReadsBack
  IdentitySurvives
  ValidFitsTable
CHECK_DEADLOCK FALSE
