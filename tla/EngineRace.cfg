CONSTANTS
  Null = Null
  w1 = w1  w2 = w2
  u1 = u1  u2 = u2
  r1 = r1  r2 = r2
  i1 = i1  i2 = i2
  t1 = t1  t2 = t2
  Workers = {w1, w2}
  Users = {u1}
  Rules = {r1}
  Ipos = {i1}
  Tokens = {t1}
  Kinds <- Mobile
  Owner <- OneOwner
  RuleForms <- RaceForms
  IpoForms <- RaceIssues
  DayLength = 8
  ZoneShift = 1
  WindowStart = 1
  WindowEnd = 7
  StartTime = 25
  EndTime = 26
  MaxEdits = 2
  MaxCrashes = 1
SPECIFICATION Spec
SYMMETRY Symmetry
INVARIANTS
  TypeOK
  AtMostOneCall
  LedgerTellsTruth
  RowsBelongToLiveRules
  OneLossPerCrash
PROPERTIES ImplementsLedger
CHECK_DEADLOCK FALSE
