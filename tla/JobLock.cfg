CONSTANTS
  Null = Null
  p = p  q = q
  scheduled = scheduled  retry = retry  notify = notify
  other_scrape = other_scrape  other_notify = other_notify
  c1 = c1  c2 = c2  c3 = c3  d1 = d1  d2 = d2
  Processes = {p, q}
  Runs = {scheduled, retry, notify, other_notify}
  Conns = {c1, c2, d1}
  RunsIn <- Placement
  JobOf <- Work
  Home <- Opener
  MaxDepth = 2
  MaxFaults = 1
SPECIFICATION FairSpec
INVARIANTS
  TypeOK
  ScrapesExclusive
  ScrapeLockInUse
PROPERTIES
  NeverWedged
