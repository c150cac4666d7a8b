SPECIFICATION FairSpec
CONSTANTS
  f1 = f1
  s1 = s1
  s2 = s2
  m1 = m1
  m2 = m2
  f2 = f2
  None = None
  File = {f1}
  Call = {s1, s2}
  Hotkey = {m1, m2}
  NumChunks = 1
  Limit <- Roomy
  FileOf <- OneFile
  R = 2
  MaxRounds = 2
  SemaphoreSize = 2
  Overlap = TRUE
  MayCrash = TRUE
  Requests = {}
INVARIANT CreditedListed
INVARIANT MappedListed
PROPERTY Finishes
CHECK_DEADLOCK FALSE
