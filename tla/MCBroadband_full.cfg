SPECIFICATION Spec
CONSTANTS
  f1 = f1
  s1 = s1
  s2 = s2
  m1 = m1
  m2 = m2
  f2 = f2
  None = None
  File = {f1, f2}
  Call = {s1, s2}
  Hotkey = {m1, m2}
  NumChunks = 1
  Limit <- Tight
  FileOf <- TwoFiles
  R = 2
  MaxRounds = 2
  SemaphoreSize = 2
  Overlap = FALSE
  MayCrash = FALSE
  Requests = {}
INVARIANT CreditedHolds
CHECK_DEADLOCK FALSE
