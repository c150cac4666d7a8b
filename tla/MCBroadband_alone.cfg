SPECIFICATION Spec
CONSTANTS
  f1 = f1
  s1 = s1
  s2 = s2
  m1 = m1
  m2 = m2
  f2 = f2
  None = None
  File = {f1}
  Call = {s1, s2}
  Hotkey = {m1, m2}
  NumChunks = 2
  Limit <- Roomy
  FileOf <- OneFile
  R = 1
  MaxRounds = 2
  SemaphoreSize = 2
  Overlap = FALSE
  MayCrash = FALSE
  Requests = {"delete", "retrieve"}
SYMMETRY Alike
INVARIANT QuietWhole
PROPERTY ImplementsFileStore
CHECK_DEADLOCK FALSE
