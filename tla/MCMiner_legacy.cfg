SPECIFICATION FairSpec
CONSTANTS
  v = v
  w = w
  h1 = h1
  h2 = h2
  r1 = r1
  r2 = r2
  None = None
  NoMd = NoMd
  Hotkey = {v, w}
  Hash = {h1}
  Req = {r1, r2}
  Storers <- UseV
  Readers <- UseW
  Patient = {}
  LegacyOwner <- OwnerV
  MayCrash = TRUE
INVARIANT TypeOK
INVARIANT SeedFromCaller
PROPERTY LostOnlyByWriteBack
PROPERTY Answered
