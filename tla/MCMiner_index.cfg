SPECIFICATION Spec
CONSTANTS
  v = v
  w = w
  h1 = h1
  h2 = h2
  r1 = r1
  r2 = r2
  None = None
  NoMd = NoMd
  Hotkey = {v, w}
  Hash = {h1, h2}
  Req = {r1, r2}
  Storers <- MixedUse
  Readers <- MixedUse
  Patient = {w}
  LegacyOwner <- NoOwners
  MayCrash = TRUE
SYMMETRY Slots
INVARIANT EntryHasData
INVARIANT AckedServable
