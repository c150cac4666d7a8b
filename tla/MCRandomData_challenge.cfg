SPECIFICATION Spec
CONSTANTS
  m1 = m1
  m2 = m2
  r1 = r1
  c1 = c1
  Hotkey = {m1, m2}
  Rand = {empty, r1}
  Chunk = {c1}
  Empty = empty
  None = None
  Envs <- MCEnvs
CHECK_DEADLOCK FALSE
INVARIANT TypeOK
INVARIANT StoredOnly
INVARIANT SeedsAgree
INVARIANT TtlKept
INVARIANT LoopSurvives
PROPERTY PurgeComplete
