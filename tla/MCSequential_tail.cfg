SPECIFICATION Spec
CONSTANTS
  Metagraphs <- MCMetagraphs
  StakeLimit = 1
  Lengths = {0, 3, 6, 7}
  Redundancy = {1, 2}
  Picks = {2, 4}
  MinChunk = 2
  MaxChunk = 3
  Overhead = 1
  MaxRetries = 3
  Leaf = {0, 1}
  MaxLeaves = 6
  m1 = m1
  m2 = m2
  m3 = m3
  Miner = {m1, m2, m3}
  Rounds <- MCRounds
  MaxTime = 2
  Sizes = {1, 2}
  MaxScore = 1
  NaN = NaN
  h1 = h1
  h2 = h2
  h3 = h3
  Caller = {h1, h2, h3}
  Hotkeys = {h1, h2}
  Blacklist = {h3}
  Whitelist = {h2, h3}
  MaxRequests = 2
  TimeWindow = 2
  ApiBlacklist = {h2}
  ApiWhitelist = {h2}
  OpenAccess = FALSE
  MaxNow = 5
  Process = {x, y}
  Node = {n1, n2}
  Cid = {c1, c2}
  FileName = f
  NoProcess = NoProcess
  NoEntry = NoEntry
  NoCid = NoCid
  MaxTries = 2
  MaxCalls = 2
CHECK_DEADLOCK FALSE
INVARIANT AllBytesPlanned
