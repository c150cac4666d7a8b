SPECIFICATION Spec
CONSTANTS
  u1 = u1
  u2 = u2
  Updater = {u1, u2}
  TopTier = 2
  MinScore <- Score12
  MinTotal <- Total12
  Settings <- MCSettings
  MaxUpdates = 3
  MaxComputes = 2
  MaxRegisters = 1
CHECK_DEADLOCK FALSE
SYMMETRY Processes
INVARIANT TierEarned
INVARIANT TotalAccounted
INVARIANT ScoreDefined
