SPECIFICATION Spec
CONSTANTS
  u1 = u1
  u2 = u2
  Uid = {u1, u2}
  WaitBlocks = 1
  CheckpointBlocks = 2
  HalfTempo = 1
  QuietBlocks = 1
  MaxFailures = 1
  PurgeEvery = 2
  MaxLag = 2
  Envs <- MCEnvs
INVARIANT TypeOK
INVARIANT DownEarned
PROPERTY PurgeOnce
PROPERTY WeightsSpaced
PROPERTY QueueDrains
