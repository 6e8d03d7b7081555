SPECIFICATION FairSpec
CONSTANTS
  Pools = {p1, p2}
  None = None
  MaxLimit = 2
  WindowSamples = 6
  EarlySamples = 4
  WarmupFrames = 1
  RecheckFrames = 24
  CooldownFrames = 4
  Costs = {100, 200}
  Outlier = 900
  NoisyTimes = {100, 200}
PROPERTIES
  KeepsAdapting
