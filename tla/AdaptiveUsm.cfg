SPECIFICATION Spec
CONSTANTS
  Pools = {p1, p2}
  None = None
  MaxLimit = 4
  WindowSamples = 6
  EarlySamples = 4
  WarmupFrames = 1
  RecheckFrames = 30
  CooldownFrames = 6
  Costs = {97, 100, 200}
  Outlier = 900
  NoisyTimes = {100, 200}
SYMMETRY Symmetry
INVARIANTS
  TypeOK
  PoolsOwned
  PoolsMatchTuner
  WindowTimesCurrent
  SettledIsGood
PROPERTIES
  TrialFailureSpares
