SPECIFICATION Spec
CONSTANTS
  ThreadsMax = 4
  ThreadsAutoMax = 3
  StripeMinRows = 3
  Tiers <- TwoTiers
  LargeThreads = 5
  Heights <- SmallHeights
  Widths = {4, 8}
  Prefs = {0, 1, 4}
  Cores = {3, 8}
  MinRows = {0, 1, 2}
INVARIANTS
  FrameSharpened
  StripesHighEnough
