SPECIFICATION GeometrySpec
CONSTANTS
  MaxDim = 16
  MaxRatio = 4
  IntMax = 127
  UintMax = 255
  PresetHeights = {6, 14}
  AutoLow = 6
  AutoHigh = 8
  AxesW <- SomeAxesW
  AxesH <- SomeAxesH
  Skips = {0, 4}
  Growths <- SomeGrowths
INVARIANTS
  TargetUsable
  ViewsSound
CHECK_DEADLOCK FALSE
