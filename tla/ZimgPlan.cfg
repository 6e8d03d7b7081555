SPECIFICATION Spec
CONSTANTS
  TileThreadsMax = 5
  PitchAlign = 4
  LinePad = 1
  ThreadsMax = 5
  ThreadsAutoMax = 4
  Prefs = {0, 3, 9}
  CpuSets <- SomeCpuSets
  Onlines = {0, 12}
  Heights <- UpHeights
  Widths <- SomeWidths
  StripeMins = {1, 3}
  ColMins = {1, 2, 4}
INVARIANTS
  GridPartitions
  GridMaximal
  WorkersHaveCpus
