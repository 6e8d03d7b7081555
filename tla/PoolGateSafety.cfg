SPECIFICATION Spec
CONSTANTS
  Workers = {w1, w2, w3}
  Main = Main
  NoOne = NoOne
  MaxFrames = 2
  MaxFaults = 2
  MaxSpurious = 1
SYMMETRY Symmetry
INVARIANTS
  TypeOK
  PendingCountsOwing
  PublishedFrameComplete
  NoStaleRun
  FreedMeansGone
  ReapedFinishedFrame
PROPERTIES
  OnlyLatePoisons
  ImplementsBarrier
