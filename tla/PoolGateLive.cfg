SPECIFICATION FairSpec
CONSTANTS
  Workers = {w1, w2}
  Main = Main
  NoOne = NoOne
  MaxFrames = 2
  MaxFaults = 2
  MaxSpurious = 1
PROPERTIES
  DispatchReturns
  StopTerminates
