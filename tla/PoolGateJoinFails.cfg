SPECIFICATION Spec
CONSTANTS
  Workers = {w1, w2}
  Main = Main
  NoOne = NoOne
  MaxFrames = 1
  MaxFaults = 1
  MaxSpurious = 0
INVARIANTS
  DispatchReturnsQuiet
