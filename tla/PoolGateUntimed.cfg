SPECIFICATION UntimedSpec
CONSTANTS
  Workers = {w1, w2, w3}
  Main = Main
  NoOne = NoOne
  MaxFrames = 2
  MaxFaults = 0
  MaxSpurious = 1
PROPERTIES
  NoLostWakeup
