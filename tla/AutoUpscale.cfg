SPECIFICATION Spec
CONSTANTS
  ProbeWindow = 2
  GridStep = 2
  BlockSize = 4
  SoftMean = 100
  BlockyMean = 2
  MinFrames = 2
  MinSamples = 17
  Outside = 255
  Sizes <- SomeSizes
  Thresholds = {0, 30, 700}
  Contents <- SomeContents
  Pixel <- SomePixel
INVARIANTS
  TypeOK
  PicturesAccounted
  ContextMatchesBackend
  BrokenPoolDropped
  GrainyNotSharpened
  VerdictFromWindow
PROPERTIES
  ImplementsPromise
