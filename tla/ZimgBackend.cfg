SPECIFICATION FairSpec
CONSTANTS
  TileThreadsMax = 4
  PitchAlign = 4
  LinePad = 1
  Geometries <- AllGeometries
  StripeMin = 4
  ColMin = 4
  DriftFatalMisses = 3
INVARIANT DirectIoSafe
PROPERTIES
  ImplementsBackend
  DriftFailsOver
