CONSTANTS
  Nobody = Nobody
  Sensor = Sensor
  Feed = Feed
  Exporters = 2
  Listeners = 2
  Attempts = 1
  PipeRoom = 1
  MaxData = 2
SPECIFICATION DistributionFairSpec
INVARIANTS StreamInv
PROPERTIES InOrder EverybodyGetsIt StopEndsRun
CHECK_DEADLOCK FALSE
