SPECIFICATION FairSpec
CONSTANTS
  MaxIo = 1
  MaxSwitches = 1
  MaxProcs = 2
  MaxSamples = 2
INVARIANTS
  ContainerGoneOrReported
  MeasurementSound
PROPERTIES
  AttemptEnds
