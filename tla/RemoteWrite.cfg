SPECIFICATION FairSpec
CONSTANTS
  Series = {s1, s2, s3}
  Pushers = {p1, p2}
  Workers = {w1, w2}
  MaxBlockSize = 2
  Blocks <- MCBlocks
  Size <- MCSize
  MaxBytes = 2
  MaxIndex = 9
  Faulty = {"write"}
  MaxFaults = 1
  MaxCrashes = 1
  MaxStops = 1
INVARIANTS
  PipelineSound
PROPERTIES
  SeriesSettle
  StopTerminates
  QueueIsDurableFifo
  QueuedSurvivesCrash
