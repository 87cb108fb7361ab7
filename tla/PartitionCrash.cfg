SPECIFICATION Spec
CONSTANTS
  Adders = {a1}
  MaxRawRowsPerShard = 1
  DefaultPartsToMerge = 2
  DedupEnabled = FALSE
  Rows = {r1, r2}
  Perishable = {r1, r2}
  Shards = {s1}
  PartIds = {1, 2, 3, 4, 5}
  FileKinds = {"small"}
  Searchers = {}
  MaxSnapshots = 0
  MaxForceMerges = 0
  MaxCrashes = 1
  MaxCloses = 1
INVARIANTS
  NoFatalPanic
  PartsJsonComplete
  OnlyDeadRowsDropped
PROPERTIES
  DurableRowsStay
  ImplementsRowStore
