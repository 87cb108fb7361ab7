SPECIFICATION FairSpec
CONSTANTS
  Adders = {a1}
  MaxRawRowsPerShard = 1
  DefaultPartsToMerge = 2
  DedupEnabled = FALSE
  Rows = {r1, r2}
  Perishable = {}
  Shards = {s1}
  PartIds = {1, 2, 3, 4}
  FileKinds = {"small"}
  Searchers = {}
  MaxSnapshots = 1
  MaxForceMerges = 0
  MaxCrashes = 0
  MaxCloses = 1
INVARIANT
  SnapshotComplete
PROPERTIES
  RowsBecomeDurable
  CloseTerminates
