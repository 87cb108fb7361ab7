SPECIFICATION Spec
CONSTANTS
  Adders = {a1}
  MaxRawRowsPerShard = 1
  DefaultPartsToMerge = 2
  DedupEnabled = FALSE
  Rows = {r1, r2}
  Perishable = {}
  Shards = {s1}
  PartIds = {1, 2, 3, 4, 5}
  FileKinds = {"small", "big"}
  Searchers = {q1}
  MaxSnapshots = 0
  MaxForceMerges = 1
  MaxCrashes = 0
  MaxCloses = 0
SYMMETRY RowSymmetry
INVARIANTS
  TypeOK
  SearchSeesConsistentParts
  MergesDisjoint
  RowsInOnePlace
PROPERTIES
  FlushNotPostponed
