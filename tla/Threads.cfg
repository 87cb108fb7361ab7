SPECIFICATION ThreadsSpec
CONSTANTS
  Blocks = {1, 2, 4}
  Size <- SizeOf
  MaxBytes = 3
  MaxIndex = 4
  Faulty = {"write", "remove", "read"}
  MaxFaults = 2
  MaxCrashes = 1
  MaxItems = 4
  IndexAdders = {a1}
  PendingFlusher = pending
  MaxMemParts = 3
  CpuSlots = 1
  MinMerge = 3
  MaxTableCrashes = 1
  SeriesIds = {x1, x2}
  IndexReaders = {r1, r2}
  Jobs = {j1}
  PoolWorkers = {w1, w2}
  MaxWorkers = 3
  Totals = {2, 6}
  MinParallel = 3
  PerWorker = 1
  MaxBatchSize = 8
  MaxCorrupt = 1
  Objects = {o1, o2}
  MaxVersions = 4
  MaxApiFaults = 1
  Flushers = {f1, f2}
  MaxQueueSize = 3
  BatchSize = 2
  MaxPushes = 4
  Checked = {"mergeset", "search", "unpack", "kube", "writer", "queue"}
INVARIANTS
  QueueSound
  MergesetSound
  
  
  WatchSound
  WriterSound
PROPERTIES
  DurableItemsStay
  
CHECK_DEADLOCK FALSE
