SPECIFICATION ServicesSpec
CONSTANTS
  AlertRules = {c1, c2}
  For = 2
  KeepFiringFor = 1
  Retention15m = 1
  ResolveAfter = 4
  Lookback = 3
  MaxNow = 5
  MaxReloads = 1
  MaxRestartsOf = 2
  Requests = {c1, c2}
  NBackends = 2
  Policies = {"first_available", "least_loaded"}
  GlobalCap = 2
  UserCap <- MCUserCap
  FailTimeout = 1
  MaxClock = 1
  MaxAuthReloads = 1
  Pushers = {c1, c2}
  Modes <- MCModes
  MaxSamples = 2
  MaxTime = 2
  DataFiles = {f1, f2, f3}
  PartsJson = json
  PartCount <- MCPartCount
  Origins <- MCOrigins
  RestoreFaults = {"delete"}
  MaxInterrupts = 2
  Jobs = {j1}
  Urls = {c1, c2}
  Metrics = {m1}
  MaxVersion = 2
  MaxChanges = 1
  MaxConfigs = 1
  RolledSeries = {s1}
  Queriers = {c1, c2}
  Step = 2
  CacheOffset = 1
  MaxEntries = 2
  QueryTicks = 1
  Backfill = FALSE
  MaxTicks = 4
  MaxIngested = 2
  MaxBlobs = 2
  MaxRotations = 1
  MaxBlocks = 3
  MaxRows = 2
  MaxMergeRows = 3
  Timestamps = {1, 2, 3, 5}
  SampleValues = {0, 1, 2}
  StaleValue = 0
  Intervals = {0, 2}
  Checked = {"alerting", "auth", "stream", "backup", "scrape", "rollup", "merge"}
SYMMETRY Symmetric
INVARIANTS
  
  AuthSound
  
  
  ScrapeSound
  RollupSound
  MergeSound
PROPERTIES
  HealthyPreferred
  RestoreYieldsBackup
CHECK_DEADLOCK FALSE
