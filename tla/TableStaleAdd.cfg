CONSTANTS
  Adders = {a1}
  Searchers = {s1}
  MonthLen = 3
  Retention = 1
  Future = 1
  Ahead = 1
  MaxLag = 1
  MarkerMayGoFirst = FALSE
  StartTime = 1
  MaxTime = 4
  MaxRestarts = 0
  Scenes = {"searches"}
SPECIFICATION MCSpec
INVARIANTS
  CreateFindsNoDir
