SPECIFICATION IndexSpec
CONSTANTS
  Names = {m1}
  Dates = {0, 1}
  DaysPerMonth = 1
  Inserters = {i1, i2}
  Batches <- MCBatches
  MaxBatch = 2
  SwitchSame = FALSE
  MaxIds = 3
  MaxAdds = 3
  MaxDeletes = 1
  MaxForgets = 0
  MetricIds = {x1}
  Writers = {w1, w2}
  HoursPerDay = 2
  MonthDays = 2
  MaxHour = 4
  Stragglers = TRUE
  MaxReopens = 1
  Checked = {"perday"}
SYMMETRY ThreadSymmetry
INVARIANT
  RowsFindable
CHECK_DEADLOCK FALSE
