SPECIFICATION AppSpec
CONSTANTS
  Documents = {plain, exotic}
  Unsupported = {exotic}
  MaxRuns = 3
  MaxBenches = 1
INVARIANTS
  ComparisonIsOfLatestRun
  SettledWhenIdle
  ShownIsOfLatestRun
PROPERTIES
  EveryRunEnds
CHECK_DEADLOCK FALSE
