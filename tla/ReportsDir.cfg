SPECIFICATION FairSpec
CONSTANTS
  buyA = buyA
  sellB = sellB
  p = p
  q = q
  Process <- MCTwo
  Item <- MCItem
  Results <- MCResults
  JobsOf <- MCTimers
  PerDay = 2
  LastTime = 2
  AlertsOn = TRUE
  MaxReports = 2
  MaxCuts = 1
  MaxCrashes = 1
INVARIANTS
  TypeOK
  NothingInvented
  ScoresWhatItRead
  DamageIsBounded
PROPERTY
  CatchesUpBarAlerts
CHECK_DEADLOCK FALSE
