SPECIFICATION FairSpec
CONSTANTS
  buyA = buyA
  sellB = sellB
  p = p
  q = q
  Process <- MCOne
  Item <- MCItem
  Results <- MCResults
  JobsOf <- MCDaily
  PerDay = 2
  LastTime = 1
  AlertsOn = TRUE
  MaxReports = 1
  MaxCuts = 0
  MaxCrashes = 0
PROPERTY
  CatchesUp
CHECK_DEADLOCK FALSE
