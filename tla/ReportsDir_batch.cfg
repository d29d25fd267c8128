SPECIFICATION Spec
CONSTANTS
  buyA = buyA
  sellB = sellB
  p = p
  q = q
  Process <- MCOne
  Item <- MCItem
  Results <- MCResults
  JobsOf <- MCByHand
  PerDay = 2
  LastTime = 3
  AlertsOn = FALSE
  MaxReports = 2
  MaxCuts = 0
  MaxCrashes = 0
INVARIANT
  OneLinePerKey
CHECK_DEADLOCK FALSE
