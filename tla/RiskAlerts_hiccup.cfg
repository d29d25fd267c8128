SPECIFICATION Spec
CONSTANTS
  Universe = {a}
  Holdings = {}
  PartsPerDay = 2
  LocalShift = 1
  LastPart = 2
  TradingDays = {0, 1}
PROPERTY
  HiccupDropsNothing
