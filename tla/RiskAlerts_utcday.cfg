SPECIFICATION Spec
CONSTANTS
  Universe = {}
  Holdings = {a}
  PartsPerDay = 2
  LocalShift = 1
  LastPart = 3
  TradingDays = {0, 1}
INVARIANT
  OncePerTradingDay
