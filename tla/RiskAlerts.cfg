SPECIFICATION FairSpec
CONSTANTS
  Universe = {}
  Holdings = {a}
  PartsPerDay = 2
  LocalShift = 1
  LastPart = 2
  TradingDays = {1}
INVARIANTS
  TypeOK
  NoRepeatUnlessLost
  FileWithinSeen
  StopGetsThrough
  IInv
PROPERTIES
  ImplementsOncePerDay
  ScanEnds
