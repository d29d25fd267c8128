SPECIFICATION FairSpec
CONSTANTS
  ask = ask
  briefing = briefing
  help = help
  Trigger = {ask, briefing, help}
  CommandOf <- MCCommandOf
  HasText = {ask}
  HasUrl = {ask, briefing, help}
  NoId = {briefing}
  MaxConcurrent = 2
  MaxSends = 2
  MaxCrashes = 1
INVARIANTS
  TypeOK
  PermitsConserved
  OneStartPerProcess
  DeferredHasTask
PROPERTY
  AcceptedIsFinished
CHECK_DEADLOCK FALSE
