SPECIFICATION Spec
CONSTANTS
  Client = {c1, c2}
  MaxAttempts = 2
  Skew = 2
  ExpiresIn = 4
  DefaultLife = 3
  MaxDelay = 1
  OneAtATime = TRUE
  LastTime = 4
  MaxCalls = 2
  MaxLogins = 4
  MaxLate = 1
SYMMETRY Symmetry
INVARIANTS
  TypeOK
  IInv
  NeverRunsOut
  LogsInOnlyIfNeeded
  DeniedOnlyByAnother
PROPERTY StepsLeadToTheEnd
CHECK_DEADLOCK FALSE
