SPECIFICATION FairSpec
CONSTANTS
  User = {u, v}
  Slot = {w1, w2}
  MAX_STEPS = 2
  max_turns = 5
  ttl = 1
  Tools = TRUE
  MaxAsked = 3
  LastTime = 2
INVARIANTS
  TypeOK
  NoCrossTalk
  OneThread
  RefusedOnlyIfDamaged
PROPERTY
  EveryQuestionEnds
CHECK_DEADLOCK FALSE
