SPECIFICATION Spec
CONSTANTS
  Versions = {paper, forge}
  Manual = manual
  Free = free
  Stale = stale
  Damaged = damaged
  Mixed = mixed
  None = none
  MaxLives = 2
  MaxWorld = 2
  Requests = 3
  Faults = 2
INVARIANTS TypeOK NoLoss RunsAsRegistered
PROPERTIES RunsAgain Implements
CHECK_DEADLOCK FALSE
