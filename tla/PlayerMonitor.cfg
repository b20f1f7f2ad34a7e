SPECIFICATION Spec
CONSTANTS
  Players = {alice}
  Servers = {lobby, world}
  None = none
  Pending = pending
  Failed = failed
  Out = out
  Grace = 2
  MaxFailures = 3
  Moves = 3
  Faults = 3
INVARIANTS TypeOK FewOrphans SavedState
PROPERTIES NoFalseLeave LeavesTold JoinsTold
