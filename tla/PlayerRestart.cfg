SPECIFICATION Spec
CONSTANTS
  Players = {alice}
  Servers = {lobby, world}
  None = none
  Pending = pending
  Failed = failed
  Out = out
  Grace = 2
  MaxFailures = 3
  Moves = 2
  Faults = 1
PROPERTIES LeaveConfirmed
