SPECIFICATION Spec
CONSTANTS
  Threshold = 1
  MaxPerHour = 1
  UpsEnabled = TRUE
  PowerRecover = TRUE
  Requests = {"stop", "deleteFile", "start", "maintenance"}
  Budget = 3
INVARIANTS TypeOK AdminStopStands
PROPERTIES StartsAllowed SuccessMeansRestarted ServerComesBack
CHECK_DEADLOCK FALSE
