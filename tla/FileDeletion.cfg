SPECIFICATION Spec
CONSTANTS
  Threshold = 1
  MaxPerHour = 1
  UpsEnabled = TRUE
  PowerRecover = TRUE
  Requests = {"deleteFile"}
  Budget = 1
PROPERTIES ScriptStartsAgain
CHECK_DEADLOCK FALSE
