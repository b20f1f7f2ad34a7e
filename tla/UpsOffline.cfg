SPECIFICATION Spec
CONSTANTS
  s1 = s1
  s2 = s2
  s3 = s3
  h1 = h1
  h2 = h2
  Servers <- MCServers
  Hosts <- MCHosts
  HostOf <- MCHostOf
  First <- MCFirst
  Exposed <- MCHosts
  Delayed = TRUE
  NetworkReturns = FALSE
  MaxChanges = 0
  Budget = 1
PROPERTY OrderlyShutdown
CHECK_DEADLOCK FALSE
