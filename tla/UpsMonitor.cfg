SPECIFICATION Spec
CONSTANTS
  s1 = s1
  s2 = s2
  s3 = s3
  h1 = h1
  h2 = h2
  Servers <- MCServers
  Hosts <- MCHosts
  HostOf <- MCHostOf
  First <- MCFirst
  Exposed <- MCHosts
  Delayed = TRUE
  NetworkReturns = TRUE
  MaxChanges = 1
  Budget = 3
INVARIANTS TypeOK OutageOnRecord
PROPERTIES HostsOffWhenStopped ShutsDown
CHECK_DEADLOCK FALSE
