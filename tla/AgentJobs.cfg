SPECIFICATION Spec
CONSTANTS
  Servers = {s1, s2}
  Legacy = {s1}
  Managed = {s2}
  Tasks = {t1, t2, t3, t4}
  NoTask = NoTask
  Gens = {g1, g2}
  Prov = Prov
  MaxJobs = 2
INVARIANTS TypeOK ServerExclusive NoOrphans MaintenanceExact
PROPERTIES SuccessMeansServed NoLostRegistryUpdate JobsEnd MaintenanceEnds
CHECK_DEADLOCK FALSE
