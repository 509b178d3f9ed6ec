SPECIFICATION Spec
CONSTANTS
  c1 = c1
  c2 = c2
  m1 = m1
  m2 = m2
  NoOne = NoOne
  MaxJobs = 1
  Tenants <- OneTenant
  JobTenant <- OneJobTenant
  Connectors = {c1}
  ConnTenant <- OneConnTenant
  Capable <- AllCapable
  Daemons = {m1, m2}
  Cid <- SharedCid
  Dispatchers = {d1}
  d1 = d1
  d2 = d2
  MaxRetries = 1
  BatchSize = 1
  PollLimit = 1
  MaxSubmits = 2
  MaxGrants = 3
  MaxFaults = 1
PROPERTIES EndIsFinal
CHECK_DEADLOCK FALSE
