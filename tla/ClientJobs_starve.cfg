SPECIFICATION FairSpec
CONSTANTS
  c1 = c1
  c2 = c2
  m1 = m1
  m2 = m2
  NoOne = NoOne
  MaxJobs = 2
  Tenants <- TwoTenants
  JobTenant <- OwnJobTenant
  Connectors = {c1, c2}
  ConnTenant <- OwnConnTenant
  Capable <- AllCapable
  Daemons = {m1}
  Cid <- OwnCid
  Dispatchers = {d1}
  d1 = d1
  d2 = d2
  MaxRetries = 0
  BatchSize = 1
  PollLimit = 1
  MaxSubmits = 1
  MaxGrants = 2
  MaxFaults = 0
PROPERTIES TenantFairness
CHECK_DEADLOCK FALSE
