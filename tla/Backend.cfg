SPECIFICATION BackendSpec
CONSTANTS
  Threads = {t1, t2, t3}
  Tenants = {a, b}
  NoTenant = no_tenant
  Conns = {c1, c2}
  NoConn = no_conn
  PoolMin = 1
  PoolMax = 2
  PoolFaults = 1
  Callers = {k1, k2, k3}
  FailureThreshold = 2
  ProbeMax = 1
  TokenLimit = 2
  MaxCost = 2
  MaxReported = 1
  Events = {e1, e2}
  Processors = {p1, p2}
  MaxAttempts = 2
  MaxDeaths = 1
  Items = {w1, w2, w3}
  NoItem = no_item
  Nodes = {n1, n2, n3, n4}
  Trees = {{n1, n2, n3}, {n4}}
  NoNode = no_node
  TreeWorkers = 2
  Requests = {r1, r2, r3}
  NoBundle = no_bundle
  WorkIds = {i1, i2, i3}
  Blockable = {i1}
  Blockers = {i2, i3}
  ItemStatuses = {"open", "in_progress", "done"}
  Requesters = {q1}
  NoItemId = no_item_id
  TurnIds = {u1, u2}
  Loops = {l1, l2}
  StreamLimit = 1
  MaxTools = 1
  NoLoop = no_loop
  Sessions = {{u1}}
  Parts = {"pool", "gateway", "outbox", "lease", "tree", "policy", "work", "turns"}
INVARIANTS
  BackendTypeOK
  PoolNoSharing
  PoolTenantScoped
  PoolFallbackUnneeded
  QuotaOvershoot
  OutboxTellsTheTruth
  LockedItemHasEntry
  AggregatesComplete
  ActiveIsPublished
  PublishedBundleIsWhole
  BlockersWereEnded
  SlotsAccounted
  NeverExhausted
  ErrorMeansNotSaved
PROPERTIES
  CircuitRecovers
  EventSettles
  TreeEnds
  StreamEnds
  DeleteKeepsOwnChildren
CHECK_DEADLOCK FALSE
