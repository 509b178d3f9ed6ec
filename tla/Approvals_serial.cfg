SPECIFICATION Spec
CONSTANTS
  a1 = a1
  a2 = a2
  u1 = u1
  u2 = u2
  u3 = u3
  Writers = {r1, r2, r3, r4}
  r1 = r1
  r2 = r2
  r3 = r3
  r4 = r4
  Initial = Initial
  NoFile = NoFile
  Empty = Empty
  Torn = Torn
  NoUser = NoUser
  NoApproval = NoApproval
  Approvals = {a1, a2}
  Existing = {a1}
  Users = {u1, u2, u3}
  Callers = {u1, u2, u3}
  Double = {a1}
  Requester <- AskedByU1
  Separation = TRUE
  CanExpire = {a1}
  Dispatchable = {a1, a2}
  HasSession = {a1}
  UniqueToolCall = TRUE
  Overlapping = FALSE
  MaxCrashes = 1
SYMMETRY InterchangeableUsers
CHECK_DEADLOCK FALSE
INVARIANTS StoreReadable OneResolution SurfaceIsCurrent
PROPERTIES DecisionIsFinal
