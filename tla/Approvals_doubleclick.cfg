SPECIFICATION Spec
CONSTANTS
  a1 = a1
  a2 = a2
  u1 = u1
  u2 = u2
  u3 = u3
  Writers = {r1, r2}
  r1 = r1
  r2 = r2
  r3 = r3
  r4 = r4
  Initial = Initial
  NoFile = NoFile
  Empty = Empty
  Torn = Torn
  NoUser = NoUser
  NoApproval = NoApproval
  Approvals = {a1}
  Existing = {a1}
  Users = {u1, u2}
  Callers = {u1, u2}
  Double = {}
  Requester <- AskedByU1
  Separation = TRUE
  CanExpire = {}
  Dispatchable = {a1}
  HasSession = {}
  UniqueToolCall = TRUE
  Overlapping = TRUE
  MaxCrashes = 0
SYMMETRY Interchangeable
CHECK_DEADLOCK FALSE
INVARIANT OneResolution
