SPECIFICATION TurnsSpec
CONSTANTS
  TurnIds = {u1, u2}
  Loops = {l1, l2}
  StreamLimit = 1
  MaxTools = 1
  NoLoop = no_loop
  Sessions = {{u1, u2}}
INVARIANT ResolvedIsCleared
CHECK_DEADLOCK FALSE
