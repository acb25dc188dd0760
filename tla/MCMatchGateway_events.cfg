SPECIFICATION GatewaySpec
CONSTANTS
  u1 = u1
  u2 = u2
  u3 = u3
  s1 = s1
  s2 = s2
  None = None
  Users = {u1, u2}
  Calls = {c1, c2}
  Sockets = {s1, s2}
  Pending = rest
  Sids = {s1, s2, rest}
  SocketUser <- MCSocketUser
  GenderOf <- MCGender
  JoinDtos <- MCOneJoins
  InitEntry <- MCRestWaiting
  InitStamp = 1
  InitBlocks <- MCNoBlocks
  Ops = {"join", "sync", "leave", "status", "match"}
  ClientOps = {"join", "sync", "leave", "disconnect", "restLeave", "restStatus"}
  MaxStamp = 2
  MaxAged = 1
  MaxFaults = 0
  MaxCrashes = 0
  LocksMayLapse = FALSE
SYMMETRY CallSymmetry
INVARIANTS
  GatewayTypeOK
  RoomsComeFromMatches
  UnreadIsUntold
