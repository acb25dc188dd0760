SPECIFICATION GatewaySpec
CONSTANTS
  u1 = u1
  u2 = u2
  u3 = u3
  s1 = s1
  s2 = s2
  None = None
  Users = {u1, u2, u3}
  Calls = {c1, c2}
  Sockets = {s1, s2}
  Pending = rest
  Sids = {s1, s2, rest}
  SocketUser <- MCSocketUser
  GenderOf <- MCGender
  JoinDtos <- MCOneJoins
  InitEntry <- MCBothRestWaiting
  InitStamp = 2
  InitBlocks <- MCNoBlocks
  Ops = {"join", "sync", "leave", "status", "match"}
  ClientOps = {"join", "sync", "restJoin", "pendingExpires"}
  MaxStamp = 3
  MaxAged = 0
  MaxFaults = 1
  MaxCrashes = 1
  LocksMayLapse = FALSE
SYMMETRY CallSymmetry
INVARIANTS
  RoomsComeFromMatches
  UnreadIsUntold
  OnlyMembersAreTold
CHECK_DEADLOCK FALSE
