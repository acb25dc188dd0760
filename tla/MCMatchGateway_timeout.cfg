SPECIFICATION TimedGatewaySpec
CONSTANTS
  u1 = u1
  u2 = u2
  u3 = u3
  s1 = s1
  s2 = s2
  None = None
  Users = {u1}
  Calls = {c1, c2}
  Sockets = {s1}
  Pending = rest
  Sids = {s1, rest}
  SocketUser <- MCSocketUser
  GenderOf <- MCGender
  JoinDtos <- MCAnyDtos
  InitEntry <- MCNobody
  InitStamp = 0
  InitBlocks <- MCNoBlocks
  Ops = {"join", "sync", "leave", "status", "match"}
  ClientOps = {"join"}
  MaxStamp = 1
  MaxAged = 1
  MaxFaults = 0
  MaxCrashes = 0
  LocksMayLapse = FALSE
PROPERTIES
  TimeoutIsTold
CHECK_DEADLOCK FALSE
