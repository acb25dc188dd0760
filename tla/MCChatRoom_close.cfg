SPECIFICATION FairChatSpec
CONSTANTS
  u1 = u1
  u2 = u2
  u3 = u3
  r1 = r1
  s1 = s1
  s2 = s2
  s3 = s3
  None = None
  Users = {u1, u2}
  Rooms = {r1}
  Members <- MCMembers
  Sockets = {s2}
  SocketUser <- MCSocketUser
  Calls = {c1, c2}
  Ops = {"send", "image", "leave", "block", "restLeave", "blocklist"}
  HistoryLimit = 1
  MaxMessages = 1
  MaxMishaps = 1
PROPERTIES
  OpenRoomKeeps
  LeaveCloses
  LogSpec
CHECK_DEADLOCK FALSE
