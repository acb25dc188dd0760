SPECIFICATION ChatSpec
CONSTANTS
  u1 = u1
  u2 = u2
  u3 = u3
  r1 = r1
  s1 = s1
  s2 = s2
  s3 = s3
  None = None
  Users = {u1, u2, u3}
  Rooms = {r1}
  Members <- MCMembers
  Sockets = {s1, s3}
  SocketUser <- MCSocketUser
  Calls = {c1, c2}
  Ops = {"join", "send", "typing", "leave", "disconnect"}
  HistoryLimit = 1
  MaxMessages = 2
  MaxMishaps = 0
SYMMETRY CallSymmetry
INVARIANTS
  ChatTypeOK
  HistoryIsWhole
  InMeansPresent
CHECK_DEADLOCK FALSE
