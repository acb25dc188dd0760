SPECIFICATION Spec
CONSTANTS
  u1 = u1
  u2 = u2
  u3 = u3
  web = web
  None = None
  Users = {u1, u2, u3}
  Calls = {c1, c2}
  Sids = {web}
  GenderOf <- MCGender
  JoinDtos <- MCAnyDtos
  InitEntry <- MCTrioWaiting
  InitStamp = 3
  InitBlocks <- MCNoBlocks
  Ops = {"match"}
  MaxStamp = 3
  MaxAged = 3
  MaxFaults = 0
  MaxCrashes = 0
  LocksMayLapse = FALSE
INVARIANTS
  MatchedOnce
