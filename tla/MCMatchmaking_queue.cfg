SPECIFICATION Spec
CONSTANTS
  u1 = u1
  u2 = u2
  u3 = u3
  web = web
  None = None
  Users = {u1, u2}
  Calls = {c1, c2}
  Sids = {web}
  GenderOf <- MCGender
  JoinDtos <- MCAnyDtos
  InitEntry <- MCNobody
  InitStamp = 0
  InitBlocks <- MCNoBlocks
  Ops = {"join", "sync", "leave", "status", "match", "block"}
  MaxStamp = 2
  MaxAged = 1
  MaxFaults = 0
  MaxCrashes = 0
  LocksMayLapse = FALSE
SYMMETRY CallSymmetry
INVARIANTS
  TypeOK
  MatchedStaysOut
PROPERTIES
  PunctualStaysIn
  LedgerSpec
