SPECIFICATION FairSpec
CONSTANTS
  u1 = u1
  u2 = u2
  u3 = u3
  web = web
  None = None
  Users = {u1, u2, u3}
  Calls = {c1, c2}
  Sids = {web}
  GenderOf <- MCGender
  JoinDtos <- MCOneChoosy
  InitEntry <- MCChoosyWaiting
  InitStamp = 3
  InitBlocks <- MCOneBlock
  Ops = {"match", "sync"}
  MaxStamp = 3
  MaxAged = 0
  MaxFaults = 1
  MaxCrashes = 1
  LocksMayLapse = FALSE
INVARIANTS
  InitiatorMutex
  PairMutex
  FreshPair
  BlockedNeverMatched
PROPERTIES
  LedgerSpec
  LocksAreFreed
  CallsReturn
