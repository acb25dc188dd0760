SPECIFICATION AccountsSpec
CONSTANTS
  a1 = a1
  A1 = A1
  None = None
  Addresses = {a1}
  Spellings = {a1, A1}
  Lowercase <- MCLowercaseOne
  Calls = {c1, c2}
  InitUsers <- MCInitUsers
  Ops = {"register", "resend", "verify", "login", "oauth", "refresh", "ban"}
  BypassAllowed = TRUE
  MaxCodes = 2
  MaxFaults = 1
  MaxCrashes = 1
SYMMETRY MCSymmetry
INVARIANTS
  AnswersHold
  AccountsTypeOK
  LatestCodeWorks
PROPERTIES
  VerifyingSpendsTheCode
