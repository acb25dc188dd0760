SPECIFICATION SpamSpec
CONSTANTS
  Texts = {t1, t2, t3}
  Offensive = {t3}
  NoText = NoText
  MaxMessages = 3
  Window = 9
  MinInterval = 2
  DupWindow = 5
  MaxTime = 20
SYMMETRY TextSymmetry
INVARIANTS
  SpamTypeOK
  RateLimit
  Spacing
  NoRepeat
  EntryIsBounded
