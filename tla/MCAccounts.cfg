SPECIFICATION Spec
CONSTANTS
  Users = {u1, u2}
  Emails = {e1, e2}
  Sessions = {s1, s2}
  Tokens = {t1}
  Requests = {r1, r2}
  NoRow = NoRow
  IdleTTL = 1
  AbsoluteTTL = 1
  ResetTTL = 1
  Days = 1
  MaxVersion = 2
  Reads = {"logout", "change", "settings", "delete"}
SYMMETRY MCSymmetry
INVARIANTS
  AccountsTypeOK
  OneOwner
  TokenUsedOnce
  NoSessionPredatesRevocation
PROPERTIES
  StaleWritesRefused
  OthersUntouched
CHECK_DEADLOCK FALSE
