SPECIFICATION Spec
CONSTANTS
  Users = {u1}
  Emails = {e1}
  Sessions = {s1, s2, s3}
  Tokens = {t1}
  Requests = {r1, r2}
  NoRow = NoRow
  IdleTTL = 2
  AbsoluteTTL = 3
  ResetTTL = 1
  Days = 1
  MaxVersion = 1
  Reads = {"change"}
SYMMETRY MCSymmetry
PROPERTIES
  ReplacementEndsSessions
CHECK_DEADLOCK FALSE
