SPECIFICATION MCSpec
CONSTANTS
  Beside = {"revoking", "faulty", "strict", "signOut", "loose"}
  p1 = p1
  p2 = p2
  Procs = {p1, p2}
  Codes = {1, 2}
  Ops = {"redeem", "refresh"}
  Faults = {}
  Opaque = TRUE
  ForeignKeys = TRUE
  Narrowing = FALSE
  ReuseInterval = 1
  AccessLifetime = 1
  RefreshLifetime = 2
  MaxTokens = 3
  MaxTime = 3
SYMMETRY Interchangeable
INVARIANTS
  TypeOK
  EndedStaysDead
  OneAnswer
PROPERTIES
  RefinesChain
