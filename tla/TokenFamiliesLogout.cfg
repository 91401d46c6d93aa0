SPECIFICATION MCSpec
CONSTANTS
  Beside = {}
  p1 = p1
  p2 = p2
  Procs = {p1, p2}
  Codes = {1}
  Ops = {"redeem", "signOut"}
  Faults = {"swallow"}
  Opaque = TRUE
  ForeignKeys = TRUE
  Narrowing = FALSE
  ReuseInterval = 1
  AccessLifetime = 1
  RefreshLifetime = 2
  MaxTokens = 1
  MaxTime = 2
SYMMETRY Interchangeable
INVARIANTS
  EndedStaysDead
