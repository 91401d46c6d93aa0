SPECIFICATION MCSpec
CONSTANTS
  Beside = {}
  p1 = p1
  p2 = p2
  Procs = {p1, p2}
  Mode = "secondary"
  Ops = {"create", "update", "delete"}
  Faults = {"throw"}
  ExpiresIn = 3
  Lifetimes = {3}
  MaxSessions = 2
  MaxTime = 2
SYMMETRY Interchangeable
INVARIANTS
  RevokedStaysDead
