SPECIFICATION MCSpec
CONSTANTS
  Beside = {"signOut", "preserve", "both"}
  p1 = p1
  p2 = p2
  Procs = {p1, p2}
  Mode = "database"
  Ops = {"create", "update", "delete", "deleteMany", "revokeAll"}
  Faults = {"throw", "veto"}
  ExpiresIn = 2
  Lifetimes = {1, 2}
  MaxSessions = 2
  MaxTime = 3
SYMMETRY Interchangeable
INVARIANTS
  TypeOK
  EndedStaysDead
  FoundUntilRevoked
  HooksRunOncePreserved
