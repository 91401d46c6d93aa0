SPECIFICATION MCSpec
CONSTANTS
  Beside = {}
  p1 = p1
  p2 = p2
  p3 = p3
  s1 = s1
  s2 = s2
  NoProc = NoProc
  Procs <- ThreeCalls
  Servers = {s1}
  ServerOf <- OneServer
  Storage = "database"
  Isolation = "locking"
  Hashed = TRUE
  Ops = {"create", "consume"}
  Lifetimes = {1}
  MaxRows = 2
  MaxTime = 2
INVARIANTS
  StaleNeverReplayed
