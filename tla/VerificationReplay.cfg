SPECIFICATION MCSpec
CONSTANTS
  p1 = p1
  p2 = p2
  p3 = p3
  s1 = s1
  s2 = s2
  NoProc = NoProc
  Procs <- ThreeCalls
  Servers = {s1, s2}
  ServerOf <- TwoServers
  Storage = "database"
  Isolation = "locking"
  Hashed = FALSE
  Ops = {"create", "find", "consume"}
  Lifetimes = {1}
  MaxRows = 3
  MaxTime = 2
  Beside = {"oneServer"}
SYMMETRY Interchangeable
INVARIANTS
  StaleNeverReplayed
  LockExclusion
