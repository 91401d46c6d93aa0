SPECIFICATION MCFairSpec
CONSTANTS
  p1 = p1
  p2 = p2
  p3 = p3
  s1 = s1
  s2 = s2
  NoProc = NoProc
  Procs <- ThreeCalls
  Servers = {s1}
  ServerOf <- OneServer
  Storage = "database"
  Isolation = "snapshot"
  Hashed = TRUE
  Ops = {"create", "reserve", "consume"}
  Lifetimes = {1}
  MaxRows = 2
  MaxTime = 2
  Beside = {"secondary"}
INVARIANTS
  SingleUse
PROPERTIES
  CallsEnd
