SPECIFICATION MCSpec
CONSTANTS
  p1 = p1
  p2 = p2
  p3 = p3
  s1 = s1
  s2 = s2
  NoProc = NoProc
  Procs <- TwoCalls
  Servers = {s1, s2}
  ServerOf <- TwoServers
  Storage = "both"
  Isolation = "none"
  Hashed = TRUE
  Ops = {"create", "find", "consume", "update", "delete", "reserve"}
  Lifetimes = {0, 1}
  MaxRows = 2
  MaxTime = 2
  Beside = {}
INVARIANTS
  TypeOK
PROPERTIES
  RefinesOneTime
  ReservationHolds
