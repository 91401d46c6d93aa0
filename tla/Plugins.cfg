SPECIFICATION MCSpec
CONSTANTS
  p1 = p1
  p2 = p2
  u1 = u1
  u2 = u2
  u3 = u3
  Procs = {p1, p2}
  Deployments = {"totp", "counted", "backup", "sent", "mailed", "phoned", "checked", "device", "metered", "owned", "copied", "unlimited", "team", "organization", "linking", "relinking", "hooked", "consumed", "unisolated"}
SYMMETRY Interchangeable
INVARIANTS
  TypesOK
  GuessBudget
  OneSession
  SpentStaysSpent
  FailureBudget
  AcceptedOnce
  WithinLimits
  GoneIsRefused
  TeamCapacity
  JoinedOnce
  NotStranded
  OwnerRemains
  OneUser
  HooksFollowCommit
PROPERTIES
  LockHolds
  OwnerStays
  RefillsApart
CHECK_DEADLOCK FALSE
