SPECIFICATION MCSpec
CONSTANTS
  p1 = p1
  p2 = p2
  NoKey = NoKey
  short = short
  long = long
  Procs = {p1, p2}
  Keys = {short, long}
  Window <- ShortAndLong
  Max <- OneAndTwo
  Configured = 1
  Backend = "database"
  Native = FALSE
  MaxAttempts = 2
  Cap = 2
  Lag = 1
  MaxTime = 5
  Beside = {}
SYMMETRY Interchangeable
PROPERTIES
  OnlyExpiredSwept
