SPECIFICATION Spec
CONSTANTS
  MinConf = 2
  MaxHeight = 4
  Calls = {c1, c2}
  None = None
  Strict = FALSE
  CallCanReject = TRUE
  InitialSync <- Resumed
  MaxCrashes = 0
  MaxErrors = 0
INVARIANTS
  OnlyConfirmed
CHECK_DEADLOCK FALSE
