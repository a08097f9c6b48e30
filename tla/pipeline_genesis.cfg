SPECIFICATION Spec
CONSTANTS
  MinConf = 1
  MaxHeight = 3
  Calls = {c1}
  None = None
  Strict = FALSE
  CallCanReject = FALSE
  InitialSync <- Seeded
  MaxCrashes = 0
  MaxErrors = 0
INVARIANT
  StartsAtBase
