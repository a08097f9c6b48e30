SPECIFICATION FairSpec
CONSTANTS
  MinConf = 1
  MaxHeight = 4
  Calls = {c1}
  None = None
  Strict = TRUE
  CallCanReject = FALSE
  InitialSync <- Resumed
  MaxCrashes = 2
  MaxErrors = 1
INVARIANTS
  TypeOK
  OnlySwallowedSkipped
  ProcessesValidated
  ReplayedOnlyAfterFailure
  AnnouncedOnce
PROPERTIES
  ImplementsFeed
  CatchesUp
