SPECIFICATION FairSpec
CONSTANTS
  Blocks = {b1, b2}
  Replays = {r1}
  None = None
  MaxCrashes = 2
  MaxStops = 1
INVARIANTS
  TypeOK
  HandedOnce
  EveryBlockAccounted
PROPERTIES
  ErrorsResent
