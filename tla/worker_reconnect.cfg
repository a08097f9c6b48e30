SPECIFICATION FairSpec
CONSTANTS
  Blocks = {b1}
  Replays = {r1}
  None = None
  MaxCrashes = 0
  MaxStops = 1
PROPERTIES
  Reconnects
