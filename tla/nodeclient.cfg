SPECIFICATION FairSpec
CONSTANTS
  Methods <- AllMethods
  MaxAttempt = 20
  MaxChanges = 4
INVARIANTS
  TypeOK
  GivesUpAtLimit
PROPERTY Settles
CHECK_DEADLOCK FALSE
