SPECIFICATION FairSpec
CONSTANTS
  Chains <- HealthyChains
  None = None
  FeeCurrency = "eth"
  Supported = {"eth", "usd"}
  ReceiptRead = TRUE
  RecordedFirst = TRUE
  MaxAhead = 1
  MaxDoubts = 0
  MaxCrashes = 0
  MaxErrors = 0
INVARIANTS
  TypeOK
  Ledger
PROPERTIES
  DepositsAnnounced
  PayoutsSettled
