SPECIFICATION Spec
CONSTANTS
  Chains <- CrashChains
  None = None
  FeeCurrency = "eth"
  Supported = {"eth", "usd", "btc"}
  ReceiptRead = TRUE
  RecordedFirst = FALSE
  MaxAhead = 1
  MaxDoubts = 1
  MaxCrashes = 2
  MaxErrors = 1
INVARIANTS
  AnnouncedIsRecorded
  TriedAgainOnlyAfterFailure
  SettledIsPaid
  RetriedOncePerFailedTx
  OutputsSpent
