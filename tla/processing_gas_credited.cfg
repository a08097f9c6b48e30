SPECIFICATION Spec
CONSTANTS
  Chains <- TopUpChains
  None = None
  FeeCurrency = "eth"
  Supported = {"eth", "usd"}
  ReceiptRead = TRUE
  RecordedFirst = FALSE
  MaxAhead = 1
  MaxDoubts = 0
  MaxCrashes = 0
  MaxErrors = 0
INVARIANTS
  DistributionsIgnored
