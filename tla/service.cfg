SPECIFICATION FairSpec
CONSTANTS
  eth = eth bnb = bnb trx = trx btc = btc token = token None = None
  Requests <- MCRequests
  Of <- MCOf
  Scenarios <- MCScenarios
  Services <- MCServices
  ChainOf <- MCChainOf
INVARIANTS TypeOK AddressKnown DuplicatesOnlyFromOverlap
PROPERTIES ImplementsBook EveryRequestAnswered
CHECK_DEADLOCK FALSE
