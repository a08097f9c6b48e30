SPECIFICATION FairSpec
CONSTANTS
  a1 = a1 a2 = a2 coin = coin token = token None = None
  Addresses = {a1, a2}
  Hot = Hot Cold = Cold Gas = Gas Outside = Outside
  Coin = coin
  Tokens = {token}
  Setups <- MCSetups
  CoinFee = 2 TokenFee = 3 MaxPool = 2
INVARIANTS TypeOK ForwardsSomething MovesRecorded TopUpsArrive HotBounded
PROPERTIES Collected
