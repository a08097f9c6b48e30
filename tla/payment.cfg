SPECIFICATION FairSpec
CONSTANTS
  w1 = w1 w2 = w2 coin = coin token = token None = None
  Withdrawals = {w1, w2}
  Coin = coin
  Asset <- MCAsset
  Amount <- MCAmount
  Setups <- MCSetups
  CoinFee = 2 TokenFee = 1 Maps = {m1, m2}
INVARIANTS TypeOK PaidTwiceOnlyInDoubt RecordedIsPaid
PROPERTIES SettledStays PaidInTheEnd
