------------------------- MODULE TransporterProofs -------------------------
(***************************************************************************)
(* Theorems about Transporter, for any accounts, fees, deposits and        *)
(* thresholds, and any number of failures.                                 *)
(***************************************************************************)
EXTENDS Transporter, SequenceTheorems, TLAPS

----------------------------------------------------------------------------
(* What steps leave alone *)

\* The steps of the pass that change nothing but where it stands.
Inside ==
    \/ ReadConfig \/ ReadHot \/ ReadFundings \/ NextAsset
    \/ \E a \in Addresses : Skip(a) \/ Take(a)
    \/ Plan \/ PlanFails \/ EstimateFails \/ NeedGas
    \/ NoTopUp \/ TopUpAnswered
    \/ CheckGas \/ StillNoGas \/ SignThrows \/ Unsigned \/ Refused \/ MoveAnswered \/ Reverted
    \/ FundingsFail \/ MisreadAccount \/ MisreadGas \/ TopUpUnanswered \/ MoveUnanswered \/ Fail

LEMMA InsideSteps ==
    Inside => UNCHANGED <<setup, chain, books, seen, records>>
<1>1. ReadConfig \/ ReadHot \/ ReadFundings \/ NextAsset =>
          UNCHANGED <<setup, chain, books, seen, records>>
  BY DEF ReadConfig, ReadHot, ReadFundings, NextAsset
<1>2. (\E a \in Addresses : Skip(a) \/ Take(a)) =>
          UNCHANGED <<setup, chain, books, seen, records>>
  BY DEF Skip, Take
<1>3. Plan \/ PlanFails \/ EstimateFails \/ NeedGas \/ NoTopUp \/ TopUpAnswered =>
          UNCHANGED <<setup, chain, books, seen, records>>
  BY DEF Plan, PlanFails, EstimateFails, NeedGas, NoTopUp, TopUpAnswered
<1>4. CheckGas \/ StillNoGas \/ SignThrows \/ Unsigned \/ Refused \/ MoveAnswered \/ Reverted =>
          UNCHANGED <<setup, chain, books, seen, records>>
  BY DEF CheckGas, StillNoGas, SignThrows, Unsigned, Refused, MoveAnswered, Reverted
<1>5. FundingsFail \/ MisreadAccount \/ MisreadGas \/ TopUpUnanswered \/ MoveUnanswered \/ Fail =>
          UNCHANGED <<setup, chain, books, seen, records>>
  BY DEF FundingsFail, MisreadAccount, MisreadGas, TopUpUnanswered, MoveUnanswered, Fail
<1> QED BY <1>1, <1>2, <1>3, <1>4, <1>5 DEF Inside

LEMMA AllSteps ==
    ASSUME [Next]_vars
    PROVE  \/ Inside \/ TopUp \/ Send \/ RecordTopUp \/ RecordMove
           \/ (\E tx \in pool : Mine(tx) \/ Drop(tx)) \/ MonitorSees \/ UNCHANGED vars
  BY DEF Next, Process, Failures, Network, Inside

LEMMA SetupStays ==
    ASSUME [Next]_vars
    PROVE  setup' = setup
<1>1. TopUp \/ Send \/ RecordTopUp \/ RecordMove \/ MonitorSees => setup' = setup
  BY DEF TopUp, Send, RecordTopUp, RecordMove, MonitorSees
<1>2. (\E tx \in pool : Mine(tx) \/ Drop(tx)) => setup' = setup
  BY DEF Mine, Drop
<1> QED BY <1>1, <1>2, AllSteps, InsideSteps DEF vars

----------------------------------------------------------------------------
(* Types *)

Events == [tx : Transactions, ok : BOOLEAN]
States == {"config", "hot", "list", "fund", "plan", "gas", "topup", "topped", "recordTopUp",
           "check", "send", "wait", "record"}

ChainOK ==
    /\ held \in [Accounts -> [Assets -> Nat]] /\ nonces \in [Accounts -> Nat]
    /\ pool \subseteq Transactions
    /\ mined \in Seq(Events)
BooksOK == seen \in 0 .. Len(mined) /\ books \in [Addresses -> [Assets -> Nat]]
RecordsOK == moves \subseteq Transactions /\ topups \subseteq Transactions
ObservedOK ==
    troubles \in 0 .. setup.troubles /\ unanswered \subseteq Transactions /\ lost \subseteq Transactions

\* The minimum of the asset, if it is the coin, is above the fee.
Kept(x) == x # Coin \/ MinimumCoversFee

\* Where the pass stands: it works for an address from Take on and has found what it
\* moves eligible; what it sends has a receiver, and is positive for such an asset.
PassOK ==
    /\ pc \in States /\ place \in 1 .. Len(setup.tokens) + 1
    /\ hot \in Nat /\ total \in Int /\ list \in [Addresses -> Nat]
    /\ cur \in Addresses \cup {None} /\ (cur # None => list[cur] > 0)
    /\ plan \in [to : Accounts \cup {None}, amount : Int, gas : Nat]
    /\ Kept(Asset) => total >= 0 /\ (plan.to # None => plan.amount > 0)
    /\ sent \in Transactions \cup {None}
    /\ Is("btc") => pc = "config"
    /\ pc \in {"config", "list", "fund"} => cur = None
    /\ pc = "hot" => (cur # None <=> Is("trx"))
    /\ pc \notin {"config", "list", "fund", "hot"} => cur # None
    /\ pc \in {"hot", "plan"} /\ cur # None => Eligible(list[cur])
    /\ pc \in {"gas", "topup", "topped", "recordTopUp", "check", "send"} => plan.to # None
    /\ pc = "topup" => plan.gas > 0
    /\ pc \in {"topped", "recordTopUp", "wait", "record"} => sent # None

Types == setup \in Setups /\ ChainOK /\ BooksOK /\ RecordsOK /\ ObservedOK /\ PassOK

LEMMA TypesSuffice == Types => TypeOK
  BY DEF Types, ChainOK, BooksOK, RecordsOK, ObservedOK, PassOK, TypeOK, States, Events

Deposits == [from : {Outside}, nonce : Nat, asset : Assets, to : Addresses,
             amount : Nat \ {0}, fee : {0}]

LEMMA SetupFacts ==
    ASSUME setup \in Setups
    PROVE  /\ setup.tokens \in Seq(Tokens) /\ Len(setup.tokens) \in Nat
           /\ setup.chain \in {"eth", "bnb", "trx", "btc"}
           /\ setup.threshold \in [Assets -> Nat] /\ setup.minimum \in [Assets -> Nat]
           /\ setup.troubles \in Nat
           /\ setup.held \in [Accounts -> [Assets -> Nat]]
           /\ setup.deposits \in Seq(Deposits)
<1>1. setup.tokens \in Seq(Tokens)
  BY SetupAssumption
<1>2. /\ setup.chain \in {"eth", "bnb", "trx", "btc"}
      /\ setup.threshold \in [Assets -> Nat] /\ setup.minimum \in [Assets -> Nat]
      /\ setup.troubles \in Nat
  BY SetupAssumption
<1>3. setup.held \in [Accounts -> [Assets -> Nat]]
  BY SetupAssumption
<1>4. setup.deposits \in Seq(Deposits)
  BY SetupAssumption, Zenon DEF Deposits
<1> QED BY <1>1, <1>2, <1>3, <1>4

LEMMA Names ==
    /\ Addresses \subseteq Accounts /\ Hot \in Accounts /\ Cold \in Accounts /\ Gas \in Accounts
    /\ None \notin Accounts /\ None \notin Transactions /\ Coin \in Assets /\ Tokens \subseteq Assets
  BY AccountsAssumption DEF Accounts, Assets

LEMMA AssetTypes ==
    ASSUME setup \in Setups, place \in 1 .. Len(setup.tokens) + 1
    PROVE  Asset \in Assets /\ Threshold \in Nat
<1>1. Asset \in Assets
  BY SetupFacts, Names DEF Asset
<1> QED BY <1>1, SetupFacts DEF Threshold

LEMMA NextTxType ==
    ASSUME ChainOK, NEW from \in Accounts, NEW asset \in Assets, NEW to \in Accounts,
           NEW amount \in Nat
    PROVE  NextTx(from, asset, to, amount) \in Transactions
<1>1. FeeOf(asset, to) \in Nat
  BY AmountsAssumption DEF FeeOf
<1> QED BY <1>1 DEF ChainOK, NextTx, Tx, Transactions

LEMMA InitTypes == Init => Types
<1> SUFFICES ASSUME Init PROVE Types
  OBVIOUS
<1> USE DEF Init
<1>1. setup \in Setups
  OBVIOUS
<1>2. mined \in Seq(Events)
  <2>1. \A i \in DOMAIN setup.deposits : Mined(setup.deposits[i], TRUE) \in Events
    <3>1. \A i \in DOMAIN setup.deposits : setup.deposits[i] \in Deposits
      BY <1>1, SetupFacts
    <3>2. Deposits \subseteq Transactions
      BY Names DEF Deposits, Transactions
    <3> QED BY <3>1, <3>2 DEF Mined, Events
  <2>2. DOMAIN setup.deposits = 1 .. Len(setup.deposits) /\ Len(setup.deposits) \in Nat
    BY <1>1, SetupFacts
  <2>3. mined \in [1 .. Len(setup.deposits) -> Events]
    BY <2>1, <2>2
  <2> QED BY <2>2, <2>3, SeqDef
<1>3. ChainOK
  BY <1>1, <1>2, SetupFacts DEF ChainOK
<1>4. PassOK
  BY <1>1, SetupFacts DEF PassOK, States, NoPlan, Nothing
<1> QED BY <1>1, <1>2, <1>3, <1>4, SetupFacts, Names DEF Types, BooksOK, RecordsOK, ObservedOK

\* What the pass broadcasts.
LEMMA Sendable ==
    ASSUME Types
    PROVE  /\ pc = "topup" => GasTx \in Transactions
           /\ pc = "send" => MoveTx \in Transactions
<1>1. Asset \in Assets
  BY AssetTypes DEF Types, PassOK
<1>2. pc = "topup" => cur \in Accounts /\ plan.gas \in Nat \ {0}
  BY Names DEF Types, PassOK
<1>3. pc = "send" => cur \in Accounts /\ plan.to \in Accounts /\ Signed(plan.amount) \in Nat
  BY Names DEF Types, PassOK, Signed
<1>4. ChainOK
  BY DEF Types
<1> QED BY <1>1, <1>2, <1>3, <1>4, Names, NextTxType DEF GasTx, MoveTx

LEMMA AcceptTypes ==
    ASSUME ChainOK, setup' = setup, NEW tx \in Transactions, tx.from \in Accounts, Accept(tx)
    PROVE  ChainOK' /\ mined' = mined
  BY DEF ChainOK, Accept

\* Only the transfer of a token fails.
Entry(e, tx) == e.tx = tx /\ (~e.ok => tx.asset # Coin)

LEMMA MineTypes ==
    ASSUME ChainOK, NEW tx \in pool, Mine(tx)
    PROVE  ChainOK' /\ \E e \in Events : Entry(e, tx) /\ mined' = Append(mined, e)
<1>1. tx \in Transactions /\ tx.fee \in Nat /\ tx.amount \in Nat /\ tx.asset \in Assets
      /\ Affordable(tx)
  BY DEF ChainOK, Mine, Transactions
<1>2. PICK ok \in BOOLEAN :
        /\ mined' = Append(mined, Mined(tx, ok))
        /\ ok => held[tx.from][tx.asset] >= tx.amount
        /\ ~ok => tx.asset # Coin
        /\ held' = [a \in Accounts |-> [x \in Assets |->
              held[a][x]
              - (IF a = tx.from /\ x = Coin THEN tx.fee ELSE 0)
              - (IF ok /\ a = tx.from /\ x = tx.asset THEN tx.amount ELSE 0)
              + (IF ok /\ a = tx.to /\ x = tx.asset THEN tx.amount ELSE 0)]]
  BY DEF Mine
<1>3. ASSUME NEW a \in Accounts, NEW x \in Assets
      PROVE  held'[a][x] \in Nat
  <2>1. held[a][x] \in Nat
    BY DEF ChainOK
  <2>2. a = tx.from /\ x = Coin => held[a][x] >= tx.fee + (IF tx.asset = Coin THEN tx.amount ELSE 0)
    BY <1>1 DEF Affordable
  <2>3. ok /\ a = tx.from /\ x = tx.asset => held[a][x] >= tx.amount
    BY <1>2
  <2>4. held'[a][x] = held[a][x]
              - (IF a = tx.from /\ x = Coin THEN tx.fee ELSE 0)
              - (IF ok /\ a = tx.from /\ x = tx.asset THEN tx.amount ELSE 0)
              + (IF ok /\ a = tx.to /\ x = tx.asset THEN tx.amount ELSE 0)
    BY <1>2
  <2> QED BY <1>1, <2>1, <2>2, <2>3, <2>4
<1>4. held' \in [Accounts -> [Assets -> Nat]]
  BY <1>2, <1>3
<1>5. Mined(tx, ok) \in Events /\ Entry(Mined(tx, ok), tx)
  BY <1>1, <1>2 DEF Mined, Events, Entry
<1>6. mined' \in Seq(Events)
  BY <1>2, <1>5 DEF ChainOK
<1>7. nonces' \in [Accounts -> Nat] /\ pool' \subseteq Transactions
  <2>1. nonces' = [nonces EXCEPT ![tx.from] = @ + 1] \/ nonces' = nonces
    BY DEF Mine
  <2>2. pool' \subseteq pool /\ nonces \in [Accounts -> Nat]
    BY DEF ChainOK, Mine
  <2> QED BY <2>1, <2>2 DEF ChainOK
<1> QED BY <1>2, <1>4, <1>5, <1>6, <1>7 DEF ChainOK

LEMMA ChainStays ==
    ASSUME Types, [Next]_vars
    PROVE  /\ ChainOK'
           /\ mined' = mined \/ \E tx \in pool : \E e \in Events : Entry(e, tx) /\ mined' = Append(mined, e)
<1> USE SetupStays
<1>1. CASE TopUp
  <2>1. GasTx \in Transactions /\ GasTx.from = Gas /\ Accept(GasTx)
    BY <1>1, Sendable DEF TopUp, GasTx, NextTx, Tx
  <2> QED BY <2>1, AcceptTypes, Names DEF Types
<1>2. CASE Send
  <2>1. MoveTx \in Transactions /\ MoveTx.from = cur /\ Accept(MoveTx) /\ cur \in Accounts
    BY <1>2, Sendable, Names DEF Send, MoveTx, NextTx, Tx, Types, PassOK
  <2> QED BY <2>1, AcceptTypes DEF Types
<1>3. ASSUME NEW tx \in pool, Mine(tx) PROVE ChainOK' /\ \E e \in Events : Entry(e, tx) /\ mined' = Append(mined, e)
  BY <1>3, MineTypes DEF Types
<1>4. CASE UNCHANGED chain
  BY <1>4 DEF chain, ChainOK, Types
<1>5. ASSUME NEW tx \in pool, Drop(tx) PROVE ChainOK' /\ mined' = mined
  BY <1>5 DEF Drop, ChainOK, Types
<1>6. RecordTopUp \/ RecordMove \/ MonitorSees \/ UNCHANGED vars => UNCHANGED chain
  BY DEF RecordTopUp, RecordMove, MonitorSees, vars
<1>7. ASSUME \E tx \in pool : Mine(tx)
      PROVE  ChainOK' /\ \E tx \in pool : \E e \in Events : Entry(e, tx) /\ mined' = Append(mined, e)
  BY <1>3, <1>7
<1>8. ASSUME \E tx \in pool : Drop(tx) PROVE ChainOK' /\ mined' = mined
  BY <1>5, <1>8
<1>9. TopUp \/ Send => mined' = mined
  BY DEF TopUp, Send, Accept
<1> QED BY <1>1, <1>2, <1>4, <1>6, <1>7, <1>8, <1>9, AllSteps, InsideSteps DEF chain

LEMMA BooksStay ==
    ASSUME Types, [Next]_vars
    PROVE  BooksOK'
<1>1. mined' \in Seq(Events) /\ Len(mined) <= Len(mined') /\ Len(mined) \in Nat
  BY ChainStays DEF Types, ChainOK
<1>2. CASE MonitorSees
  <2>1. seen' \in 0 .. Len(mined')
    BY <1>1, <1>2 DEF MonitorSees, Types, BooksOK, chain
  <2>2. mined[seen + 1] \in Events
    BY <1>1, <1>2 DEF MonitorSees, Types, BooksOK, ChainOK
  <2>3. ASSUME NEW a \in Addresses, NEW x \in Assets
        PROVE  LET t == mined[seen + 1] IN Credited(t, a, x) \in Nat /\ Debited(t, a, x) \in Nat
    BY <2>2 DEF Credited, Debited, Events, Transactions
  <2>4. ASSUME NEW a \in Addresses, NEW x \in Assets
        PROVE  books'[a][x] \in Nat
    <3>1. books[a][x] \in Int
      BY DEF Types, BooksOK
    <3>2. books[a][x] + Credited(mined[seen + 1], a, x) - Debited(mined[seen + 1], a, x) \in Int
      BY <2>3, <3>1
    <3>3. books'[a][x] = LET n == books[a][x] + Credited(mined[seen + 1], a, x)
                                  - Debited(mined[seen + 1], a, x)
                         IN IF n > 0 THEN n ELSE 0
      BY <1>2 DEF MonitorSees
    <3> QED BY <3>2, <3>3
  <2>5. books' \in [Addresses -> [Assets -> Nat]]
    BY <1>2, <2>4 DEF MonitorSees
  <2> QED BY <2>1, <2>5 DEF BooksOK
<1>3. CASE UNCHANGED <<books, seen>>
  BY <1>1, <1>3 DEF BooksOK, Types
<1>4. TopUp \/ Send \/ RecordTopUp \/ RecordMove \/ UNCHANGED vars => UNCHANGED <<books, seen>>
  BY DEF TopUp, Send, RecordTopUp, RecordMove, vars
<1>5. (\E tx \in pool : Mine(tx) \/ Drop(tx)) => UNCHANGED <<books, seen>>
  BY DEF Mine, Drop
<1> QED BY <1>2, <1>3, <1>4, <1>5, AllSteps, InsideSteps

LEMMA RecordsStay ==
    ASSUME Types, [Next]_vars
    PROVE  RecordsOK' /\ ObservedOK'
<1>1. RecordsOK'
  <2>1. CASE RecordTopUp
    BY <2>1 DEF RecordTopUp, Types, RecordsOK, PassOK
  <2>2. CASE RecordMove
    BY <2>2 DEF RecordMove, Types, RecordsOK, PassOK
  <2>3. CASE UNCHANGED records
    BY <2>3 DEF records, Types, RecordsOK
  <2>4. TopUp \/ Send \/ MonitorSees \/ UNCHANGED vars => UNCHANGED records
    BY DEF TopUp, Send, MonitorSees, vars
  <2>5. (\E tx \in pool : Mine(tx) \/ Drop(tx)) => UNCHANGED records
    BY DEF Mine, Drop
  <2> QED BY <2>1, <2>2, <2>3, <2>4, <2>5, AllSteps, InsideSteps
<1>2. troubles' = troubles \/ Trouble
  <2>1. UNCHANGED observed => troubles' = troubles
    BY DEF observed
  <2>2. ReadConfig \/ ReadHot \/ ReadFundings \/ NextAsset \/ (\E a \in Addresses : Skip(a) \/ Take(a))
        => UNCHANGED observed
    BY DEF ReadConfig, ReadHot, ReadFundings, NextAsset, Skip, Take
  <2>3. Plan \/ PlanFails \/ EstimateFails \/ NeedGas \/ TopUpAnswered \/ CheckGas \/ StillNoGas
        \/ SignThrows \/ Unsigned \/ MoveAnswered \/ Reverted => UNCHANGED observed
    BY DEF Plan, PlanFails, EstimateFails, NeedGas, TopUpAnswered, CheckGas, StillNoGas,
       SignThrows, Unsigned, MoveAnswered, Reverted
  <2>4. NoTopUp \/ Refused => troubles' = troubles \/ Trouble
    BY DEF NoTopUp, Refused, Refusal
  <2>5. FundingsFail \/ MisreadAccount \/ MisreadGas \/ TopUpUnanswered \/ MoveUnanswered \/ Fail
        => Trouble
    BY DEF FundingsFail, MisreadAccount, MisreadGas, TopUpUnanswered, MoveUnanswered, Fail
  <2>6. TopUp \/ Send \/ RecordTopUp \/ RecordMove \/ MonitorSees \/ UNCHANGED vars
        => UNCHANGED observed
    BY DEF TopUp, Send, RecordTopUp, RecordMove, MonitorSees, vars
  <2>7. (\E tx \in pool : Mine(tx) \/ Drop(tx)) => troubles' = troubles \/ Trouble
    BY DEF Mine, Drop, observed
  <2> QED BY <2>1, <2>2, <2>3, <2>4, <2>5, <2>6, <2>7, AllSteps DEF Inside
<1>3. /\ unanswered' \subseteq unanswered \cup ({sent} \ {None})
      /\ lost' \subseteq lost \cup ({sent} \ {None})
  <2>1. UNCHANGED <<unanswered, lost>> => unanswered' = unanswered /\ lost' = lost
    OBVIOUS
  <2>2. ReadConfig \/ ReadHot \/ ReadFundings \/ NextAsset \/ (\E a \in Addresses : Skip(a) \/ Take(a))
        => UNCHANGED <<unanswered, lost>>
    BY DEF ReadConfig, ReadHot, ReadFundings, NextAsset, Skip, Take, observed
  <2>3. Plan \/ PlanFails \/ EstimateFails \/ NeedGas \/ TopUpAnswered \/ CheckGas \/ StillNoGas
        \/ SignThrows \/ Unsigned \/ MoveAnswered \/ Reverted => UNCHANGED <<unanswered, lost>>
    BY DEF Plan, PlanFails, EstimateFails, NeedGas, TopUpAnswered, CheckGas, StillNoGas,
       SignThrows, Unsigned, MoveAnswered, Reverted, observed
  <2>4. NoTopUp \/ Refused \/ FundingsFail \/ MisreadAccount \/ MisreadGas => UNCHANGED <<unanswered, lost>>
    BY DEF NoTopUp, Refused, FundingsFail, MisreadAccount, MisreadGas
  <2>5. TopUpUnanswered \/ MoveUnanswered =>
            unanswered' \subseteq unanswered \cup ({sent} \ {None}) /\ lost' = lost
    BY DEF TopUpUnanswered, MoveUnanswered, Types, PassOK
  <2>6. Fail => lost' \subseteq lost \cup ({sent} \ {None}) /\ unanswered' = unanswered
    BY DEF Fail
  <2>7. TopUp \/ Send \/ RecordTopUp \/ RecordMove \/ MonitorSees \/ UNCHANGED vars
        => UNCHANGED <<unanswered, lost>>
    BY DEF TopUp, Send, RecordTopUp, RecordMove, MonitorSees, vars, observed
  <2>8. (\E tx \in pool : Mine(tx) \/ Drop(tx)) => UNCHANGED <<unanswered, lost>>
    BY DEF Mine, Drop, observed
  <2> QED BY <2>1, <2>2, <2>3, <2>4, <2>5, <2>6, <2>7, <2>8, AllSteps DEF Inside
<1>4. troubles' \in 0 .. setup'.troubles
  BY <1>2, SetupStays, SetupFacts DEF Trouble, Types, ObservedOK
<1> QED BY <1>1, <1>3, <1>4 DEF ObservedOK, Types, PassOK

----------------------------------------------------------------------------
(* Where the pass stands *)

LEMMA RestartPass ==
    ASSUME Types, setup' = setup, Restart
    PROVE  PassOK'
<1>1. Len(setup.tokens) \in Nat
  BY SetupFacts DEF Types
<1> QED BY <1>1 DEF Restart, PassOK, States, Nothing, NoPlan, Is

LEMMA DonePass ==
    ASSUME Types, setup' = setup, cur # None, pc # "config", Done
    PROVE  PassOK'
<1>1. cur \in Addresses /\ ~Is("btc")
  BY DEF Types, PassOK
<1>2. list' \in [Addresses -> Nat]
  BY <1>1 DEF Done, Types, PassOK
<1> QED BY <1>1, <1>2 DEF Done, Types, PassOK, States, NoPlan, Is, Kept, Asset, MinimumCoversFee

\* What a step to pc = s has to show when it leaves the locals alone.
LEMMA GoOn ==
    ASSUME Types, setup' = setup, UNCHANGED locals, cur # None, pc # "config",
           pc' \in {"check", "send", "recordTopUp", "wait", "record"},
           pc' \in {"check", "send", "recordTopUp"} => plan.to # None,
           pc' \in {"recordTopUp", "wait", "record"} => sent # None
    PROVE  PassOK'
  BY DEF Types, PassOK, States, locals, Is, Kept, Asset, MinimumCoversFee

LEMMA EligibleSame ==
    ASSUME setup' = setup, place' = place
    PROVE  Asset' = Asset /\ (\A f : Eligible(f)' = Eligible(f)) /\ Kept(Asset)' = Kept(Asset)
  BY DEF Asset, Eligible, Is, Kept, MinimumCoversFee

\* The plan that a step of the pass follows.
Planned(p) ==
    \/ p = PlanOf(list[cur]) /\ ~BnbCoinThrows
    \/ p = Burnt(TrxWholePlan(list[cur]), list[cur]) /\ Asset = Coin

\* A plan is one for a wallet, and positive where the asset is not the coin or the minimum
\* is above the fee.
LEMMA PlanTypes ==
    ASSUME Types, pc = "plan", NEW p, Planned(p)
    PROVE  /\ p.to \in {Hot, Cold} /\ p.amount \in Int /\ p.counted \in Int
           /\ Kept(Asset) => p.amount > 0 /\ p.counted >= 0
<1> DEFINE Typed(q) == q.to \in {Hot, Cold} /\ q.amount \in Int /\ q.counted \in Int
           Positive(q) == Kept(Asset) => q.amount > 0 /\ q.counted >= 0
           f == list[cur]
<1>1. /\ Threshold \in Nat /\ hot \in Nat /\ total \in Int /\ f \in Nat \ {0}
      /\ (Kept(Asset) => total >= 0) /\ CoinFee \in Nat \ {0} /\ setup.minimum[Coin] \in Nat
  <2>1. setup \in Setups /\ place \in 1 .. Len(setup.tokens) + 1
    BY DEF Types, PassOK
  <2>2. Threshold \in Nat /\ CoinFee \in Nat \ {0}
    BY <2>1, AssetTypes, AmountsAssumption
  <2>3. setup.minimum[Coin] \in Nat
    BY <2>1, SetupFacts, Names
  <2>4. hot \in Nat /\ total \in Int /\ (Kept(Asset) => total >= 0)
    BY DEF Types, PassOK
  <2>5. f \in Nat \ {0}
    <3>1. cur \in Addresses \cup {None} /\ cur # None /\ list \in [Addresses -> Nat]
          /\ (cur # None => list[cur] > 0)
      BY DEF Types, PassOK
    <3> QED BY <3>1
  <2> QED BY <2>2, <2>3, <2>4, <2>5
<1>2. Asset = Coin /\ Kept(Asset) => f > CoinFee
  <2>1. Eligible(f)
    BY DEF Types, PassOK
  <2> QED BY <1>1, <2>1 DEF Eligible, Kept, MinimumCoversFee
<1>3. Rest \in Int /\ (~Full /\ Kept(Asset) => Rest > 0)
  BY <1>1 DEF Full, Rest
<1> HIDE DEF f
<1>4. Typed(EthTokenPlan(f)) /\ Positive(EthTokenPlan(f))
  BY <1>1, <1>3 DEF EthTokenPlan, Move, Smaller
<1>5. Asset = Coin => Typed(EthCoinPlan(f)) /\ Positive(EthCoinPlan(f))
  BY <1>1, <1>2, <1>3 DEF EthCoinPlan, Move
<1>6. Asset = Coin => Typed(BnbCoinPlan(f)) /\ Positive(BnbCoinPlan(f))
  BY <1>1, <1>2 DEF BnbCoinPlan, Move
<1>7. Typed(TrxWholePlan(f)) /\ Positive(TrxWholePlan(f))
  BY <1>1, <1>3 DEF TrxWholePlan, Move, Smaller
<1>8. Asset = Coin => Typed(Burnt(TrxWholePlan(f), f)) /\ Positive(Burnt(TrxWholePlan(f), f))
  <2> DEFINE w == TrxWholePlan(f)
  <2>1. Typed(w) /\ Positive(w)
    BY <1>7
  <2> HIDE DEF w
  <2>2. Asset = Coin => Typed(Burnt(w, f)) /\ Positive(Burnt(w, f))
    BY <1>1, <1>2, <2>1 DEF Burnt, Move
  <2> QED BY <2>2 DEF w
<1>9. Asset = Coin => TrxCoinPlan(f) \in {TrxWholePlan(f), Burnt(TrxWholePlan(f), f)}
  BY DEF TrxCoinPlan
<1>10. \/ p = EthTokenPlan(f)
       \/ Asset = Coin /\ (\/ p = EthCoinPlan(f) \/ p = BnbCoinPlan(f) \/ p = TrxCoinPlan(f)
                           \/ p = Burnt(TrxWholePlan(f), f))
  BY DEF Planned, PlanOf, BnbTokenPlan, TrxTokenPlan, f
<1>11. Typed(p) /\ Positive(p)
  BY <1>4, <1>5, <1>6, <1>7, <1>8, <1>9, <1>10
<1> QED BY <1>11

LEMMA ReadsPass ==
    ASSUME Types, ReadConfig \/ ReadHot \/ ReadFundings \/ FundingsFail \/ NextAsset
    PROVE  PassOK'
<1>0. setup' = setup
  BY InsideSteps DEF Inside
<1>1. CASE ReadConfig
  <2>1. pc' \in {"config", First} /\ cur = None /\ UNCHANGED locals
    BY <1>1 DEF ReadConfig, Types, PassOK
  <2>2. Is("btc") => pc' = "config"
    BY <1>1 DEF ReadConfig, Configured
  <2>3. First \in {"hot", "list"} /\ (First = "hot" => ~Is("trx"))
    BY DEF First, Is
  <2> QED BY <1>0, <2>1, <2>2, <2>3
        DEF Types, PassOK, States, locals, Is, Kept, Asset, MinimumCoversFee
<1>2. CASE ReadHot
  <2>1. hot' \in Nat
    <3>1. held[Hot][Asset] \in Nat /\ held[Hot][Coin] \in Nat
      BY AssetTypes, Names DEF Types, PassOK, ChainOK
    <3> QED BY <1>2, <3>1 DEF ReadHot, TrxHot, EthHot
  <2>2. /\ UNCHANGED <<place, list, total, cur, plan, sent>> /\ pc = "hot"
        /\ pc' \in {"list", "fund", "plan"} /\ (pc' = "plan" <=> cur # None)
    <3>1. Is("trx") \/ Is("eth") \/ Is("bnb")
      BY <1>2, SetupFacts DEF ReadHot, Types, PassOK, Is
    <3>2. (cur # None <=> Is("trx")) /\ (Is("trx") => ~Is("eth") /\ ~Is("bnb"))
      BY <1>2 DEF ReadHot, Types, PassOK, Is
    <3> QED BY <1>2, <3>1, <3>2 DEF ReadHot
  <2>3. \A f : Eligible(f)' = Eligible(f)
    BY <1>0, <2>2, EligibleSame
  <2> QED BY <1>0, <2>1, <2>2, <2>3 DEF Types, PassOK, States, Is, Kept, Asset, MinimumCoversFee
<1>3. CASE ReadFundings \/ FundingsFail
  <2>1. /\ UNCHANGED <<place, hot, total, cur, plan, sent>> /\ pc = "list" /\ cur = None
        /\ pc' \in {"hot", "fund"} /\ (pc' = "hot" => ~Is("trx"))
    BY <1>3 DEF ReadFundings, FundingsFail, Types, PassOK, locals, Is
  <2>2. list' \in [Addresses -> Nat]
    <3>1. Fundings \in [Addresses -> Nat]
      BY AssetTypes DEF Fundings, Types, BooksOK, PassOK
    <3> QED BY <1>3, <3>1 DEF ReadFundings, FundingsFail, locals, Types, PassOK
  <2> QED BY <1>0, <2>1, <2>2 DEF Types, PassOK, States, Is, Kept, Asset, MinimumCoversFee
<1>4. CASE NextAsset
  <2>1. CASE place <= Len(setup.tokens)
    <3>1. /\ place' = place + 1 /\ pc' = First /\ hot' = 0 /\ total' = 0
          /\ UNCHANGED <<list, cur, plan, sent>> /\ pc = "fund" /\ cur = None
      BY <1>4, <2>1 DEF NextAsset, Types, PassOK
    <3>2. place' \in 1 .. Len(setup.tokens) + 1
      BY <2>1, <3>1, SetupFacts DEF Types, PassOK
    <3>4. Kept(Asset)
      <4>1. Asset \in Tokens
        BY <2>1, SetupFacts DEF Asset, Types, PassOK
      <4> QED BY <4>1, AccountsAssumption DEF Kept
    <3>3. First \in {"hot", "list"} /\ (First = "hot" => ~Is("trx")) /\ ~Is("btc")
      BY <3>1 DEF First, Is, Types, PassOK
    <3> QED BY <1>0, <3>1, <3>2, <3>3, <3>4 DEF Types, PassOK, States, Is
  <2>2. CASE ~(place <= Len(setup.tokens))
    BY <1>0, <1>4, <2>2, RestartPass DEF NextAsset
  <2> QED BY <2>1, <2>2
<1> QED BY <1>1, <1>2, <1>3, <1>4

LEMMA TakePass ==
    ASSUME Types, NEW a \in Addresses, Skip(a) \/ Take(a)
    PROVE  PassOK'
<1>0. setup' = setup
  BY InsideSteps DEF Inside
<1>1. CASE Skip(a)
  <2>1. list' = [list EXCEPT ![a] = 0] /\ pc' = pc /\ pc = "fund" /\ cur = None
        /\ UNCHANGED <<place, hot, total, cur, plan, sent>>
    BY <1>1 DEF Skip, Types, PassOK
  <2> QED BY <1>0, <2>1 DEF Types, PassOK, Is, Kept, Asset, MinimumCoversFee
<1>2. CASE Take(a)
  <2>1. /\ list[a] > 0 /\ Eligible(list[a]) /\ cur' = a /\ pc = "fund"
        /\ pc' = (IF Is("trx") THEN "hot" ELSE "plan")
        /\ UNCHANGED <<place, hot, list, total, plan, sent>>
    BY <1>2 DEF Take
  <2>2. \A f : Eligible(f)' = Eligible(f)
    BY <1>0, <2>1, EligibleSame
  <2>3. a # None /\ ~Is("btc")
    BY <2>1, Names DEF Types, PassOK
  <2> QED BY <1>0, <2>1, <2>2, <2>3 DEF Types, PassOK, States, Is, Kept, Asset, MinimumCoversFee
<1> QED BY <1>1, <1>2

LEMMA PlanPass ==
    ASSUME Types, Plan \/ MisreadAccount \/ PlanFails \/ EstimateFails \/ NeedGas \/ MisreadGas
    PROVE  PassOK'
<1>0. setup' = setup
  BY InsideSteps DEF Inside
<1>1. CASE Plan \/ MisreadAccount
  <2>1. PICK p : Planned(p) /\ Follow(p)
    BY <1>1 DEF Plan, MisreadAccount, Planned
  <2>2. /\ plan' = [to |-> p.to, amount |-> p.amount, gas |-> 0] /\ total' = total + p.counted
        /\ pc' \in {"send", "gas"} /\ pc = "plan" /\ cur # None /\ ~Is("btc")
        /\ UNCHANGED <<place, hot, list, cur, sent>>
    BY <1>1, <2>1 DEF Plan, MisreadAccount, Follow, Types, PassOK
  <2>3. /\ p.to \in {Hot, Cold} /\ p.amount \in Int /\ p.counted \in Int
        /\ Kept(Asset) => p.amount > 0 /\ p.counted >= 0
    BY <2>1, <2>2, PlanTypes
  <2>4. p.to \in Accounts /\ p.to # None
    BY <2>3, Names
  <2>5. Kept(Asset)' = Kept(Asset)
    BY <1>0, <2>2, EligibleSame
  <2> QED BY <1>0, <2>2, <2>3, <2>4, <2>5 DEF Types, PassOK, States, Is
<1>2. CASE PlanFails \/ EstimateFails
  BY <1>0, <1>2, RestartPass DEF PlanFails, EstimateFails
<1>3. CASE NeedGas \/ MisreadGas
  <2>1. /\ pc = "gas" /\ UNCHANGED <<place, hot, list, total, cur, sent>>
        /\ pc' \in {"check", "topup"} /\ \E g : plan' = [plan EXCEPT !.gas = g]
                /\ g \in Nat /\ (pc' = "topup" => g > 0)
    <3>1. cur \in Addresses /\ held[cur][Coin] \in Nat /\ TokenFee \in Nat \ {0}
      BY <1>3, Names, AmountsAssumption DEF NeedGas, MisreadGas, Types, PassOK, ChainOK
    <3>2. ~HasGas(cur) => MissingGas(cur) \in Nat \ {0}
      BY <3>1 DEF HasGas, EthHasGas, BnbHasGas, TrxHasGas, MissingGas
    <3>3. CASE MisreadGas
      BY <3>1, <3>3 DEF MisreadGas
    <3>4. CASE NeedGas
      BY <3>2, <3>4 DEF NeedGas
    <3> QED BY <1>3, <3>3, <3>4
  <2> QED BY <1>0, <2>1 DEF Types, PassOK, States, Is, Kept, Asset, MinimumCoversFee
<1> QED BY <1>1, <1>2, <1>3

LEMMA TopUpPass ==
    ASSUME Types, TopUp \/ NoTopUp \/ TopUpAnswered \/ TopUpUnanswered \/ RecordTopUp
    PROVE  PassOK'
<1>0. setup' = setup
  BY InsideSteps DEF Inside, TopUp, RecordTopUp
<1>1. CASE TopUp
  <2>1. /\ sent' = GasTx /\ pc' = "topped" /\ pc = "topup" /\ GasTx \in Transactions
        /\ UNCHANGED <<place, hot, list, total, cur, plan>>
    BY <1>1, Sendable DEF TopUp
  <2>2. GasTx # None
    BY <2>1, Names
  <2> QED BY <1>0, <2>1, <2>2 DEF Types, PassOK, States, Is, Kept, Asset, MinimumCoversFee
<1>2. CASE NoTopUp \/ TopUpAnswered
  <2>1. pc' \in {"check", "recordTopUp"} /\ UNCHANGED locals /\ pc \in {"topup", "topped"}
        /\ (pc' = "recordTopUp" => pc = "topped")
    BY <1>2 DEF NoTopUp, TopUpAnswered
  <2> QED BY <1>0, <2>1, GoOn DEF Types, PassOK
<1>3. CASE TopUpUnanswered \/ RecordTopUp
  <2>1. /\ pc' = "check" /\ sent' = None /\ pc \in {"topped", "recordTopUp"}
        /\ UNCHANGED <<place, hot, list, total, cur, plan>>
    BY <1>3 DEF TopUpUnanswered, WithoutResponse, RecordTopUp
  <2> QED BY <1>0, <2>1 DEF Types, PassOK, States, Is, Kept, Asset, MinimumCoversFee
<1> QED BY <1>1, <1>2, <1>3

LEMMA MovePass ==
    ASSUME Types,
           \/ CheckGas \/ StillNoGas \/ SignThrows \/ Unsigned \/ Send \/ Refused
           \/ MoveAnswered \/ Reverted \/ MoveUnanswered \/ RecordMove
    PROVE  PassOK'
<1>0. setup' = setup /\ cur # None /\ pc # "config"
  BY InsideSteps DEF Inside, Send, RecordMove, CheckGas, StillNoGas, SignThrows, Unsigned, Refused,
     MoveAnswered, Reverted, MoveUnanswered, Types, PassOK
<1>1. CASE CheckGas \/ MoveAnswered \/ Reverted
  <2>1. pc' \in {"send", "record"} /\ UNCHANGED locals
        /\ (pc' = "send" => pc = "check") /\ (pc' = "record" => pc = "wait")
    BY <1>1 DEF CheckGas, MoveAnswered, Reverted
  <2> QED BY <1>0, <2>1, GoOn DEF Types, PassOK
<1>2. CASE Done
  BY <1>0, <1>2, DonePass
<1>3. StillNoGas \/ Unsigned \/ RecordMove => Done
  BY DEF StillNoGas, Unsigned, RecordMove
<1>7. CASE SignThrows
  BY <1>0, <1>7, RestartPass DEF SignThrows
<1>4. CASE Send \/ (Refused /\ Nonced)
  <2>1. /\ sent' = MoveTx /\ pc' \in {"wait", "record"} /\ pc = "send" /\ MoveTx \in Transactions
        /\ UNCHANGED <<place, hot, list, total, cur, plan>>
    BY <1>4, Sendable DEF Send, Refused
  <2>2. MoveTx # None
    BY <2>1, Names
  <2> QED BY <1>0, <2>1, <2>2 DEF Types, PassOK, States, Is, Kept, Asset, MinimumCoversFee
<1>5. Refused /\ ~Nonced => Done
  BY DEF Refused
<1>6. CASE MoveUnanswered
  <2>1. Done \/ (pc' = "record" /\ UNCHANGED locals /\ pc = "wait")
    BY <1>6 DEF MoveUnanswered, AfterNoAnswer
  <2> QED BY <1>0, <1>2, <2>1, GoOn DEF Types, PassOK
<1> QED BY <1>1, <1>2, <1>3, <1>4, <1>5, <1>6, <1>7

LEMMA TypesStay == Types /\ [Next]_vars => Types'
<1> SUFFICES ASSUME Types, [Next]_vars PROVE Types'
  OBVIOUS
<1>1. PassOK'
  <2>1. CASE UNCHANGED <<setup, pc, locals>>
    BY <2>1 DEF Types, PassOK, locals, Eligible, Asset, Is, Kept, MinimumCoversFee
  <2>2. RecordTopUp \/ RecordMove \/ MonitorSees \/ UNCHANGED vars =>
            RecordTopUp \/ RecordMove \/ UNCHANGED <<setup, pc, locals>>
    BY DEF MonitorSees, vars
  <2>3. (\E tx \in pool : Mine(tx) \/ Drop(tx)) => UNCHANGED <<setup, pc, locals>>
    BY DEF Mine, Drop
  <2>4. CASE \E a \in Addresses : Skip(a) \/ Take(a)
    BY <2>4, TakePass
  <2>5. CASE Plan \/ MisreadAccount \/ PlanFails \/ EstimateFails \/ NeedGas \/ MisreadGas
    BY <2>5, PlanPass
  <2>6. CASE TopUp \/ NoTopUp \/ TopUpAnswered \/ TopUpUnanswered \/ RecordTopUp
    BY <2>6, TopUpPass
  <2>7. CASE \/ CheckGas \/ StillNoGas \/ SignThrows \/ Unsigned \/ Send \/ Refused
             \/ MoveAnswered \/ Reverted \/ MoveUnanswered \/ RecordMove
    BY <2>7, MovePass
  <2>8. CASE ReadConfig \/ ReadHot \/ ReadFundings \/ FundingsFail \/ NextAsset
    BY <2>8, ReadsPass
  <2>9. CASE Fail
    BY <2>9, RestartPass DEF Fail
  <2> QED BY <2>1, <2>2, <2>3, <2>4, <2>5, <2>6, <2>7, <2>8, <2>9, AllSteps DEF Inside
<1>2. setup' \in Setups
  BY SetupStays DEF Types
<1> QED BY <1>1, <1>2, ChainStays, BooksStay, RecordsStay DEF Types

\* Nobody spends what he does not have and an address is given gas only when it lacks some,
\* for any thresholds, minimums and troubles (autoMoveFundERC20Token, distributorGas).
THEOREM TypeCorrect == Spec => []TypeOK
<1> QED BY InitTypes, TypesStay, TypesSuffice, PTL DEF Spec

LEMMA Appended ==
    ASSUME mined \in Seq(Events), NEW e \in Events, mined' = Append(mined, e)
    PROVE  /\ \A tx, ok : IsMined(tx, ok)' <=> IsMined(tx, ok) \/ e = Mined(tx, ok)
           /\ ToSet(mined') = ToSet(mined) \cup {e}
<1>1. /\ DOMAIN mined = 1 .. Len(mined) /\ Len(mined) \in Nat
      /\ Len(mined') = Len(mined) + 1 /\ DOMAIN mined' = 1 .. Len(mined')
      /\ mined'[Len(mined) + 1] = e /\ \A i \in 1 .. Len(mined) : mined'[i] = mined[i]
  OBVIOUS
<1>2. 1 .. Len(mined') = (1 .. Len(mined)) \cup {Len(mined) + 1}
  BY <1>1
<1> QED BY <1>1, <1>2 DEF IsMined, Contains, ToSet

\* A transaction moves something, where the minimum allows for it.
Moving(tx) == tx.amount > 0 \/ (tx.asset = Coin /\ Nonced /\ ~MinimumCoversFee)
Moved == pool \cup {t.tx : t \in ToSet(mined)} \cup moves \cup ({sent} \ {None})
MovingInv == \A tx \in Moved : Moving(tx)

LEMMA MovingStays == Types /\ MovingInv /\ [Next]_vars => MovingInv'
<1> SUFFICES ASSUME Types, MovingInv, [Next]_vars PROVE MovingInv'
  OBVIOUS
<1>1. \A tx : Moving(tx) => Moving(tx)'
  BY SetupStays DEF Moving, Nonced, Is, MinimumCoversFee
<1>2. {t.tx : t \in ToSet(mined')} \subseteq {t.tx : t \in ToSet(mined)} \cup pool
  <2>1. ASSUME NEW tx \in pool, NEW e \in Events, Entry(e, tx), mined' = Append(mined, e)
        PROVE  {t.tx : t \in ToSet(mined')} \subseteq {t.tx : t \in ToSet(mined)} \cup pool
    BY <2>1, Appended DEF Types, ChainOK, Entry
  <2> QED BY <2>1, ChainStays
<1>3. CASE /\ pool' \subseteq pool \cup {sent'} /\ moves' \subseteq moves \cup ({sent} \ {None})
           /\ sent' \in {sent, None} \/ (sent' = GasTx /\ pc = "topup")
                \/ (sent' = MoveTx /\ pc = "send" /\ Signable)
           /\ sent' = None => pool' \subseteq pool
  <2>1. pc = "topup" => Moving(GasTx)
    BY DEF Types, PassOK, GasTx, NextTx, Tx, Moving
  <2>2. pc = "send" /\ Signable => Moving(MoveTx)
    <3>1. MoveTx.asset = Asset /\ MoveTx.amount = Signed(plan.amount)
      BY DEF MoveTx, NextTx, Tx
    <3>2. pc = "send" => plan.amount \in Int /\ (Kept(Asset) => plan.amount > 0)
      BY DEF Types, PassOK
    <3> QED BY <3>1, <3>2 DEF Signed, Signable, Kept, Moving
  <2>3. sent' \in Moved \cup {None} \/ Moving(sent')
    BY <1>3, <2>1, <2>2 DEF Moved
  <2>4. \A tx \in Moved' : tx \in Moved \/ (tx = sent' /\ Moving(tx))
    BY <1>2, <1>3, <2>3 DEF Moved
  <2> QED BY <1>1, <2>4 DEF MovingInv
<1>4. Inside \/ RecordTopUp \/ RecordMove \/ MonitorSees \/ UNCHANGED vars =>
          /\ pool' = pool /\ moves' \subseteq moves \cup ({sent} \ {None})
          /\ sent' \in {sent, None} \/ (sent' = MoveTx /\ pc = "send" /\ Signable)
  <2>1. Inside => pool' = pool /\ moves' = moves
    BY InsideSteps DEF chain, records
  <2>2. RecordTopUp \/ RecordMove \/ MonitorSees \/ UNCHANGED vars =>
            pool' = pool /\ moves' \subseteq moves \cup ({sent} \ {None}) /\ sent' \in {sent, None}
    BY DEF RecordTopUp, RecordMove, Done, MonitorSees, vars, chain, records, locals, Types, PassOK
  <2>3. ReadConfig \/ ReadHot \/ ReadFundings \/ NextAsset \/ FundingsFail
        \/ (\E a \in Addresses : Skip(a) \/ Take(a)) => sent' \in {sent, None}
    BY DEF ReadConfig, ReadHot, ReadFundings, NextAsset, FundingsFail, Skip, Take, Restart, locals
  <2>4. Plan \/ MisreadAccount \/ PlanFails \/ EstimateFails \/ NeedGas \/ MisreadGas \/ NoTopUp
        \/ TopUpAnswered \/ TopUpUnanswered \/ Fail => sent' \in {sent, None}
    BY DEF Plan, MisreadAccount, PlanFails, EstimateFails, NeedGas, MisreadGas, NoTopUp,
       TopUpAnswered, TopUpUnanswered, WithoutResponse, Fail, Restart, locals
  <2>5. CheckGas \/ StillNoGas \/ SignThrows \/ Unsigned \/ MoveAnswered \/ Reverted
        \/ MoveUnanswered => sent' \in {sent, None}
    BY DEF CheckGas, StillNoGas, SignThrows, Unsigned, MoveAnswered, Reverted, MoveUnanswered,
       AfterNoAnswer, Done, Restart, locals
  <2>6. Refused => sent' = None \/ (sent' = MoveTx /\ pc = "send" /\ Signable)
    BY DEF Refused, Done
  <2> QED BY <2>1, <2>2, <2>3, <2>4, <2>5, <2>6 DEF Inside
<1>5. TopUp \/ Send =>
          /\ pool' \subseteq pool \cup {sent'} /\ moves' = moves /\ sent' # None
          /\ (sent' = GasTx /\ pc = "topup") \/ (sent' = MoveTx /\ pc = "send" /\ Signable)
  BY Sendable, Names DEF TopUp, Send, Accept, records
<1>6. (\E tx \in pool : Mine(tx) \/ Drop(tx)) =>
          pool' \subseteq pool /\ moves' = moves /\ sent' = sent
  BY DEF Mine, Drop, records, locals
<1> QED BY <1>3, <1>4, <1>5, <1>6, AllSteps

\* Whatever is cut to the rest of a threshold and whatever fee is taken off, what is moved is
\* more than nothing, for any thresholds and minimums; only the coin of eth and bnb needs a
\* minimum above the fee for it (isEligibledAmount, autoMoveFundETH).
THEOREM SomethingForwarded == Spec => []ForwardsSomething
<1>1. Init => MovingInv
  <2> SUFFICES ASSUME Init PROVE MovingInv
    OBVIOUS
  <2>1. ASSUME NEW i \in DOMAIN setup.deposits PROVE Moving(Mined(setup.deposits[i], TRUE).tx)
    <3>1. setup.deposits[i] \in Deposits
      BY SetupFacts DEF Init
    <3> QED BY <3>1 DEF Deposits, Mined, Moving
  <2>2. \A tx \in Moved : \E i \in DOMAIN setup.deposits : tx = Mined(setup.deposits[i], TRUE).tx
    <3>1. Moved = {t.tx : t \in ToSet(mined)}
      BY DEF Init, Moved
    <3>2. \A t \in ToSet(mined) : \E i \in DOMAIN setup.deposits : t = Mined(setup.deposits[i], TRUE)
      BY DEF Init, ToSet
    <3> QED BY <3>1, <3>2
  <2> QED BY <2>1, <2>2 DEF MovingInv
<1>2. MovingInv => ForwardsSomething
  BY DEF MovingInv, Moved, Moving, ForwardsSomething
<1> QED BY <1>1, <1>2, InitTypes, TypesStay, MovingStays, PTL DEF Spec

----------------------------------------------------------------------------
(* The records *)

\* A top-up that is recorded has been mined; for trx it is a transfer of the coin,
\* which does not fail.
Arrived(tx) == IF Nonced THEN IsMined(tx, TRUE) ELSE tx.asset = Coin
TopUpInv ==
    /\ \A e \in ToSet(mined) : ~e.ok => e.tx.asset # Coin
    /\ \A tx \in topups : Arrived(tx)
    /\ pc \in {"topped", "recordTopUp"} => sent.asset = Coin
    /\ pc = "recordTopUp" => Arrived(sent)

LEMMA TopUpStays == Types /\ TopUpInv /\ [Next]_vars => TopUpInv'
<1> SUFFICES ASSUME Types, TopUpInv, [Next]_vars PROVE TopUpInv'
  OBVIOUS
<1>1. setup' = setup /\ Nonced' = Nonced
  BY SetupStays DEF Nonced, Is
<1>2. /\ \A tx : IsMined(tx, TRUE) => IsMined(tx, TRUE)'
      /\ \A e \in ToSet(mined') : ~e.ok => e.tx.asset # Coin
  <2>1. CASE mined' = mined
    BY <2>1 DEF IsMined, TopUpInv
  <2>2. ASSUME NEW tx \in pool, NEW e \in Events, Entry(e, tx), mined' = Append(mined, e)
        PROVE  /\ \A tx1 : IsMined(tx1, TRUE) => IsMined(tx1, TRUE)'
               /\ \A e1 \in ToSet(mined') : ~e1.ok => e1.tx.asset # Coin
    BY <2>2, Appended DEF Types, ChainOK, TopUpInv, Entry
  <2> QED BY <2>1, <2>2, ChainStays
<1>3. \A tx : Arrived(tx) => Arrived(tx)'
  BY <1>1, <1>2 DEF Arrived
<1>4. CASE topups' = topups /\ pc' \notin {"topped", "recordTopUp"}
  BY <1>2, <1>3, <1>4 DEF TopUpInv
<1>5. CASE UNCHANGED <<topups, pc, sent>>
  <2>1. pc = "recordTopUp" => Arrived(sent)'
    <3>1. pc = "recordTopUp" => Arrived(sent)
      BY DEF TopUpInv
    <3> QED BY <1>3, <1>5, <3>1 DEF Arrived, IsMined
  <2> QED BY <1>2, <1>3, <1>5, <2>1 DEF TopUpInv
<1>6. CASE TopUp
  <2>1. topups' = topups /\ pc' = "topped" /\ sent' = GasTx /\ GasTx.asset = Coin
    BY <1>6 DEF TopUp, records, GasTx, NextTx, Tx
  <2> QED BY <1>2, <1>3, <2>1 DEF TopUpInv
<1>7. CASE TopUpAnswered
  <2>1. topups' = topups /\ pc = "topped" /\ sent' = sent /\ mined' = mined /\ Answered(sent)
    BY <1>7 DEF TopUpAnswered, records, locals, chain
  <2>2. sent.asset = Coin /\ Arrived(sent)
    BY <2>1 DEF TopUpInv, Answered, Arrived
  <2>3. Arrived(sent)'
    BY <1>1, <2>1, <2>2 DEF Arrived, IsMined
  <2> QED BY <1>2, <1>3, <2>1, <2>2, <2>3 DEF TopUpInv
<1>8. CASE RecordTopUp
  <2>1. topups' = topups \cup {sent} /\ pc = "recordTopUp" /\ pc' = "check"
    BY <1>8 DEF RecordTopUp
  <2> QED BY <1>2, <1>3, <2>1 DEF TopUpInv
<1>9. Inside \/ Send \/ RecordMove \/ MonitorSees \/ UNCHANGED vars => topups' = topups
  BY InsideSteps DEF Send, RecordMove, MonitorSees, records, vars
<1>10. /\ MonitorSees \/ UNCHANGED vars => UNCHANGED <<topups, pc, sent>>
       /\ (\E tx \in pool : Mine(tx) \/ Drop(tx)) => UNCHANGED <<topups, pc, sent>>
  BY DEF MonitorSees, Mine, Drop, records, locals, vars
<1>11. Send \/ RecordMove => pc' \notin {"topped", "recordTopUp"}
  BY DEF Send, RecordMove, Done
<1>12. Inside => TopUpAnswered \/ pc' \notin {"topped", "recordTopUp"}
  <2>1. ReadConfig \/ ReadHot \/ ReadFundings \/ NextAsset \/ FundingsFail =>
            pc' \notin {"topped", "recordTopUp"}
    BY DEF ReadConfig, ReadHot, ReadFundings, NextAsset, FundingsFail, First, Restart
  <2>2. (\E a \in Addresses : Skip(a) \/ Take(a)) => pc' \notin {"topped", "recordTopUp"}
    BY DEF Skip, Take
  <2>3. Plan \/ MisreadAccount \/ PlanFails \/ EstimateFails \/ NeedGas \/ MisreadGas =>
            pc' \notin {"topped", "recordTopUp"}
    BY DEF Plan, MisreadAccount, Follow, PlanFails, EstimateFails, NeedGas, MisreadGas, Restart
  <2>4. NoTopUp \/ TopUpUnanswered \/ Fail => pc' \notin {"topped", "recordTopUp"}
    BY DEF NoTopUp, TopUpUnanswered, WithoutResponse, Fail, Restart
  <2>5. CheckGas \/ StillNoGas \/ SignThrows \/ Unsigned \/ Refused \/ MoveAnswered \/ Reverted
        \/ MoveUnanswered => pc' \notin {"topped", "recordTopUp"}
    BY DEF CheckGas, StillNoGas, SignThrows, Unsigned, Refused, MoveAnswered, Reverted,
       MoveUnanswered, AfterNoAnswer, Done, Restart
  <2> QED BY <2>1, <2>2, <2>3, <2>4, <2>5 DEF Inside
<1> QED BY <1>4, <1>5, <1>6, <1>7, <1>8, <1>9, <1>10, <1>11, <1>12, AllSteps

\* Whatever fails and whatever answer is lost: a recorded top-up of eth and bnb has
\* reached its address, one of trx does not fail (distributorGas).
THEOREM TopUpsHaveArrived == Spec => []TopUpsArrive
<1>1. Init => TopUpInv
  <2> SUFFICES ASSUME Init PROVE TopUpInv
    OBVIOUS
  <2>1. \A e \in ToSet(mined) : e.ok
    BY DEF Init, ToSet, Mined
  <2> QED BY <2>1 DEF Init, TopUpInv
<1>2. Types /\ TopUpInv => TopUpsArrive
  <2> SUFFICES ASSUME Types, TopUpInv, NEW tx \in topups
               PROVE  IF Nonced THEN IsMined(tx, TRUE) ELSE ~IsMined(tx, FALSE)
    BY DEF TopUpsArrive
  <2>1. Arrived(tx)
    BY DEF TopUpInv
  <2>2. CASE Nonced
    BY <2>1, <2>2 DEF Arrived
  <2>3. CASE ~Nonced
    <3>1. IsMined(tx, FALSE) => Mined(tx, FALSE) \in ToSet(mined)
      <4>1. DOMAIN mined = 1 .. Len(mined)
        BY DEF Types, ChainOK
      <4> QED BY <4>1 DEF IsMined, Contains, ToSet
    <3> QED BY <2>1, <2>3, <3>1 DEF Arrived, TopUpInv, Mined
  <2> QED BY <2>2, <2>3
<1> QED BY <1>1, <1>2, InitTypes, TypesStay, TopUpStays, PTL DEF Spec

\* What the pass has broadcast from an address is recorded, about to be, or lost.
Known(tx) ==
    \/ tx \in moves \/ tx \in lost
    \/ tx = sent /\ pc \in {"wait", "record"}
    \/ Is("trx") /\ tx \in unanswered
MovesInv ==
    /\ \A t \in ToSet(mined) : t.tx.from \in Addresses => Known(t.tx)
    /\ \A tx \in pool : tx.from \in Addresses => Known(tx)

LEMMA KnownStays ==
    ASSUME Types, [Next]_vars
    PROVE  \A tx \in Transactions : Known(tx) => Known(tx)'
<1>1. Is("trx")' = Is("trx")
  BY SetupStays DEF Is
<1>2. moves \subseteq moves' /\ lost \subseteq lost' /\ unanswered \subseteq unanswered'
  <2>1. Inside => moves' = moves
    BY InsideSteps DEF records
  <2>2. TopUp \/ Send \/ RecordTopUp \/ RecordMove \/ MonitorSees \/ UNCHANGED vars =>
            moves \subseteq moves' /\ UNCHANGED <<lost, unanswered>>
    BY DEF TopUp, Send, RecordTopUp, RecordMove, MonitorSees, vars, records, observed
  <2>3. (\E tx \in pool : Mine(tx) \/ Drop(tx)) => UNCHANGED <<moves, lost, unanswered>>
    BY DEF Mine, Drop, records, observed
  <2>4. ReadConfig \/ ReadHot \/ ReadFundings \/ NextAsset \/ (\E a \in Addresses : Skip(a) \/ Take(a))
        => UNCHANGED <<unanswered, lost>>
    BY DEF ReadConfig, ReadHot, ReadFundings, NextAsset, Skip, Take, observed
  <2>5. Plan \/ PlanFails \/ EstimateFails \/ NeedGas \/ TopUpAnswered \/ CheckGas \/ StillNoGas
        \/ SignThrows \/ Unsigned \/ MoveAnswered \/ Reverted => UNCHANGED <<unanswered, lost>>
    BY DEF Plan, PlanFails, EstimateFails, NeedGas, TopUpAnswered, CheckGas, StillNoGas,
       SignThrows, Unsigned, MoveAnswered, Reverted, observed
  <2>6. NoTopUp \/ Refused \/ FundingsFail \/ MisreadAccount \/ MisreadGas => UNCHANGED <<unanswered, lost>>
    BY DEF NoTopUp, Refused, FundingsFail, MisreadAccount, MisreadGas
  <2>7. TopUpUnanswered \/ MoveUnanswered \/ Fail =>
            unanswered \subseteq unanswered' /\ lost \subseteq lost'
    BY DEF TopUpUnanswered, MoveUnanswered, Fail
  <2>8. Inside => unanswered \subseteq unanswered' /\ lost \subseteq lost'
    BY <2>4, <2>5, <2>6, <2>7 DEF Inside
  <2> QED BY <2>1, <2>2, <2>3, <2>8, AllSteps
<1>3. ASSUME pc \in {"wait", "record"}
      PROVE  \/ pc' \in {"wait", "record"} /\ sent' = sent
             \/ sent \in moves' \/ sent \in lost'
             \/ (Is("trx") /\ sent \in unanswered')
  <2>1. CASE MoveAnswered \/ Reverted
    BY <2>1 DEF MoveAnswered, Reverted, locals
  <2>2. CASE MoveUnanswered
    BY <2>2 DEF MoveUnanswered, AfterNoAnswer, Nonced, locals
  <2>3. CASE RecordMove
    <3>1. sent \in moves'
      BY <2>3 DEF RecordMove
    <3> QED BY <3>1
  <2>4. CASE Fail
    <3>1. sent # None
      BY <1>3 DEF Types, PassOK
    <3>2. sent \in lost'
      BY <2>4, <3>1 DEF Fail
    <3> QED BY <3>2
  <2>5. CASE UNCHANGED <<pc, sent>>
    BY <1>3, <2>5
  <2>6. /\ MonitorSees \/ UNCHANGED vars => UNCHANGED <<pc, sent>>
        /\ (\E tx \in pool : Mine(tx) \/ Drop(tx)) => UNCHANGED <<pc, sent>>
    BY DEF MonitorSees, Mine, Drop, locals, vars
  <2>7. ~(TopUp \/ Send \/ RecordTopUp)
    BY <1>3 DEF TopUp, Send, RecordTopUp
  <2>8. Inside => MoveAnswered \/ Reverted \/ MoveUnanswered \/ Fail
    BY <1>3 DEF Inside, ReadConfig, ReadHot, ReadFundings, NextAsset, Skip, Take, Plan, PlanFails,
       EstimateFails, NeedGas, NoTopUp, TopUpAnswered, CheckGas, StillNoGas, SignThrows, Unsigned,
       Refused, FundingsFail, MisreadAccount, MisreadGas, TopUpUnanswered
  <2> QED BY <2>1, <2>2, <2>3, <2>4, <2>5, <2>6, <2>7, <2>8, AllSteps
<1> QED BY <1>1, <1>2, <1>3 DEF Known

LEMMA MovesStay == Types /\ MovesInv /\ [Next]_vars => MovesInv'
<1> SUFFICES ASSUME Types, MovesInv, [Next]_vars PROVE MovesInv'
  OBVIOUS
<1>1. \A tx \in Transactions : Known(tx) => Known(tx)'
  BY KnownStays
<1>2. \A tx \in pool' : tx.from \in Addresses => tx \in pool \/ Known(tx)'
  <2>1. CASE TopUp
    <3>1. \A tx \in pool' : tx \in pool \/ tx = GasTx
      BY <2>1 DEF TopUp, Accept
    <3>2. GasTx.from = Gas /\ Gas \notin Addresses
      BY AccountsAssumption DEF GasTx, NextTx, Tx
    <3> QED BY <3>1, <3>2
  <2>2. CASE Send
    <3>1. \A tx \in pool' : tx \in pool \/ tx = sent'
      BY <2>2 DEF Send, Accept
    <3>2. pc' = "wait"
      BY <2>2 DEF Send
    <3> QED BY <3>1, <3>2 DEF Known
  <2>3. CASE pool' \subseteq pool
    BY <2>3
  <2>4. RecordTopUp \/ RecordMove \/ MonitorSees \/ UNCHANGED vars => pool' = pool
    BY DEF RecordTopUp, RecordMove, MonitorSees, chain, vars
  <2>5. (\E tx \in pool : Mine(tx) \/ Drop(tx)) => pool' \subseteq pool
    BY DEF Mine, Drop
  <2>6. Inside => pool' = pool
    BY InsideSteps DEF chain
  <2> QED BY <2>1, <2>2, <2>3, <2>4, <2>5, <2>6, AllSteps
<1>3. pool \subseteq Transactions /\ \A t \in ToSet(mined) : t.tx \in Transactions
  <2>1. \A i \in DOMAIN mined : mined[i] \in Events
    BY DEF Types, ChainOK
  <2> QED BY <2>1 DEF Types, ChainOK, ToSet, Events
<1>4. \A t \in ToSet(mined') : t \in ToSet(mined) \/ t.tx \in pool
  <2>1. ASSUME NEW tx \in pool, NEW e \in Events, Entry(e, tx), mined' = Append(mined, e)
        PROVE  \A t \in ToSet(mined') : t \in ToSet(mined) \/ t.tx \in pool
    BY <2>1, Appended DEF Types, ChainOK, Entry
  <2> QED BY <2>1, ChainStays
<1>5. \A t \in ToSet(mined') : t.tx.from \in Addresses => Known(t.tx)'
  BY <1>1, <1>3, <1>4 DEF MovesInv
<1>6. \A tx \in pool' : tx.from \in Addresses => Known(tx)'
  BY <1>1, <1>2, <1>3 DEF MovesInv
<1> QED BY <1>5, <1>6 DEF MovesInv

\* Whatever fails: a move that reached the chain is recorded or about to be, unless the
\* process failed in between or, for trx, its answer was lost (moveFundERC20, moveFundETH).
THEOREM MovesAreRecorded == Spec => []MovesRecorded
<1>1. Init => MovesInv
  <2> SUFFICES ASSUME Init PROVE MovesInv
    OBVIOUS
  <2>1. ASSUME NEW i \in DOMAIN setup.deposits
        PROVE  Mined(setup.deposits[i], TRUE).tx.from \notin Addresses
    <3>1. setup.deposits[i] \in Deposits
      BY SetupFacts DEF Init
    <3> QED BY <3>1, AccountsAssumption DEF Deposits, Mined
  <2> QED BY <2>1 DEF Init, MovesInv, ToSet
<1>2. MovesInv => MovesRecorded
  BY DEF MovesInv, MovesRecorded, Known
<1> QED BY <1>1, <1>2, InitTypes, TypesStay, MovesStay, PTL DEF Spec

----------------------------------------------------------------------------
(* The hot wallet *)

\* No answer is missing and nothing has failed.
Quiet == Nonced /\ unanswered = {} /\ lost = {}

\* A transaction is mined with the next nonce of its account; the pool holds nothing but
\* what the pass waits for, which has the next nonce and is what was planned.
Flight ==
    /\ \A t \in ToSet(mined) : t.tx.from \in Accounts => t.tx.nonce < nonces[t.tx.from]
    /\ pool \subseteq {sent}
    /\ pool # {} => pc \in {"topped", "wait"} /\ sent.nonce = nonces[sent.from]
    /\ pc = "topped" => sent.from = Gas /\ sent.to = cur
    /\ pc = "wait" =>
          sent.from = cur /\ sent.to = plan.to /\ sent.asset = Asset
          /\ sent.amount = Signed(plan.amount)

\* What is on its way to the hot wallet, from its planning to its mining.
Underway ==
    \/ pc \in {"gas", "topup", "topped", "recordTopUp", "check", "send"}
    \/ pc = "wait" /\ sent \in pool
Coming(x) == IF x = Asset /\ plan.to = Hot /\ Underway THEN plan.amount ELSE 0
Expected(x) == held[Hot][x] + Coming(x)

\* The pass has read the hot wallet for this asset: bnb does so when there are fundings.
HotRead ==
    /\ pc \notin {"config", "hot"}
    /\ Is("bnb") => pc # "list" /\ (pc = "fund" => list # Nothing)

Bounded(x, n) ==
    \/ setup.threshold[x] > 0 /\ n < 2 * setup.threshold[x]
    \/ n <= setup.held[Hot][x]

HotInv ==
    Quiet =>
        /\ Flight
        /\ Is("bnb") /\ pc \in {"config", "list"} => list = Nothing
        /\ HotRead /\ Kept(Asset) => Expected(Asset) <= hot + total
        /\ \A x \in Assets : Kept(x) => Bounded(x, Expected(x))

LEMMA QuietSteps ==
    ASSUME Types, [Next]_vars, Quiet'
    PROVE  /\ Quiet /\ setup' = setup /\ ~TopUpUnanswered /\ ~MoveUnanswered
           /\ Fail => sent = None
           /\ ~\E tx \in pool : Drop(tx)
           /\ ~MisreadAccount /\ ~Unsigned
<1>1. setup' = setup /\ Nonced
  BY SetupStays DEF Quiet, Nonced, Is
<1>2. ~TopUpUnanswered /\ ~MoveUnanswered /\ (Fail => lost = {} /\ unanswered = {} /\ sent = None)
  BY DEF TopUpUnanswered, MoveUnanswered, Fail, Quiet
<1>3. TopUp \/ Send \/ RecordTopUp \/ RecordMove \/ MonitorSees \/ UNCHANGED vars
      => UNCHANGED <<unanswered, lost>>
  BY DEF TopUp, Send, RecordTopUp, RecordMove, MonitorSees, vars, observed
<1>4. (\E tx \in pool : Mine(tx) \/ Drop(tx)) => UNCHANGED <<unanswered, lost>>
  BY DEF Mine, Drop, observed
<1>5. ReadConfig \/ ReadHot \/ ReadFundings \/ NextAsset \/ (\E a \in Addresses : Skip(a) \/ Take(a))
      => UNCHANGED <<unanswered, lost>>
  BY DEF ReadConfig, ReadHot, ReadFundings, NextAsset, Skip, Take, observed
<1>6. Plan \/ PlanFails \/ EstimateFails \/ NeedGas \/ TopUpAnswered \/ CheckGas \/ StillNoGas
      \/ SignThrows \/ Unsigned \/ MoveAnswered \/ Reverted => UNCHANGED <<unanswered, lost>>
  BY DEF Plan, PlanFails, EstimateFails, NeedGas, TopUpAnswered, CheckGas, StillNoGas,
     SignThrows, Unsigned, MoveAnswered, Reverted, observed
<1>7. NoTopUp \/ Refused \/ FundingsFail \/ MisreadAccount \/ MisreadGas => UNCHANGED <<unanswered, lost>>
  BY DEF NoTopUp, Refused, FundingsFail, MisreadAccount, MisreadGas
<1>8. Quiet
  BY <1>1, <1>2, <1>3, <1>4, <1>5, <1>6, <1>7, AllSteps DEF Inside, Quiet
<1>9. ~\E tx \in pool : Drop(tx)
  BY <1>1 DEF Drop
<1>10. ~MisreadAccount /\ ~Unsigned
  BY <1>8 DEF MisreadAccount, Unsigned, Signable, Quiet, Nonced
<1> QED BY <1>1, <1>2, <1>8, <1>9, <1>10

\* What is mined is no longer in the pool: its nonce is used.
LEMMA MinedLeftPool ==
    ASSUME Types, Flight, pc \in {"topped", "wait"}, NEW ok \in BOOLEAN, IsMined(sent, ok)
    PROVE  pool = {}
<1>1. Mined(sent, ok) \in ToSet(mined)
  BY DEF Types, ChainOK, IsMined, Contains, ToSet
<1>2. sent.from \in Accounts
  BY Names DEF Flight, Types, PassOK
<1>3. sent.nonce < nonces[sent.from]
  BY <1>1, <1>2 DEF Flight, Mined
<1>4. sent.nonce \in Nat /\ nonces[sent.from] \in Nat
  BY <1>2 DEF Types, ChainOK, PassOK, Transactions
<1> QED BY <1>3, <1>4 DEF Flight

\* A step inside the pass but Plan: nothing begins to be under way, and what was is not changed.
LEMMA InsideFlight ==
    ASSUME Types, Inside, Quiet, ~TopUpUnanswered, ~MoveUnanswered, Fail => sent = None,
           ~MisreadAccount, ~Unsigned
    PROVE  /\ pc' \notin {"topped", "wait"}
           /\ Flight => pool = {}
           /\ \/ Plan
              \/ pc' \notin {"gas", "topup", "topped", "recordTopUp", "check", "send"}
              \/ /\ pc \in {"gas", "topup", "topped", "recordTopUp", "check", "send"}
                 /\ UNCHANGED <<place, hot, total, list>>
                 /\ plan'.to = plan.to /\ plan'.amount = plan.amount
<1> DEFINE Before == {"gas", "topup", "topped", "recordTopUp", "check", "send"}
<1>1. CASE ReadConfig \/ ReadHot \/ ReadFundings \/ NextAsset \/ FundingsFail
  <2>1. pc' \notin Before \cup {"wait"} /\ pc \notin {"topped", "wait"}
    BY <1>1 DEF ReadConfig, ReadHot, ReadFundings, NextAsset, FundingsFail, First, Restart
  <2> QED BY <2>1 DEF Flight
<1>2. CASE \E a \in Addresses : Skip(a) \/ Take(a)
  <2>1. pc' \notin Before \cup {"wait"} /\ pc \notin {"topped", "wait"}
    BY <1>2 DEF Skip, Take
  <2> QED BY <2>1 DEF Flight
<1>3. CASE Plan
  <2>1. pc' \in {"send", "gas"} /\ pc = "plan"
    BY <1>3 DEF Plan, Follow
  <2> QED BY <1>3, <2>1 DEF Flight
<1>4. CASE PlanFails \/ EstimateFails \/ StillNoGas \/ SignThrows \/ Refused
  <2>1. pc' \notin Before \cup {"wait"} /\ pc \notin {"topped", "wait"}
    BY <1>4 DEF PlanFails, EstimateFails, StillNoGas, SignThrows, Refused, Restart, Done
  <2> QED BY <2>1 DEF Flight
<1>5. CASE NeedGas \/ MisreadGas
  <2>1. /\ pc = "gas" /\ pc' \in {"check", "topup"} /\ UNCHANGED <<place, hot, total, list>>
        /\ \E g : plan' = [plan EXCEPT !.gas = g]
    BY <1>5 DEF NeedGas, MisreadGas
  <2> QED BY <2>1 DEF Flight, Types, PassOK
<1>6. CASE NoTopUp \/ CheckGas
  <2>1. /\ pc \in {"topup", "check"} /\ pc' \in {"check", "send"} /\ UNCHANGED locals
    BY <1>6 DEF NoTopUp, CheckGas
  <2> QED BY <2>1 DEF Flight, locals
<1>7. CASE TopUpAnswered
  <2>1. pc = "topped" /\ pc' = "recordTopUp" /\ UNCHANGED locals /\ IsMined(sent, TRUE)
    BY <1>7 DEF TopUpAnswered, Answered, Quiet
  <2> QED BY <2>1, MinedLeftPool DEF locals
<1>8. CASE MoveAnswered \/ Reverted
  <2>1. pc = "wait" /\ pc' = "record" /\ \E ok \in BOOLEAN : IsMined(sent, ok)
    BY <1>8 DEF MoveAnswered, Reverted, Answered, Quiet
  <2> QED BY <2>1, MinedLeftPool
<1>9. CASE Fail
  <2>1. pc' = "config" /\ sent = None
    BY <1>9 DEF Fail, Restart
  <2>2. pc \notin {"topped", "wait"}
    BY <2>1 DEF Types, PassOK
  <2> QED BY <2>1, <2>2 DEF Flight
<1> QED BY <1>1, <1>2, <1>3, <1>4, <1>5, <1>6, <1>7, <1>8, <1>9 DEF Inside

LEMMA FlightStays ==
    ASSUME Types, Flight, [Next]_vars, Quiet'
    PROVE  Flight'
<1>1. /\ Quiet /\ setup' = setup /\ ~TopUpUnanswered /\ ~MoveUnanswered
      /\ Fail => sent = None
      /\ ~\E tx \in pool : Drop(tx)
      /\ ~MisreadAccount /\ ~Unsigned
  BY QuietSteps
<1>2. place' = place => Asset' = Asset
  BY <1>1, EligibleSame
<1>3. CASE Inside
  <2>1. pool' = {} /\ pc' \notin {"topped", "wait"} /\ UNCHANGED <<mined, nonces>>
    BY <1>1, <1>3, InsideFlight, InsideSteps DEF chain
  <2> QED BY <2>1 DEF Flight
<1>4. CASE RecordTopUp \/ RecordMove
  <2>1. pool' = pool /\ pc \notin {"topped", "wait"} /\ pc' \in {"check", "fund"}
        /\ UNCHANGED <<mined, nonces>>
    BY <1>4 DEF RecordTopUp, RecordMove, Done, chain
  <2> QED BY <2>1 DEF Flight
<1>5. CASE MonitorSees \/ UNCHANGED vars
  <2>1. UNCHANGED <<pool, pc, sent, cur, plan, place, mined, nonces>>
    BY <1>5 DEF MonitorSees, vars, locals, chain
  <2> QED BY <1>2, <2>1 DEF Flight
<1>6. CASE TopUp
  <2>1. /\ pc = "topup" /\ pc' = "topped" /\ sent' = GasTx /\ Accept(GasTx) /\ cur' = cur
    BY <1>6 DEF TopUp
  <2>2. pool' = {sent'} /\ UNCHANGED <<mined, nonces>>
    BY <1>1, <2>1 DEF Accept, SameNonce, Flight, Quiet
  <2>3. sent'.from = Gas /\ sent'.to = cur /\ sent'.nonce = nonces[Gas]
    BY <2>1 DEF GasTx, NextTx, Tx
  <2> QED BY <2>1, <2>2, <2>3 DEF Flight
<1>7. CASE Send
  <2>1. /\ pc = "send" /\ pc' = "wait" /\ sent' = MoveTx /\ Accept(MoveTx)
        /\ UNCHANGED <<cur, place, plan>>
    BY <1>7 DEF Send
  <2>2. pool' = {sent'} /\ UNCHANGED <<mined, nonces>>
    BY <1>1, <2>1 DEF Accept, SameNonce, Flight, Quiet
  <2>3. /\ sent'.from = cur /\ sent'.to = plan.to /\ sent'.asset = Asset
        /\ sent'.amount = Signed(plan.amount) /\ sent'.nonce = nonces[cur]
    BY <2>1 DEF MoveTx, NextTx, Tx
  <2> QED BY <1>2, <2>1, <2>2, <2>3 DEF Flight
<1>8. CASE \E tx \in pool : Mine(tx)
  <2>1. PICK tx \in pool : Mine(tx)
    BY <1>8
  <2>2. /\ tx = sent /\ tx.nonce = nonces[tx.from] /\ pc \in {"topped", "wait"}
        /\ nonces' = [nonces EXCEPT ![tx.from] = @ + 1] /\ pool' = {}
        /\ UNCHANGED <<pc, sent, cur, plan, place>>
    BY <1>1, <2>1 DEF Mine, Flight, locals, Quiet
  <2>3. PICK e \in Events : Entry(e, tx) /\ mined' = Append(mined, e)
    BY <2>1, MineTypes DEF Types
  <2>4. ToSet(mined') = ToSet(mined) \cup {e} /\ e.tx = tx
    BY <2>3, Appended DEF Types, ChainOK, Entry
  <2>5. ASSUME NEW t \in ToSet(mined'), t.tx.from \in Accounts
        PROVE  t.tx.nonce < nonces'[t.tx.from]
    <3>1. nonces[t.tx.from] \in Nat
      BY <2>5 DEF Types, ChainOK
    <3>2. nonces'[t.tx.from] = IF t.tx.from = tx.from THEN nonces[t.tx.from] + 1
                                                       ELSE nonces[t.tx.from]
      BY <2>2, <2>5 DEF Types, ChainOK
    <3>3. CASE t \in ToSet(mined)
      <4>1. t.tx \in Transactions
        <5>1. \A i \in DOMAIN mined : mined[i] \in Events
          BY DEF Types, ChainOK
        <5> QED BY <3>3, <5>1 DEF ToSet, Events
      <4>2. t.tx.nonce < nonces[t.tx.from] /\ t.tx.nonce \in Nat
        BY <2>5, <3>3, <4>1 DEF Flight, Transactions
      <4> QED BY <3>1, <3>2, <4>2
    <3>4. CASE t = e
      BY <2>2, <2>4, <3>1, <3>2, <3>4
    <3> QED BY <2>4, <3>3, <3>4
  <2> QED BY <1>2, <2>2, <2>5 DEF Flight
<1> QED BY <1>1, <1>3, <1>4, <1>5, <1>6, <1>7, <1>8, AllSteps

LEMMA ExpectedTypes ==
    ASSUME Types, NEW x \in Assets
    PROVE  /\ held[Hot][x] \in Nat /\ Coming(x) \in Int /\ Expected(x) \in Int
           /\ Kept(x) => Coming(x) \in Nat
<1>1. held[Hot][x] \in Nat /\ plan.amount \in Int
  BY Names DEF Types, ChainOK, PassOK
<1>2. Kept(Asset) /\ plan.to = Hot => plan.amount > 0
  BY Names DEF Types, PassOK
<1> QED BY <1>1, <1>2 DEF Coming, Expected

\* A plan for the hot wallet is one for a hot wallet short of its threshold, and does
\* not exceed what that lacks.
LEMMA PlanToHot ==
    ASSUME Types, Quiet, Kept(Asset), pc = "plan", ~BnbCoinThrows, PlanOf(list[cur]).to = Hot
    PROVE  LET p == PlanOf(list[cur]) IN
           /\ p.counted = p.amount /\ p.amount <= Threshold
           /\ Threshold > 0 /\ hot + total < Threshold
<1>1. /\ Threshold \in Nat /\ hot \in Nat /\ total \in Nat /\ list[cur] \in Nat
      /\ CoinFee \in Nat \ {0}
  BY AssetTypes, AmountsAssumption DEF Types, PassOK
<1>2. Is("eth") \/ Is("bnb")
  BY SetupFacts DEF Types, PassOK, Quiet, Nonced, Is
<1> DEFINE f == list[cur]
<1>3. ASSUME EthTokenPlan(f).to = Hot
      PROVE  LET p == EthTokenPlan(f) IN p.counted = p.amount /\ p.amount <= Rest /\ ~Full
  BY <1>1, <1>3, AccountsAssumption DEF EthTokenPlan, Move, Smaller, Rest
<1>4. ASSUME EthCoinPlan(f).to = Hot
      PROVE  LET p == EthCoinPlan(f) IN p.counted = p.amount /\ p.amount <= Rest /\ ~Full
  BY <1>1, <1>4, AccountsAssumption DEF EthCoinPlan, Move, Rest
<1>5. BnbCoinPlan(f).to # Hot
  BY AccountsAssumption DEF BnbCoinPlan, Move
<1> HIDE DEF f
<1>6. PlanOf(f) \in {EthTokenPlan(f), EthCoinPlan(f), BnbCoinPlan(f)}
  BY <1>2 DEF PlanOf, BnbTokenPlan, Is
<1>7. PlanOf(f).to = Hot =>
        LET p == PlanOf(f) IN p.counted = p.amount /\ p.amount <= Rest /\ ~Full
  BY <1>3, <1>4, <1>5, <1>6
<1>8. ~Full => Threshold > 0 /\ hot + total < Threshold /\ Rest <= Threshold /\ Rest \in Nat
  BY <1>1 DEF Full, Rest
<1>9. PlanOf(f).amount \in Int
  BY PlanTypes DEF f, Planned
<1> QED BY <1>1, <1>7, <1>8, <1>9 DEF f

\* No step but Plan adds to what the hot wallet holds or can expect.
LEMMA NothingAdded ==
    ASSUME Types, Flight, [Next]_vars, Quiet', ~Plan, NEW x \in Assets, Kept(x)
    PROVE  Expected(x)' <= Expected(x)
<1>1. /\ Quiet /\ setup' = setup /\ ~TopUpUnanswered /\ ~MoveUnanswered
      /\ Fail => sent = None
      /\ ~\E tx \in pool : Drop(tx)
      /\ ~MisreadAccount /\ ~Unsigned
  BY QuietSteps
<1>2. place' = place => Asset' = Asset
  BY <1>1, EligibleSame
<1>3. /\ held[Hot][x] \in Nat /\ Coming(x) \in Nat /\ plan.amount \in Int
      /\ x = Asset /\ plan.to # None => plan.amount > 0
  BY ExpectedTypes DEF Types, PassOK
<1>4. ASSUME held' = held,
             \/ ~Underway'
             \/ Underway /\ place' = place /\ plan'.to = plan.to /\ plan'.amount = plan.amount
      PROVE  Expected(x)' <= Expected(x)
  <2>1. Coming(x)' = 0 \/ Coming(x)' = Coming(x)
    BY <1>2, <1>4 DEF Coming
  <2> QED BY <1>3, <1>4, <2>1 DEF Expected
<1>5. CASE Inside
  <2>1. held' = held
    BY <1>5, InsideSteps DEF chain
  <2>2. \/ ~Underway'
        \/ Underway /\ place' = place /\ plan'.to = plan.to /\ plan'.amount = plan.amount
    BY <1>1, <1>5, InsideFlight DEF Underway
  <2> QED BY <1>4, <2>1, <2>2
<1>6. CASE RecordTopUp \/ RecordMove
  <2>1. CASE RecordTopUp
    BY <1>4, <2>1 DEF RecordTopUp, Underway, chain
  <2>2. CASE RecordMove
    BY <1>4, <2>2 DEF RecordMove, Done, Underway, chain
  <2> QED BY <1>6, <2>1, <2>2
<1>7. CASE TopUp
  BY <1>4, <1>7 DEF TopUp, Accept, Underway
<1>8. CASE Send
  BY <1>4, <1>8 DEF Send, Accept, Underway
<1>9. CASE MonitorSees \/ UNCHANGED vars
  <2>1. UNCHANGED <<held, pool, pc, sent, plan, place>>
    BY <1>9 DEF MonitorSees, vars, locals, chain
  <2> QED BY <1>4, <2>1 DEF Underway
<1>10. CASE \E tx \in pool : Mine(tx)
  <2>1. PICK tx \in pool : Mine(tx)
    BY <1>10
  <2>2. /\ tx = sent /\ pc \in {"topped", "wait"} /\ pool' = {}
        /\ UNCHANGED <<pc, sent, cur, plan, place>>
    BY <2>1 DEF Mine, Flight, locals
  <2>3. tx.from # Hot /\ (pc = "topped" => tx.to # Hot)
    BY <2>2, AccountsAssumption DEF Flight, Types, PassOK
  <2>4. held'[Hot][x] = held[Hot][x]
        \/ /\ tx.to = Hot /\ x = tx.asset
           /\ held'[Hot][x] = held[Hot][x] + tx.amount
    <3>1. tx.amount \in Nat
      BY DEF Types, ChainOK, Transactions
    <3>2. PICK ok \in BOOLEAN :
            held' = [a \in Accounts |-> [y \in Assets |->
              held[a][y]
              - (IF a = tx.from /\ y = Coin THEN tx.fee ELSE 0)
              - (IF ok /\ a = tx.from /\ y = tx.asset THEN tx.amount ELSE 0)
              + (IF ok /\ a = tx.to /\ y = tx.asset THEN tx.amount ELSE 0)]]
      BY <2>1 DEF Mine
    <3>3. held'[Hot][x] = held[Hot][x] - 0 - 0 + (IF ok /\ Hot = tx.to /\ x = tx.asset THEN tx.amount ELSE 0)
      BY <2>3, <3>2, Names
    <3> QED BY <1>3, <3>1, <3>3
  <2>5. CASE pc = "topped"
    <3>1. held'[Hot][x] = held[Hot][x] /\ Coming(x)' = Coming(x)
      BY <1>2, <2>2, <2>3, <2>4, <2>5 DEF Coming, Underway
    <3> QED BY <1>3, <3>1 DEF Expected
  <2>6. CASE pc = "wait"
    <3>1. Coming(x)' = 0
      BY <2>2, <2>6 DEF Coming, Underway
    <3>2. tx.to = plan.to /\ tx.asset = Asset /\ tx.amount = Signed(plan.amount)
      BY <2>2, <2>6 DEF Flight
    <3>4. tx.to = Hot /\ x = Asset => tx.amount = plan.amount
      BY <1>3, <3>2, Names DEF Signed
    <3>3. Coming(x) = IF x = Asset /\ plan.to = Hot THEN plan.amount ELSE 0
      BY <2>2, <2>6 DEF Coming, Underway
    <3> QED BY <1>3, <2>4, <3>1, <3>2, <3>3, <3>4 DEF Expected
  <2> QED BY <2>2, <2>5, <2>6
<1> QED BY <1>1, <1>5, <1>6, <1>7, <1>8, <1>9, <1>10, AllSteps

\* Where the pass is behind its reading of the hot wallet, it was before the step or has
\* just read it.
LEMMA ReadStays ==
    ASSUME Types, [Next]_vars, Quiet', HotRead',
           Is("bnb") /\ pc \in {"config", "list"} => list = Nothing
    PROVE  \/ ReadHot /\ pc = "hot"
           \/ HotRead /\ UNCHANGED <<place, hot, total>>
           \/ Plan
<1>1. /\ Quiet /\ setup' = setup /\ ~TopUpUnanswered /\ ~MoveUnanswered
      /\ Fail => sent = None
      /\ ~\E tx \in pool : Drop(tx)
      /\ ~MisreadAccount /\ ~Unsigned
  BY QuietSteps
<1>2. pc' # "config" /\ pc' # "hot"
  BY DEF HotRead
<1>3. ~Restart
  BY <1>2 DEF Restart
<1>4. ASSUME UNCHANGED <<pc, list, place, hot, total>> PROVE HotRead /\ UNCHANGED <<place, hot, total>>
  BY <1>1, <1>4 DEF HotRead, Is
<1>5. ASSUME pc \notin {"config", "hot", "list", "fund"}, UNCHANGED <<place, hot, total>>
      PROVE  HotRead /\ UNCHANGED <<place, hot, total>>
  BY <1>5 DEF HotRead
<1>6. CASE ReadConfig
  <2>1. Is("bnb") \/ Is("eth")
    BY <1>1, <1>2, <1>6, SetupFacts DEF ReadConfig, Configured, Quiet, Nonced, Is, Types
  <2> QED BY <1>1, <1>2, <1>6, <2>1 DEF ReadConfig, First, HotRead, Is
<1>7. CASE ReadHot
  BY <1>7 DEF ReadHot
<1>8. CASE ReadFundings \/ FundingsFail
  <2>1. pc = "list" /\ pc' = "fund" /\ UNCHANGED <<place, hot, total>>
        /\ (Is("bnb") => list' = Nothing)
    BY <1>2, <1>8 DEF ReadFundings, FundingsFail, locals
  <2> QED BY <1>1, <2>1 DEF HotRead, Is
<1>9. CASE NextAsset
  <2>1. pc' = First /\ list' = list /\ list = Nothing
    BY <1>3, <1>9 DEF NextAsset
  <2>2. ~Is("btc")
    BY <1>9 DEF NextAsset, Types, PassOK
  <2>3. Is("bnb") \/ Is("eth")
    BY <1>1, <2>2, SetupFacts DEF Quiet, Nonced, Is, Types
  <2> QED BY <1>1, <1>2, <2>1, <2>3 DEF First, HotRead, Is
<1>10. CASE \E a \in Addresses : Skip(a) \/ Take(a)
  <2>1. PICK a \in Addresses : Skip(a) \/ Take(a)
    BY <1>10
  <2>2. pc = "fund" /\ list[a] > 0 /\ UNCHANGED <<place, hot, total>>
    BY <2>1 DEF Skip, Take
  <2>3. list # Nothing
    BY <2>2 DEF Nothing
  <2> QED BY <2>2, <2>3 DEF HotRead
<1>11. Plan \/ (Refused /\ Nonced) \/ NeedGas \/ MisreadGas \/ NoTopUp \/ CheckGas \/ TopUpAnswered
       \/ MoveAnswered \/ Reverted \/ StillNoGas \/ RecordTopUp \/ RecordMove \/ TopUp \/ Send =>
          Plan \/ (pc \notin {"config", "hot", "list", "fund"} /\ UNCHANGED <<place, hot, total>>)
  BY DEF Refused, NeedGas, MisreadGas, NoTopUp, CheckGas, TopUpAnswered, MoveAnswered, Reverted,
     StillNoGas, RecordTopUp, RecordMove, TopUp, Send, Done, locals
<1>12. ~(PlanFails \/ EstimateFails \/ SignThrows \/ Fail)
  BY <1>3 DEF PlanFails, EstimateFails, SignThrows, Fail
<1>13. (\E tx \in pool : Mine(tx)) \/ MonitorSees \/ UNCHANGED vars
       => UNCHANGED <<pc, list, place, hot, total>>
  BY DEF Mine, MonitorSees, vars, locals
<1> QED BY <1>1, <1>4, <1>5, <1>6, <1>7, <1>8, <1>9, <1>10, <1>11, <1>12, <1>13, AllSteps
        DEF Inside, Quiet

LEMMA HotStays == Types /\ HotInv /\ [Next]_vars => HotInv'
<1> SUFFICES ASSUME Types, HotInv, [Next]_vars, Quiet'
             PROVE  /\ Flight'
                    /\ (Is("bnb") /\ pc \in {"config", "list"} => list = Nothing)'
                    /\ HotRead' /\ Kept(Asset)' => Expected(Asset)' <= hot' + total'
                    /\ \A x \in Assets : Kept(x)' => Bounded(x, Expected(x))'
  BY DEF HotInv
<1>1. /\ Quiet /\ setup' = setup /\ ~TopUpUnanswered /\ ~MoveUnanswered
      /\ Fail => sent = None
      /\ ~\E tx \in pool : Drop(tx)
      /\ ~MisreadAccount /\ ~Unsigned
  BY QuietSteps
<1>2. Types'
  BY TypesStay
<1>3. /\ Flight /\ (Is("bnb") /\ pc \in {"config", "list"} => list = Nothing)
      /\ HotRead /\ Kept(Asset) => Expected(Asset) <= hot + total
      /\ \A x \in Assets : Kept(x) => Bounded(x, Expected(x))
  BY <1>1 DEF HotInv
<1>4. Flight'
  BY <1>1, <1>3, FlightStays
<1>5. (Is("bnb") /\ pc \in {"config", "list"} => list = Nothing)'
  <2>1. Restart => list' = Nothing
    BY DEF Restart
  <2>2. CASE ReadConfig \/ ReadHot \/ ReadFundings \/ FundingsFail \/ NextAsset
    BY <1>1, <1>3, <2>1, <2>2 DEF ReadConfig, ReadHot, ReadFundings, FundingsFail, NextAsset,
       locals, Is
  <2>3. CASE \E a \in Addresses : Skip(a) \/ Take(a)
    BY <2>3 DEF Skip, Take
  <2>4. Plan \/ (Refused /\ Nonced) \/ NeedGas \/ MisreadGas \/ NoTopUp \/ CheckGas \/ TopUpAnswered
        \/ MoveAnswered \/ Reverted \/ StillNoGas \/ RecordTopUp \/ RecordMove \/ TopUp \/ Send =>
           pc' \notin {"config", "list"}
    BY DEF Plan, Follow, Refused, NeedGas, MisreadGas, NoTopUp, CheckGas, TopUpAnswered, MoveAnswered,
       Reverted, StillNoGas, RecordTopUp, RecordMove, TopUp, Send, Done
  <2>5. PlanFails \/ EstimateFails \/ SignThrows \/ Fail => Restart
    BY DEF PlanFails, EstimateFails, SignThrows, Fail
  <2>6. (\E tx \in pool : Mine(tx)) \/ MonitorSees \/ UNCHANGED vars => UNCHANGED <<pc, list>>
    BY DEF Mine, MonitorSees, vars, locals
  <2>7. UNCHANGED <<pc, list>> => (Is("bnb") /\ pc \in {"config", "list"} => list = Nothing)'
    BY <1>1, <1>3 DEF Is
  <2> QED BY <1>1, <2>1, <2>2, <2>3, <2>4, <2>5, <2>6, <2>7, AllSteps DEF Inside, Quiet
<1>6. /\ Asset \in Assets /\ hot \in Nat /\ total \in Int /\ hot' \in Nat /\ total' \in Int
      /\ Kept(Asset) => total >= 0
  BY <1>2, AssetTypes DEF Types, PassOK
<1>7. ASSUME NEW x \in Assets
      PROVE  Expected(x) \in Int /\ Expected(x)' \in Int
  <2>1. held'[Hot][x] \in Nat /\ plan'.amount \in Int
    BY <1>2, Names DEF Types, ChainOK, PassOK
  <2> QED BY <2>1, ExpectedTypes DEF Expected, Coming
<1>8. /\ place' = place => Asset' = Asset /\ Kept(Asset)' = Kept(Asset)
      /\ \A x : Kept(x)' <=> Kept(x)
  BY <1>1, EligibleSame DEF Kept, MinimumCoversFee
<1>9. \A x \in Assets :
        /\ setup.threshold[x] \in Nat /\ setup.held[Hot][x] \in Nat
        /\ \A n : Bounded(x, n)' <=> Bounded(x, n)
  BY <1>1, SetupFacts, Names DEF Types, Bounded
<1>10. CASE Plan
  <2> DEFINE p == PlanOf(list[cur])
  <2>1. /\ pc = "plan" /\ ~BnbCoinThrows /\ pc' \in {"send", "gas"} /\ held' = held
        /\ UNCHANGED <<place, hot>> /\ total' = total + p.counted
        /\ plan'.to = p.to /\ plan'.amount = p.amount
    BY <1>10 DEF Plan, Follow, chain
  <2>2. /\ p.to \in {Hot, Cold} /\ p.amount \in Int /\ p.counted \in Int
        /\ Kept(Asset) => p.amount > 0 /\ p.counted >= 0
    BY <2>1, PlanTypes DEF Planned
  <2>3. Kept(Asset) /\ p.to = Hot =>
          p.counted = p.amount /\ p.amount <= Threshold /\ Threshold > 0 /\ hot + total < Threshold
    BY <1>1, <2>1, PlanToHot
  <2> HIDE DEF p
  <2>4. HotRead /\ \A x : Coming(x) = 0
    BY <2>1 DEF HotRead, Coming, Underway
  <2>5. \A x : Coming(x)' = IF x = Asset /\ p.to = Hot THEN p.amount ELSE 0
    BY <1>8, <2>1 DEF Coming, Underway
  <2>6. \A x \in Assets : held[Hot][x] \in Nat
    BY ExpectedTypes
  <2>7. Kept(Asset) => held[Hot][Asset] <= hot + total
    BY <1>3, <1>6, <2>4, <2>6 DEF Expected
  <2>8. Kept(Asset) => Expected(Asset)' <= hot' + total'
    BY <1>6, <1>8, <2>1, <2>2, <2>3, <2>5, <2>6, <2>7 DEF Expected
  <2>9. ASSUME NEW x \in Assets, Kept(x) PROVE Bounded(x, Expected(x))'
    <3>1. CASE x = Asset /\ p.to = Hot
      <4>1. Expected(x)' = held[Hot][x] + p.amount
        BY <2>1, <2>5, <3>1 DEF Expected
      <4>2. Expected(x)' < 2 * setup.threshold[x] /\ setup.threshold[x] > 0
        BY <1>6, <1>9, <2>2, <2>3, <2>6, <2>7, <2>9, <3>1, <4>1 DEF Threshold
      <4> QED BY <1>1, <4>2 DEF Bounded
    <3>2. CASE ~(x = Asset /\ p.to = Hot)
      <4>1. Expected(x)' = Expected(x)
        BY <2>1, <2>4, <2>5, <3>2 DEF Expected
      <4> QED BY <1>1, <1>3, <2>9, <4>1 DEF Bounded
    <3> QED BY <3>1, <3>2
  <2> QED BY <1>4, <1>5, <1>8, <2>1, <2>8, <2>9
<1>11. CASE ~Plan
  <2>1. \A x \in Assets : Kept(x) => Expected(x)' <= Expected(x)
    BY <1>1, <1>3, <1>11, NothingAdded
  <2>2. ASSUME NEW x \in Assets, Kept(x) PROVE Bounded(x, Expected(x))'
    <3>1. Bounded(x, Expected(x))
      BY <1>3, <2>2
    <3> QED BY <1>1, <1>7, <1>9, <2>1, <2>2, <3>1 DEF Bounded
  <2>3. ASSUME HotRead', Kept(Asset)' PROVE Expected(Asset)' <= hot' + total'
    <3>1. CASE ReadHot /\ pc = "hot"
      <4>1. held' = held /\ total' = total /\ hot' = held[Hot][Asset] /\ place' = place
            /\ pc' \in {"list", "fund", "plan"}
        BY <1>1, <3>1 DEF ReadHot, EthHot, Quiet, Nonced, chain
      <4>2. \A x : Coming(x)' = 0
        BY <4>1 DEF Coming, Underway
      <4>3. held[Hot][Asset] \in Nat
        BY <1>6, ExpectedTypes
      <4>4. total >= 0
        BY <1>6, <1>8, <2>3, <4>1
      <4> QED BY <1>6, <1>8, <4>1, <4>2, <4>3, <4>4 DEF Expected
    <3>2. CASE HotRead /\ UNCHANGED <<place, hot, total>>
      <4>1. PICK x \in Assets : x = Asset /\ x = Asset' /\ Kept(x) /\ Kept(Asset)
        BY <1>6, <1>8, <2>3, <3>2
      <4>2. Expected(x)' <= Expected(x) /\ Expected(x) <= hot + total
        BY <1>3, <2>1, <3>2, <4>1
      <4>3. Expected(x)' <= hot' + total'
        BY <1>6, <1>7, <3>2, <4>2
      <4> QED BY <4>1, <4>3 DEF Expected, Coming
    <3> QED BY <1>3, <1>11, <2>3, <3>1, <3>2, ReadStays
  <2> QED BY <1>4, <1>5, <1>8, <2>2, <2>3
<1> QED BY <1>10, <1>11

\* While no answer is missing and nothing failed, the hot wallet of eth and bnb ends short
\* of twice its threshold, however many addresses are forwarded to it from balances read
\* before, for any deposits and thresholds; for the coin, if the minimum is above the fee
\* (autoMoveFundERC20Token, autoMoveFundETH).
THEOREM HotStaysBounded == Spec => []HotBounded
<1>1. Init => HotInv
  <2> SUFFICES ASSUME Init, Quiet PROVE HotInv
    BY DEF HotInv
  <2>1. Types
    BY InitTypes
  <2>2. ASSUME NEW t \in ToSet(mined) PROVE t.tx.from \notin Accounts
    <3>1. PICK i \in DOMAIN setup.deposits : t = Mined(setup.deposits[i], TRUE)
      BY DEF Init, ToSet
    <3>2. setup.deposits[i] \in Deposits
      BY SetupFacts DEF Init
    <3> QED BY <3>1, <3>2, AccountsAssumption DEF Deposits, Mined
  <2>3. Flight /\ ~HotRead
    BY <2>2 DEF Init, Flight, HotRead
  <2>4. ASSUME NEW x \in Assets PROVE Bounded(x, Expected(x))
    <3>1. Expected(x) = setup.held[Hot][x] /\ setup.held[Hot][x] \in Nat
      BY <2>1, ExpectedTypes DEF Init, Expected, Coming, Underway
    <3> QED BY <3>1 DEF Bounded
  <2> QED BY <2>3, <2>4 DEF Init, HotInv
<1>2. Types /\ HotInv => HotBounded
  <2> SUFFICES ASSUME Types, HotInv, Quiet, NEW x \in Assets, Kept(x)
               PROVE  \/ setup.threshold[x] > 0 /\ held[Hot][x] < 2 * setup.threshold[x]
                      \/ held[Hot][x] <= setup.held[Hot][x]
    BY DEF HotBounded, Quiet, Kept
  <2>1. Bounded(x, Expected(x))
    BY DEF HotInv
  <2>2. held[Hot][x] \in Nat /\ Coming(x) \in Nat
    BY ExpectedTypes
  <2>3. setup.threshold[x] \in Nat /\ setup.held[Hot][x] \in Nat
    BY SetupFacts, Names DEF Types
  <2> QED BY <2>1, <2>2, <2>3 DEF Bounded, Expected
<1> QED BY <1>1, <1>2, InitTypes, TypesStay, HotStays, PTL DEF Spec
=============================================================================
