---------------------------- MODULE Transporter ----------------------------
(***************************************************************************)
(* The transporter processes: distributeGasAndMoveFund of                  *)
(* src/src/lib/{eth,bnb,trx}/*_transporter.js, run over and over by        *)
(* src/src/lib/transporter.js.  A pass takes the tokens one after another, *)
(* then the coin.  For each it reads what the hot wallet holds and which   *)
(* addresses have unspent fundings in the books, and forwards these one by *)
(* one: to the hot wallet until that holds its threshold, then to the cold *)
(* wallet.  An address that lacks the fee of a token transfer is first     *)
(* topped up from the gas wallet.  Moves and top-ups are recorded.         *)
(*                                                                         *)
(* Around it are the node with its pool, the chain, and the monitor        *)
(* (BlockProcessing), which alone writes the books.                        *)
(*                                                                         *)
(* A setup is [chain, tokens, threshold, minimum, configured, gasWallet,   *)
(* held, deposits, troubles]:                                              *)
(*   chain       "eth", "bnb", "trx" or "btc", whose transporter never     *)
(*               finds itself configured                                   *)
(*   tokens      the enabled tokens in their order; one may be there twice *)
(*   threshold, minimum   by asset; a threshold of 0 means none            *)
(*   configured  withdraw and cold wallet are configured                   *)
(*   gasWallet   the distribution wallet is configured                     *)
(*   held        what the accounts hold, the deposits included             *)
(*   deposits    the first transactions of the chain                       *)
(*   troubles    bound on crashes, exceptions, answers that do not come,   *)
(*               refusals by the node and reverts by contracts, together   *)
(* A transaction is [from, nonce, asset, to, amount, fee], which stands for *)
(* its hash.  Fees do not change while the model runs.  A minimum that is  *)
(* not configured is 0: nothing compares it with the fee.                  *)
(***************************************************************************)
EXTENDS Integers, FiniteSets, SequencesExt

CONSTANTS
    Addresses,         \* deposit addresses
    Hot, Cold, Gas,    \* withdraw, cold and distribution wallet
    Outside,           \* whoever makes the deposits
    Coin, Tokens,
    Setups,
    CoinFee,           \* fee of a transfer of the coin (trx: BASE_TRX_BURN)
    TokenFee,          \* fee of a transfer of a token (trx: FEE_LIMIT)
    MaxPool,           \* bound on the node's pool of transactions
    None

Assets == {Coin} \cup Tokens
Accounts == Addresses \cup {Hot, Cold, Gas}
Transactions ==
    [from : Accounts \cup {Outside}, nonce : Nat, asset : Assets, to : Accounts,
     amount : Nat, fee : Nat]

ASSUME AccountsAssumption ==
    /\ Hot # Cold /\ Hot # Gas /\ Cold # Gas
    /\ {Hot, Cold, Gas, Outside, None} \cap Addresses = {}
    /\ Outside \notin Accounts /\ Coin \notin Tokens
    /\ None \notin Accounts /\ None \notin Transactions
ASSUME AmountsAssumption == CoinFee \in Nat \ {0} /\ TokenFee \in Nat \ {0}
ASSUME SetupAssumption ==
    \A s \in Setups :
        /\ s.chain \in {"eth", "bnb", "trx", "btc"} /\ s.tokens \in Seq(Tokens)
        /\ s.threshold \in [Assets -> Nat] /\ s.minimum \in [Assets -> Nat]
        /\ s.configured \in BOOLEAN /\ s.gasWallet \in BOOLEAN
        /\ s.held \in [Accounts -> [Assets -> Nat]] /\ s.troubles \in Nat
        /\ s.deposits \in Seq([from : {Outside}, nonce : Nat, asset : Assets,
                               to : Addresses, amount : Nat \ {0}, fee : {0}])

VARIABLES
    setup,
    \* the node and the chain
    held,       \* what each account holds
    nonces,     \* its next nonce; trx: the next fresh number
    pool,
    mined,      \* sequence of [tx, ok]
    \* the database
    books,      \* unspent fundings by address and currency
    seen,       \* how many of them the monitor has processed
    moves,      \* moveFund records
    topups,     \* distribution records
    \* the pass
    pc,
    place,      \* which token, or behind them the coin
    hot,        \* withdrawWalletBalance
    list,       \* fundings still to be looked at
    total,      \* totalMoveFund
    cur,        \* the address
    plan,       \* [to, amount, gas]
    sent,       \* the transaction broadcast last
    \* troubles and observability
    troubles,
    unanswered, \* transactions whose answer did not come
    lost        \* transactions in flight when the process failed

chain == <<held, nonces, pool, mined>>
records == <<moves, topups>>
locals == <<place, hot, list, total, cur, plan, sent>>
observed == <<troubles, unanswered, lost>>
vars == <<setup, chain, books, seen, records, pc, locals, observed>>

Is(c) == setup.chain = c
Nonced == ~Is("trx")       \* accounts number their transactions

Trouble == troubles < setup.troubles /\ troubles' = troubles + 1

Nothing == [a \in Addresses |-> 0]
NoPlan == [to |-> None, amount |-> 0, gas |-> 0]

----------------------------------------------------------------------------
(* The node *)

\* trx: a transfer of the coin costs nothing unless it activates the account.
FeeOf(asset, to) ==
    IF asset # Coin THEN TokenFee
    ELSE IF Is("trx") /\ held[to][Coin] > 0 THEN 0 ELSE CoinFee
Tx(from, nonce, asset, to, amount, fee) ==
    [from |-> from, nonce |-> nonce, asset |-> asset, to |-> to, amount |-> amount, fee |-> fee]
NextTx(from, asset, to, amount) ==
    Tx(from, nonces[from], asset, to, amount, FeeOf(asset, to))
Mined(tx, ok) == [tx |-> tx, ok |-> ok]
IsMined(tx, ok) == Contains(mined, Mined(tx, ok))

Affordable(tx) ==
    held[tx.from][Coin] >= tx.fee + (IF tx.asset = Coin THEN tx.amount ELSE 0)
SameNonce(tx) == {u \in pool : u.from = tx.from /\ u.nonce = tx.nonce}

\* The node takes it; for eth and bnb it may replace one with the same nonce.
Accept(tx) ==
    /\ Affordable(tx) /\ tx \notin pool /\ Cardinality(pool \ SameNonce(tx)) < MaxPool
    /\ pool' = (pool \ SameNonce(tx)) \cup {tx}
    /\ nonces' = IF Nonced THEN nonces ELSE [nonces EXCEPT ![tx.from] = @ + 1]
    /\ UNCHANGED <<held, mined>>

\* The node refuses it: the account cannot pay, the nonce is taken, or for a
\* reason of the node's own.
Refusal(tx) ==
    IF ~Affordable(tx) \/ SameNonce(tx) # {} THEN UNCHANGED troubles ELSE Trouble

----------------------------------------------------------------------------
\* Where a pass stands before it looks at an asset.
First == IF Is("eth") THEN "hot" ELSE "list"

Init ==
    /\ setup \in Setups
    /\ held = setup.held
    /\ nonces = [a \in Accounts |-> 0]
    /\ pool = {} /\ seen = 0
    /\ mined = [i \in DOMAIN setup.deposits |-> Mined(setup.deposits[i], TRUE)]
    /\ books = [a \in Addresses |-> [x \in Assets |-> 0]]
    /\ moves = {} /\ topups = {}
    /\ pc = "config" /\ place = 1 /\ hot = 0 /\ list = Nothing /\ total = 0
    /\ cur = None /\ plan = NoPlan /\ sent = None
    /\ troubles = 0 /\ unanswered = {} /\ lost = {}

----------------------------------------------------------------------------
(* The pass: which fundings *)

\* The pass is over, by its end or by an exception: the next begins.
Restart ==
    /\ pc' = "config" /\ place' = 1 /\ hot' = 0 /\ list' = Nothing /\ total' = 0
    /\ cur' = None /\ plan' = NoPlan /\ sent' = None

\* distributeGasAndMoveFund: the base class, which btc uses, asks for a field of the
\* configuration that its schema does not have.
Configured == setup.configured /\ ~Is("btc")
ReadConfig ==
    /\ pc = "config"
    /\ pc' = IF Configured THEN First ELSE "config"
    /\ UNCHANGED <<setup, chain, books, seen, records, locals, observed>>

Asset == IF place <= Len(setup.tokens) THEN setup.tokens[place] ELSE Coin
Threshold == setup.threshold[Asset]

\* eth reads the balance of the hot wallet before the fundings, bnb when there are
\* fundings, trx before each of them, where it reads the coin for every token.
EthHot == held[Hot][Asset]
TrxHot == held[Hot][Coin]
ReadHot ==
    /\ pc = "hot"
    /\ hot' = IF Is("trx") THEN TrxHot ELSE EthHot
    /\ pc' = IF Is("eth") THEN "list" ELSE IF Is("bnb") THEN "fund" ELSE "plan"
    /\ UNCHANGED <<setup, chain, books, seen, records, place, list, total, cur, plan, sent,
                   observed>>

\* getAllAddressHaveFundingByToken
Fundings == [a \in Addresses |-> books[a][Asset]]
ReadFundings ==
    /\ pc = "list"
    /\ list' = Fundings
    /\ pc' = IF Is("bnb") /\ Fundings # Nothing THEN "hot" ELSE "fund"
    /\ UNCHANGED <<setup, chain, books, seen, records, place, hot, total, cur, plan, sent,
                   observed>>

\* It returns an empty list when the database fails.
FundingsFail ==
    /\ pc = "list" /\ Trouble
    /\ pc' = "fund"
    /\ UNCHANGED <<setup, chain, books, seen, records, locals, unanswered, lost>>

\* isEligibledAmount; bnb does not ask for the tokens.
\* Slip: an amount that is just the minimum is left.
AboveMinimum(f) == f > setup.minimum[Asset]
Eligible(f) == (Is("bnb") /\ Asset # Coin) \/ f >= setup.minimum[Asset]

Skip(a) ==
    /\ pc = "fund" /\ list[a] > 0 /\ ~Eligible(list[a])
    /\ list' = [list EXCEPT ![a] = 0]
    /\ UNCHANGED <<setup, chain, books, seen, records, pc, place, hot, total, cur, plan, sent,
                   observed>>

Take(a) ==
    /\ pc = "fund" /\ list[a] > 0 /\ Eligible(list[a])
    /\ cur' = a
    /\ pc' = IF Is("trx") THEN "hot" ELSE "plan"
    /\ UNCHANGED <<setup, chain, books, seen, records, place, hot, list, total, plan, sent,
                   observed>>

\* The next token, the coin, or the end of the pass.
NextAsset ==
    /\ pc = "fund" /\ list = Nothing
    /\ IF place <= Len(setup.tokens)
       THEN /\ place' = place + 1 /\ pc' = First /\ hot' = 0 /\ total' = 0
            /\ UNCHANGED <<list, cur, plan, sent>>
       ELSE Restart
    /\ UNCHANGED <<setup, chain, books, seen, records, observed>>

----------------------------------------------------------------------------
(* The pass: how much, and where to *)

Rest == Threshold - hot
\* Slip: what the pass has forwarded is not counted; a hot wallet that holds just its
\* threshold is not full.
FullAtFirst == Threshold = 0 \/ hot >= Threshold
FullAbove == Threshold = 0 \/ hot + total > Threshold
Full == Threshold = 0 \/ hot + total >= Threshold

Move(to, amount, counted) == [to |-> to, amount |-> amount, counted |-> counted]
Smaller(f, g) == IF f < g THEN f ELSE g

EthTokenPlan(f) ==
    IF Full THEN Move(Cold, f, f) ELSE Move(Hot, Smaller(f, Rest), Smaller(f, Rest))
BnbTokenPlan(f) == EthTokenPlan(f)
TrxTokenPlan(f) == EthTokenPlan(f)

\* The fee is taken off, except from an amount that was cut to the rest.
EthCoinPlan(f) ==
    IF Full THEN Move(Cold, f - CoinFee, f)
    ELSE LET m == IF f > Rest THEN Rest ELSE f - CoinFee IN Move(Hot, m, m)

\* The balance of the hot wallet is a string, which has no add: without a
\* threshold it is not looked at.
BnbCoinThrows == Is("bnb") /\ Asset = Coin /\ Threshold # 0
BnbCoinPlan(f) == Move(Cold, f - CoinFee, f)

\* An account that is not active costs the burn, which is only taken off a whole amount.
TrxWholePlan(f) ==
    IF Full THEN Move(Cold, f, f) ELSE Move(Hot, Smaller(f, Rest), Smaller(f, Rest))
Burnt(p, f) ==
    IF p.amount = f THEN Move(p.to, f - CoinFee, f - CoinFee) ELSE p
TrxCoinPlan(f) ==
    LET p == TrxWholePlan(f) IN IF held[p.to][Coin] = 0 THEN Burnt(p, f) ELSE p

PlanOf(f) ==
    IF Asset = Coin
    THEN IF Is("eth") THEN EthCoinPlan(f) ELSE IF Is("bnb") THEN BnbCoinPlan(f) ELSE TrxCoinPlan(f)
    ELSE IF Is("eth") THEN EthTokenPlan(f) ELSE IF Is("bnb") THEN BnbTokenPlan(f)
         ELSE TrxTokenPlan(f)

Follow(p) ==
    /\ plan' = [to |-> p.to, amount |-> p.amount, gas |-> 0]
    /\ total' = total + p.counted
    /\ pc' = IF Asset = Coin THEN "send" ELSE "gas"
Plan ==
    /\ pc = "plan" /\ ~BnbCoinThrows
    /\ Follow(PlanOf(list[cur]))
    /\ UNCHANGED <<setup, chain, books, seen, records, place, hot, list, cur, sent, observed>>

\* getAccount answers null when the node fails, as for an account that is not active.
MisreadAccount ==
    /\ pc = "plan" /\ Is("trx") /\ Asset = Coin /\ Trouble
    /\ Follow(Burnt(TrxWholePlan(list[cur]), list[cur]))
    /\ UNCHANGED <<setup, chain, books, seen, records, place, hot, list, cur, sent, unanswered,
                   lost>>

PlanFails ==
    /\ pc = "plan" /\ BnbCoinThrows
    /\ Restart
    /\ UNCHANGED <<setup, chain, books, seen, records, observed>>

----------------------------------------------------------------------------
(* The pass: gas for a token *)

\* getEstimateGas answers null for a transfer that would revert, which
\* Decimal does not take.
EstimateFails ==
    /\ pc = "gas" /\ Nonced /\ held[cur][Asset] < plan.amount
    /\ Restart
    /\ UNCHANGED <<setup, chain, books, seen, records, observed>>

\* bnb compares wei with BNB: whatever the address holds is enough.
EthHasGas(a) == held[a][Coin] >= TokenFee
BnbHasGas(a) == held[a][Coin] > 0
TrxHasGas(a) == held[a][Coin] >= TokenFee
HasGas(a) ==
    IF Is("eth") THEN EthHasGas(a) ELSE IF Is("bnb") THEN BnbHasGas(a) ELSE TrxHasGas(a)

\* Slip: the one is taken from the other the wrong way round.
SurplusGas(a) == held[a][Coin] - TokenFee
MissingGas(a) == TokenFee - held[a][Coin]

NeedGas ==
    /\ pc = "gas" /\ ~(Nonced /\ held[cur][Asset] < plan.amount)
    /\ pc' = IF HasGas(cur) THEN "check" ELSE "topup"
    /\ plan' = [plan EXCEPT !.gas = IF HasGas(cur) THEN 0 ELSE MissingGas(cur)]
    /\ UNCHANGED <<setup, chain, books, seen, records, place, hot, list, total, cur, sent,
                   observed>>

\* getBalanceTrx answers 0 when the node fails.
MisreadGas ==
    /\ pc = "gas" /\ Is("trx") /\ Trouble
    /\ pc' = "topup" /\ plan' = [plan EXCEPT !.gas = TokenFee]
    /\ UNCHANGED <<setup, chain, books, seen, records, place, hot, list, total, cur, sent,
                   unanswered, lost>>

\* distributorGas
EthGasCovers == held[Gas][Coin] >= plan.gas
BnbGasCovers == held[Gas][Coin] > 0
TrxGasCovers == held[Gas][Coin] >= plan.gas + CoinFee
GasCovers ==
    /\ setup.gasWallet
    /\ IF Is("eth") THEN EthGasCovers ELSE IF Is("bnb") THEN BnbGasCovers ELSE TrxGasCovers

GasTx == NextTx(Gas, Coin, cur, plan.gas)
TopUp ==
    /\ pc = "topup" /\ GasCovers
    /\ Accept(GasTx)
    /\ sent' = GasTx /\ pc' = "topped"
    /\ UNCHANGED <<setup, books, seen, records, place, hot, list, total, cur, plan, observed>>

NoTopUp ==
    /\ pc = "topup"
    /\ IF GasCovers THEN Refusal(GasTx) ELSE UNCHANGED troubles
    /\ pc' = "check"
    /\ UNCHANGED <<setup, chain, books, seen, records, locals, unanswered, lost>>

\* eth, bnb: broadcast returns the receipt of a success; trx: sendTrx returns at once.
Answered(tx) == Nonced => IsMined(tx, TRUE)

TopUpAnswered ==
    /\ pc = "topped" /\ Answered(sent)
    /\ pc' = "recordTopUp"
    /\ UNCHANGED <<setup, chain, books, seen, records, locals, observed>>

\* broadcast gives up; the transaction may still be mined.
\* Slip: the response is not looked at.
RecordAnyway == pc' = "recordTopUp" /\ UNCHANGED sent
WithoutResponse == pc' = "check" /\ sent' = None
TopUpUnanswered ==
    /\ pc = "topped" /\ Trouble
    /\ WithoutResponse
    /\ unanswered' = unanswered \cup {sent}
    /\ UNCHANGED <<setup, chain, books, seen, records, place, hot, list, total, cur, plan, lost>>

RecordTopUp ==
    /\ pc = "recordTopUp"
    /\ topups' = topups \cup {sent}
    /\ pc' = "check" /\ sent' = None
    /\ UNCHANGED <<setup, chain, books, seen, moves, place, hot, list, total, cur, plan, observed>>

----------------------------------------------------------------------------
(* The pass: the move *)

\* The end of one funding.
Done ==
    /\ pc' = "fund" /\ list' = [list EXCEPT ![cur] = 0]
    /\ cur' = None /\ plan' = NoPlan /\ sent' = None
    /\ UNCHANGED <<place, hot, total>>

\* moveFundERC20 reads the balance again.
CheckGas ==
    /\ pc = "check" /\ HasGas(cur)
    /\ pc' = "send"
    /\ UNCHANGED <<setup, chain, books, seen, records, locals, observed>>
StillNoGas ==
    /\ pc = "check" /\ ~HasGas(cur)
    /\ Done
    /\ UNCHANGED <<setup, chain, books, seen, records, observed>>

\* What becomes of an amount below zero is left to the libraries: those of eth and bnb
\* refuse to sign it, an exception, or sign it without its sign; that of trx refuses 0, too.
Signed(amount) == IF amount < 0 THEN -amount ELSE amount
Signable == Nonced \/ plan.amount > 0
SignThrows ==
    /\ pc = "send" /\ Nonced /\ plan.amount < 0
    /\ Restart
    /\ UNCHANGED <<setup, chain, books, seen, records, observed>>
Unsigned ==
    /\ pc = "send" /\ ~Signable
    /\ Done
    /\ UNCHANGED <<setup, chain, books, seen, records, observed>>

MoveTx == NextTx(cur, Asset, plan.to, Signed(plan.amount))
Send ==
    /\ pc = "send" /\ Signable
    /\ Accept(MoveTx)
    /\ sent' = MoveTx /\ pc' = "wait"
    /\ UNCHANGED <<setup, books, seen, records, place, hot, list, total, cur, plan, observed>>

\* eth and bnb know the hash before the broadcast and record it whatever becomes of it.
Refused ==
    /\ pc = "send" /\ Signable
    /\ Refusal(MoveTx)
    /\ IF Nonced
       THEN pc' = "record" /\ sent' = MoveTx /\ UNCHANGED <<place, hot, list, total, cur, plan>>
       ELSE Done
    /\ UNCHANGED <<setup, chain, books, seen, records, unanswered, lost>>

MoveAnswered ==
    /\ pc = "wait" /\ Answered(sent)
    /\ pc' = "record"
    /\ UNCHANGED <<setup, chain, books, seen, records, locals, observed>>

\* The receipt of a failure is an exception inside broadcast.
Reverted ==
    /\ pc = "wait" /\ Nonced /\ IsMined(sent, FALSE)
    /\ pc' = "record"
    /\ UNCHANGED <<setup, chain, books, seen, records, locals, observed>>

\* Slip: a move whose answer does not come is not recorded.
AfterNoAnswerDone == Done
AfterNoAnswer ==
    IF Nonced THEN pc' = "record" /\ UNCHANGED locals ELSE Done
MoveUnanswered ==
    /\ pc = "wait" /\ Trouble
    /\ AfterNoAnswer
    /\ unanswered' = unanswered \cup {sent}
    /\ UNCHANGED <<setup, chain, books, seen, records, lost>>

RecordMove ==
    /\ pc = "record"
    /\ moves' = moves \cup {sent}
    /\ Done
    /\ UNCHANGED <<setup, chain, books, seen, topups, observed>>

----------------------------------------------------------------------------
(* Failures of the process: an exception anywhere in the pass is caught in          *)
(* distributeGasAndMoveFund, which begins again at once; a crash ends in a restart. *)
Fail ==
    /\ pc # "config" /\ Trouble
    /\ Restart
    /\ lost' = lost \cup ({sent} \ {None})
    /\ UNCHANGED <<setup, chain, books, seen, records, unanswered>>

----------------------------------------------------------------------------
(* The chain and the monitor *)

Mine(tx) ==
    /\ Nonced => tx.nonce = nonces[tx.from]
    /\ Affordable(tx)
    /\ \E ok \in BOOLEAN :
        /\ mined' = Append(mined, Mined(tx, ok))
        /\ IF ok
           THEN /\ held[tx.from][tx.asset] >= tx.amount
                /\ UNCHANGED troubles
           ELSE /\ tx.asset # Coin
                /\ IF held[tx.from][tx.asset] < tx.amount THEN UNCHANGED troubles ELSE Trouble
        /\ held' = [a \in Accounts |-> [x \in Assets |->
              held[a][x]
              - (IF a = tx.from /\ x = Coin THEN tx.fee ELSE 0)
              - (IF ok /\ a = tx.from /\ x = tx.asset THEN tx.amount ELSE 0)
              + (IF ok /\ a = tx.to /\ x = tx.asset THEN tx.amount ELSE 0)]]
    /\ nonces' = IF Nonced THEN [nonces EXCEPT ![tx.from] = @ + 1] ELSE nonces
    /\ pool' = pool \ {tx}
    /\ UNCHANGED <<setup, books, seen, records, pc, locals, unanswered, lost>>

\* trx: the account has meanwhile spent what the transaction needs.
Drop(tx) ==
    /\ ~Nonced /\ ~Affordable(tx)
    /\ pool' = pool \ {tx}
    /\ UNCHANGED <<setup, held, nonces, mined, books, seen, records, pc, locals, observed>>

\* buildFundings: a top-up that is not recorded counts as a deposit.
\* spendVirtually: the books lose amount and fee, but nothing for a failed transfer
\* of a token of eth or bnb, which leaves no log, or when no coin is moved, as
\* addMinerInfo leaves the fee undefined.
Credited(t, a, x) ==
    IF t.tx.to = a /\ t.tx.asset = x /\ (t.ok \/ ~Nonced) /\ t.tx \notin topups
    THEN t.tx.amount ELSE 0
Debited(t, a, x) ==
    IF t.tx.from = a /\ (t.ok \/ ~Nonced) /\ t.tx.amount > 0
    THEN (IF t.tx.asset = x THEN t.tx.amount ELSE 0) + (IF x = Coin THEN t.tx.fee ELSE 0)
    ELSE 0
MonitorSees ==
    /\ seen < Len(mined)
    /\ seen' = seen + 1
    /\ books' = [a \in Addresses |-> [x \in Assets |->
          LET t == mined[seen + 1]
              n == books[a][x] + Credited(t, a, x) - Debited(t, a, x)
          IN IF n > 0 THEN n ELSE 0]]
    /\ UNCHANGED <<setup, chain, records, pc, locals, observed>>

----------------------------------------------------------------------------
Process ==
    \/ ReadConfig \/ ReadHot \/ ReadFundings \/ NextAsset
    \/ (\E a \in Addresses : Skip(a) \/ Take(a))
    \/ Plan \/ PlanFails \/ EstimateFails \/ NeedGas
    \/ TopUp \/ NoTopUp \/ TopUpAnswered \/ RecordTopUp
    \/ CheckGas \/ StillNoGas \/ SignThrows \/ Unsigned \/ Send \/ Refused
    \/ MoveAnswered \/ Reverted \/ RecordMove
Failures ==
    \/ FundingsFail \/ MisreadAccount \/ MisreadGas
    \/ TopUpUnanswered \/ MoveUnanswered \/ Fail
Network == \E tx \in pool : Mine(tx) \/ Drop(tx)

Next == Process \/ Failures \/ Network \/ MonitorSees

Spec == Init /\ [][Next]_vars

\* The process runs on, the network mines what it can, the monitor follows.
FairSpec == Spec /\ WF_vars(Process) /\ WF_vars(Network) /\ WF_vars(MonitorSees)

----------------------------------------------------------------------------
(* Properties *)

\* Types: nobody spends what he does not have, whatever is planned from books that lag
\* behind, and an address is given gas only when it lacks some (distributorGas).
TypeOK ==
    /\ setup \in Setups
    /\ held \in [Accounts -> [Assets -> Nat]]
    /\ nonces \in [Accounts -> Nat]
    /\ pool \subseteq Transactions
    /\ mined \in Seq([tx : Transactions, ok : BOOLEAN]) /\ seen \in 0 .. Len(mined)
    /\ books \in [Addresses -> [Assets -> Nat]]
    /\ moves \subseteq Transactions /\ topups \subseteq Transactions
    /\ pc \in {"config", "hot", "list", "fund", "plan", "gas", "topup", "topped", "recordTopUp",
               "check", "send", "wait", "record"}
    /\ place \in 1 .. Len(setup.tokens) + 1
    /\ hot \in Nat /\ total \in Int /\ list \in [Addresses -> Nat]
    /\ cur \in Addresses \cup {None} /\ (cur # None => list[cur] > 0)
    /\ plan.to \in Accounts \cup {None} /\ plan.gas \in Nat
    /\ plan.amount \in Int
    /\ sent \in Transactions \cup {None}
    /\ troubles \in 0 .. setup.troubles
    /\ unanswered \subseteq Transactions /\ lost \subseteq Transactions

\* What an address forwards is more than nothing, although fees are taken off and amounts
\* are cut to the rest of the threshold; only a transfer of the coin of eth and bnb may be
\* less, where the minimum is not above the fee (isEligibledAmount, autoMoveFundETH).
MinimumCoversFee == setup.minimum[Coin] > CoinFee
ForwardsSomething ==
    \A tx \in pool \cup {t.tx : t \in ToSet(mined)} \cup moves :
        \/ tx.amount > 0
        \/ tx.asset = Coin /\ Nonced /\ ~MinimumCoversFee

\* Every move that reached the chain is in the moveFund records or about to be, even
\* if its answer never came, except where the process failed between the broadcast
\* and the record, or, for trx, the hash was in the answer (moveFundERC20,
\* moveFundETH).
MovesRecorded ==
    \A t \in ToSet(mined) : t.tx.from \in Addresses =>
        \/ t.tx \in moves \/ t.tx \in lost
        \/ t.tx = sent /\ pc \in {"wait", "record"}
        \/ Is("trx") /\ t.tx \in unanswered

\* A recorded top-up has reached its address (eth, bnb: the receipt is awaited); for
\* trx it was at least taken by the node and has not failed (distributorGas).
TopUpsArrive ==
    \A tx \in topups : IF Nonced THEN IsMined(tx, TRUE) ELSE ~IsMined(tx, FALSE)

\* While no answer is missing and nothing failed, forwarding to the hot wallet ends
\* short of twice its threshold, although every move is planned from a balance read
\* before; for the coin, where the minimum is above the fee, since an amount below zero
\* lowers the running total (autoMoveFundERC20Token, autoMoveFundETH).
HotBounded ==
    Nonced /\ unanswered = {} /\ lost = {} =>
        \A x \in Assets :
            \/ x = Coin /\ ~MinimumCoversFee
            \/ setup.threshold[x] > 0 /\ held[Hot][x] < 2 * setup.threshold[x]
            \/ held[Hot][x] <= setup.held[Hot][x]

\* Nothing is in the way of the deposits: all is configured, the gas wallet can pay
\* every top-up, the hot wallet takes a coin deposit whole, no address has deposits
\* of two assets while a transfer may fail, and what is left as gas is no deposit.
Healthy ==
    LET coins == {d \in ToSet(setup.deposits) : d.asset = Coin} IN
    /\ Configured /\ setup.gasWallet /\ Nonced /\ Tokens \subseteq ToSet(setup.tokens)
    /\ setup.held[Gas][Coin] >=
          (1 + setup.troubles) * (TokenFee + CoinFee) * Cardinality(Addresses) * Len(setup.tokens)
    /\ setup.minimum[Coin] > TokenFee
    /\ Is("bnb") => /\ setup.threshold[Coin] = 0
                    /\ \A a \in Addresses :
                          setup.held[a][Coin] = 0 \/ setup.held[a][Coin] >= setup.minimum[Coin]
    /\ setup.threshold[Coin] # 0 =>
          \A d \in coins : d.amount >= setup.threshold[Coin] + CoinFee + TokenFee
    /\ setup.troubles > 0 =>
          \A d, e \in ToSet(setup.deposits) : d.to = e.to => d.asset = e.asset

\* What an address has received beyond the minimum is forwarded in the end, whatever
\* fails on the way for a while (README: the funding has to be transferred to one
\* address for withdrawal).
Collected ==
    \A a \in Addresses, x \in Assets :
        (Healthy /\ books[a][x] >= setup.minimum[x]) ~> (books[a][x] < setup.minimum[x])
=============================================================================
