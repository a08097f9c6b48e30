------------------------------ MODULE Payment ------------------------------
(***************************************************************************)
(* The payment process of the account currencies: ProcessWithdraw of       *)
(* src/src/lib/{eth,bnb,trx}/*_payment.js, run over and over by            *)
(* src/src/lib/payment.js.  A pass reads the balance of the hot wallet and *)
(* the queued withdrawals, keeps those the balance covers, and sends them  *)
(* side by side in one Promise.map: each is signed, broadcast and, when    *)
(* the node's answer arrives, recorded with the hash of its transaction.   *)
(* When one of them throws, the pass starts anew while the others go on.   *)
(*                                                                         *)
(* Around it are the API that queues withdrawals, the node with its pool   *)
(* of transactions, the chain, and the monitor (BlockProcessing), which    *)
(* alone writes the books from which the balance is read.                  *)
(*                                                                         *)
(* A setup is [nonced, coinFeeKnown, signed, queued, book, batch, troubles]:*)
(*   nonced        eth, bnb: transactions carry the account's nonce and    *)
(*                 broadcast answers with the receipt; trx: each has a     *)
(*                 fresh number here and the answer is its hash            *)
(*   coinFeeKnown  FALSE for bnb, whose constants lack BNB_TO_GWEI         *)
(*   signed        withdrawals whose stored signature is right             *)
(*   queued        withdrawals stored before the process starts, in order  *)
(*   book          what the books say the hot wallet holds at first        *)
(*   batch         how many withdrawals a pass takes, 30 in the code        *)
(*   troubles      bound on crashes, exceptions, answers that do not come, *)
(*                 refusals by the node and reverts by contracts, together *)
(* A transaction is [w, nonce]; the books see it when its block is         *)
(* processed.  Deposits to the hot wallet are left out.                    *)
(***************************************************************************)
EXTENDS Integers, FiniteSets, SequencesExt

CONSTANTS
    Withdrawals,
    Setups,
    Coin,          \* the currency fees are paid in
    Asset,         \* the currency of each withdrawal
    Amount,        \* its amount
    CoinFee,       \* fee of a transfer of the coin
    TokenFee,      \* fee of a transfer of a token
    Maps,          \* names for the Promise.maps under way; troubles the passes
                   \* that are left behind at a time
    None           \* no Promise.map

ASSUME DataAssumption ==
    /\ Amount \in [Withdrawals -> Nat \ {0}]
    /\ CoinFee \in Nat \ {0} /\ TokenFee \in Nat \ {0}
ASSUME BoundsAssumption ==
    /\ None \notin Maps
    /\ \A s \in Setups : s.batch \in Nat \ {0} /\ s.troubles \in Nat

VARIABLES
    setup,
    \* the database
    queue,      \* the withdrawals in the order of their insertion
    rows,       \* [status, nonce, notified] of each; nonce stands for the hash
    book,       \* unspent fundings of the hot wallet, by currency
    \* the node, the chain and the monitor
    used,       \* the account's nonce; trx: the next fresh number
    mempool, mined,
    seen,       \* mined transactions the monitor has processed
    \* the pass
    pc,
    balance,    \* balanceMaps
    pending,    \* what Promise.filter has still to look at, by its place in the queue
    accepted,   \* filtedWithdraw
    call,       \* the Promise.map the pass waits for
    sends,      \* coroutines of each Promise.map: [w, nonce, st]
    \* troubles and observability
    troubles,
    doubt       \* withdrawals whose outcome the program lost sight of

chain == <<used, mempool, mined>>
locals == <<balance, pending, accepted, call>>
vars == <<setup, queue, rows, book, chain, seen, pc, locals, sends, troubles, doubt>>

Missing == -1           \* no entry in balanceMaps; no hash
Assets == {Coin} \cup {Asset[w] : w \in Withdrawals}

\* Each withdrawal is stored once, and the sum of fundings is not negative.
ASSUME SetupsAssumption ==
    \A s \in Setups :
        /\ s.nonced \in BOOLEAN
        /\ s.queued \in Seq(Withdrawals) /\ IsInjective(s.queued)
        /\ s.book \in [Assets -> Nat]

IsCoin(w) == Asset[w] = Coin
Fee(w) == IF IsCoin(w) THEN CoinFee ELSE TokenFee
Cost(w, a) ==
    (IF a = Asset[w] THEN Amount[w] ELSE 0) + (IF a = Coin THEN Fee(w) ELSE 0)

Tx(s) == [w |-> s.w, nonce |-> s.nonce]
Mined(tx, ok) == [w |-> tx.w, nonce |-> tx.nonce, ok |-> ok]

Trouble == troubles < setup.troubles /\ troubles' = troubles + 1

Paid(w) == \E t \in mined : t.w = w /\ t.ok

----------------------------------------------------------------------------
Init ==
    /\ setup \in Setups
    /\ queue = setup.queued
    /\ rows = [w \in Withdrawals |->
                  [status |-> IF w \in ToSet(queue) THEN "inqueue" ELSE "new",
                   nonce |-> Missing, notified |-> FALSE]]
    /\ book = setup.book
    /\ used = 0 /\ mempool = {} /\ mined = {} /\ seen = {}
    /\ pc = "balance"
    /\ balance = [a \in Assets |-> Missing]
    /\ pending = {} /\ accepted = <<>> /\ call = None
    /\ sends = [m \in Maps |-> {}]
    /\ troubles = 0 /\ doubt = {}

----------------------------------------------------------------------------
(* The API: withdrawalRequest stores a withdrawal. *)
Request(w) ==
    /\ rows[w].status = "new"
    /\ rows' = [rows EXCEPT ![w].status = "inqueue"]
    /\ queue' = Append(queue, w)
    /\ UNCHANGED <<setup, book, chain, seen, pc, locals, sends, troubles, doubt>>

----------------------------------------------------------------------------
(* The pass *)

\* getMapBalanceAddressWallet has no entry for what is not positive.
ReadBalance ==
    /\ pc = "balance"
    /\ pc' = "pending"
    /\ balance' = [a \in Assets |-> IF book[a] > 0 THEN book[a] ELSE Missing]
    /\ UNCHANGED <<setup, queue, rows, book, chain, seen, pending, accepted, call, sends,
                   troubles, doubt>>

\* getPendingWithdraw: the first ones that are queued.
\* Slip: the status is left out of the query.
FirstOfAll == {i \in DOMAIN queue : i <= setup.batch}
PendingWithdraw ==
    LET queued == {i \in DOMAIN queue : rows[queue[i]].status = "inqueue"}
    IN {i \in queued : Cardinality({j \in queued : j <= i}) <= setup.batch}

ReadPending ==
    /\ pc = "pending"
    /\ pc' = "filter"
    /\ pending' = PendingWithdraw /\ accepted' = <<>>
    /\ UNCHANGED <<setup, queue, rows, book, chain, seen, balance, call, sends, troubles, doubt>>

\* enoughBalanceFilter
\* Slip: the fee of a coin transfer is not added to its amount.
CoversAmount(w) ==
    IF IsCoin(w) THEN balance[Coin] >= Amount[w]
    ELSE balance[Asset[w]] >= Amount[w] /\ balance[Coin] >= TokenFee
Covers(w) == \A a \in {Asset[w], Coin} : balance[a] >= Cost(w, a)

\* enoughBalanceFilter throws: the fee of the coin is a quotient by undefined, or
\* the fee of a token is not there and its notification reads request.isNotified
\* where it was passed a feeRequest (trx: reads a grossFee that is not declared).
FilterThrows(w) ==
    IF IsCoin(w) THEN ~setup.coinFeeKnown
    ELSE /\ balance[Asset[w]] >= Amount[w]
         /\ balance[Coin] # Missing /\ balance[Coin] < TokenFee
         /\ ~rows[w].notified

IsNext(i) == i \in pending /\ \A j \in pending : i <= j

Accept(i) ==
    LET w == queue[i] IN
    /\ pc = "filter" /\ IsNext(i)
    /\ ~FilterThrows(w) /\ Covers(w)
    /\ balance' = [a \in Assets |-> balance[a] - Cost(w, a)]
    /\ accepted' = Append(accepted, w)
    /\ pending' = pending \ {i}
    /\ UNCHANGED <<setup, queue, rows, book, chain, seen, pc, call, sends, troubles, doubt>>

\* The withdrawal waits; the administrator is notified once.
PutOff(i) ==
    LET w == queue[i] IN
    /\ pc = "filter" /\ IsNext(i)
    /\ ~FilterThrows(w) /\ ~Covers(w)
    /\ rows' = [rows EXCEPT ![w].notified = TRUE]
    /\ pending' = pending \ {i}
    /\ UNCHANGED <<setup, queue, book, chain, seen, pc, balance, accepted, call, sends,
                   troubles, doubt>>

\* The locals of the pass are read no more.
Forget == balance' = [a \in Assets |-> Missing] /\ pending' = {} /\ accepted' = <<>>

\* catch of ProcessWithdraw: stop, then start again from the beginning.
FailPass == pc' = "balance" /\ call' = None /\ Forget

FilterFails(i) ==
    /\ pc = "filter" /\ IsNext(i) /\ FilterThrows(queue[i])
    /\ FailPass
    /\ UNCHANGED <<setup, queue, rows, book, chain, seen, sends, troubles, doubt>>

\* A read of the database or of the node fails.
ReadFails ==
    /\ pc \in {"balance", "pending", "filter"} /\ Trouble
    /\ FailPass
    /\ UNCHANGED <<setup, queue, rows, book, chain, seen, sends, doubt>>

\* getNonce, then Promise.map: the i-th withdrawal has the nonce used + i - 1,
\* even when one before it has a wrong signature and is sent no further.
\* Slip: the first of them takes the nonce behind the next.
CoroutineFromOne(i) ==
    [w |-> accepted[i], nonce |-> IF setup.nonced THEN used + i ELSE 0, st |-> "sign"]
Coroutine(i) ==
    [w |-> accepted[i], nonce |-> IF setup.nonced THEN used + i - 1 ELSE 0, st |-> "sign"]
StartMap(m) ==
    /\ pc = "filter" /\ pending = {} /\ sends[m] = {}
    /\ pc' = "map" /\ call' = m
    /\ sends' = [sends EXCEPT ![m] =
          {Coroutine(i) : i \in {j \in DOMAIN accepted : accepted[j] \in setup.signed}}]
    /\ Forget
    /\ UNCHANGED <<setup, queue, rows, book, chain, seen, troubles, doubt>>

\* All coroutines have ended: the pass is over, the next begins after a delay.
MapDone ==
    /\ pc = "map" /\ sends[call] = {}
    /\ FailPass
    /\ UNCHANGED <<setup, queue, rows, book, chain, seen, sends, troubles, doubt>>

----------------------------------------------------------------------------
(* A coroutine s of the Promise.map m *)

End(m, s) == sends' = [sends EXCEPT ![m] = @ \ {s}]
GoOn(m, s, t) == sends' = [sends EXCEPT ![m] = (@ \ {s}) \cup {t}]

SameNonce(tx) == {u \in mempool : u.nonce = tx.nonce}

\* The node takes the transaction; for eth and bnb it may replace one with the
\* same nonce.
Broadcast(m, s) ==
    LET tx == IF setup.nonced THEN Tx(s) ELSE [w |-> s.w, nonce |-> used] IN
    /\ s.st = "sign"
    /\ tx.nonce >= used /\ tx \notin mempool
    /\ mempool' = (mempool \ IF setup.nonced THEN SameNonce(tx) ELSE {}) \cup {tx}
    /\ used' = IF setup.nonced THEN used ELSE used + 1
    /\ GoOn(m, s, [w |-> tx.w, nonce |-> tx.nonce, st |-> "wait"])
    /\ UNCHANGED <<setup, queue, rows, book, mined, seen, pc, locals, troubles, doubt>>

\* The node refuses it: the nonce is used, the transaction is known or does not
\* pay enough to replace another, or for a reason of the node's own.
Refuse(m, s) ==
    /\ s.st = "sign"
    /\ IF setup.nonced /\ (s.nonce < used \/ SameNonce(Tx(s)) # {})
       THEN UNCHANGED troubles
       ELSE Trouble
    /\ End(m, s)
    /\ UNCHANGED <<setup, queue, rows, book, chain, seen, pc, locals,
                   doubt>>

\* broadcast answers: with the receipt of a success for eth and bnb, with the
\* hash of the transaction it took for trx.
\* Slip: a receipt is taken for a success.
AnsweredByAny(s) == setup.nonced => \E ok \in BOOLEAN : Mined(s, ok) \in mined
Answered(s) == setup.nonced => Mined(s, TRUE) \in mined
Answer(m, s) ==
    /\ s.st = "wait" /\ Answered(s)
    /\ GoOn(m, s, [s EXCEPT !.st = "record"])
    /\ UNCHANGED <<setup, queue, rows, book, chain, seen, pc, locals, troubles, doubt>>

\* The receipt of a failure makes sendSignedTransaction throw.
Reverted(m, s) ==
    /\ s.st = "wait" /\ setup.nonced /\ Mined(s, FALSE) \in mined
    /\ End(m, s)
    /\ UNCHANGED <<setup, queue, rows, book, chain, seen, pc, locals, troubles, doubt>>

\* It waits for a nonce before it that nobody uses.
BehindGap(tx) ==
    \E n \in used .. tx.nonce - 1 : \A u \in mempool : u.nonce # n
Replaced(tx) == tx \notin mempool /\ \A ok \in BOOLEAN : Mined(tx, ok) \notin mined

\* broadcast gives up: the wait for the receipt times out or the connection is
\* lost.  The transaction may still be mined.
GiveUp(m, s) ==
    LET tx == Tx(s) IN
    /\ s.st = "wait"
    /\ IF setup.nonced /\ (Replaced(tx) \/ (tx \in mempool /\ BehindGap(tx)))
       THEN UNCHANGED troubles
       ELSE Trouble
    /\ doubt' = IF Replaced(tx) THEN doubt ELSE doubt \cup {s.w}
    /\ End(m, s)
    /\ UNCHANGED <<setup, queue, rows, book, chain, seen, pc, locals>>

\* updateTransactionHash, whatever the status has become.
Record(m, s) ==
    /\ s.st = "record"
    /\ rows' = [rows EXCEPT ![s.w].status = "transfered", ![s.w].nonce = s.nonce]
    /\ End(m, s)
    /\ UNCHANGED <<setup, queue, book, chain, seen, pc, locals, troubles, doubt>>

\* A read before the signature, or the record, throws.  Promise.map rejects, which
\* the pass takes notice of; its other coroutines go on.
SendThrows(m, s) ==
    /\ s.st \in {"sign", "record"} /\ Trouble
    /\ End(m, s)
    /\ IF call = m THEN FailPass ELSE UNCHANGED <<pc, locals>>
    /\ doubt' = doubt \cup {t.w : t \in sends[m] \ {t \in {s} : t.st = "sign"}}
    /\ UNCHANGED <<setup, queue, rows, book, chain, seen>>

----------------------------------------------------------------------------
(* The chain and the monitor *)

Mine(tx) ==
    /\ setup.nonced => tx.nonce = used
    /\ used' = IF setup.nonced THEN used + 1 ELSE used
    /\ mempool' = mempool \ {tx}
    /\ \/ mined' = mined \cup {Mined(tx, TRUE)} /\ UNCHANGED troubles
       \/ /\ Trouble
          /\ mined' = mined \cup {Mined(tx, FALSE)}
    /\ UNCHANGED <<setup, queue, rows, book, seen, pc, locals, sends,
                   doubt>>

\* processBlock: the row with the hash of t is settled; the books lose what
\* the transaction names, be it a failure, unless it is a failed transfer of a token
\* of eth or bnb, which leaves no log.
MonitorSees(t) ==
    /\ t \notin seen
    /\ seen' = seen \cup {t}
    /\ rows' = IF rows[t.w].status = "transfered" /\ rows[t.w].nonce = t.nonce
               THEN [rows EXCEPT ![t.w].status = "success"] ELSE rows
    /\ book' = IF t.ok \/ IsCoin(t.w) \/ ~setup.nonced
               THEN [a \in Assets |->
                        IF book[a] > Cost(t.w, a) THEN book[a] - Cost(t.w, a) ELSE 0]
               ELSE book
    /\ UNCHANGED <<setup, queue, chain, pc, locals, sends, troubles, doubt>>

\* The process dies and is restarted.
Crash ==
    /\ Trouble
    /\ FailPass
    /\ sends' = [m \in Maps |-> {}]
    /\ doubt' = doubt \cup {s.w : s \in {t \in UNION {sends[m] : m \in Maps} : t.st # "sign"}}
    /\ UNCHANGED <<setup, queue, rows, book, chain, seen>>

----------------------------------------------------------------------------
Pass ==
    \/ ReadBalance \/ ReadPending
    \/ (\E i \in pending : Accept(i) \/ PutOff(i) \/ FilterFails(i))
    \/ (\E m \in Maps : StartMap(m)) \/ MapDone
Send(m, s) ==
    Broadcast(m, s) \/ Refuse(m, s) \/ Answer(m, s) \/ Reverted(m, s) \/ GiveUp(m, s)
    \/ Record(m, s)
Process == Pass \/ \E m \in Maps : \E s \in sends[m] : Send(m, s)
Fail == ReadFails \/ Crash \/ \E m \in Maps : \E s \in sends[m] : SendThrows(m, s)

Next ==
    \/ \E w \in Withdrawals : Request(w)
    \/ Process \/ Fail
    \/ \E tx \in mempool : Mine(tx)
    \/ \E t \in mined : MonitorSees(t)

Spec == Init /\ [][Next]_vars

\* The process runs on, the network mines what it can, the monitor follows.
FairSpec ==
    /\ Spec
    /\ WF_vars(Process)
    /\ WF_vars(\E tx \in mempool : Mine(tx))
    /\ WF_vars(\E t \in mined : MonitorSees(t))

----------------------------------------------------------------------------
(* Properties *)

Transactions == [w : Withdrawals, nonce : Nat]

\* Types; above all, a pass never takes more from balanceMaps than is in it: no
\* balance becomes negative (enoughBalanceFilter).
TypeOK ==
    /\ setup \in Setups
    /\ queue \in Seq(Withdrawals)
    /\ rows \in [Withdrawals ->
                    [status : {"new", "inqueue", "transfered", "success"},
                     nonce : Nat \cup {Missing}, notified : BOOLEAN]]
    /\ book \in [Assets -> Nat]
    /\ used \in Nat
    /\ mempool \subseteq Transactions
    /\ mined \subseteq [w : Withdrawals, nonce : Nat, ok : BOOLEAN]
    /\ seen \subseteq mined
    /\ pc \in {"balance", "pending", "filter", "map"}
    /\ balance \in [Assets -> Nat \cup {Missing}]
    /\ pending \subseteq DOMAIN queue /\ accepted \in Seq(Withdrawals)
    /\ call \in Maps \cup {None} /\ (pc = "map" <=> call # None)
    /\ sends \in [Maps -> SUBSET [w : Withdrawals, nonce : Nat,
                                  st : {"sign", "wait", "record"}]]
    /\ doubt \subseteq Withdrawals

\* Two transactions may pay one withdrawal only when the program lost sight of the
\* first: an exception, a crash or an answer that did not come, between the
\* broadcast and the record (ProcessWithdraw, updateTransactionHash).
PaidTwiceOnlyInDoubt ==
    \A w \in Withdrawals \ doubt :
        Cardinality({tx \in mempool : tx.w = w} \cup {t \in mined : t.w = w /\ t.ok}) <= 1

\* A withdrawal recorded as transfered was paid, by the very transaction that is
\* recorded, whatever fails (the order of broadcast and updateTransactionHash).
\* For trx, which records what the node took, the transaction was at least taken.
RecordedIsPaid ==
    \A w \in Withdrawals : rows[w].status \in {"transfered", "success"} =>
        LET tx == [w |-> w, nonce |-> rows[w].nonce] IN
        \/ Mined(tx, TRUE) \in mined
        \/ ~setup.nonced /\ (tx \in mempool \/ Mined(tx, FALSE) \in mined)

\* A settled withdrawal stays settled, unless the program lost sight of it and a
\* coroutine left behind records it again (updateTransactionHash).
SettledStays ==
    [][\A w \in Withdrawals \ doubt :
          rows[w].status = "success" => rows'[w].status = "success"]_vars

\* The hot wallet can pay every withdrawal, each of them several times over, all
\* signatures are right and no fee is unknown.
Healthy ==
    /\ setup.signed = Withdrawals /\ setup.coinFeeKnown
    /\ \A a \in Assets : setup.book[a] >=
          (1 + setup.troubles) * MapThenSumSet(LAMBDA w : Cost(w, a), Withdrawals)

\* A queued withdrawal is paid in the end, whatever fails on the way for a while
\* (README: the signed file will be broadcasted by the service); for trx, where a
\* failed transaction counts as a success, it is at least tried.
PaidInTheEnd ==
    \A w \in Withdrawals :
        (Healthy /\ rows[w].status = "inqueue")
        ~> (Paid(w) \/ (~setup.nonced /\ \E t \in mined : t.w = w))
=============================================================================
