-------------------------- MODULE BlockProcessing --------------------------
(***************************************************************************)
(* What processBlock (src/src/lib/monitor.js) does to the fundings and the *)
(* withdrawals, one database operation at a time, for the blocks of a      *)
(* chain chosen in Init.  BlockPipeline decides which block comes next;    *)
(* here the blocks come in order, and after a restart the first one behind *)
(* the synced height comes again.                                          *)
(*                                                                         *)
(* Two other processes share the database: the payment process broadcasts  *)
(* a withdrawal and then records its hash, the transporter broadcasts a    *)
(* top-up of gas and then records it.  The chain may carry the transaction *)
(* to the monitor before the record is written, and a withdrawal whose     *)
(* record is late or lost is broadcast again.                              *)
(*                                                                         *)
(* A chain is [blocks, attempts, gas]: the transfers of each block, the    *)
(* outputs by which each withdrawal is tried, and the transactions of the  *)
(* transporter.  A transfer is one output of a transaction:            *)
(*   hash, idx    the transaction and the outputIndex                      *)
(*   cur, amount  what is moved; fee is the fee computed by addMinerInfo   *)
(*   from, to     the addresses of ours it leaves and reaches, or None     *)
(*   inputs       what a UTXO transaction spends, a sequence of [hash, idx]*)
(*   ok           the receipt's status                                     *)
(***************************************************************************)
EXTENDS Integers, FiniteSets, SequencesExt, Amounts

CONSTANTS
    Chains,         \* the chains a behaviour may run on
    None,           \* no address, no transaction
    FeeCurrency,    \* the currency fees are paid in
    Supported,      \* the enabled currencies
    ReceiptRead,    \* TRUE: minerStatus is the receipt's status (eth, bnb);
                    \* FALSE: it is true whatever the receipt says (trx, btc)
    RecordedFirst,  \* TRUE: records are written before the block is fetched
    MaxAhead,       \* bound on the blocks fetched ahead of the one processed
    MaxDoubts,      \* bound on withdrawals broadcast again before the record
    MaxCrashes,     \* bound on restarts of the worker
    MaxErrors       \* bound on database errors

ASSUME FlavourAssumption == RecordedFirst \in BOOLEAN /\ ReceiptRead \in BOOLEAN

TransferFields == {"hash", "idx", "cur", "amount", "fee", "from", "to", "inputs", "ok"}

\* Every transaction has a hash; one that failed moved nothing else, so that it is in
\* its block once; one that names its inputs has no from address.
WellFormed(b) ==
    /\ b \in Seq(ToSet(b))
    /\ \A i \in DOMAIN b :
          /\ b[i] = [f \in TransferFields |-> b[i][f]]
          /\ b[i].hash # None /\ b[i].ok \in BOOLEAN
          /\ b[i].idx \in Nat /\ b[i].amount \in Nat /\ b[i].fee \in Nat
          /\ b[i].inputs \in Seq(ToSet(b[i].inputs))
          /\ \A o \in ToSet(b[i].inputs) : o = [hash |-> o.hash, idx |-> o.idx]
          /\ b[i].inputs # <<>> => b[i].from = None
          /\ \A j \in DOMAIN b \ {i} :
                b[i].hash = b[j].hash /\ b[i].idx = b[j].idx => b[i].ok

\* A transaction is in one block; the payment process gives its attempts a hash, and each
\* one another.
ASSUME ChainsAssumption ==
    \A c \in Chains :
        /\ c.blocks \in Seq(ToSet(c.blocks))
        /\ \A h \in DOMAIN c.blocks : WellFormed(c.blocks[h])
        /\ \A h, k \in DOMAIN c.blocks : \A t \in ToSet(c.blocks[h]), u \in ToSet(c.blocks[k]) :
              t.hash = u.hash => h = k
        /\ \A w \in DOMAIN c.attempts :
              /\ c.attempts[w] \in Seq(ToSet(c.attempts[w]))
              /\ \A a \in ToSet(c.attempts[w]) : a.hash # None /\ a.idx \in Nat
              /\ \A j, k \in DOMAIN c.attempts[w] :
                    c.attempts[w][j].hash = c.attempts[w][k].hash => j = k

ASSUME BoundsAssumption ==
    MaxAhead \in Nat \ {0} /\ MaxDoubts \in Nat /\ MaxCrashes \in Nat /\ MaxErrors \in Nat

VARIABLES
    chain,
    sent,          \* how many attempts of each withdrawal are broadcast
    recorded,      \* which of them were recorded
    doubt,         \* withdrawals broadcast again before the last attempt was recorded
    \* the database
    fundings, payouts, distributions, synced,
    \* the worker
    parsed,        \* nextBlocks: the parsed blocks that wait to be processed
    next,          \* height of the block being processed, or processed next
    pc,            \* where processBlock is
    block,         \* nextBlock, the block being processed
    \* its transfers, by their place in the block:
    adding,        \* fundings still to add
    leaving,       \* withdrawals to be processed
    payoutOf,      \* the withdrawalId of each of them, or None
    settling,      \* withdrawals whose status is still to be written
    spends,        \* spendings still to do of the withdrawal being processed
    marking,       \* rows still to mark as spent by the spending under way
    event,         \* balancesHash and confirmedWithdrawals
    outbox,        \* the "block" events emitted so far
    \* bounds and observability
    crashes, errors,
    swallowed,     \* blocks whose exception was swallowed
    blind,         \* UTXO transactions parsed before their input was recorded
    unpaid         \* transactions whose fee was left in the books

external == <<chain, sent, recorded, doubt, payouts, distributions>>
locals == <<block, adding, leaving, payoutOf, settling, spends, marking, event>>
bounds == <<crashes, errors, swallowed, blind, unpaid>>
vars == <<external, fundings, synced, parsed, next, pc, locals, outbox, bounds>>

Withdrawals == DOMAIN chain.attempts
TransfersOf(b) == ToSet(b)
Transfers == UNION {TransfersOf(chain.blocks[h]) : h \in DOMAIN chain.blocks}

----------------------------------------------------------------------------
(* Fundings *)

\* fundingRepository.add: a row is found again by the fields of its unique index.
Clash(row, rows) ==
    \E r \in rows : /\ r.hash = row.hash /\ r.idx = row.idx
                    /\ r.to = row.to /\ r.amount = row.amount

Deposit(t) ==
    [hash |-> t.hash, idx |-> t.idx, type |-> "funding", to |-> t.to,
     amount |-> t.amount, cur |-> t.cur, spent |-> None]

Change(s, amount) ==
    [hash |-> s.hash, idx |-> 0, type |-> "virtual", to |-> s.from,
     amount |-> amount, cur |-> s.cur, spent |-> None]

\* findFundingByTxHashAndOutputIndex
FundingExists(hash, idx) ==
    \E r \in fundings : r.hash = hash /\ r.idx = idx /\ r.type = "funding"

\* findAllUnspentByAddressAndCurrency
Unspent(rows, a, cur) == {r \in rows : r.to = a /\ r.cur = cur /\ r.spent = None}
Total(rows) == SumOf([r \in rows |-> r.amount])

MinerStatus(t) == ReceiptRead => t.ok

\* The filters of buildFundings.
IsDeposit(t) ==
    /\ t.to # None /\ t.cur \in Supported
    /\ ~FundingExists(t.hash, t.idx)
    /\ t.hash \notin distributions
    /\ t.amount > 0 /\ MinerStatus(t)

\* buildBalancesHash is built from the fundings before they are added.
\* Slip: it is built from all transfers to our addresses.
AnnounceAll(places) == {block[i] : i \in {j \in DOMAIN block : block[j].to # None}}
BalancesHash(places) == {block[i] : i \in places}

----------------------------------------------------------------------------
(* Withdrawals *)

\* findByServiceTransactionHashAndIndex
PayoutsOf(t) == {w \in Withdrawals : payouts[w].hash = t.hash /\ payouts[w].idx = t.idx}

\* The filter of buildWithdrawals.
IsWithdrawal(t) ==
    /\ t.inputs # <<>> \/ t.from # None
    /\ \A w \in PayoutsOf(t) : payouts[w].status = "transfered"

\* For eth and bnb addMinerInfo leaves the fee undefined when nothing is moved; for
\* btc the fee is the one recorded with the withdrawal.
HasFee(t) == ReceiptRead => t.amount > 0

\* buildConfirmWithdrawals: identified, with a fee, whatever the receipt says.
Confirmed(ids) ==
    {[id |-> ids[i], hash |-> block[i].hash] :
        i \in {j \in DOMAIN ids : ids[j] # None /\ HasFee(block[j])}}

Virtual(t, cur, amount) ==
    [kind |-> "virtual", hash |-> t.hash, from |-> t.from, cur |-> cur, amount |-> amount]
TokenFee(t) ==
    [kind |-> "fee", hash |-> t.hash, from |-> t.from, cur |-> FeeCurrency, amount |-> t.fee]
Output(t, o) ==
    [kind |-> "output", hash |-> t.hash, output |-> o, cur |-> t.cur]

\* processWithdrawal: the spendings of one withdrawal.
\* Slip: the fee is left out of the amount.
SpendsWithoutFee(t) ==
    IF t.inputs # <<>> THEN [i \in DOMAIN t.inputs |-> Output(t, t.inputs[i])]
    ELSE IF t.cur = FeeCurrency /\ ~HasFee(t) THEN <<>>
    ELSE <<Virtual(t, t.cur, t.amount)>>
SpendsOf(t) ==
    IF t.inputs # <<>> THEN [i \in DOMAIN t.inputs |-> Output(t, t.inputs[i])]
    ELSE IF t.cur = FeeCurrency
         THEN IF HasFee(t) THEN <<Virtual(t, t.cur, t.amount + t.fee)>> ELSE <<>>
    ELSE <<Virtual(t, t.cur, t.amount)>>
         \o IF HasFee(t) /\ t.fee > 0 THEN <<TokenFee(t)>> ELSE <<>>

\* markAsSpent, maskSpentById
MarkSpent(rows, which, hash) ==
    (rows \ which) \cup {[r EXCEPT !.spent = hash] : r \in which}

\* The rows a UTXO input names.
\* Slip: the transactionHash is not compared.
AnyOutputRows(s) ==
    {r \in fundings : r.idx = s.output.idx /\ r.cur = s.cur /\ r.spent = None}
OutputRows(s) ==
    {r \in fundings : /\ r.hash = s.output.hash /\ r.idx = s.output.idx
                      /\ r.cur = s.cur /\ r.spent = None}

\* spendVirtually adds no change of 0 or less.
\* Slip: every change is added.
AnyChange(amount) == amount \in Int
HasChange(amount) == amount > 0

----------------------------------------------------------------------------
NoEvent == [deposits |-> {}, confirmed |-> {}]

Init ==
    /\ chain \in Chains
    /\ sent = [w \in Withdrawals |-> 0] /\ recorded = [w \in Withdrawals |-> {}] /\ doubt = {}
    /\ fundings = {}
    /\ payouts = [w \in Withdrawals |->
                    [status |-> "inqueue", hash |-> None, idx |-> 0, retries |-> 0]]
    /\ distributions = {}
    /\ synced = 0
    /\ parsed = <<>> /\ next = 1 /\ pc = "idle"
    /\ block = <<>> /\ adding = {} /\ leaving = {} /\ payoutOf = <<>> /\ settling = {}
    /\ spends = <<>> /\ marking = {} /\ event = NoEvent
    /\ outbox = {}
    /\ crashes = 0 /\ errors = 0 /\ swallowed = {} /\ blind = {} /\ unpaid = {}

----------------------------------------------------------------------------
(* The other processes *)

\* Each pass of the payment process broadcasts every queued withdrawal, also one that it
\* broadcast before and has not recorded: it crashed, failed or got no answer.
Broadcast(w) ==
    /\ payouts[w].status = "inqueue"
    /\ sent[w] < Len(chain.attempts[w])
    /\ sent' = [sent EXCEPT ![w] = @ + 1]
    /\ doubt' = doubt \cup (IF sent[w] \in recorded[w] \cup {0} THEN {} ELSE {w})
    /\ Cardinality(doubt') <= MaxDoubts
    /\ UNCHANGED <<chain, recorded, payouts, distributions, fundings, synced, parsed, next, pc,
                   locals, outbox, bounds>>

\* updateTransactionHash, by the withdrawalId alone, after the receipt of a success for eth
\* and bnb: their recorded attempts fail only when the chain is reorganised. (trx records
\* what was only taken.)  It may come late, or never.
RecordPayout(w) ==
    /\ \E k \in (1 .. sent[w]) \ recorded[w] :
        /\ recorded' = [recorded EXCEPT ![w] = @ \cup {k}]
        /\ payouts' = [payouts EXCEPT ![w].status = "transfered",
                                      ![w].hash = chain.attempts[w][k].hash,
                                      ![w].idx = chain.attempts[w][k].idx]
    /\ UNCHANGED <<chain, sent, doubt, distributions, fundings, synced, parsed, next, pc,
                   locals, outbox, bounds>>

\* distributionRepository.create, after the top-up was broadcast and mined
RecordDistribution(g) ==
    /\ g \in chain.gas \ distributions
    /\ distributions' = distributions \cup {g}
    /\ UNCHANGED <<chain, sent, recorded, doubt, payouts, fundings, synced, parsed, next, pc,
                   locals, outbox, bounds>>

\* A transaction of ours is in a block only when it was broadcast.
IsOut(hash) ==
    \A w \in Withdrawals : \A k \in DOMAIN chain.attempts[w] :
        chain.attempts[w][k].hash = hash =>
            k <= sent[w] /\ (RecordedFirst => k \in recorded[w])
IsRecorded(hash) == RecordedFirst => hash \in distributions \/ hash \notin chain.gas

----------------------------------------------------------------------------
(* The worker *)

\* parseTransaction: a UTXO transaction is a withdrawal when its first input is
\* a recorded funding; the fundings are read when the block is fetched.
SpendsRecorded(t) ==
    t.inputs # <<>> /\ FundingExists(t.inputs[1].hash, t.inputs[1].idx)
Parse(t) == IF SpendsRecorded(t) THEN t ELSE [t EXCEPT !.inputs = <<>>]

\* fetchRange
NextToFetch == next + Len(parsed) + IF pc = "idle" THEN 0 ELSE 1
FetchBlock ==
    LET fetched == chain.blocks[NextToFetch] IN
    /\ NextToFetch \in DOMAIN chain.blocks
    /\ Len(parsed) < MaxAhead
    /\ \A t \in TransfersOf(fetched) : IsOut(t.hash) /\ IsRecorded(t.hash)
    /\ parsed' = Append(parsed, [i \in DOMAIN fetched |-> Parse(fetched[i])])
    /\ blind' = blind \cup {t.hash : t \in {u \in TransfersOf(fetched) :
                                u.inputs # <<>> /\ ~SpendsRecorded(u)}}
    /\ UNCHANGED <<external, fundings, synced, next, pc, locals, outbox,
                   crashes, errors, swallowed, unpaid>>

\* The locals of processBlock are gone.
Forget ==
    /\ pc' = "idle"
    /\ block' = <<>> /\ adding' = {} /\ leaving' = {} /\ payoutOf' = <<>> /\ settling' = {}
    /\ spends' = <<>> /\ marking' = {} /\ event' = NoEvent

\* catch in processBlock: the exception is logged and the block is left behind.
Swallow ==
    /\ Forget /\ next' = next + 1
    /\ swallowed' = swallowed \cup {next}

\* catch in processWithdrawal: a failure to spend the fee of a token is logged, and
\* the next withdrawal is processed.
PayingFee == pc = "spend" /\ spends # <<>> /\ Head(spends).kind = "fee"
LeaveFee ==
    /\ marking' = {} /\ spends' = Tail(spends)
    /\ unpaid' = unpaid \cup {Head(spends).hash}
    /\ UNCHANGED <<next, pc, block, adding, leaving, payoutOf, settling, event, swallowed>>
Catch == IF PayingFee THEN LeaveFee ELSE Swallow /\ UNCHANGED unpaid

PopBlock ==
    /\ pc = "idle" /\ parsed # <<>>
    /\ pc' = "build"
    /\ block' = Head(parsed) /\ parsed' = Tail(parsed)
    /\ UNCHANGED <<external, fundings, synced, next, adding, leaving, payoutOf, settling,
                   spends, marking, event, outbox, bounds>>

BuildFundings ==
    /\ pc = "build"
    /\ pc' = "add"
    /\ adding' = {i \in DOMAIN block : IsDeposit(block[i])}
    /\ event' = [NoEvent EXCEPT !.deposits = BalancesHash(adding')]
    /\ UNCHANGED <<external, fundings, synced, parsed, next, block, leaving, payoutOf,
                   settling, spends, marking, outbox, bounds>>

IsFirst(i, places) == i \in places /\ \A j \in places : i <= j

\* One fundingRepository.add; the unique index may refuse it.
AddFunding ==
    /\ pc = "add"
    /\ \E i \in adding :
        /\ IsFirst(i, adding)
        /\ IF Clash(Deposit(block[i]), fundings)
           THEN Swallow /\ UNCHANGED fundings
           ELSE /\ fundings' = fundings \cup {Deposit(block[i])}
                /\ adding' = adding \ {i}
                /\ UNCHANGED <<next, pc, block, leaving, payoutOf, settling, spends, marking,
                               event, swallowed>>
    /\ UNCHANGED <<external, synced, parsed, outbox, crashes, errors, blind, unpaid>>

\* buildWithdrawals, first read: which transfers are to be processed.
FilterWithdrawals ==
    /\ pc = "add" /\ adding = {}
    /\ pc' = "join"
    /\ leaving' = {i \in DOMAIN block : IsWithdrawal(block[i])}
    /\ UNCHANGED <<external, fundings, synced, parsed, next, block, adding, payoutOf, settling,
                   spends, marking, event, outbox, bounds>>

\* buildWithdrawals, second read: whose withdrawal each of them is.
JoinWithdrawals ==
    /\ pc = "join"
    /\ pc' = "spend"
    /\ payoutOf' = [i \in leaving |->
          IF PayoutsOf(block[i]) = {} THEN None ELSE CHOOSE w \in PayoutsOf(block[i]) : TRUE]
    /\ settling' = leaving
    /\ event' = [event EXCEPT !.confirmed = Confirmed(payoutOf')]
    /\ UNCHANGED <<external, fundings, synced, parsed, next, block, adding, leaving, spends,
                   marking, outbox, bounds>>

\* processWithdrawal: the next withdrawal, once the spendings of the last are done.
ProcessWithdrawal ==
    /\ pc = "spend" /\ marking = {} /\ spends = <<>>
    /\ \E i \in leaving :
        /\ IsFirst(i, leaving)
        /\ spends' = SpendsOf(block[i])
        /\ leaving' = leaving \ {i}
    /\ UNCHANGED <<external, fundings, synced, parsed, next, pc, block, adding, payoutOf,
                   settling, marking, event, outbox, bounds>>

\* spend: one input of a UTXO transaction.
SpendOutput ==
    /\ pc = "spend" /\ marking = {} /\ spends # <<>> /\ Head(spends).kind = "output"
    /\ fundings' = MarkSpent(fundings, OutputRows(Head(spends)), Head(spends).hash)
    /\ spends' = Tail(spends)
    /\ UNCHANGED <<external, synced, parsed, next, pc, block, adding, leaving, payoutOf,
                   settling, marking, event, outbox, bounds>>

\* spendVirtually up to its first write: the change is added, which the unique
\* index may refuse; the rows found unspent are then marked one at a time.
AddChange ==
    /\ pc = "spend" /\ marking = {} /\ spends # <<>> /\ Head(spends).kind # "output"
    /\ LET s == Head(spends)
           rows == Unspent(fundings, s.from, s.cur)
           change == Change(s, Total(rows) - s.amount)
       IN IF HasChange(change.amount) /\ Clash(change, fundings)
          THEN Catch /\ UNCHANGED fundings
          ELSE /\ fundings' = IF HasChange(change.amount) THEN fundings \cup {change} ELSE fundings
               /\ marking' = rows
               /\ spends' = IF rows = {} THEN Tail(spends) ELSE spends
               /\ UNCHANGED <<next, pc, block, adding, leaving, payoutOf, settling, event,
                              swallowed, unpaid>>
    /\ UNCHANGED <<external, synced, parsed, outbox, crashes, errors, blind>>

\* One maskSpentById.
MarkRow ==
    /\ pc = "spend" /\ marking # {}
    /\ \E r \in marking :
        /\ fundings' = MarkSpent(fundings, {r}, Head(spends).hash)
        /\ marking' = marking \ {r}
        /\ spends' = IF marking = {r} THEN Tail(spends) ELSE spends
    /\ UNCHANGED <<external, synced, parsed, next, pc, block, adding, leaving, payoutOf,
                   settling, event, outbox, bounds>>

\* updateStatus finds the row by the withdrawalId and the transaction.
\* Slip: by the withdrawalId alone.
SucceededById(row, t) == [row EXCEPT !.status = "success"]
Succeeded(row, t) ==
    IF row.hash = t.hash /\ row.idx = t.idx THEN [row EXCEPT !.status = "success"] ELSE row

\* It, or updateStatusForRetryErrorTransaction, which finds the row by the withdrawalId.
\* Slip: the retry is counted but the row is not reset.
SettledNotReset(row, t) ==
    IF MinerStatus(t) THEN Succeeded(row, t) ELSE [row EXCEPT !.retries = @ + 1]
\* Slip: the receipt is not looked at.
SettledForRetry(row, t) ==
    [row EXCEPT !.status = "inqueue", !.hash = None, !.retries = @ + 1]
Settled(row, t) ==
    IF MinerStatus(t) THEN Succeeded(row, t)
    ELSE [row EXCEPT !.status = "inqueue", !.hash = None, !.retries = @ + 1]

\* The withdrawal is the one found in the second read, or none.
UpdateStatus ==
    /\ pc = "spend" /\ spends = <<>> /\ leaving = {}
    /\ \E i \in settling :
        /\ IsFirst(i, settling)
        /\ payouts' = IF payoutOf[i] = None THEN payouts
                      ELSE [payouts EXCEPT ![payoutOf[i]] = Settled(@, block[i])]
        /\ settling' = settling \ {i}
    /\ UNCHANGED <<chain, sent, recorded, doubt, distributions, fundings, synced, parsed, next,
                   pc, block, adding, leaving, payoutOf, spends, marking, event, outbox,
                   bounds>>

SyncHeight ==
    /\ pc = "spend" /\ spends = <<>> /\ leaving = {} /\ settling = {}
    /\ synced' = next
    /\ pc' = "emit"
    /\ UNCHANGED <<external, fundings, parsed, next, locals, outbox, bounds>>

\* Slip: deposits are announced only along with confirmed withdrawals.
OnlyConfirmedEvents(e) == e.confirmed # {}
WorthAnnouncing(e) == e.deposits # {} \/ e.confirmed # {}

EmitBlock ==
    /\ pc = "emit"
    /\ outbox' = IF WorthAnnouncing(event)
                 THEN outbox \cup {[height |-> next, block |-> event]} ELSE outbox
    /\ Forget /\ next' = next + 1
    /\ UNCHANGED <<external, fundings, synced, parsed, bounds>>

\* The range is done: monitorNetwork polls again and starts behind synced, which
\* is further back when the last blocks of the range were swallowed.
Poll ==
    /\ pc = "idle" /\ parsed = <<>>
    /\ next' = synced + 1
    /\ UNCHANGED <<external, fundings, synced, parsed, pc, locals, outbox, bounds>>

ProcessBlock ==
    \/ PopBlock \/ BuildFundings \/ AddFunding \/ FilterWithdrawals \/ JoinWithdrawals
    \/ ProcessWithdrawal \/ SpendOutput \/ AddChange \/ MarkRow \/ UpdateStatus \/ SyncHeight \/ EmitBlock

\* A database operation of processBlock fails.
DatabaseError ==
    /\ pc \notin {"idle", "emit"} /\ errors < MaxErrors
    /\ errors' = errors + 1
    /\ Catch
    /\ UNCHANGED <<external, fundings, synced, parsed, outbox, crashes, blind>>

\* The worker dies and is restarted: monitorNetwork goes on behind synced.
Crash ==
    /\ crashes < MaxCrashes
    /\ crashes' = crashes + 1
    /\ Forget /\ parsed' = <<>> /\ next' = synced + 1
    /\ UNCHANGED <<external, fundings, synced, outbox, errors, swallowed, blind, unpaid>>

Environment ==
    \/ \E w \in Withdrawals : Broadcast(w) \/ RecordPayout(w)
    \/ \E g \in chain.gas : RecordDistribution(g)

Next == Environment \/ FetchBlock \/ ProcessBlock \/ Poll \/ DatabaseError \/ Crash

Spec == Init /\ [][Next]_vars

\* The other processes finish what they began, the worker's loop goes on; nothing
\* obliges the worker to fail.
FairSpec ==
    /\ Spec
    /\ WF_vars(Environment) /\ WF_vars(FetchBlock) /\ WF_vars(ProcessBlock) /\ WF_vars(Poll)

----------------------------------------------------------------------------
(* Properties *)

Hashes ==
    {t.hash : t \in Transfers}
    \cup UNION {{a.hash : a \in ToSet(chain.attempts[w])} : w \in Withdrawals}
Rows ==
    [hash : Hashes, idx : Nat, type : {"funding", "virtual"}, to : {t.to : t \in Transfers}
       \cup {t.from : t \in Transfers}, amount : Nat \ {0}, cur : {t.cur : t \in Transfers}
       \cup {FeeCurrency}, spent : Hashes \cup {None}]

TypeOK ==
    /\ sent \in [Withdrawals -> Nat] /\ recorded \in [Withdrawals -> SUBSET Nat]
    /\ doubt \subseteq Withdrawals
    /\ fundings \subseteq Rows
    /\ payouts \in [Withdrawals -> [status : {"inqueue", "transfered", "success"},
                                    hash : Hashes \cup {None}, idx : Nat, retries : Nat]]
    /\ distributions \subseteq chain.gas
    /\ synced \in 0 .. Len(chain.blocks)
    /\ next \in 1 .. Len(chain.blocks) + 1
    /\ Len(parsed) <= MaxAhead
    /\ pc \in {"idle", "build", "add", "join", "spend", "emit"}
    /\ adding \cup leaving \cup settling \subseteq DOMAIN block
    /\ marking \subseteq Rows
    /\ swallowed \subseteq DOMAIN chain.blocks

\* The transfers of the blocks up to a height, by their places on the chain.
Upto(c, h) == UNION {{k} \X DOMAIN c.blocks[k] : k \in 1 .. h}
At(c, p) == c.blocks[p[1]][p[2]]
Holders(c) ==
    (UNION {{At(c, p).to, At(c, p).from} : p \in Upto(c, Len(c.blocks))}) \ {None}

\* What transfers bring to an address, as deposits alone and with top-ups, and take from it.
CreditOf(t, a, cur) == IF t.to = a /\ t.cur = cur /\ t.ok THEN t.amount ELSE 0
DepositOf(c, t, a, cur) == IF t.hash \in c.gas THEN 0 ELSE CreditOf(t, a, cur)
DebitOf(t, a, cur) ==
    (IF t.from = a /\ t.cur = cur THEN t.amount ELSE 0)
    + (IF t.from = a /\ cur = FeeCurrency /\ HasFee(t) THEN t.fee ELSE 0)
Credit(c, places, a, cur) == SumOf([p \in places |-> CreditOf(At(c, p), a, cur)])
Deposited(c, places, a, cur) == SumOf([p \in places |-> DepositOf(c, At(c, p), a, cur)])
Debit(c, places, a, cur) == SumOf([p \in places |-> DebitOf(At(c, p), a, cur)])

\* Nothing an address has sent has failed.
AllOk(c, h, a) == \A p \in Upto(c, h) : At(c, p).from = a => At(c, p).ok

\* Transfers of an account currency name no inputs.
InputFree(c) == \A p \in Upto(c, Len(c.blocks)) : At(c, p).inputs = <<>>

\* The outputs of a UTXO currency: each is on the chain once; no two transactions name
\* the same one; a transaction names outputs of its currency, of its own block or before.
OutputsApart(c) ==
    LET P == Upto(c, Len(c.blocks)) IN
    \A p, q \in P :
        /\ At(c, p).from = None
        /\ At(c, p).hash = At(c, q).hash /\ At(c, p).idx = At(c, q).idx => p = q
        /\ \A o \in ToSet(At(c, p).inputs) :
              /\ o = [hash |-> At(c, q).hash, idx |-> At(c, q).idx] =>
                    q[1] <= p[1] /\ At(c, q).cur = At(c, p).cur
              /\ o \in ToSet(At(c, q).inputs) => At(c, q).hash = At(c, p).hash

\* No withdrawal of the payment process names outputs.
NoPayouts(c) ==
    \A w \in DOMAIN c.attempts : \A k \in DOMAIN c.attempts[w] :
        \A p \in Upto(c, Len(c.blocks)) :
            At(c, p).inputs # <<>> => At(c, p).hash # c.attempts[w][k].hash

\* Nobody sends what he does not have, top-ups counted.
Covered(c) ==
    \A h \in DOMAIN c.blocks : \A a \in Holders(c), cur \in Supported :
        AllOk(c, h, a) => Debit(c, Upto(c, h), a, cur) <= Credit(c, Upto(c, h), a, cur)

\* Between two blocks the unspent fundings of an address never hold more than it has,
\* and never less than its deposits minus what it sent and paid in fees: they differ from
\* what it has by top-ups alone, which are no fundings.  Excepted are an exception that
\* was swallowed, a crash, and a transaction of the address that failed, whose amount
\* processWithdrawal takes off all the same (buildFundings, spendVirtually).
Ledger ==
    pc = "idle" /\ next = synced + 1 /\ swallowed = {} /\ unpaid = {} /\ crashes = 0 =>
        \A a \in Holders(chain), cur \in Supported :
            LET P == Upto(chain, synced)
                books == Total(Unspent(fundings, a, cur)) + Debit(chain, P, a, cur)
            IN AllOk(chain, synced, a) =>
                  Deposited(chain, P, a, cur) <= books /\ books <= Credit(chain, P, a, cur)

\* Every output that a processed UTXO transaction spends is marked as spent, even
\* after crashes, if the transaction was parsed when its first input was recorded
\* (parseTransaction, spend); nothing marks a funding but a transaction that names
\* it or, without inputs, comes from its address (spendVirtually).
OutputsSpent ==
    \A r \in fundings :
        LET Names(t) == [hash |-> r.hash, idx |-> r.idx] \in ToSet(t.inputs) IN
        /\ \A h \in (1 .. synced) \ swallowed : \A t \in TransfersOf(chain.blocks[h]) :
              t.hash \notin blind /\ Names(t) => r.spent = t.hash
        /\ r.spent # None => \E t \in Transfers :
              t.hash = r.spent /\ (Names(t) \/ (t.inputs = <<>> /\ t.from = r.to))

\* A deposit that was announced is recorded as a funding: whatever crashes or
\* fails, the exchange never credits what the wallet does not know (processBlock).
AnnouncedIsRecorded ==
    \A e \in outbox : \A t \in e.block.deposits :
        FundingExists(t.hash, t.idx)

\* The monitor never makes the payment process pay again: unless a withdrawal was broadcast
\* a second time for want of a record, it is tried again only when its last transaction
\* failed, so that one that succeeded stays the last (updateStatusForRetryErrorTransaction).
TriedAgainOnlyAfterFailure ==
    \A w \in Withdrawals \ doubt : \A k \in 1 .. sent[w] - 1 :
        \E t \in Transfers : t.hash = chain.attempts[w][k].hash /\ ~t.ok

\* A withdrawal counts as settled by a transaction of the chain that succeeded, also when a
\* late record of another attempt overwrites its row while its block is processed: the
\* update of the status looks for the transaction too (updateStatus).
SettledIsPaid ==
    \A w \in Withdrawals : payouts[w].status = "success" =>
        \E t \in Transfers : t.hash = payouts[w].hash /\ t.idx = payouts[w].idx /\ MinerStatus(t)

\* A failed transaction costs its withdrawal one retry, even when its block is
\* processed again: the retry clears the hash by which the row was found.
RetriedOncePerFailedTx ==
    \A w \in Withdrawals :
        payouts[w].retries <=
            Cardinality({k \in 1 .. sent[w] : \E t \in Transfers :
                            t.hash = chain.attempts[w][k].hash /\ ~t.ok})

\* The top-ups of the transporter are never announced as deposits (the filter
\* isNotDistributionTransaction of buildFundings).
DistributionsIgnored ==
    \A e \in outbox : \A t \in e.block.deposits : t.hash \notin chain.gas

AllWithdrawals == UNION {DOMAIN c.attempts : c \in Chains}

\* Every deposit to one of our addresses is announced in the end, unless the unique
\* index of the fundings refused a row of its block and the exception was swallowed
\* (README: the service listens to the network for funding events and pushes them).
DepositsAnnounced ==
    <>(\A h \in DOMAIN chain.blocks \ swallowed : \A t \in TransfersOf(chain.blocks[h]) :
          (t.hash \notin chain.gas /\ t.to # None /\ t.cur \in Supported /\ t.ok /\ t.amount > 0)
          => (\E e \in outbox : \E d \in e.block.deposits :
                 d.hash = t.hash /\ d.idx = t.idx /\ d.to = t.to))

\* A withdrawal one of whose transactions succeeds is settled in the end, after
\* the retries its failed transactions need (processBlock, payment process).
PayoutsSettled ==
    \A w \in AllWithdrawals :
        (/\ w \in Withdrawals
         /\ \E t \in Transfers : t.ok /\ t.hash \in {a.hash : a \in ToSet(chain.attempts[w])})
        ~> (w \in Withdrawals /\ payouts[w].status = "success")
=============================================================================
