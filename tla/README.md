# be_wallet in TLA+

A verification development of the wallet backend in `src/`: TLA+ modules of its
processes, TLC configurations that check them on small instances, and TLAPS
proofs of what matters most for every instance. Paths below are relative to
`src/`, so that the monitor is `src/lib/monitor.js`.

## 1. The system

One code base runs as several processes, one per currency and `SERVICE_TYPE`
(`src/index.js`): the **API**, the **worker** (which runs a monitor), the
**payment** process, the **transporter** and the **latest block publisher**.
They share one MongoDB and one RabbitMQ, and talk to the nodes of the four
currencies ETH, BNB, TRX and BTC. `docker-compose.yml` runs ETH, BNB and TRX.
Nothing is transactional across two database operations, and no process knows
of another except through the collections.

| Component | State | Operations | Talks to |
|---|---|---|---|
| Block pipeline (`lib/monitor.js`, `*_monitor.js`) | stored synced height; `nextBlocks` priority queue; coroutines of `Promise.all` | poll, `fetchRange`, `processRange`, restart | node, block processing |
| Block processing (`processBlock` and what it calls) | `fundings`, `withdraws`, `distributions` | add deposits, spend by output or by amount, settle or retry withdrawals, announce | database, worker |
| Worker and queue (`app/worker.js`, `app/rabbitMQ.js`) | `balanceshashes`, the channel | hand a block over, store the outcome, replay errors, reconnect | RabbitMQ |
| Payment (`lib/payment.js`, `*_payment.js`) | `withdraws`, the account's nonce | filter by balance, sign, broadcast, record | database, node |
| Transporter (`lib/transporter.js`, `*_transporter.js`) | `distributions`, `movefunds` | top up gas, move deposits to the hot wallet | database, node |
| API (`app/server.js`, `lib/service.js`) | wallets, addresses, tokens, thresholds, withdrawals | about thirty requests | database |
| Node clients (`*_rpc.js`, `trx_api.js`) | connection, attempts | requests with retries | node |
| Latest block publisher | none | polls and publishes | database, RabbitMQ |

What makes it hard:

* **Concurrency inside a process.** `Promise.all` and `Promise.map` reject with
  the first of their coroutines; the others go on, next to those of the next
  attempt, on the same queue, database rows and nonces.
* **Concurrency between processes.** The payment process and the transporter
  broadcast first and record afterwards; the monitor may see the transaction
  before the record.
* **Crashes.** `processBlock` is a sequence of writes, then the synced height,
  then an event, then a message: a restart falls between any two.
* **Swallowed exceptions.** `catch` logs and goes on: a block may be left behind.
* **Answers that do not come.** A timeout of a broadcast is taken for a refusal.

What makes each component correct: the pipeline passes every confirmed block
once and in order; block processing keeps the books equal to the chain and
announces what it records; the worker loses no announced block; the payment pays
each withdrawal once and records only what was paid; the transporter records what
it forwards and never more than there is, and collects every deposit; the API
stores a withdrawal once, answers what is true and answers every request; a call
of a node client ends.

`PROJECT.json` lists the hazards at their lines, with the properties for each.

## 2. The modules

| Module | Models | Uses |
|---|---|---|
| `BlockFeed` | what a monitor promises: confirmed blocks in ascending order, gaps accounted for, at most one announcement of each | |
| `BlockPipeline` | polling, `fetchRange`, `processRange`, the queue, the synced height, leftover coroutines | implements `BlockFeed` |
| `BlockProcessing` | `processBlock`, one database operation per action, with payment and transporter beside it | `Amounts` |
| `Amounts` | the sums of amounts, as numbers of units | |
| `BalancesHashWorker` | the `block` event, its hand-over, `reproduceBalancesHash`, the channel | |
| `Payment` | `ProcessWithdraw` of eth, bnb, trx; API, node, pool, chain, monitor around it | |
| `Transporter` | `distributeGasAndMoveFund` of eth, bnb, trx (and that of btc, which never is configured); node, pool, chain, monitor around it | |
| `WithdrawalBook` | what the API promises: of the withdrawals with one id at most one is taken, and the verdict the client gets is final and true | |
| `Service` | every request of the API, one database operation per action | implements `WithdrawalBook` |
| `NodeClient` | one call of a client of a node with its retries | |
| `NodeMethods` | which methods the clients have, and how each retries and ends | |
| `MC*` | the instances for TLC | |
| `*Proofs` | the theorems | TLAPS |

Each module has one action per step between two `await`s that another process
or coroutine can tell apart. A block of code between two awaits is one action.
Each is `UNCHANGED` in what the code leaves alone. An operator introduced by a
comment that begins with "Slip:" is not part of the model: it is what a plausible
mistake would make of the operator behind it, and shows that a property notices.

### BlockPipeline
`monitorNetwork` is `GetSynced`, `CompareHeights`, `AllResolve`; its variables
`pc`, `doc`, `call` are where it is, the document it read, and the `Promise.all`
it awaits. Each `Promise.all` is a member of `Calls` and has three coroutines:
`replay[c]`, `fetch[c]`, `proc[c]`. When one throws, `monitorNetwork` starts over
and the other two stay. `processBlock` is three steps here, `ApplyBlock`,
`SyncBlock`, `EmitBlock`; `BlockProcessing` details the first. `Strict` selects
`validateBlock` of btc and trx. `base`, `applied`, `emitted`, `failed` are history.

### BlockProcessing
A behaviour runs on one chain of `Chains`, chosen at the beginning. `parsed` are
the blocks fetched ahead, parsed with the fundings known at that moment;
`pc` walks through `build`, `add`, `join`, `spend`, `emit`. Fundings are rows with
the fields of the unique index of `models/fundingModel.js:20`; a second row with
the same index throws, and `Swallow` leaves the block behind. `spendVirtually`
adds its change (`AddChange`) and then marks the rows one at a time (`MarkRow`).
`leaving` are the transfers that wait for `processWithdrawal`, in the order of the
block; `ProcessWithdrawal` takes the first and puts what it spends into `spends`.
A total is `SumOf` of `Amounts`, the number of the units of all rows, which is what
the `reduce` computes and can be proved about.
`ReceiptRead` is FALSE for trx and btc, where `minerStatus` is always true.
`RecordedFirst` restricts the other processes to record before the block is
fetched, for the questions that are not about that race.
`Broadcast` is one withdrawal in a pass of the payment process, which sends every one
that is queued, whether or not it sent it before; `RecordPayout` writes the hash of any
attempt that is not recorded yet, late, out of order or never, over whatever the row
holds. `doubt` are the withdrawals sent again before their last attempt was recorded;
`MaxDoubts` bounds them. The fee of a token is spent inside a `try` of its own: `Catch`
is `LeaveFee` there, which logs and goes on (`unpaid` remembers it), and `Swallow`
everywhere else. A fee of 0 in another currency is not spent at all.

### BalancesHashWorker
`Handle` is the handler with its un-awaited `update`, which stays in `writes`
until `Write`. `ReadErrors`, `MarkSuccess`, `EmitAgain` are
`reproduceBalancesHash`. `StopBroker`, `Reconnect` and `Start` are the channel.

### Payment
A pass is `ReadBalance`, `ReadPending`, then `Accept` or `PutOff` for each pending
withdrawal in the order of the queue (`pending` are their places, `IsNext` the first
that is left), then `StartMap`; each member of `Maps` is one `Promise.map`, whose
coroutines go from `sign` to `wait` to `record`. A transaction is the withdrawal
it pays and its nonce: a second one with another gas price and the same nonce
counts as the same. `FilterThrows` is where `enoughBalanceFilter` throws. A
`setup` chosen at the beginning fixes currency, hot wallet and signatures.

### Transporter
A pass walks over `place`, the tokens and behind them the coin. `ReadHot` and
`ReadFundings` come in the order of each currency (`First`); `Take` picks a funding
of `list`, `Plan` decides with `PlanOf` where it goes and how much of it, `NeedGas`,
`TopUp`, `TopUpAnswered`, `RecordTopUp` are `distributorGas`, and `CheckGas`, `Send`,
`MoveAnswered`, `RecordMove` are `moveFundERC20`, `moveFundETH`, `moveFundTRC20` and
`moveFundTRX` with their records. The three currencies have operators of their own
where their code differs (`EthHot`, `TrxHot`; `EthHasGas`, `BnbHasGas`, `TrxHasGas`;
the plans); where two of them read the same lines, one is defined by the other.
`MonitorSees` is the effect of a processed block on the books, as `BlockProcessing`
details it. A `setup` fixes currency, thresholds, minimums, accounts and deposits.
Nothing compares the minimum of an asset with the fee, and without one it is 0: the plan
of the coin of eth and bnb may come to nothing or less, and goes on to be signed all the
same. What the libraries make of a negative amount is outside the repository: they refuse
it (`SignThrows`) or sign it without its sign (`Signed`). For trx the signing fails and there is no transaction (`Unsigned`). `Burnt` takes off what an
account of trx costs that is not active, or that `getAccount` reported as missing when it
failed (`MisreadAccount`).

### Service
A request is a record in `Of`; its tasks are itself, or one for each withdrawal of a
batch, as these run concurrently in one `Promise.map`. `Receive` is the handler up to
the first await; then each lookup and each insertion is an action: `FindName`,
`CreateWallet`, `UpdateAddress` for `addWallet`, `ReadConfig`, `FindAddress`, `Derive`
for `getAddress`, and so on. `inserting` holds the rows of `generateAddress`, whose
insertion nobody awaits. `Succeed` and `Reject` are the two ends of `handleRequest`:
for a batch the last success or the first exception. `met` remembers which requests
were in flight together; it is history.

### NodeClient
One call of one method of `Methods` against a node that stops, catches up and comes
back. `NodeMethods` tells of each method whether its attempts are counted, begin
again at 0 with every retry, or are not retried, and what the end is. `getAssetInfoById`
of trx calls itself inside its `try`: `guards` are the attempts around the present one
that catch what it throws (`CaughtBelow`), so that giving up takes one off and asks again
with the attempt of that frame.

## 3. What TLC checks

| Run | What it shows | Bounds |
|---|---|---|
| `pipeline` | nothing skipped but swallowed blocks; no block announced twice; validated = processed; the synced height only grows and catches up; `BlockFeed` is implemented | heights 0..4, 1 confirmation, 2 crashes, 1 exception, one `Promise.all` at a time |
| `pipeline_ghosts` | no unconfirmed block is processed even with leftover coroutines | heights 0..4, 2 confirmations, 2 groups that may reject |
| `pipeline_genesis` (violated) | a stored height of -1 starts the monitor at block 0 | heights 0..3 |
| `processing` | the unspent fundings of an address lie between its deposits and all it received, minus what it sent and paid; deposits are announced, withdrawals settled | all chains of 2 blocks of 2 transactions, coin and token, 2 addresses, that nobody overdraws; chains on which fees are paid with top-ups; chains with withdrawals that fail; no failures, records first |
| `processing_crash` | nothing announced that is not recorded, a withdrawal tried again only after a failure or for want of a record, settled only when paid, one retry per failed transaction, spent outputs marked | 2 crashes and 1 database error between any operations, 1 withdrawal sent again before its record, records at any time; 4 retry chains and the UTXO chains of 3 blocks |
| `processing_gas_credited` (violated) | a top-up seen before its record is announced as a deposit | one block |
| `worker` | no block lost or handed over twice; errors are sent again | 2 blocks, 2 crashes, 1 stop of the broker |
| `worker_reconnect` (violated) | a worker that lost its channel never has one again | 1 block, 1 stop |
| `payment` | no overdraft within a pass, double payments only after the program lost sight of one, recorded means paid, settled stays settled, covered withdrawals are paid | 2 withdrawals, 7 setups, at most one trouble of any kind anywhere, 2 groups |
| `transporter` | nobody overdraws; what is moved is more than nothing but for the coin of eth and bnb without a minimum above the fee; moves on the chain are recorded; recorded top-ups arrived; the hot wallet stays below twice its threshold; deposits are collected | 2 addresses, coin and token, 26 setups of eth, bnb, trx, btc, half of them without a minimum and with deposits below, at and above the fee, at most one trouble of any kind anywhere, 2 transactions in the pool |
| `service` | addresses that are told are known; duplicates only from overlapping requests; `WithdrawalBook` is implemented; every request is answered | 10 sets of up to 4 requests of all operations, 1 or 2 exceptions or crashes anywhere |
| `nodeclient` | a broadcast is sent once; a counted call gives up after exactly 20 retries, and `getAssetInfoById` not before; a call ends | every method of every client, the real limit of 20, 4 changes of the node |

Why the bounds are enough. Four heights let the producer be two blocks ahead of
the consumer while the chain grows behind both and a restart begins a second
range. Two crashes meet in every pair of windows, in particular a crash while the
replay of an earlier one is under way. Two addresses and two currencies are what
`spendVirtually` can confuse, and two transactions per block what
`buildFundings` and the spendings of one block can. Two withdrawals suffice for a
nonce gap, a replacement and a head of the queue that blocks what is behind it;
one trouble suffices for a double payment. Two addresses suffice for a running total
of the hot wallet and for a gas wallet that can pay one top-up of two; each setup of
`transporter` puts the amounts on a boundary (a hot wallet that is just full, a
deposit that fills it but for the fee, a gas wallet that can pay the amount but not
the fee, dust at an address). Two requests suffice for a check and an insertion that
interleave, three for a third that relies on what they made; two failures for a crash
in each. The counters (`crashes`, `errors`, `stops`, `troubles`, `changes`,
`MaxHeight`, `MaxAhead`, `MaxPool`, `MaxDoubts`) are named and appear in guards only.

Deadlock is checked everywhere but in `pipeline_ghosts`, where `Calls` bounds the
number of groups: when all of them are left behind, the model stops; in `service`,
where all requests are served in the end; and in `nodeclient`, where the call ends.

Fairness. `WF` on the coroutines of a process: the event loop resumes each whose
promise is settled, and the requests of the code end (with an answer or an
exception). In `Payment` and `Transporter` also on mining and on the monitor; in
`Service` on the tasks together, as each of them is finite; in `NodeClient` on the
call, whose requests and delays end. Nothing is assumed to
fail, and failures are bounded: a liveness property holds provided they end.
`ErrorsResent` needs a chain that keeps growing, since `reproduceBalancesHash`
runs only when a new block is confirmed.

### Where the code does something else

* **-1 is not initialised** (`pipeline_genesis`): `update` returns the document
  before the write, `lib/monitor.js:80`.
* **Top-ups are credited** (`processing_gas_credited`): the transporter records a
  distribution after its receipt, `lib/eth/eth_transporter.js:257`.
* **No reconnection** (`worker_reconnect`): `isConnecting` is never reset,
  `app/rabbitMQ.js:12`, and the handler keeps the first channel.

Met while modelling and without a run of their own:

* After a rejected `Promise.all` a leftover coroutine may take the block that
  another one peeked; with the strict `validateBlock` a leftover head below the
  range stops the pipeline for ever. Under `CallCanReject` the properties
  `OnlySwallowedSkipped`, `ReplayedOnlyAfterFailure`, `AnnouncedOnce`,
  `ProcessesValidated` and `CatchesUp` do not hold; `OnlyConfirmed` does.
* Failed TRC20 transfers are credited and failed withdrawals of trx settled:
  `minerStatus` is always true, `lib/trx/trx_monitor.js:186`. No property forbids it, as
  one that did would repeat this expression; where receipts are not read
  (`ReceiptRead` FALSE) `SettledIsPaid` says only that the transaction is on the chain.
* A withdrawal whose broadcast got no answer, or whose record was lost in a crash, is
  broadcast again in the next pass and may be paid twice
  (`lib/eth/eth_payment.js:60`). `updateTransactionHash` then finds the row by the
  `withdrawalId` alone, so that the record of the one attempt overwrites that of the
  other, even one that is settled. `TriedAgainOnlyAfterFailure` leaves these withdrawals
  (`doubt`) out, and `Payment` counts them in `PaidTwiceOnlyInDoubt`.
* The fee of a token's transfer that cannot be taken off the books stays in them
  (`lib/monitor.js:351` logs and goes on). `Ledger` excludes it.
* Top-ups are no fundings, but the fees paid with them are spent from the fundings: the
  books of the coin of an address may hold less than the address does, by as much as its
  top-ups. `Ledger` therefore has two bounds.
* Without a minimum for the coin of eth and bnb, a deposit that does not exceed the fee
  leads to an amount of 0 or less, which is signed (`lib/eth/eth_transporter.js:218`).
* Every pass of bnb that meets a withdrawal of BNB throws: `BNB_TO_GWEI` is not
  defined, `lib/bnb/bnb_payment.js:181`. Nothing queued with it is paid.
* Two equal transfers to one address in one eth or bnb transaction share their
  `outputIndex` and clash on the unique index: the block is swallowed and none of
  its deposits announced. So do two changes of equal amount in one transaction.
* A crash inside `spendVirtually` leaves change and spent rows unspent together;
  a replayed block whose withdrawal is not identified debits twice. `Ledger`
  excludes crashes.
* A failed transaction of ours is debited with its amount and listed as confirmed.
* When the monitor processes a payment before its hash is recorded, the withdrawal
  stays `transfered` for ever; `PayoutsSettled` needs `RecordedFirst`.
* With two `reproduceBalancesHash` at a time a block may be handed over twice.
* A wrong signature takes a nonce: all withdrawals behind it in the pass wait in
  the pool, now and in every later pass.
* A missing token fee throws in the filter (`lib/eth/eth_payment.js:153`), and
  after any exception the payment restarts without its producer, so that later
  notifications are flagged but not sent.
* The books of the hot wallet lag behind; two passes may promise the same coins.
* Thirty uncovered withdrawals keep all others waiting.
* Transporter. eth and bnb record a move even when the node refused it. A coin
  deposit that fills the hot wallet but for the fee is refused by the node and
  recorded again in every pass. bnb compares amounts in wei with amounts in BNB, so
  that dust counts as gas, and throws whenever the coin has a threshold; trx reads
  its coin where it means the token. A null of `getEstimateGas` throws, and the pass
  begins anew, while the books lag. The fee of a failed token transfer stays in the
  books, so that the coin behind it can never be moved as a whole. btc waits for
  `encryptedColdAddress` (`lib/transporter.js:90`), which no schema has.
* API. `getTotalWallet` of two currencies is never answered (`resp.json(a, b)` takes
  the first for a status), nor is a list whose query fails. A batch of which one
  withdrawal is refused has stored the others, and can never be sent again as a whole.
  eth and bnb store a contract in lower case and look for it as it was written, so
  that a mixed-case contract is added twice. A crash in `addWallet` leaves a wallet
  without an address, whose name is taken. Wallets, addresses and tokens have no
  unique index. `setRequireConfirmed`, `setMoveFundSleepTime` and `getWalletInfo` call
  methods that do not exist. The asset of any served currency is accepted for any other.
* Node clients. `getBlock` and `getBlockHashByHeight` of eth and bnb pass their
  attempts in the place of `verbose` and retry without a limit. `getTokenBalance`
  of eth and bnb calls `checkConnection`, which does not exist, and fails after 21
  attempts. `getTransactionReceipt` of trx runs into a ReferenceError on an empty
  answer and tries again. `getAssetInfoById` goes on long after it has given up:
  each of the calls around the one that throws catches that and asks again
  (`lib/trx/trx_api.js:80`), so that the asset is asked for far more than 20 times.
* `README.md:2` says that withdrawals are signed outside; the code signs itself.

## 4. What is proved

TLAPS proves the following for all values of the constants; it assumes only the
named `ASSUME`s of the modules and the hypotheses that a theorem states.

* `BlockPipelineProofs`. `TypeCorrect`; `OnlyConfirmedProcessed` for any number of
  leftover coroutines, by `ConfirmedInv`: what is queued, being fetched or being
  processed is confirmed, which `OnlyConfirmed` alone does not give. Under the
  hypotheses that no group rejects and no -1 is stored,
  `Sequential` shows `SequentialInv`: one call at a time (`OneCall`), a queue that
  is exactly the interval between consumer and producer (`QueueInterval`), and a
  database that keeps up with the consumer (`Progress`). From it follow
  `AnnouncedAtMostOnce`, `NothingElseSkipped`, `ValidatedIsProcessed`,
  `SyncedNeverMovesBack`, `WrittenAgainOnlyAfterFailure` (by `WritesCounted`: the writes of a
  block that is not passed yet are each followed by a failure) and, with
  `GapInvariant`, `PipelineImplementsFeed`, one step per disjunct of `Next`.
* `BlockProcessingProofs`. `NothingUnrecordedAnnounced`: on every chain and under
  every failure, because an event contains only deposits that were added or are
  about to be, and no funding disappears. `TriedAgainAfterFailure`, `SettledWasPaid` and
  `OneRetryPerFailure` do not assume that the payment process waits for its record: it
  sends what is queued and records when it likes. They rest on `RetryInv`, by which what is
  fetched ahead or being processed tells of its transactions what the chain does (`Work`)
  and a row holds an attempt that was sent (`PayoutRow`), and on `PayInv`. `Sure`: of a
  withdrawal not in doubt, the attempts before the last have failed, and the last too if
  the row waits in the queue after it was recorded. `Counted`: a retry is paid for by a failed attempt
  that no step still to come will count, `Open` being those that may. `PaidRow`: a row that
  is settled names a transaction that was. With the place of the pass in its range
  `RetryInv` is `BaseInv`, on which the rest stands. `TopUpsNotAnnounced`, by `RecordedInv`:
  of a block that is fetched every top-up is recorded. `ProcessingTypes`, by `TypeInv`.
* `LedgerHolds`, the books follow the chain: `Ledger` speaks of the moments between
  two blocks only, and `LedgerInv` says what holds between two database operations while
  nothing has gone wrong. `BalanceInv`: what an address has in rows that are not about to be
  marked lies between its deposits and all it received, up to this block, minus what it
  sent (`Within`), where the deposits still to be added and what is not subtracted yet, the
  withdrawals that wait and the spendings under way (`ToSubtract`, `Owed`), are moved to the
  other side (`WithinBut`). Two bounds are needed, not an equation: a spending takes off all
  that there is when the rows do not cover it, which happens when a fee is paid with a
  top-up, as the books then have less than the address; the lower bound survives since
  a spending takes no more than its amount, the upper one since the address had what it
  sent (`Covered`).
  `SeenInv`: every row, settled withdrawal
  and spending is of a block that was processed or is, so that no deposit of a new block is
  taken for an old one. `AddingInv`: no deposit that is added has failed or is a top-up.
  Each operation moves one term, by the lemmas of `AmountsProofs` on sums
  over sets that grow, split and change at one place, which rest on cardinalities.
* `OutputsAreSpent`, by `OutInv`: a row is an output of the chain (`OriginInv`); once
  the deposits of a block are added nothing of it is due (`DueInv`); what its withdrawals
  name is marked or still in `spends` (`MarkedInv`); what a past block named stays marked
  (`PastInv`), also when a crash has it processed again. A transaction whose withdrawal is
  settled is passed over the second time, which is why `PaidInv` is needed: what it names
  was marked before it was settled.
* `BalancesHashWorkerProofs`. `WorkerTypeCorrect`; `NothingElseLost` for any number
  of replaying coroutines; `NeverHandedTwice` with one of them, by `OnceInv`: a
  block that waits to be handed over has not been.
* `PaymentProofs`. `RecordedWasPaid`: for any number of coroutines left behind and
  any troubles, by `RecordInv`: a coroutine about to record has its receipt
  (`Known`), and no step takes back what the chain contains (`ChainGrows`).
  `PaymentTypeCorrect`: in particular no pass takes more from `balanceMaps` than is in
  it. `PaidTwiceNeedsDoubt` and `SettledWithoutDoubtStays`, by `PayInv`: nonces are
  used once by what the wallet sent (`Nonces`), a withdrawal is in the hands of one
  coroutine at a time (`Once`, `Held`, `InHand`) and, unless it is in doubt, has
  nothing in the pool or on the chain but the one transaction the program knows of
  (`Tracked`).
* `ServiceProofs`. `ServiceImplementsBook`, by `BookInv`: a withdrawal is stored
  exactly from its insertion on, and was found valid before. `AddressesAreKnown`, by
  `KnownInv`: the row of a wallet exists when its task reaches its answer.
  `DuplicatesNeedOverlap`, from `Flights` (requests in flight have met) and one
  invariant for wallets, rows and tokens: a task about to insert has met the request
  of every duplicate, since it found none when it looked. `MadeInv`, that a wallet
  that is used exists, is needed because an address is found by its wallet.
  `ServiceTypeCorrect` adds what the tasks know between their steps: the wallets that
  `configWallet` found stay (`ConfigInv`), and a request succeeds only after all of its
  tasks, one that made a wallet after its update (`CompleteInv`).
* `TransporterProofs`. `TypeCorrect`, which says that no balance becomes negative, for
  any minimum and any fee. `SomethingForwarded`: every transaction in the pool, on the chain
  and in the records moves more than nothing, whatever the minimum, but for the coin of eth
  and bnb with a minimum that is not above the fee, the one case where the code signs what
  it computed without a look. `TopUpsHaveArrived`
  and `MovesAreRecorded`, by `Known`: a transaction of an address in the pool is the
  one last sent, recorded, lost or unanswered. `HotStaysBounded`, by `HotInv`: while
  no answer is missing and nothing failed, the pool holds at most what the pass waits for,
  and what is mined has left it, as its nonce is used (`Flight`); what the hot wallet
  holds and what is under way to it (`Expected`) does not exceed what the pass has read
  and planned, so that no plan is made for a wallet that has its threshold (`PlanToHot`),
  and no step but `Plan` adds to it (`NothingAdded`).
* `NodeClientProofs`. `TypeCorrect`; `LimitHolds`, for every limit and every set of
  methods: the failures of a counted call and the calls that wait inside their `try`
  are together no fewer than its attempts (`Counting`); for all but `getAssetInfoById`
  nothing waits and they are as many (`Plain`).

Assumptions worth a look: `RequestsAssumption` of `Service` fixes which fields a request has.
`ChainsAssumption` of `BlockProcessing` says that a transaction has a hash and is in one
block, that one that failed moved nothing else, so that it is in its block once, and that
one that names its inputs has no from address. `SetupsAssumption` of
`Payment` says that no withdrawal is queued twice.

Three theorems of `BlockProcessingProofs` have hypotheses. `TopUpsNotAnnounced` needs
`RecordedFirst`: without it, it is false (`processing_gas_credited`). `LedgerHolds` needs
`Accounts`: `ReceiptRead` and `RecordedFirst`, transfers
without inputs, and that no address sends more than it received up to then, deposits and
top-ups together (`Covered`). A chain sees to that for an address all of whose income
the monitor has seen, that is, one that was made by this wallet and got nothing before
the height the monitor began at nor in a currency that was not enabled then.
`OutputsAreSpent` needs `Outputs`: transfers without inputs; or, for a UTXO currency,
outputs that are there once and spent by one transaction (`OutputsApart`)
and either no payout that names them or no database error. The last is needed. With such a
payout, when the block of its input is swallowed, the payout is settled, the worker is
restarted before the height is stored, and the input is recorded when its block comes
again, the settled payout is passed over and the input stays unspent. TLC finds this
behaviour on a chain with a payout; the program has none, as the payment of btc throws.
`LedgerAssumption` and `OutputsAssumption` of `MCBlockProcessing` say that the chains TLC
runs on meet the hypotheses.

Model-checked only: all liveness (outside this prover's reach, as is `ENABLED`). Every
safety property of every passing run is a theorem. Not expressible for this prover: what
a recursive definition computes for every input, which is why `Amounts` counts units.

## 5. What is not modelled

* What RabbitMQ does with a message; there are no publisher confirms.
* The payment of btc: it needs fields that the funding schema lacks, fails on its
  first input, and ends the process. Its transporter is never configured.
* The latest block publisher, which keeps no state, and the choice of the process in
  `index.js`.
* The connection of web3 and its websocket provider: `initWSConnect` is part of a
  request that fails.
* Messages to the administrator, changes of the gas price while a pass runs, and the
  meta data of btc transactions.
* Reorganisations of a chain: no code looks for them.
* Graceful shutdown: `index.js:130` throws at its first statement, so that every
  stop is a crash.
* Contract ABIs, key derivation, encryption, signatures (right or wrong), number
  formats, HTTP, configuration and the dependency container. `keyEncrypDB` is
  taken to be the same in all processes.

## 6. Plan

1. *done* `BlockFeed`, `BlockPipeline` and the refinement between them.
2. *done* `BlockProcessing`, `BalancesHashWorker`, `Payment`.
3. *done* `Transporter`, `Service` with `WithdrawalBook`, `NodeClient`, their theorems.
4. A composition of `Payment` and `BlockProcessing`, to drop `RecordedFirst`.
5. Pure algorithms against reference definitions: `capTransactions`, the balance
   meta data of btc, `DataGrouper.sum`, the thresholds.
6. *done* Every safety property of the runs is proved, `Ledger`, `OutputsSpent` and
   `HotBounded` among them. Left: theorems without `RecordedFirst`, with item 4.
