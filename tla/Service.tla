------------------------------ MODULE Service ------------------------------
(***************************************************************************)
(* The API server: handleRequest of src/src/app/server.js and the          *)
(* operations of src/src/lib/service.js with those of its chains and       *)
(* interpreters, over the repositories.  Every operation looks something   *)
(* up and then inserts; nothing but a unique index is between two requests *)
(* whose steps interleave at the awaits.                                   *)
(*                                                                         *)
(* A request is a record with op and, as the operation asks, authentic     *)
(* (its signature is right), currency, name, wallets (deposit, withdraw,   *)
(* distribution), path, batch (of [id, asset, valid]), contract, written   *)
(* ("lower" or "mixed" case), count (of currencies).  A wallet is known by *)
(* the request that made it, an address by its wallet and path.            *)
(***************************************************************************)
EXTENDS Integers, Sequences

CONSTANTS
    Requests,   \* names of all requests
    Of,         \* what each of them asks
    Scenarios,  \* [requests, troubles]: those that may come, how many failures
    Services,   \* the currencies served
    ChainOf,    \* "eth", "bnb", "trx" or "btc"
    None

Simple == {"addWallet", "configWallet", "getAddress", "addSmartContract", "setWalletThreshold"}
Withdrawals == {"withdrawalRequest", "multilpleWithdrawalRequest"}
\* They call methods the repositories do not have.
Broken == {"setRequireConfirmed", "setMoveFundSleepTime", "getWalletInfo"}
Lists == {"getWallets", "getConfigWallets", "getTotalWallet", "validateAddress"}

Op(r) == Of[r].op
Currency(r) == Of[r].currency
BatchOf(r) == IF Op(r) \in Withdrawals THEN DOMAIN Of[r].batch ELSE {1}
TasksOf(r) == {<<r, i>> : i \in BatchOf(r)}
Tasks == UNION {TasksOf(r) : r \in Requests}

ASSUME RequestsAssumption ==
    \A r \in Requests :
        /\ Op(r) \in Simple \cup Withdrawals \cup Broken \cup Lists
        /\ Op(r) \in Withdrawals => Of[r].batch # <<>>
        /\ Op(r) = "addSmartContract" => Of[r].written \in {"lower", "mixed"}
        /\ Op(r) = "configWallet" => DOMAIN Of[r].wallets = 1 .. 3
ASSUME ScenariosAssumption ==
    \A s \in Scenarios : s.requests \subseteq Requests /\ s.troubles \in Nat

VARIABLES
    scenario,
    \* the database
    wallets,     \* [by, service, name, complete]
    addresses,   \* [by, wallet, path]
    config,      \* by service: None or <<deposit, withdraw, distribution>>
    tokens,      \* [by, service, contract]
    thresholds,  \* by service: None or the request that set them
    withdrawals, \* tasks stored
    \* the server
    pc,          \* by task
    wallet,      \* the deposit wallet a task has read
    inserting,   \* address rows on their way, which nobody awaits
    answer,      \* by request: None or [status, body]
    \* troubles and observability
    troubles,
    dropped,     \* address rows whose insertion failed
    met          \* pairs of requests that overlapped

db == <<wallets, addresses, config, tokens, thresholds, withdrawals>>
server == <<pc, wallet, inserting, answer>>
vars == <<scenario, db, server, troubles, dropped, met>>

Running == {t \in Tasks : pc[t] \notin {"idle", "accepted", "refused", "failed", "lost", "silent"}}
InFlight == {t[1] : t \in Running} \cup {row.by : row \in inserting}

Trouble == troubles < scenario.troubles /\ troubles' = troubles + 1

----------------------------------------------------------------------------
(* Answers *)

Goto(t, s) == pc' = [pc EXCEPT ![t] = s]
Reply(status, body) == [status |-> status, body |-> body]
Answered(r, a) == answer' = [answer EXCEPT ![r] = IF @ = None THEN a ELSE @]

\* An exception is answered, for a batch by the first of its withdrawals.
Reject(t, s) == Goto(t, s) /\ Answered(t[1], Reply(500, None))
Refuse(t) == Reject(t, "refused")

\* The answer of a batch needs all of them.
Succeed(t, body) ==
    /\ Goto(t, "accepted")
    /\ IF \A u \in TasksOf(t[1]) \ {t} : pc[u] = "accepted"
       THEN Answered(t[1], Reply(200, body)) ELSE UNCHANGED answer

----------------------------------------------------------------------------
Init ==
    /\ scenario \in Scenarios
    /\ wallets = {} /\ addresses = {} /\ tokens = {} /\ withdrawals = {}
    /\ config = [s \in Services |-> None] /\ thresholds = [s \in Services |-> None]
    /\ pc = [t \in Tasks |-> "idle"] /\ wallet = [t \in Tasks |-> None]
    /\ inserting = {} /\ answer = [r \in Requests |-> None]
    /\ troubles = 0 /\ dropped = {} /\ met = {}

\* handleRequest and handleListCurrencyRequest: signature, currency, service; the
\* lists of handleGetListWallet are open to all.
Handled(r) ==
    \/ Op(r) \in {"getWallets", "getConfigWallets"}
    \/ Of[r].authentic /\ Op(r) = "getTotalWallet" /\ Currency(r) # None
    \/ Of[r].authentic /\ Currency(r) \in Services
Status(r) ==
    IF ~Of[r].authentic THEN 401 ELSE IF Currency(r) = None THEN 404 ELSE 500
FirstStep(r) ==
    CASE Op(r) \in {"addWallet", "configWallet", "addSmartContract"} \cup Withdrawals -> "find"
      [] Op(r) = "getAddress" -> "config"
      [] Op(r) = "setWalletThreshold" -> "upsert"
      [] OTHER -> "read"

Receive(r) ==
    /\ \A t \in TasksOf(r) : pc[t] = "idle"
    /\ pc' = [t \in Tasks |->
          IF t \notin TasksOf(r) THEN pc[t] ELSE IF Handled(r) THEN FirstStep(r) ELSE "refused"]
    /\ IF Handled(r)
       THEN met' = met \cup {{r, q} : q \in InFlight} /\ UNCHANGED answer
       ELSE Answered(r, Reply(Status(r), None)) /\ UNCHANGED met
    /\ UNCHANGED <<scenario, db, wallet, inserting, troubles, dropped>>

\* Task t is one of an operation op and stands at step s.
At(t, op, s) == Op(t[1]) = op /\ pc[t] = s
Asked(t) == Of[t[1]]

----------------------------------------------------------------------------
(* Wallets *)

\* getByName
\* Slip: a wallet without an address is not looked at.
SameNameComplete(t) ==
    {w \in wallets : w.service = Currency(t[1]) /\ w.name = Asked(t).name /\ w.complete}
SameName(t) == {w \in wallets : w.service = Currency(t[1]) /\ w.name = Asked(t).name}
FindName(t) ==
    /\ At(t, "addWallet", "find")
    /\ IF SameName(t) # {} THEN Refuse(t) ELSE Goto(t, "create") /\ UNCHANGED answer
    /\ UNCHANGED <<scenario, db, wallet, inserting, troubles, dropped, met>>

\* generateAddress: the row is not awaited.
AddressRow(r, w, path) == [by |-> r, wallet |-> w, path |-> path]
\* Slip: the row is that of the settlement address.
SettlementRow(r, w, path) == [by |-> r, wallet |-> w, path |-> 0]
NewRow(r, w, path) == AddressRow(r, w, path)

\* generateWallet, to generateAddress
CreateWallet(t) ==
    /\ At(t, "addWallet", "create")
    /\ wallets' = wallets \cup
          {[by |-> t[1], service |-> Currency(t[1]), name |-> Asked(t).name, complete |-> FALSE]}
    /\ inserting' = inserting \cup {NewRow(t[1], t[1], 0)}
    /\ Goto(t, "update")
    /\ UNCHANGED <<scenario, addresses, config, tokens, thresholds, withdrawals, wallet, answer,
                   troubles, dropped, met>>

\* generateWallet, from updateAddress on
\* Slip: the update is not awaited and fails.
NotUpdated(r) == wallets
Updated(r) == {[w EXCEPT !.complete = w.complete \/ w.by = r] : w \in wallets}
UpdateAddress(t) ==
    /\ At(t, "addWallet", "update")
    /\ wallets' = Updated(t[1])
    /\ Goto(t, "answer")
    /\ UNCHANGED <<scenario, addresses, config, tokens, thresholds, withdrawals, wallet, inserting,
                   answer, troubles, dropped, met>>

\* configWallet: its three reads in one, as no wallet ever goes away.
WalletsFound(t) ==
    \A i \in DOMAIN Asked(t).wallets : \E w \in wallets :
        w.by = Asked(t).wallets[i] /\ w.service = Currency(t[1])
FindWallets(t) ==
    /\ At(t, "configWallet", "find")
    /\ IF WalletsFound(t) THEN Goto(t, "upsert") /\ UNCHANGED answer ELSE Refuse(t)
    /\ UNCHANGED <<scenario, db, wallet, inserting, troubles, dropped, met>>
UpsertConfig(t) ==
    /\ At(t, "configWallet", "upsert")
    /\ config' = [config EXCEPT ![Currency(t[1])] = Asked(t).wallets]
    /\ Goto(t, "answer")
    /\ UNCHANGED <<scenario, wallets, addresses, tokens, thresholds, withdrawals, wallet,
                   inserting, answer, troubles, dropped, met>>

\* setWalletThreshold
UpsertThreshold(t) ==
    /\ At(t, "setWalletThreshold", "upsert")
    /\ thresholds' = [thresholds EXCEPT ![Currency(t[1])] = t[1]]
    /\ Goto(t, "answer")
    /\ UNCHANGED <<scenario, wallets, addresses, config, tokens, withdrawals, wallet, inserting,
                   answer, troubles, dropped, met>>

----------------------------------------------------------------------------
(* Addresses *)

\* getAddress, getByService
ReadConfig(t) ==
    /\ At(t, "getAddress", "config")
    /\ LET c == config[Currency(t[1])] IN
       IF c = None
       THEN Refuse(t) /\ UNCHANGED wallet
       ELSE /\ Goto(t, "find") /\ wallet' = [wallet EXCEPT ![t] = c[1]]
            /\ UNCHANGED answer
    /\ UNCHANGED <<scenario, db, inserting, troubles, dropped, met>>

\* findByServiceAndWalletIdAndPath
Stored(w, path) == \E row \in addresses : row.wallet = w /\ row.path = path
FindAddress(t) ==
    /\ At(t, "getAddress", "find")
    /\ IF Stored(wallet[t], Asked(t).path)
       THEN Succeed(t, <<wallet[t], Asked(t).path>>)
       ELSE Goto(t, "derive") /\ UNCHANGED answer
    /\ UNCHANGED <<scenario, db, wallet, inserting, troubles, dropped, met>>

\* getById and generateAddress: answered before the row is stored.
Derive(t) ==
    /\ At(t, "getAddress", "derive")
    /\ inserting' = inserting \cup {NewRow(t[1], wallet[t], Asked(t).path)}
    /\ Succeed(t, <<wallet[t], Asked(t).path>>)
    /\ UNCHANGED <<scenario, db, wallet, troubles, dropped, met>>

InsertAddress(row) ==
    /\ inserting' = inserting \ {row}
    /\ addresses' = addresses \cup {row}
    /\ UNCHANGED <<scenario, wallets, config, tokens, thresholds, withdrawals, pc, wallet, answer,
                   troubles, dropped, met>>

\* Nobody catches the exception of the insertion.
DropAddress(row) ==
    /\ Trouble
    /\ inserting' = inserting \ {row} /\ dropped' = dropped \cup {row}
    /\ UNCHANGED <<scenario, db, pc, wallet, answer, met>>

----------------------------------------------------------------------------
(* Withdrawals *)

Item(t) == Asked(t).batch[t[2]]
IsItem(t) == Op(t[1]) \in Withdrawals
Items == {t \in Tasks : IsItem(t)}

\* findByWithdrawalId
FindWithdrawal(t) ==
    /\ IsItem(t) /\ pc[t] = "find"
    /\ IF \E u \in withdrawals : Item(u).id = Item(t).id
       THEN Refuse(t) ELSE Goto(t, "token") /\ UNCHANGED answer
    /\ UNCHANGED <<scenario, db, wallet, inserting, troubles, dropped, met>>

\* findByServiceAndSymbol, validateAddress: the coin of any service will do.
Supported(t) ==
    \/ Item(t).asset \in Services
    \/ \E k \in tokens : k.service = Currency(t[1]) /\ k.contract = Item(t).asset
Acceptable(t) == Supported(t) /\ Item(t).valid
CheckWithdrawal(t) ==
    /\ IsItem(t) /\ pc[t] = "token"
    /\ IF Acceptable(t) THEN Goto(t, "insert") /\ UNCHANGED answer ELSE Refuse(t)
    /\ UNCHANGED <<scenario, db, wallet, inserting, troubles, dropped, met>>

\* WithdrawRepository.create and its unique index
\* Slip: the model has no unique index.
NoIndex(t) == FALSE
Clash(t) == \E u \in withdrawals : Item(u).id = Item(t).id
InsertWithdrawal(t) ==
    /\ IsItem(t) /\ pc[t] = "insert"
    /\ IF Clash(t)
       THEN Refuse(t) /\ UNCHANGED withdrawals
       ELSE /\ withdrawals' = withdrawals \cup {t}
            /\ Goto(t, "answer") /\ UNCHANGED answer
    /\ UNCHANGED <<scenario, wallets, addresses, config, tokens, thresholds, wallet, inserting,
                   troubles, dropped, met>>

----------------------------------------------------------------------------
(* Tokens *)

\* eth and bnb store the address in lower case, but look it up as it is written.
LowerCases(s) == ChainOf[s] \in {"eth", "bnb"}
SameToken(t) ==
    {k \in tokens : /\ k.service = Currency(t[1]) /\ k.contract = Asked(t).contract
                    /\ LowerCases(k.service) => Asked(t).written = "lower"}
\* btc has none; for trx a token that is there is an answer, for the others an error.
FindToken(t) ==
    /\ At(t, "addSmartContract", "find")
    /\ IF ChainOf[Currency(t[1])] = "btc" THEN Refuse(t)
       ELSE IF SameToken(t) = {} THEN Goto(t, "decimals") /\ UNCHANGED answer
       ELSE IF ChainOf[Currency(t[1])] = "trx" THEN Succeed(t, None) ELSE Refuse(t)
    /\ UNCHANGED <<scenario, db, wallet, inserting, troubles, dropped, met>>

\* The node is asked for the decimals; a contract without them is refused.
ReadDecimals(t) ==
    /\ At(t, "addSmartContract", "decimals")
    /\ IF Asked(t).decimals THEN Goto(t, "create") /\ UNCHANGED answer ELSE Refuse(t)
    /\ UNCHANGED <<scenario, db, wallet, inserting, troubles, dropped, met>>

CreateToken(t) ==
    /\ At(t, "addSmartContract", "create")
    /\ tokens' = tokens \cup
          {[by |-> t[1], service |-> Currency(t[1]), contract |-> Asked(t).contract]}
    /\ Goto(t, "answer")
    /\ UNCHANGED <<scenario, wallets, addresses, config, thresholds, withdrawals, wallet,
                   inserting, answer, troubles, dropped, met>>

----------------------------------------------------------------------------
(* The rest of the server *)

\* What was written is answered; a new wallet with its first address.
Answer(t) ==
    /\ pc[t] = "answer"
    /\ Succeed(t, IF Op(t[1]) = "addWallet" THEN <<t[1], 0>> ELSE None)
    /\ UNCHANGED <<scenario, db, wallet, inserting, troubles, dropped, met>>

CallBroken(t) ==
    /\ pc[t] = "read" /\ Op(t[1]) \in Broken
    /\ Refuse(t)
    /\ UNCHANGED <<scenario, db, wallet, inserting, troubles, dropped, met>>

\* walletRepository.getPagingList, walletConfigRepository.getPagingList
ReadList(t) ==
    /\ At(t, "getWallets", "read") \/ At(t, "getConfigWallets", "read")
    /\ Succeed(t, None)
    /\ UNCHANGED <<scenario, db, wallet, inserting, troubles, dropped, met>>

ValidateAddress(t) ==
    /\ At(t, "validateAddress", "read")
    /\ Succeed(t, None)
    /\ UNCHANGED <<scenario, db, wallet, inserting, troubles, dropped, met>>

\* getTotalWallet for each currency: handleListCurrencyRequest spreads the results over
\* the arguments of json, which takes the first of two for a status: the answer never
\* goes out.
ReadTotals(t) ==
    /\ At(t, "getTotalWallet", "read")
    /\ IF Asked(t).count = 2
       THEN Goto(t, "silent") /\ UNCHANGED answer
       ELSE Succeed(t, None)
    /\ UNCHANGED <<scenario, db, wallet, inserting, troubles, dropped, met>>

\* An exception of the database, possibly after it has written: handleRequest and
\* handleListCurrencyRequest answer it, handleGetListWallet and
\* handleGetListConfigWallet do not see it.
\* Slip: handleRequest does not catch it.
NotCaught(t) == Goto(t, "failed") /\ UNCHANGED answer
Caught(t) == Reject(t, "failed")
Fail(t) ==
    /\ Trouble
    /\ IF Op(t[1]) \in {"getWallets", "getConfigWallets"}
       THEN Goto(t, "silent") /\ UNCHANGED answer
       ELSE Caught(t)
    /\ UNCHANGED <<scenario, db, wallet, inserting, dropped, met>>

\* The process dies; docker restarts it.
Crash ==
    /\ InFlight # {} /\ Trouble
    /\ pc' = [t \in Tasks |-> IF t \in Running THEN "lost" ELSE pc[t]]
    /\ inserting' = {} /\ dropped' = dropped \cup inserting
    /\ UNCHANGED <<scenario, db, wallet, answer, met>>

----------------------------------------------------------------------------
Step(t) ==
    \/ FindName(t) \/ CreateWallet(t) \/ UpdateAddress(t)
    \/ FindWallets(t) \/ UpsertConfig(t) \/ UpsertThreshold(t)
    \/ ReadConfig(t) \/ FindAddress(t) \/ Derive(t)
    \/ FindWithdrawal(t) \/ CheckWithdrawal(t) \/ InsertWithdrawal(t)
    \/ FindToken(t) \/ ReadDecimals(t) \/ CreateToken(t)
    \/ Answer(t) \/ CallBroken(t) \/ ValidateAddress(t) \/ ReadList(t) \/ ReadTotals(t)

Next ==
    \/ \E r \in scenario.requests : Receive(r)
    \/ \E t \in Running : Step(t) \/ Fail(t)
    \/ \E row \in inserting : InsertAddress(row) \/ DropAddress(row)
    \/ Crash

Spec == Init /\ [][Next]_vars

\* The server runs, and the database and the node answer; as no task has a loop, all of
\* them end.
FairSpec == Spec /\ WF_vars(\E t \in Running : Step(t))

----------------------------------------------------------------------------
(* Properties *)

\* Types; above all, a service is only configured with wallets of its own, only
\* addresses of wallets there are on their way or stored, and a wallet has its own
\* address when the client learns of it (configWallet, generateWallet).
TypeOK ==
    /\ scenario \in Scenarios
    /\ \A w \in wallets : w.by \in Requests /\ w.service \in Services /\ w.complete \in BOOLEAN
    /\ \A w \in wallets : answer[w.by] # None /\ answer[w.by].status = 200 => w.complete
    /\ \A row \in addresses \cup inserting \cup dropped : \E w \in wallets : w.by = row.wallet
    /\ \A s \in Services : config[s] # None =>
          \A i \in DOMAIN config[s] : \E w \in wallets :
              w.by = config[s][i] /\ w.service = s
    /\ \A s \in Services : thresholds[s] \in Requests \cup {None}
    /\ \A k \in tokens : k.by \in Requests /\ k.service \in Services
    /\ withdrawals \subseteq Items
    /\ pc \in [Tasks -> {"idle", "find", "create", "update", "upsert", "config", "derive", "token",
                         "insert", "decimals", "read", "answer", "accepted", "refused", "failed",
                         "lost", "silent"}]
    /\ \A t \in Tasks : wallet[t] # None => \E w \in wallets : w.by = wallet[t]
    /\ \A r \in Requests : answer[r] # None => answer[r].status \in {200, 401, 404, 500}
    /\ troubles \in 0 .. scenario.troubles

\* A client that was given an address can be sent to it: its row is stored or on its
\* way, unless its insertion failed (generateAddress does not wait for it).
AddressKnown ==
    \A r \in Requests :
        Op(r) \in {"addWallet", "getAddress"} /\ answer[r] # None /\ answer[r].status = 200 =>
            \E row \in addresses \cup inserting \cup dropped :
                <<row.wallet, row.path>> = answer[r].body

\* Two wallets of one name, two rows of one address and two tokens of one contract only
\* come from requests that overlapped, for eth and bnb also from a contract that is not
\* written in lower case (addWallet, getAddress, addSmartContract).
DuplicatesOnlyFromOverlap ==
    LET Met(a, b) == a = b \/ {a.by, b.by} \in met IN
    /\ \A v, w \in wallets : v.service = w.service /\ v.name = w.name => Met(v, w)
    /\ \A a, b \in addresses : a.wallet = b.wallet /\ a.path = b.path => Met(a, b)
    /\ \A j, k \in tokens : j.service = k.service /\ j.contract = k.contract =>
          \/ Met(j, k)
          \/ LowerCases(j.service) /\ "mixed" \in {Of[j.by].written, Of[k.by].written}

\* The verdict on a withdrawal: its request was answered, or could have been.
Verdict(t) ==
    CASE pc[t] \in {"accepted", "refused"} -> pc[t]
      [] pc[t] \in {"failed", "lost"} -> "unknown"
      [] OTHER -> "open"
ItemId(t) == Item(t).id
ItemValid(t) == Item(t).valid
Book == INSTANCE WithdrawalBook WITH
    Items <- Items, Id <- ItemId, Valid <- ItemValid,
    book <- withdrawals, verdict <- [t \in Items |-> Verdict(t)]

\* withdrawalRequest and multilpleWithdrawalRequest keep the promise of WithdrawalBook,
\* although they look for the id and insert in different steps.
ImplementsBook == Book!Spec

\* Every request that came is answered in the end, unless the process dies, or it is one
\* of the lists whose answer gets lost (handleRequest).
EveryRequestAnswered ==
    <>[](\A r \in Requests : (\E t \in TasksOf(r) : pc[t] # "idle") =>
            answer[r] # None \/ \E t \in TasksOf(r) : pc[t] \in {"lost", "silent"})
=============================================================================
