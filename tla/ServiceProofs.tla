--------------------------- MODULE ServiceProofs ---------------------------
(***************************************************************************)
(* Theorems about Service, for any requests and any number of failures.    *)
(***************************************************************************)
EXTENDS Service, TLAPS

----------------------------------------------------------------------------
(* The book of withdrawals *)

Fields == pc = [t \in Tasks |-> pc[t]] /\ withdrawals \subseteq Items

\* Of each withdrawal: it is stored from its insertion on and never before, and inserted
\* only when its address was found valid.
ItemInv(t) ==
    /\ t \in withdrawals => pc[t] \in {"answer", "accepted", "failed", "lost"}
    /\ pc[t] \in {"answer", "accepted"} => t \in withdrawals
    /\ pc[t] = "insert" => Item(t).valid

BookInv == Fields /\ \A t \in Items : ItemInv(t)

\* A step that does not concern the withdrawals.
Apart == Fields' /\ withdrawals' = withdrawals /\ \A u \in Items : pc'[u] = pc[u]

LEMMA ItemsAreTasks == Items \subseteq Tasks /\ Running \subseteq Tasks
  BY DEF Items, Running

LEMMA OtherTask ==
    ASSUME Fields, NEW t \in Tasks, t \notin Items, NEW s, Goto(t, s), withdrawals' = withdrawals
    PROVE  Apart
  BY ItemsAreTasks DEF Fields, Apart, Goto

LEMMA ApartKeeps ==
    ASSUME BookInv, Apart
    PROVE  BookInv' /\ UNCHANGED <<withdrawals, [t \in Items |-> Verdict(t)]>>
<1>1. \A t \in Items : ItemInv(t)' /\ Verdict(t)' = Verdict(t)
  BY DEF BookInv, Apart, ItemInv, Verdict, Item, Asked
<1> QED BY <1>1 DEF BookInv, Apart

\* The steps of the other operations.
OtherStep(t) ==
    \/ FindName(t) \/ CreateWallet(t) \/ UpdateAddress(t)
    \/ FindWallets(t) \/ UpsertConfig(t) \/ UpsertThreshold(t)
    \/ ReadConfig(t) \/ FindAddress(t) \/ Derive(t)
    \/ FindToken(t) \/ ReadDecimals(t) \/ CreateToken(t)
    \/ CallBroken(t) \/ ValidateAddress(t) \/ ReadList(t) \/ ReadTotals(t)

LEMMA OtherStepGoes ==
    ASSUME NEW t \in Tasks, OtherStep(t)
    PROVE  t \notin Items /\ withdrawals' = withdrawals /\ \E s : Goto(t, s)
<1> USE DEF At, Refuse, Reject, Succeed, Items, IsItem, Withdrawals, db
<1>1. CASE FindName(t) \/ CreateWallet(t) \/ UpdateAddress(t)
  BY <1>1 DEF FindName, CreateWallet, UpdateAddress
<1>2. CASE FindWallets(t) \/ UpsertConfig(t) \/ UpsertThreshold(t)
  BY <1>2 DEF FindWallets, UpsertConfig, UpsertThreshold
<1>3. CASE ReadConfig(t) \/ FindAddress(t) \/ Derive(t)
  BY <1>3 DEF ReadConfig, FindAddress, Derive
<1>4. CASE FindToken(t) \/ ReadDecimals(t) \/ CreateToken(t)
  BY <1>4 DEF FindToken, ReadDecimals, CreateToken
<1>5. CASE CallBroken(t)
  BY <1>5 DEF CallBroken, Broken
<1>6. CASE ValidateAddress(t) \/ ReadList(t) \/ ReadTotals(t)
  BY <1>6 DEF ValidateAddress, ReadList, ReadTotals
<1> QED BY <1>1, <1>2, <1>3, <1>4, <1>5, <1>6 DEF OtherStep

\* Every step keeps the invariant and is a step of the book.
LEMMA BookStep ==
    ASSUME BookInv, [Next]_vars
    PROVE  BookInv' /\ [Book!Next]_<<withdrawals, [t \in Items |-> Verdict(t)]>>
<1> DEFINE verdict == [t \in Items |-> Verdict(t)]
           States == {"open", "accepted", "refused", "unknown"}
<1> USE ItemsAreTasks
<1>a. \A t : Verdict(t) \in States
  BY DEF Verdict
<1>b. ASSUME NEW t \in Running, OtherStep(t) PROVE Apart
  BY <1>b, OtherStepGoes, OtherTask DEF BookInv
<1>1. CASE \E t \in Running : OtherStep(t)
  BY <1>1, <1>b, ApartKeeps
\* The steps of a withdrawal before it is stored: open or refused.
<1>2. ASSUME NEW t \in Items, pc[t] \in {"find", "token", "insert"}, withdrawals' = withdrawals,
             NEW s \in {"token", "insert", "refused"}, Goto(t, s),
             s = "insert" => Item(t).valid
      PROVE  BookInv' /\ Book!Tell
  <2>1. pc' = [pc EXCEPT ![t] = s] /\ Fields'
    BY <1>2 DEF Goto, BookInv, Fields
  <2>2. t \notin withdrawals
    BY <1>2 DEF BookInv, ItemInv
  <2>3. \A u \in Items : u # t => pc'[u] = pc[u]
    BY <2>1 DEF BookInv, Fields
  <2>4. pc'[t] = s
    BY <2>1 DEF BookInv, Fields
  <2>5. \A u \in Items : ItemInv(u)'
    BY <1>2, <2>2, <2>3, <2>4 DEF BookInv, ItemInv, Item, Asked
  <2>6. \A u \in Items : u # t => Verdict(u)' = Verdict(u)
    BY <2>3 DEF Verdict
  <2>7. Verdict(t) = "open" /\ Verdict(t)' \in {"open", "refused"}
    BY <1>2, <2>4 DEF Verdict
  <2>8. Book!Tell
    BY <1>a, <1>2, <2>2, <2>6, <2>7 DEF Book!Tell
  <2> QED BY <2>1, <2>5, <2>8 DEF BookInv
<1>3. ASSUME NEW t \in Running, FindWithdrawal(t) PROVE BookInv' /\ Book!Tell
  <2>1. t \in Items /\ pc[t] = "find" /\ withdrawals' = withdrawals
    BY <1>3 DEF FindWithdrawal, Items, Running, db
  <2>2. Goto(t, "token") \/ Goto(t, "refused")
    BY <1>3 DEF FindWithdrawal, Refuse, Reject
  <2> QED BY <2>1, <2>2, <1>2
<1>4. ASSUME NEW t \in Running, CheckWithdrawal(t) PROVE BookInv' /\ Book!Tell
  <2>1. t \in Items /\ pc[t] = "token" /\ withdrawals' = withdrawals
    BY <1>4 DEF CheckWithdrawal, Items, Running, db
  <2>2. (Goto(t, "insert") /\ Item(t).valid) \/ Goto(t, "refused")
    BY <1>4 DEF CheckWithdrawal, Refuse, Reject, Acceptable
  <2> QED BY <2>1, <2>2, <1>2
<1>5. ASSUME NEW t \in Running, InsertWithdrawal(t) PROVE BookInv' /\ Book!Next
  <2>1. t \in Items /\ pc[t] = "insert"
    BY <1>5 DEF InsertWithdrawal, Items, Running
  <2>2. CASE Clash(t)
    BY <1>5, <1>2, <2>1, <2>2 DEF InsertWithdrawal, Refuse, Reject, Book!Next
  <2>3. CASE ~Clash(t)
    <3>1. withdrawals' = withdrawals \cup {t} /\ pc' = [pc EXCEPT ![t] = "answer"]
      BY <1>5, <2>3 DEF InsertWithdrawal, Goto
    <3>2. Fields' /\ \A u \in Items : pc'[u] = IF u = t THEN "answer" ELSE pc[u]
      BY <2>1, <3>1 DEF BookInv, Fields
    <3>3. \A u \in Items : ItemInv(u)'
      BY <3>1, <3>2 DEF BookInv, ItemInv, Item, Asked
    <3>4. \A u \in Items : Verdict(u)' = Verdict(u)
      BY <2>1, <3>2 DEF Verdict
    <3>5. ItemValid(t) /\ Verdict(t) = "open"
      BY <2>1 DEF BookInv, ItemInv, ItemValid, Verdict
    <3>6. \A u \in withdrawals : ItemId(u) # ItemId(t)
      BY <2>3 DEF Clash, ItemId
    <3>7. Book!Take(t)
      BY <2>1, <3>1, <3>4, <3>5, <3>6 DEF Book!Take
    <3> QED BY <2>1, <3>2, <3>3, <3>7 DEF BookInv, Book!Next
  <2> QED BY <2>2, <2>3
\* Steps that end withdrawals: accepted where stored, else with an unknown verdict.
<1>6. ASSUME NEW ends \in SUBSET Running, NEW s \in {"accepted", "failed", "lost"},
             s = "accepted" => \A t \in ends : pc[t] = "answer",
             pc' = [t \in Tasks |-> IF t \in ends THEN s ELSE pc[t]], withdrawals' = withdrawals
      PROVE  BookInv' /\ Book!Tell
  <2>1. Fields' /\ \A u \in Items : pc'[u] = IF u \in ends THEN s ELSE pc[u]
    BY <1>6 DEF BookInv, Fields
  <2>2. \A u \in Items : ItemInv(u)'
    BY <1>6, <2>1 DEF BookInv, ItemInv, Item, Asked
  <2>3. \A u \in Items : u \notin ends => Verdict(u)' = Verdict(u)
    BY <2>1 DEF Verdict
  <2>4. ASSUME NEW u \in Items, u \in ends
        PROVE  /\ Verdict(u) = "open"
               /\ Verdict(u)' \in {"accepted", "unknown"}
               /\ Verdict(u)' = "accepted" => u \in withdrawals
    <3>1. Verdict(u) = "open"
      BY <2>4 DEF Running, Verdict
    <3>2. pc'[u] = s
      BY <2>1, <2>4
    <3> QED BY <1>6, <2>4, <3>1, <3>2 DEF Verdict, BookInv, ItemInv
  <2>5. Book!Tell
    BY <1>a, <1>6, <2>3, <2>4 DEF Book!Tell
  <2> QED BY <2>1, <2>2, <2>5 DEF BookInv
<1>7. ASSUME NEW t \in Running, Answer(t) PROVE BookInv' /\ Book!Tell
  <2>1. pc' = [pc EXCEPT ![t] = "accepted"] /\ pc[t] = "answer" /\ withdrawals' = withdrawals
    BY <1>7 DEF Answer, Succeed, Goto, db
  <2>2. pc' = [u \in Tasks |-> IF u \in {t} THEN "accepted" ELSE pc[u]]
    BY <2>1 DEF BookInv, Fields
  <2> QED BY <2>1, <2>2, <1>6
<1>8. ASSUME NEW t \in Running, Fail(t) PROVE BookInv' /\ (Book!Tell \/ Apart)
  <2>0. withdrawals' = withdrawals
    BY <1>8 DEF Fail, db
  <2>1. CASE Op(t[1]) \in {"getWallets", "getConfigWallets"}
    BY <1>8, <2>0, <2>1, OtherTask, ApartKeeps
    DEF Fail, Items, IsItem, Withdrawals, BookInv
  <2>2. CASE Op(t[1]) \notin {"getWallets", "getConfigWallets"}
    <3>1. pc' = [pc EXCEPT ![t] = "failed"]
      BY <1>8, <2>2 DEF Fail, Caught, Reject, Goto
    <3>2. pc' = [u \in Tasks |-> IF u \in {t} THEN "failed" ELSE pc[u]]
      BY <3>1 DEF BookInv, Fields
    <3> QED BY <2>0, <3>2, <1>6
  <2> QED BY <2>1, <2>2
<1>9. ASSUME Crash PROVE BookInv' /\ Book!Tell
  BY <1>9, <1>6 DEF Crash, db
<1>10. ASSUME NEW r \in scenario.requests, Receive(r) PROVE BookInv' /\ Book!Tell
  <2>1. withdrawals' = withdrawals /\ \A t \in TasksOf(r) : pc[t] = "idle"
    BY <1>10 DEF Receive, db
  <2>2. Fields' /\ \A t \in Items \ TasksOf(r) : pc'[t] = pc[t]
    BY <1>10 DEF Receive, db, BookInv, Fields
  <2>3. ASSUME NEW t \in Items, t \in TasksOf(r)
        PROVE  pc'[t] \in {"find", "refused"} /\ pc[t] = "idle" /\ t \notin withdrawals
    <3>1. t[1] = r
      BY <2>3 DEF TasksOf
    <3>2. FirstStep(r) = "find"
      <4>1. Op(r) \in Withdrawals
        BY <2>3, <3>1 DEF Items, IsItem
      <4> QED BY <4>1 DEF FirstStep, Withdrawals
    <3> QED BY <1>10, <2>1, <2>3, <3>2 DEF Receive, BookInv, ItemInv
  <2>4. \A u \in Items : ItemInv(u)'
    BY <2>1, <2>2, <2>3 DEF BookInv, ItemInv, Item, Asked
  <2>5. \A u \in Items \ TasksOf(r) : Verdict(u)' = Verdict(u)
    BY <2>2 DEF Verdict
  <2>6. \A u \in Items : u \in TasksOf(r) => Verdict(u) = "open" /\ Verdict(u)' \in {"open", "refused"}
    BY <2>3 DEF Verdict
  <2>7. Book!Tell
    BY <1>a, <2>1, <2>3, <2>5, <2>6 DEF Book!Tell
  <2> QED BY <2>2, <2>4, <2>7 DEF BookInv
<1>11. ASSUME (\E row \in inserting : InsertAddress(row) \/ DropAddress(row)) \/ UNCHANGED vars
       PROVE  Apart
  BY <1>11 DEF InsertAddress, DropAddress, db, vars, server, Apart, BookInv, Fields
<1>12. BookInv' /\ (Book!Next \/ UNCHANGED <<withdrawals, verdict>>)
  BY <1>1, <1>3, <1>4, <1>5, <1>7, <1>8, <1>9, <1>10, <1>11, ApartKeeps
  DEF Next, Step, OtherStep, Book!Next
<1> QED BY <1>12

\* Of the withdrawals with one id at most one is taken, whatever requests overlap and
\* whatever fails; what the client is told of them is true (withdrawalRequest,
\* multilpleWithdrawalRequest).
THEOREM ServiceImplementsBook == Spec => ImplementsBook
<1>1. Init => BookInv /\ Book!Init
  BY ItemsAreTasks DEF Init, BookInv, Fields, ItemInv, Book!Init, Verdict
<1>2. BookInv /\ [Next]_vars =>
          BookInv' /\ [Book!Next]_<<withdrawals, [t \in Items |-> Verdict(t)]>>
  BY BookStep
<1> QED BY <1>1, <1>2, PTL DEF Spec, ImplementsBook, Book!Spec

----------------------------------------------------------------------------
(* The shape of a step *)

States ==
    {"idle", "find", "create", "update", "upsert", "config", "derive", "token", "insert",
     "decimals", "read", "answer", "accepted", "refused", "failed", "lost", "silent"}

Shape ==
    /\ pc \in [Tasks -> States] /\ wallet = [t \in Tasks |-> wallet[t]]
    /\ answer = [r \in Requests |-> answer[r]]

LEMMA TaskOf ==
    /\ \A t \in Tasks : t[1] \in Requests /\ t \in TasksOf(t[1])
    /\ \A r \in Requests : Op(r) \notin Withdrawals => TasksOf(r) = {<<r, 1>>}
    /\ \A t \in Tasks : Op(t[1]) \notin Withdrawals => t = <<t[1], 1>>
    /\ \A r \in Requests : \A t \in TasksOf(r) : t \in Tasks /\ t[1] = r
  BY DEF Tasks, TasksOf, BatchOf

\* A task answers its request at most once: an exception, or a success when it is the
\* last of its request to succeed.
Replies(t) ==
    \/ UNCHANGED answer
    \/ /\ answer[t[1]] = None
       /\ \E body : answer' = [answer EXCEPT ![t[1]] = Reply(500, body)]
    \/ /\ answer[t[1]] = None /\ pc'[t] = "accepted"
       /\ \A u \in TasksOf(t[1]) \ {t} : pc[u] = "accepted"
       /\ \E body : answer' = [answer EXCEPT ![t[1]] = Reply(200, body)]

Moves(t) ==
    /\ \E s \in States : pc' = [pc EXCEPT ![t] = s]
    /\ Replies(t)

LEMMA RefuseMoves ==
    ASSUME Shape, NEW t \in Tasks, NEW s \in States, Reject(t, s)
    PROVE  Moves(t)
<1>1. CASE answer[t[1]] = None
  <2>1. answer' = [answer EXCEPT ![t[1]] = Reply(500, None)]
    BY <1>1, TaskOf DEF Shape, Reject, Answered
  <2> QED BY <1>1, <2>1 DEF Reject, Goto, Moves, Replies
<1>2. CASE answer[t[1]] # None
  <2>1. UNCHANGED answer
    BY <1>2, TaskOf DEF Shape, Reject, Answered
  <2> QED BY <2>1 DEF Reject, Goto, Moves, Replies
<1> QED BY <1>1, <1>2

LEMMA SucceedMoves ==
    ASSUME Shape, NEW t \in Tasks, NEW body, Succeed(t, body)
    PROVE  Moves(t) /\ pc'[t] = "accepted"
<1>1. pc' = [pc EXCEPT ![t] = "accepted"] /\ pc'[t] = "accepted" /\ "accepted" \in States
  BY DEF Succeed, Goto, Shape, States
<1>2. CASE answer[t[1]] = None
  BY <1>1, <1>2, TaskOf DEF Shape, Succeed, Answered, Moves, Replies
<1>3. CASE answer[t[1]] # None
  BY <1>1, <1>3, TaskOf DEF Shape, Succeed, Answered, Moves, Replies
<1> QED BY <1>2, <1>3

LEMMA GotoMoves ==
    ASSUME NEW t \in Tasks, NEW s \in States, Goto(t, s), UNCHANGED answer
    PROVE  Moves(t)
  BY DEF Goto, Moves, Replies

LEMMA StepMoves ==
    ASSUME Shape, NEW t \in Running, Step(t)
    PROVE  Moves(t) /\ Shape' /\ UNCHANGED <<scenario, troubles, dropped, met>>
<1>1. Moves(t)
  <2> USE ItemsAreTasks, RefuseMoves, SucceedMoves, GotoMoves DEF States, Refuse
  <2>1. CASE FindName(t) \/ FindWallets(t)
    BY <2>1 DEF FindName, FindWallets
  <2>2. CASE CreateWallet(t) \/ UpdateAddress(t) \/ UpsertConfig(t) \/ UpsertThreshold(t)
             \/ CreateToken(t)
    BY <2>2 DEF CreateWallet, UpdateAddress, UpsertConfig, UpsertThreshold, CreateToken
  <2>3. CASE ReadConfig(t) \/ ReadDecimals(t)
    BY <2>3 DEF ReadConfig, ReadDecimals
  <2>4. CASE FindAddress(t) \/ Derive(t)
    BY <2>4 DEF FindAddress, Derive
  <2>5. CASE FindWithdrawal(t) \/ CheckWithdrawal(t) \/ InsertWithdrawal(t)
    BY <2>5 DEF FindWithdrawal, CheckWithdrawal, InsertWithdrawal
  <2>6. CASE FindToken(t)
    BY <2>6 DEF FindToken
  <2>7. CASE Answer(t) \/ CallBroken(t) \/ ValidateAddress(t) \/ ReadList(t) \/ ReadTotals(t)
    BY <2>7 DEF Answer, CallBroken, ValidateAddress, ReadList, ReadTotals
  <2> QED BY <2>1, <2>2, <2>3, <2>4, <2>5, <2>6, <2>7 DEF Step
<1> USE DEF Step, FindName, FindWallets, CreateWallet, UpdateAddress, UpsertConfig, UpsertThreshold,
        CreateToken, ReadConfig, ReadDecimals, FindAddress, Derive, FindWithdrawal, CheckWithdrawal,
        InsertWithdrawal, FindToken, Answer, CallBroken, ValidateAddress, ReadList, ReadTotals
<1>2. UNCHANGED <<scenario, troubles, dropped, met>>
  OBVIOUS
<1>3. wallet' = [u \in Tasks |-> wallet'[u]]
  BY DEF Shape
<1>4. answer' = [r \in Requests |-> answer'[r]]
  BY <1>1 DEF Moves, Replies, Shape
<1>5. pc' \in [Tasks -> States]
  BY <1>1 DEF Moves, Shape
<1> QED BY <1>1, <1>2, <1>3, <1>4, <1>5 DEF Shape

----------------------------------------------------------------------------
(* The addresses a client is told *)

Rows == addresses \cup inserting \cup dropped
Told(b) == \E row \in Rows : <<row.wallet, row.path>> = b
ToldNext(b) == \E row \in Rows' : <<row.wallet, row.path>> = b

KnownInv ==
    /\ Shape /\ AddressKnown
    /\ \A t \in Tasks : Op(t[1]) = "addWallet" /\ pc[t] \in {"update", "answer"} => Told(<<t[1], 0>>)
    /\ \A t \in Tasks : Op(t[1]) = "getAddress" => pc[t] # "answer"

LEMMA RowsStay ==
    ASSUME [Next]_vars
    PROVE  Rows \subseteq Rows'
<1>1. ASSUME NEW t \in Running, Step(t) PROVE Rows \subseteq Rows'
  BY <1>1 DEF Rows, Step, FindName, FindWallets, CreateWallet, UpdateAddress, UpsertConfig,
     UpsertThreshold, CreateToken, ReadConfig, ReadDecimals, FindAddress, Derive, FindWithdrawal,
     CheckWithdrawal, InsertWithdrawal, FindToken, Answer, CallBroken, ValidateAddress, ReadList,
     ReadTotals, db
<1>2. ASSUME NEW t \in Running, Fail(t) PROVE Rows \subseteq Rows'
  BY <1>2 DEF Rows, Fail, db
<1>3. ASSUME NEW row \in inserting, InsertAddress(row) \/ DropAddress(row) PROVE Rows \subseteq Rows'
  BY <1>3 DEF Rows, InsertAddress, DropAddress, db
<1>4. ASSUME NEW r \in scenario.requests, Receive(r) PROVE Rows \subseteq Rows'
  BY <1>4 DEF Rows, Receive, db
<1>5. CASE Crash \/ UNCHANGED vars
  BY <1>5 DEF Rows, Crash, vars, db, server
<1> QED BY <1>1, <1>2, <1>3, <1>4, <1>5 DEF Next

\* A step that leaves the tasks of other requests alone.
LEMMA OthersTold ==
    ASSUME KnownInv, [Next]_vars, Shape', NEW t \in Tasks, Moves(t),
           Op(t[1]) = "addWallet" /\ pc'[t] \in {"update", "answer"} => ToldNext(<<t[1], 0>>),
           Op(t[1]) = "getAddress" => pc'[t] # "answer",
           Op(t[1]) \in {"addWallet", "getAddress"} /\ answer'[t[1]] # answer[t[1]]
               /\ answer'[t[1]].status = 200 => ToldNext(answer'[t[1]].body)
    PROVE  KnownInv'
<1>1. \A b : Told(b) => ToldNext(b)
  BY RowsStay DEF Told, ToldNext
<1>2. \A r \in Requests : r # t[1] => answer'[r] = answer[r]
  BY DEF Moves, Replies, Shape
<1>3. \A u \in Tasks : u # t => pc'[u] = pc[u]
  BY DEF Moves, Shape
<1>4. ASSUME NEW r \in Requests, Op(r) \in {"addWallet", "getAddress"}, answer'[r] # None,
             answer'[r].status = 200
      PROVE  ToldNext(answer'[r].body)
  <2>1. CASE answer'[r] = answer[r]
    BY <1>1, <1>4, <2>1 DEF KnownInv, AddressKnown, Told, Rows
  <2>2. CASE answer'[r] # answer[r]
    BY <1>2, <1>4, <2>2
  <2> QED BY <2>1, <2>2
<1>5. AddressKnown'
  BY <1>4 DEF AddressKnown, ToldNext, Rows
<1>6. \A u \in Tasks : Op(u[1]) = "addWallet" /\ pc'[u] \in {"update", "answer"} =>
          ToldNext(<<u[1], 0>>)
  BY <1>1, <1>3 DEF KnownInv
<1>7. \A u \in Tasks : Op(u[1]) = "getAddress" => pc'[u] # "answer"
  BY <1>3 DEF KnownInv
<1> QED BY <1>5, <1>6, <1>7 DEF KnownInv, Told, ToldNext

LEMMA StepTold ==
    ASSUME KnownInv, NEW t \in Running, Step(t)
    PROVE  KnownInv'
<1>1. t \in Tasks /\ [Next]_vars /\ Moves(t) /\ Shape'
  BY StepMoves, ItemsAreTasks DEF KnownInv, Next
<1>2. CASE Op(t[1]) \notin {"addWallet", "getAddress"}
  BY <1>1, <1>2, OthersTold
<1>3. CASE FindName(t) \/ ReadConfig(t)
  <2>1. pc'[t] \in {"create", "find", "refused"}
    BY <1>1, <1>3 DEF FindName, ReadConfig, Refuse, Reject, Goto, KnownInv, Shape
  <2>2. answer'[t[1]] # answer[t[1]] => answer'[t[1]].status = 500
    BY <1>1, <1>3, TaskOf DEF FindName, ReadConfig, Refuse, Reject, Answered, Reply, KnownInv, Shape
  <2>3. pc'[t] \notin {"update", "answer"}
    BY <2>1
  <2>4. ~(answer'[t[1]] # answer[t[1]] /\ answer'[t[1]].status = 200)
    BY <2>2
  <2> QED BY <1>1, <2>3, <2>4, OthersTold
<1>4. CASE CreateWallet(t) \/ UpdateAddress(t)
  <2>1. Op(t[1]) = "addWallet" /\ answer' = answer
    BY <1>4 DEF CreateWallet, UpdateAddress, At
  <2>2. CASE CreateWallet(t)
    <3>1. NewRow(t[1], t[1], 0) \in Rows'
      BY <2>2 DEF CreateWallet, Rows
    <3>2. ToldNext(<<t[1], 0>>)
      BY <3>1 DEF ToldNext, NewRow, AddressRow
    <3> QED BY <1>1, <2>1, <3>2, OthersTold
  <2>3. CASE UpdateAddress(t)
    <3>1. Told(<<t[1], 0>>)
      BY <1>1, <2>1, <2>3 DEF KnownInv, UpdateAddress, At
    <3>2. ToldNext(<<t[1], 0>>)
      BY <1>1, <3>1, RowsStay DEF Told, ToldNext
    <3> QED BY <1>1, <2>1, <3>2, OthersTold
  <2> QED BY <1>4, <2>2, <2>3
<1>5. CASE FindAddress(t) \/ Derive(t)
  <2>1. Op(t[1]) = "getAddress" /\ pc'[t] # "answer"
    BY <1>1, <1>5 DEF FindAddress, Derive, At, Succeed, Goto, KnownInv, Shape
  <2>2. ASSUME answer'[t[1]] # answer[t[1]]
        PROVE  /\ answer'[t[1]].body = <<wallet[t], Asked(t).path>>
               /\ Stored(wallet[t], Asked(t).path) \/ NewRow(t[1], wallet[t], Asked(t).path) \in Rows'
    BY <1>1, <1>5, <2>2, TaskOf DEF FindAddress, Derive, Succeed, Answered, Reply, KnownInv, Shape, Rows
  <2>3. Stored(wallet[t], Asked(t).path) => Told(<<wallet[t], Asked(t).path>>)
    BY DEF Stored, Told, Rows
  <2>4. NewRow(t[1], wallet[t], Asked(t).path) \in Rows' => ToldNext(<<wallet[t], Asked(t).path>>)
    BY DEF ToldNext, NewRow, AddressRow
  <2>5. Told(<<wallet[t], Asked(t).path>>) => ToldNext(<<wallet[t], Asked(t).path>>)
    BY <1>1, RowsStay DEF Told, ToldNext
  <2>6. answer'[t[1]] # answer[t[1]] => ToldNext(answer'[t[1]].body)
    BY <2>2, <2>3, <2>4, <2>5
  <2>7. Op(t[1]) # "addWallet"
    BY <2>1
  <2> QED BY <1>1, <2>1, <2>6, <2>7, OthersTold
<1>6. CASE Answer(t) /\ Op(t[1]) = "addWallet"
  <2>1. pc[t] = "answer" /\ pc'[t] = "accepted"
    BY <1>1, <1>6 DEF Answer, Succeed, Goto, KnownInv, Shape
  <2>2. ToldNext(<<t[1], 0>>)
    BY <1>1, <1>6, <2>1, RowsStay DEF KnownInv, Told, ToldNext
  <2>3. answer'[t[1]] # answer[t[1]] => answer'[t[1]].body = <<t[1], 0>>
    BY <1>1, <1>6, TaskOf DEF Answer, Succeed, Answered, Reply, KnownInv, Shape
  <2>4. Op(t[1]) # "getAddress"
    BY <1>6
  <2> QED BY <1>1, <2>2, <2>3, <2>4, OthersTold
\* The steps of the other operations.
<1>7. ASSUME Op(t[1]) \in {"addWallet", "getAddress"}
      PROVE  \/ FindName(t) \/ ReadConfig(t) \/ CreateWallet(t) \/ UpdateAddress(t)
             \/ FindAddress(t) \/ Derive(t) \/ (Answer(t) /\ Op(t[1]) = "addWallet")
  <2>1. Answer(t) => Op(t[1]) = "addWallet"
    BY <1>1, <1>7 DEF Answer, KnownInv
  <2>2. ~(FindWithdrawal(t) \/ CheckWithdrawal(t) \/ InsertWithdrawal(t) \/ CallBroken(t))
    BY <1>7 DEF FindWithdrawal, CheckWithdrawal, InsertWithdrawal, CallBroken, IsItem,
       Withdrawals, Broken
  <2>3. ~(\/ FindWallets(t) \/ UpsertConfig(t) \/ UpsertThreshold(t) \/ FindToken(t)
          \/ ReadDecimals(t) \/ CreateToken(t) \/ ValidateAddress(t) \/ ReadList(t)
          \/ ReadTotals(t))
    BY <1>7 DEF FindWallets, UpsertConfig, UpsertThreshold, FindToken, ReadDecimals, CreateToken,
       ValidateAddress, ReadList, ReadTotals, At
  <2> QED BY <2>1, <2>2, <2>3 DEF Step
<1> QED BY <1>2, <1>3, <1>4, <1>5, <1>6, <1>7

\* A step that moves tasks to states where they have nothing to tell, and tells nothing.
LEMMA NothingTold ==
    ASSUME KnownInv, [Next]_vars, Shape',
           \A t \in Tasks : pc'[t] \in {"update", "answer"} => pc'[t] = pc[t],
           \A r \in Requests : answer'[r] # answer[r] => answer'[r].status # 200
    PROVE  KnownInv'
<1>1. \A b : Told(b) => ToldNext(b)
  BY RowsStay DEF Told, ToldNext
<1>2. ASSUME NEW r \in Requests, Op(r) \in {"addWallet", "getAddress"}, answer'[r] # None,
             answer'[r].status = 200
      PROVE  ToldNext(answer'[r].body)
  <2>1. answer'[r] = answer[r]
    BY <1>2
  <2>2. answer[r] # None /\ answer[r].status = 200
    BY <1>2, <2>1
  <2>3. Told(answer[r].body)
    BY <1>2, <2>2 DEF KnownInv, AddressKnown, Told, Rows
  <2> QED BY <1>1, <2>1, <2>3
<1>3. AddressKnown'
  BY <1>2 DEF AddressKnown, ToldNext, Rows
<1>4. \A u \in Tasks : Op(u[1]) = "addWallet" /\ pc'[u] \in {"update", "answer"} =>
          ToldNext(<<u[1], 0>>)
  BY <1>1 DEF KnownInv
<1>5. \A u \in Tasks : Op(u[1]) = "getAddress" => pc'[u] # "answer"
  BY DEF KnownInv
<1> QED BY <1>3, <1>4, <1>5 DEF KnownInv, Told, ToldNext

LEMMA KnownStep == KnownInv /\ [Next]_vars => KnownInv'
<1> SUFFICES ASSUME KnownInv, [Next]_vars PROVE KnownInv'
  OBVIOUS
<1> USE DEF KnownInv
<1>1. ASSUME NEW t \in Running, Step(t) PROVE KnownInv'
  BY <1>1, StepTold
<1>2. ASSUME NEW t \in Running, Fail(t) PROVE KnownInv'
  <2>1. t \in Tasks /\ t[1] \in Requests
    BY ItemsAreTasks, TaskOf
  <2>2. \E s \in {"silent", "failed"} : pc' = [pc EXCEPT ![t] = s]
    BY <1>2 DEF Fail, Caught, Reject, Goto
  <2>3. UNCHANGED answer \/ Answered(t[1], Reply(500, None))
    BY <1>2 DEF Fail, Caught, Reject
  <2>4. Shape'
    <3>1. pc' \in [Tasks -> States]
      BY <2>1, <2>2 DEF Shape, States
    <3>2. wallet' = wallet
      BY <1>2 DEF Fail
    <3>3. answer' = [r \in Requests |-> answer'[r]]
      BY <2>3 DEF Shape, Answered
    <3> QED BY <3>1, <3>2, <3>3 DEF Shape
  <2>5. \A u \in Tasks : pc'[u] \in {"update", "answer"} => pc'[u] = pc[u]
    BY <2>1, <2>2 DEF Shape
  <2>6. \A r \in Requests : answer'[r] # answer[r] => answer'[r].status # 200
    BY <2>1, <2>3 DEF Shape, Answered, Reply
  <2> QED BY <2>4, <2>5, <2>6, NothingTold
<1>3. ASSUME NEW row \in inserting, InsertAddress(row) \/ DropAddress(row) PROVE KnownInv'
  <2>1. UNCHANGED <<pc, wallet, answer>>
    BY <1>3 DEF InsertAddress, DropAddress
  <2> QED BY <2>1, NothingTold DEF Shape
<1>4. ASSUME NEW r \in scenario.requests, Receive(r) PROVE KnownInv'
  <2>1. \A t \in Tasks : pc'[t] = pc[t] \/ pc'[t] \in {"find", "config", "upsert", "read", "refused"}
    BY <1>4 DEF Receive, FirstStep
  <2>2. pc' = [t \in Tasks |-> pc'[t]]
    BY <1>4 DEF Receive
  <2>3. UNCHANGED answer \/ Answered(r, Reply(Status(r), None))
    BY <1>4 DEF Receive
  <2>4. Shape'
    <3>1. pc' \in [Tasks -> States]
      BY <2>1, <2>2 DEF Shape, States
    <3>2. wallet' = wallet
      BY <1>4 DEF Receive
    <3>3. answer' = [q \in Requests |-> answer'[q]]
      BY <2>3 DEF Shape, Answered
    <3> QED BY <3>1, <3>2, <3>3 DEF Shape
  <2>5. \A q \in Requests : answer'[q] # answer[q] => answer'[q].status # 200
    BY <2>3 DEF Shape, Answered, Reply, Status
  <2> QED BY <2>1, <2>4, <2>5, NothingTold
<1>5. CASE Crash
  <2>1. \A t \in Tasks : pc'[t] = pc[t] \/ pc'[t] = "lost"
    BY <1>5 DEF Crash
  <2>2. Shape'
    BY <1>5 DEF Crash, Shape, States
  <2> QED BY <1>5, <2>1, <2>2, NothingTold DEF Crash
<1>6. CASE UNCHANGED vars
  <2>1. UNCHANGED <<pc, wallet, answer>>
    BY <1>6 DEF vars, server
  <2> QED BY <2>1, NothingTold DEF Shape
<1> QED BY <1>1, <1>2, <1>3, <1>4, <1>5, <1>6 DEF Next

\* Whatever overlaps, fails or is lost: an address a client was given is stored, on its
\* way, or its insertion failed (addWallet, getAddress).
THEOREM AddressesAreKnown == Spec => []AddressKnown
<1>1. Init => KnownInv
  BY DEF Init, KnownInv, Shape, States, AddressKnown
<1> QED BY <1>1, KnownStep, PTL DEF Spec, KnownInv

----------------------------------------------------------------------------
(* Duplicates *)

Pair(a, b) == a = b \/ {a, b} \in met
OnWay == addresses \cup inserting

\* Requests whose work is not over have met each other.
Flights == \A q, r \in InFlight : Pair(q, r)

\* What steps of the operations leave alone.
LEMMA Effects ==
    ASSUME NEW t \in Running, Step(t)
    PROVE  /\ addresses' = addresses /\ met' = met
           /\ CreateWallet(t) \/ UpdateAddress(t) \/ wallets' = wallets
           /\ CreateWallet(t) \/ Derive(t) \/ inserting' = inserting
           /\ CreateToken(t) \/ tokens' = tokens
           /\ UpsertConfig(t) \/ config' = config
           /\ ReadConfig(t) \/ wallet' = wallet
  BY DEF Step, FindName, FindWallets, CreateWallet, UpdateAddress, UpsertConfig, UpsertThreshold,
     CreateToken, ReadConfig, ReadDecimals, FindAddress, Derive, FindWithdrawal, CheckWithdrawal,
     InsertWithdrawal, FindToken, Answer, CallBroken, ValidateAddress, ReadList, ReadTotals, db

\* Which steps an operation has.
LEMMA StepsOf ==
    ASSUME NEW t \in Running, Step(t)
    PROVE  /\ Op(t[1]) = "addWallet" =>
                  FindName(t) \/ CreateWallet(t) \/ UpdateAddress(t) \/ Answer(t)
           /\ Op(t[1]) = "getAddress" =>
                  ReadConfig(t) \/ FindAddress(t) \/ Derive(t) \/ Answer(t)
           /\ Op(t[1]) = "addSmartContract" =>
                  FindToken(t) \/ ReadDecimals(t) \/ CreateToken(t) \/ Answer(t)
           /\ Op(t[1]) = "configWallet" =>
                  FindWallets(t) \/ UpsertConfig(t) \/ Answer(t)
<1> DEFINE items == FindWithdrawal(t) \/ CheckWithdrawal(t) \/ InsertWithdrawal(t) \/ CallBroken(t)
           others == UpsertThreshold(t) \/ ValidateAddress(t) \/ ReadList(t) \/ ReadTotals(t)
           wal == FindName(t) \/ CreateWallet(t) \/ UpdateAddress(t)
           adr == ReadConfig(t) \/ FindAddress(t) \/ Derive(t)
           tok == FindToken(t) \/ ReadDecimals(t) \/ CreateToken(t)
           con == FindWallets(t) \/ UpsertConfig(t)
<1>1. items => Op(t[1]) \in Withdrawals \cup Broken
  BY DEF FindWithdrawal, CheckWithdrawal, InsertWithdrawal, CallBroken, IsItem
<1>2. others => Op(t[1]) \in Lists \cup {"setWalletThreshold"}
  BY DEF UpsertThreshold, ValidateAddress, ReadList, ReadTotals, At, Lists
<1>3. wal => Op(t[1]) = "addWallet"
  BY DEF FindName, CreateWallet, UpdateAddress, At
<1>4. adr => Op(t[1]) = "getAddress"
  BY DEF ReadConfig, FindAddress, Derive, At
<1>5. tok => Op(t[1]) = "addSmartContract"
  BY DEF FindToken, ReadDecimals, CreateToken, At
<1>6. con => Op(t[1]) = "configWallet"
  BY DEF FindWallets, UpsertConfig, At
<1>7. items \/ others \/ wal \/ adr \/ tok \/ con \/ Answer(t)
  BY DEF Step
<1>8. \A o \in {"addWallet", "getAddress", "addSmartContract", "configWallet"} :
          o \notin Withdrawals \cup Broken /\ o \notin Lists \cup {"setWalletThreshold"}
  BY DEF Withdrawals, Broken, Lists
<1> HIDE DEF items, others
<1> QED BY <1>1, <1>2, <1>3, <1>4, <1>5, <1>6, <1>7, <1>8

\* What happens to the tasks outside of their steps.
Ended == {"lost", "failed", "silent", "refused"}
Outside ==
    /\ UNCHANGED <<wallets, config, tokens, wallet>>
    /\ (addresses' \cup inserting') \subseteq OnWay /\ met \subseteq met'
    /\ \A t \in Tasks :
          \/ pc'[t] = pc[t] \/ pc'[t] \in Ended
          \/ pc[t] = "idle" /\ Handled(t[1]) /\ pc'[t] = FirstStep(t[1])

LEMMA OutsideSteps ==
    ASSUME Shape, [Next]_vars, \A t \in Running : ~Step(t)
    PROVE  Outside
<1>1. ASSUME NEW t \in Running, Fail(t) PROVE Outside
  BY <1>1, ItemsAreTasks DEF Fail, Caught, Reject, Goto, Outside, OnWay, Shape, Ended, db
<1>2. ASSUME NEW row \in inserting, InsertAddress(row) \/ DropAddress(row) PROVE Outside
  BY <1>2 DEF InsertAddress, DropAddress, Outside, OnWay, db
<1>3. ASSUME NEW r \in scenario.requests, Receive(r) PROVE Outside
  <2>1. \A t \in Tasks : t \in TasksOf(r) => t[1] = r
    BY DEF TasksOf
  <2> QED BY <1>3, <2>1 DEF Receive, Outside, OnWay, Ended, db
<1>4. CASE Crash
  BY <1>4 DEF Crash, Outside, OnWay, Ended, db
<1>5. CASE UNCHANGED vars
  BY <1>5 DEF Outside, OnWay, vars, db, server
<1> QED BY <1>1, <1>2, <1>3, <1>4, <1>5 DEF Next

LEMMA FlightsStay ==
    ASSUME Shape, Flights, [Next]_vars
    PROVE  Flights'
<1>1. ASSUME InFlight' \subseteq InFlight, met' = met PROVE Flights'
  BY <1>1 DEF Flights, Pair
<1>2. ASSUME NEW t \in Running, Step(t) PROVE Flights'
  <2>1. Moves(t) /\ met' = met /\ t[1] \in InFlight
    BY <1>2, StepMoves, Effects DEF InFlight
  <2>2. Running' \subseteq Running
    BY <2>1, ItemsAreTasks DEF Moves, Shape, Running
  <2>3. \A row \in inserting' : row \in inserting \/ row.by = t[1]
    <3>1. CASE CreateWallet(t)
      BY <3>1 DEF CreateWallet, NewRow, AddressRow
    <3>2. CASE Derive(t)
      BY <3>2 DEF Derive, NewRow, AddressRow
    <3> QED BY <1>2, <3>1, <3>2, Effects
  <2> QED BY <1>1, <2>1, <2>2, <2>3 DEF InFlight
<1>3. ASSUME NEW t \in Running, Fail(t) PROVE Flights'
  <2>1. Running' \subseteq Running
    BY <1>3 DEF Fail, Caught, Reject, Goto, Shape, Running
  <2> QED BY <1>1, <1>3, <2>1 DEF Fail, InFlight
<1>4. ASSUME NEW row \in inserting, InsertAddress(row) \/ DropAddress(row) PROVE Flights'
  BY <1>1, <1>4 DEF InsertAddress, DropAddress, InFlight, Running
<1>5. ASSUME NEW r \in scenario.requests, Receive(r) PROVE Flights'
  <2>1. CASE Handled(r)
    <3>1. InFlight' \subseteq InFlight \cup {r}
      BY <1>5, <2>1 DEF Receive, InFlight, Running, TasksOf
    <3>2. met' = met \cup {{r, q} : q \in InFlight}
      BY <1>5, <2>1 DEF Receive
    <3> QED BY <3>1, <3>2 DEF Flights, Pair
  <2>2. CASE ~Handled(r)
    <3>1. InFlight' \subseteq InFlight /\ met' = met
      BY <1>5, <2>2 DEF Receive, InFlight, Running
    <3> QED BY <1>1, <3>1
  <2> QED BY <2>1, <2>2
<1>6. CASE Crash
  <2>1. InFlight' \subseteq InFlight /\ met' = met
    BY <1>6 DEF Crash, InFlight, Running
  <2> QED BY <1>1, <2>1
<1>7. CASE UNCHANGED vars
  BY <1>1, <1>7 DEF vars, server, InFlight, Running
<1> QED BY <1>2, <1>3, <1>4, <1>5, <1>6, <1>7 DEF Next

\* A request makes one wallet, after it found none of its name but those of requests
\* it met.
WalletRow(w) == w = [by |-> w.by, service |-> w.service, name |-> w.name, complete |-> w.complete]
WalletInv ==
    /\ \A w \in wallets : WalletRow(w)
    /\ \A v, w \in wallets : v.by = w.by => v = w
    /\ \A v, w \in wallets : v.service = w.service /\ v.name = w.name => Pair(v.by, w.by)
    /\ \A t \in Tasks : \A w \in wallets :
          Op(t[1]) = "addWallet" /\ pc[t] \in {"idle", "find", "create"} => w.by # t[1]
    /\ \A t \in Tasks : \A w \in wallets :
          At(t, "addWallet", "create") /\ w.service = Currency(t[1]) /\ w.name = Asked(t).name
              => Pair(w.by, t[1])

LEMMA WalletStays ==
    ASSUME Shape, Flights, WalletInv, [Next]_vars
    PROVE  WalletInv'
<1>1. ASSUME wallets' = wallets, met \subseteq met',
             \A u \in Tasks : Op(u[1]) = "addWallet" =>
                 /\ pc'[u] \in {"idle", "find", "create"} => pc[u] \in {"idle", "find", "create"}
                 /\ pc'[u] = "create" => pc[u] = "create"
      PROVE  WalletInv'
  BY <1>1 DEF WalletInv, Pair, At, Asked
<1>2. ASSUME NEW t \in Running, Step(t) PROVE WalletInv'
  <2>1. t \in Tasks /\ Moves(t) /\ met' = met /\ Shape'
    BY <1>2, StepMoves, Effects, ItemsAreTasks
  <2>2. \A u \in Tasks : u # t => pc'[u] = pc[u]
    BY <2>1 DEF Moves, Shape
  <2>3. CASE CreateWallet(t)
    <3> DEFINE n == [by |-> t[1], service |-> Currency(t[1]), name |-> Asked(t).name,
                     complete |-> FALSE]
    <3>1. wallets' = wallets \cup {n} /\ At(t, "addWallet", "create") /\ pc'[t] = "update"
      BY <2>1, <2>3 DEF CreateWallet, Goto, Shape
    <3>2. \A w \in wallets : w.by # t[1]
      BY <2>1, <3>1 DEF WalletInv, At
    <3>3. \A w \in wallets : w.service = n.service /\ w.name = n.name => Pair(w.by, t[1])
      BY <2>1, <3>1 DEF WalletInv
    <3>4. \A u \in Tasks : Op(u[1]) = "addWallet" /\ u[1] = t[1] => u = t
      BY <2>1, TaskOf DEF Withdrawals
    <3>5. \A u \in Tasks : At(u, "addWallet", "create") => Pair(t[1], u[1])
      BY <1>2 DEF Flights, InFlight, Running, At
    <3>6. \A a, b : Pair(a, b)' = Pair(a, b) /\ Pair(a, b) = Pair(b, a)
      BY <2>1 DEF Pair
    <3>0. WalletRow(n) /\ n.by = t[1] /\ n.service = Currency(t[1]) /\ n.name = Asked(t).name
      BY DEF WalletRow
    <3> HIDE DEF n
    <3>7. (\A w \in wallets' : WalletRow(w)) /\ \A v, w \in wallets' : v.by = w.by => v = w
      BY <3>0, <3>1, <3>2 DEF WalletInv
    <3>8. \A v, w \in wallets' : v.service = w.service /\ v.name = w.name => Pair(v.by, w.by)'
      <4>1. ASSUME NEW v \in wallets', NEW w \in wallets', v.service = w.service, v.name = w.name
            PROVE  Pair(v.by, w.by)
        <5>1. CASE v \in wallets /\ w \in wallets
          BY <4>1, <5>1 DEF WalletInv
        <5>2. CASE v = n /\ w = n
          BY <5>2 DEF Pair
        <5>3. CASE v = n /\ w \in wallets
          BY <3>0, <3>3, <3>6, <4>1, <5>3
        <5>4. CASE v \in wallets /\ w = n
          BY <3>0, <3>3, <4>1, <5>4
        <5> QED BY <3>1, <4>1, <5>1, <5>2, <5>3, <5>4
      <4> QED BY <3>6, <4>1
    <3>9. \A u \in Tasks : \A w \in wallets' :
              Op(u[1]) = "addWallet" /\ pc'[u] \in {"idle", "find", "create"} => w.by # u[1]
      BY <2>2, <3>0, <3>1, <3>4 DEF WalletInv
    <3>10. \A u \in Tasks : \A w \in wallets' :
              At(u, "addWallet", "create")' /\ w.service = Currency(u[1]) /\ w.name = Asked(u).name
                  => Pair(w.by, u[1])'
      BY <2>2, <3>0, <3>1, <3>5, <3>6 DEF WalletInv, At
    <3> QED BY <3>7, <3>8, <3>9, <3>10 DEF WalletInv, Asked
  <2>4. CASE UpdateAddress(t)
    <3>1. \A w \in wallets' : \E v \in wallets :
              /\ v.by = w.by /\ v.service = w.service /\ v.name = w.name /\ WalletRow(w)
              /\ w = [v EXCEPT !.complete = v.complete \/ v.by = t[1]]
      <4>1. ASSUME NEW v \in wallets, NEW w, w = [v EXCEPT !.complete = v.complete \/ v.by = t[1]]
            PROVE  v.by = w.by /\ v.service = w.service /\ v.name = w.name /\ WalletRow(w)
        BY <4>1 DEF WalletInv, WalletRow
      <4> QED BY <2>4, <4>1 DEF UpdateAddress, Updated
    <3>2. pc'[t] = "answer"
      BY <2>1, <2>4 DEF UpdateAddress, Goto, Shape
    <3> QED BY <2>1, <2>2, <3>1, <3>2 DEF WalletInv, Pair, At, Asked
  <2>5. CASE FindName(t) /\ pc'[t] = "create"
    <3>1. wallets' = wallets /\ pc[t] = "find"
      BY <2>5 DEF FindName, At, db
    <3>2. SameName(t) = {}
      BY <2>1, <2>5 DEF FindName, Refuse, Reject, Goto, Shape
    <3> QED BY <2>1, <2>2, <2>5, <3>1, <3>2 DEF WalletInv, Pair, At, Asked, SameName
  <2>6. CASE ~CreateWallet(t) /\ ~UpdateAddress(t) /\ ~(FindName(t) /\ pc'[t] = "create")
    <3>1. wallets' = wallets
      BY <1>2, <2>6, Effects
    <3>2. FindName(t) => pc'[t] \in {"refused", "create"}
      BY <2>1 DEF FindName, Refuse, Reject, Goto, Shape
    <3>3. Answer(t) => pc'[t] = "accepted"
      BY <2>1 DEF Answer, Succeed, Goto, Shape
    <3> QED BY <1>1, <1>2, <2>1, <2>2, <2>6, <3>1, <3>2, <3>3, StepsOf
  <2> QED BY <2>3, <2>4, <2>5, <2>6
<1>3. ASSUME \A t \in Running : ~Step(t) PROVE WalletInv'
  BY <1>1, <1>3, OutsideSteps DEF Outside, Ended, FirstStep
<1> QED BY <1>2, <1>3

\* A wallet that is configured, that a task works with or that has an address is there.
Made(b) == \E w \in wallets : w.by = b
MadeNext(b) == \E w \in wallets' : w.by = b
MadeInv ==
    /\ config = [s \in Services |-> config[s]]
    /\ \A s \in Services : config[s] # None => Made(config[s][1])
    /\ \A t \in Tasks :
          /\ Op(t[1]) = "getAddress" /\ pc[t] = "config" => Currency(t[1]) \in Services
          /\ Op(t[1]) = "getAddress" /\ pc[t] \in {"find", "derive"} => Made(wallet[t])
          /\ Op(t[1]) = "configWallet" /\ pc[t] = "upsert" => Made(Asked(t).wallets[1])
    /\ \A row \in OnWay : Made(row.wallet)

LEMMA WalletsRemain ==
    ASSUME Shape, WalletInv, [Next]_vars
    PROVE  \A b : Made(b) => MadeNext(b)
<1>1. CASE wallets' = wallets
  BY <1>1 DEF Made, MadeNext
<1>2. ASSUME NEW t \in Running, Step(t) PROVE \A b : Made(b) => MadeNext(b)
  <2>1. CASE CreateWallet(t)
    BY <2>1 DEF CreateWallet, Made, MadeNext
  <2>2. CASE UpdateAddress(t)
    <3>1. ASSUME NEW w \in wallets
          PROVE  \E v \in wallets' : v.by = w.by
      <4>1. [w EXCEPT !.complete = w.complete \/ w.by = t[1]] \in wallets'
        BY <2>2 DEF UpdateAddress, Updated
      <4>2. [w EXCEPT !.complete = w.complete \/ w.by = t[1]].by = w.by
        BY DEF WalletInv, WalletRow
      <4> QED BY <4>1, <4>2
    <3> QED BY <3>1 DEF Made, MadeNext
  <2> QED BY <1>1, <1>2, <2>1, <2>2, Effects
<1>3. CASE \A t \in Running : ~Step(t)
  BY <1>1, <1>3, OutsideSteps DEF Outside
<1> QED BY <1>2, <1>3

LEMMA MadeStays ==
    ASSUME Shape, WalletInv, MadeInv, [Next]_vars
    PROVE  MadeInv'
<1>0. \A b : Made(b) => MadeNext(b)
  BY WalletsRemain
<1>1. ASSUME NEW t \in Running, Step(t) PROVE MadeInv'
  <2>1. t \in Tasks /\ Moves(t) /\ Shape' /\ addresses' = addresses
    BY <1>1, StepMoves, Effects, ItemsAreTasks
  <2>2. \A u \in Tasks : u # t => pc'[u] = pc[u]
    BY <2>1 DEF Moves, Shape
  <2>3. /\ config' = [s \in Services |-> config'[s]]
        /\ \A s \in Services : config'[s] # None => MadeNext(config'[s][1])
    <3>1. CASE UpsertConfig(t)
      <4>1. config' = [config EXCEPT ![Currency(t[1])] = Asked(t).wallets]
        BY <3>1 DEF UpsertConfig
      <4>2. Made(Asked(t).wallets[1])
        BY <2>1, <3>1 DEF UpsertConfig, At, MadeInv
      <4> QED BY <1>0, <4>1, <4>2 DEF MadeInv
    <3>2. CASE config' = config
      BY <1>0, <3>2 DEF MadeInv
    <3> QED BY <1>1, <3>1, <3>2, Effects
  <2>4. \A row \in addresses' \cup inserting' : MadeNext(row.wallet)
    <3>1. CASE CreateWallet(t)
      <4>1. inserting' = inserting \cup {NewRow(t[1], t[1], 0)} /\ MadeNext(t[1])
        <5>1. \E w \in wallets' : w = [by |-> t[1], service |-> Currency(t[1]),
                                      name |-> Asked(t).name, complete |-> FALSE]
          BY <3>1 DEF CreateWallet
        <5> QED BY <3>1, <5>1 DEF CreateWallet, MadeNext
      <4> QED BY <1>0, <2>1, <4>1 DEF MadeInv, OnWay, NewRow, AddressRow
    <3>2. CASE Derive(t)
      <4>1. inserting' = inserting \cup {NewRow(t[1], wallet[t], Asked(t).path)} /\ Made(wallet[t])
        BY <2>1, <3>2 DEF Derive, At, MadeInv
      <4> QED BY <1>0, <2>1, <4>1 DEF MadeInv, OnWay, NewRow, AddressRow
    <3>3. CASE inserting' = inserting
      BY <1>0, <2>1, <3>3 DEF MadeInv, OnWay
    <3> QED BY <1>1, <3>1, <3>2, <3>3, Effects
  <2>5. ASSUME NEW u \in Tasks, u # t
        PROVE  wallet'[u] = wallet[u]
    BY <1>1, <2>1, <2>5, Effects DEF ReadConfig, Shape
  <2>6. Op(t[1]) = "getAddress" =>
            pc'[t] # "config" /\ (pc'[t] \in {"find", "derive"} => MadeNext(wallet'[t]))
    <3>1. CASE ReadConfig(t)
      <4>1. pc'[t] \in {"refused", "find"}
        BY <2>1, <3>1 DEF ReadConfig, Refuse, Reject, Goto, Shape
      <4>2. Currency(t[1]) \in Services
        BY <2>1, <3>1 DEF ReadConfig, At, MadeInv
      <4>3. pc'[t] = "find" => config[Currency(t[1])] # None /\ wallet'[t] = config[Currency(t[1])][1]
        BY <2>1, <3>1 DEF ReadConfig, Refuse, Reject, Goto, Shape
      <4> QED BY <1>0, <4>1, <4>2, <4>3 DEF MadeInv
    <3>2. CASE FindAddress(t) \/ Derive(t) \/ Answer(t)
      <4>1. pc'[t] \in {"accepted", "derive"} /\ wallet' = wallet
        BY <2>1, <3>2 DEF FindAddress, Derive, Answer, Succeed, Goto, Shape
      <4>2. Op(t[1]) = "getAddress" /\ pc'[t] = "derive" => Made(wallet[t])
        BY <2>1, <3>2 DEF FindAddress, Derive, Answer, Succeed, Goto, Shape, At, MadeInv
      <4> QED BY <1>0, <4>1, <4>2
    <3> QED BY <1>1, <3>1, <3>2, StepsOf
  <2>7. Op(t[1]) = "configWallet" /\ pc'[t] = "upsert" => MadeNext(Asked(t).wallets[1])
    <3>1. CASE FindWallets(t)
      <4>1. Op(t[1]) = "configWallet" /\ pc'[t] = "upsert" => WalletsFound(t)
        BY <2>1, <3>1 DEF FindWallets, Refuse, Reject, Goto, Shape
      <4>2. Op(t[1]) = "configWallet" => 1 \in DOMAIN Asked(t).wallets
        BY RequestsAssumption, <2>1, TaskOf DEF Asked
      <4>3. Op(t[1]) = "configWallet" /\ pc'[t] = "upsert" => Made(Asked(t).wallets[1])
        BY <4>1, <4>2 DEF WalletsFound, Made
      <4> QED BY <1>0, <4>3
    <3>2. CASE UpsertConfig(t) \/ Answer(t)
      BY <2>1, <3>2 DEF UpsertConfig, Answer, Succeed, Goto, Shape
    <3> QED BY <1>1, <3>1, <3>2, StepsOf
  <2>8. \A u \in Tasks :
          /\ Op(u[1]) = "getAddress" /\ pc'[u] = "config" => Currency(u[1]) \in Services
          /\ Op(u[1]) = "getAddress" /\ pc'[u] \in {"find", "derive"} => MadeNext(wallet'[u])
          /\ Op(u[1]) = "configWallet" /\ pc'[u] = "upsert" => MadeNext(Asked(u).wallets[1])
    BY <1>0, <2>2, <2>5, <2>6, <2>7 DEF MadeInv
  <2> QED BY <2>3, <2>4, <2>8 DEF MadeInv, OnWay, Asked, Made, MadeNext
<1>2. ASSUME \A t \in Running : ~Step(t) PROVE MadeInv'
  <2>1. Outside
    BY <1>2, OutsideSteps
  <2>2. \A u \in Tasks :
          /\ Op(u[1]) = "getAddress" /\ pc'[u] = "config" => Currency(u[1]) \in Services
          /\ Op(u[1]) = "getAddress" /\ pc'[u] \in {"find", "derive"} => pc'[u] = pc[u]
          /\ Op(u[1]) = "configWallet" /\ pc'[u] = "upsert" => pc'[u] = pc[u]
    BY <2>1 DEF Outside, Ended, FirstStep, MadeInv, Handled
  <2>3. \A row \in addresses' \cup inserting' : MadeNext(row.wallet)
    BY <1>0, <2>1 DEF Outside, MadeInv, OnWay
  <2> QED BY <1>0, <2>1, <2>2, <2>3 DEF Outside, MadeInv, OnWay, Asked, Made, MadeNext
<1> QED BY <1>1, <1>2

\* A request stores one row, after it found none of its address but those of requests
\* it met.
RowInv ==
    /\ \A a, b \in OnWay : a.by = b.by => a = b
    /\ \A a, b \in OnWay : a.wallet = b.wallet /\ a.path = b.path => Pair(a.by, b.by)
    /\ \A t \in Tasks : \A a \in OnWay :
          /\ Op(t[1]) = "addWallet" /\ pc[t] \in {"idle", "find", "create"} => a.by # t[1]
          /\ Op(t[1]) = "getAddress" /\ pc[t] \in {"idle", "config", "find", "derive"} => a.by # t[1]
    /\ \A t \in Tasks : \A a \in OnWay :
          At(t, "getAddress", "derive") /\ a.wallet = wallet[t] /\ a.path = Asked(t).path
              => Pair(a.by, t[1])

\* A new row.
LEMMA RowAdded ==
    ASSUME Shape, RowInv, NEW t \in Running, Step(t), NEW w, NEW path,
           Op(t[1]) \in {"addWallet", "getAddress"}, pc'[t] \in {"update", "accepted"},
           OnWay' \subseteq OnWay \cup {AddressRow(t[1], w, path)},
           wallet' = wallet, \A a \in OnWay : a.by # t[1], Flights,
           \A a \in OnWay : a.wallet = w /\ a.path = path => Pair(a.by, t[1])
    PROVE  RowInv'
<1> DEFINE n == AddressRow(t[1], w, path)
<1>0. n.by = t[1] /\ n.wallet = w /\ n.path = path
  BY DEF AddressRow
<1> HIDE DEF n
<1>1. t \in Tasks /\ Moves(t) /\ met' = met
  BY StepMoves, Effects, ItemsAreTasks
<1>2. \A u \in Tasks : u # t => pc'[u] = pc[u]
  BY <1>1 DEF Moves, Shape
<1>3. \A a, b : Pair(a, b)' = Pair(a, b) /\ Pair(a, b) = Pair(b, a) /\ Pair(a, a)
  BY <1>1 DEF Pair
<1>4. \A u \in Tasks : Op(u[1]) \in {"addWallet", "getAddress"} /\ u[1] = t[1] => u = t
  BY <1>1, TaskOf DEF Withdrawals
<1>5. \A u \in Tasks : At(u, "getAddress", "derive") => Pair(t[1], u[1])
  BY DEF Flights, InFlight, Running, At
<1>6. \A a, b \in OnWay' : a.by = b.by => a = b
  BY <1>0 DEF RowInv, n
<1>7. ASSUME NEW a \in OnWay', NEW b \in OnWay', a.wallet = b.wallet, a.path = b.path
      PROVE  Pair(a.by, b.by)
  <2>1. CASE a \in OnWay /\ b \in OnWay
    BY <1>7, <2>1 DEF RowInv
  <2>2. CASE a = n /\ b = n
    BY <1>3, <2>2
  <2>3. CASE a = n /\ b \in OnWay
    BY <1>0, <1>3, <1>7, <2>3
  <2>4. CASE a \in OnWay /\ b = n
    BY <1>0, <1>7, <2>4
  <2> QED BY <2>1, <2>2, <2>3, <2>4 DEF n
<1>8. \A u \in Tasks : \A a \in OnWay' :
          /\ Op(u[1]) = "addWallet" /\ pc'[u] \in {"idle", "find", "create"} => a.by # u[1]
          /\ Op(u[1]) = "getAddress" /\ pc'[u] \in {"idle", "config", "find", "derive"}
                 => a.by # u[1]
  <2> SUFFICES ASSUME NEW u \in Tasks, NEW a \in OnWay'
               PROVE  /\ Op(u[1]) = "addWallet" /\ pc'[u] \in {"idle", "find", "create"}
                             => a.by # u[1]
                      /\ Op(u[1]) = "getAddress" /\ pc'[u] \in {"idle", "config", "find", "derive"}
                             => a.by # u[1]
    OBVIOUS
  <2>1. CASE u = t
    BY <2>1
  <2>2. CASE u # t /\ a \in OnWay
    BY <1>2, <2>2 DEF RowInv
  <2>3. CASE u # t /\ a = n
    BY <1>0, <1>4, <2>3
  <2> QED BY <2>1, <2>2, <2>3 DEF n
<1>9. \A u \in Tasks : \A a \in OnWay' :
          At(u, "getAddress", "derive")' /\ a.wallet = wallet'[u] /\ a.path = Asked(u).path
              => Pair(a.by, u[1])
  <2> SUFFICES ASSUME NEW u \in Tasks, NEW a \in OnWay', At(u, "getAddress", "derive")',
                      a.wallet = wallet[u], a.path = Asked(u).path
               PROVE  Pair(a.by, u[1])
    OBVIOUS
  <2>1. u # t /\ At(u, "getAddress", "derive")
    BY <1>2 DEF At
  <2>2. CASE a \in OnWay
    BY <2>1, <2>2 DEF RowInv
  <2>3. CASE a = n
    BY <1>0, <1>5, <2>1, <2>3
  <2> QED BY <2>2, <2>3 DEF n
<1> QED BY <1>3, <1>6, <1>7, <1>8, <1>9 DEF RowInv, Asked

LEMMA RowStays ==
    ASSUME Shape, Flights, WalletInv, MadeInv, RowInv, [Next]_vars
    PROVE  RowInv'
<1>1. ASSUME OnWay' \subseteq OnWay, met \subseteq met',
             \A u \in Tasks :
                 /\ Op(u[1]) = "addWallet" /\ pc'[u] \in {"idle", "find", "create"}
                        => pc[u] \in {"idle", "find", "create"}
                 /\ Op(u[1]) = "getAddress" /\ pc'[u] \in {"idle", "config", "find", "derive"}
                        => pc[u] \in {"idle", "config", "find", "derive"}
                 /\ At(u, "getAddress", "derive")' =>
                        \/ At(u, "getAddress", "derive") /\ wallet'[u] = wallet[u]
                        \/ \A a \in OnWay : a.wallet = wallet'[u] /\ a.path = Asked(u).path
                                => Pair(a.by, u[1])
      PROVE  RowInv'
  <2>1. \A a, b : Pair(a, b) => Pair(a, b)'
    BY <1>1 DEF Pair
  <2>2. \A a, b \in OnWay' :
            (a.by = b.by => a = b)
            /\ (a.wallet = b.wallet /\ a.path = b.path => Pair(a.by, b.by)')
    BY <1>1, <2>1 DEF RowInv
  <2>3. \A t \in Tasks : \A a \in OnWay' :
          /\ Op(t[1]) = "addWallet" /\ pc'[t] \in {"idle", "find", "create"} => a.by # t[1]
          /\ Op(t[1]) = "getAddress" /\ pc'[t] \in {"idle", "config", "find", "derive"}
                => a.by # t[1]
    BY <1>1 DEF RowInv
  <2>4. \A t \in Tasks : \A a \in OnWay' :
          At(t, "getAddress", "derive")' /\ a.wallet = wallet'[t] /\ a.path = Asked(t).path
              => Pair(a.by, t[1])'
    BY <1>1, <2>1 DEF RowInv
  <2> QED BY <2>2, <2>3, <2>4 DEF RowInv, Asked
<1>2. ASSUME NEW t \in Running, Step(t) PROVE RowInv'
  <2>1. t \in Tasks /\ Moves(t) /\ met' = met /\ Shape' /\ addresses' = addresses
    BY <1>2, StepMoves, Effects, ItemsAreTasks
  <2>2. \A u \in Tasks : u # t => pc'[u] = pc[u]
    BY <2>1 DEF Moves, Shape
  <2>3. \A u \in Tasks : u # t => wallet'[u] = wallet[u]
    BY <1>2, <2>1, Effects DEF ReadConfig, Shape
  <2>4. CASE CreateWallet(t)
    <3>1. At(t, "addWallet", "create") /\ pc'[t] = "update" /\ wallet' = wallet
      BY <2>1, <2>4 DEF CreateWallet, Goto, Shape
    <3>2. OnWay' = OnWay \cup {AddressRow(t[1], t[1], 0)}
      BY <2>1, <2>4 DEF CreateWallet, NewRow, OnWay
    <3>3. \A a \in OnWay : a.by # t[1] /\ a.wallet # t[1]
      BY <2>1, <3>1 DEF RowInv, At, MadeInv, Made, WalletInv
    <3> QED BY <1>2, <3>1, <3>2, <3>3, RowAdded DEF At
  <2>5. CASE Derive(t)
    <3>1. At(t, "getAddress", "derive") /\ pc'[t] = "accepted" /\ wallet' = wallet
      BY <2>1, <2>5 DEF Derive, Succeed, Goto, Shape
    <3>2. OnWay' = OnWay \cup {AddressRow(t[1], wallet[t], Asked(t).path)}
      BY <2>1, <2>5 DEF Derive, NewRow, OnWay
    <3>3. \A a \in OnWay : a.by # t[1]
      BY <2>1, <3>1 DEF RowInv, At
    <3>4. \A a \in OnWay : a.wallet = wallet[t] /\ a.path = Asked(t).path => Pair(a.by, t[1])
      BY <2>1, <3>1 DEF RowInv
    <3> QED BY <1>2, <3>1, <3>2, <3>3, <3>4, RowAdded DEF At
  <2>6. CASE FindAddress(t)
    <3>1. OnWay' = OnWay /\ wallet' = wallet /\ At(t, "getAddress", "find")
      BY <2>6 DEF FindAddress, OnWay, db
    <3>2. pc'[t] = "accepted" \/ (pc'[t] = "derive" /\ ~Stored(wallet[t], Asked(t).path))
      BY <2>1, <2>6 DEF FindAddress, Succeed, Goto, Shape
    <3>3. \A a \in inserting : Pair(a.by, t[1])
      BY <1>2 DEF Flights, InFlight
    <3>4. pc'[t] = "derive" =>
              \A a \in OnWay : a.wallet = wallet'[t] /\ a.path = Asked(t).path => Pair(a.by, t[1])
      BY <3>1, <3>2, <3>3 DEF Stored, OnWay
    <3> QED BY <1>1, <2>1, <2>2, <3>1, <3>2, <3>4 DEF At
  <2>7. CASE ~CreateWallet(t) /\ ~Derive(t) /\ ~FindAddress(t)
    <3>1. OnWay' = OnWay
      BY <1>2, <2>1, <2>7, Effects DEF OnWay
    <3>2. FindName(t) => pc[t] = "find" /\ pc'[t] \in {"refused", "create"}
      BY <2>1 DEF FindName, Refuse, Reject, Goto, Shape, At
    <3>3. (Answer(t) => pc'[t] = "accepted") /\ (UpdateAddress(t) => pc'[t] = "answer")
      BY <2>1 DEF Answer, Succeed, UpdateAddress, Goto, Shape
    <3>4. ReadConfig(t) => pc[t] = "config" /\ pc'[t] \in {"refused", "find"}
      BY <2>1 DEF ReadConfig, Refuse, Reject, Goto, Shape, At
    <3>5. /\ Op(t[1]) = "addWallet" /\ pc'[t] \in {"idle", "find", "create"}
                 => pc[t] \in {"idle", "find", "create"}
          /\ Op(t[1]) = "getAddress" /\ pc'[t] \in {"idle", "config", "find", "derive"}
                 => pc[t] \in {"idle", "config", "find", "derive"} /\ pc'[t] # "derive"
      BY <1>2, <2>7, <3>2, <3>3, <3>4, StepsOf
    <3> QED BY <1>1, <2>1, <2>2, <2>3, <3>1, <3>5 DEF At
  <2> QED BY <2>4, <2>5, <2>6, <2>7
<1>3. ASSUME \A t \in Running : ~Step(t) PROVE RowInv'
  <2>1. Outside
    BY <1>3, OutsideSteps
  <2>2. \A u \in Tasks :
                 /\ Op(u[1]) = "addWallet" /\ pc'[u] \in {"idle", "find", "create"}
                        => pc[u] \in {"idle", "find", "create"}
                 /\ Op(u[1]) = "getAddress" /\ pc'[u] \in {"idle", "config", "find", "derive"}
                        => pc[u] \in {"idle", "config", "find", "derive"}
                 /\ At(u, "getAddress", "derive")' => At(u, "getAddress", "derive")
    BY <2>1 DEF Outside, Ended, FirstStep, At
  <2> QED BY <1>1, <2>1, <2>2 DEF Outside, OnWay
<1> QED BY <1>2, <1>3

\* A request adds one token, after it found none of its contract but those of requests
\* it met, or that it could not see because of how a contract is written.
Hidden(k, r) == LowerCases(k.service) /\ "mixed" \in {Of[k.by].written, Of[r].written}
TokenInv ==
    /\ \A j, k \in tokens : j.by = k.by => j = k
    /\ \A j, k \in tokens : j.service = k.service /\ j.contract = k.contract =>
          Pair(j.by, k.by) \/ Hidden(j, k.by)
    /\ \A t \in Tasks : \A k \in tokens :
          Op(t[1]) = "addSmartContract" /\ pc[t] \in {"idle", "find", "decimals", "create"}
              => k.by # t[1]
    /\ \A t \in Tasks : \A k \in tokens :
          /\ Op(t[1]) = "addSmartContract" /\ pc[t] \in {"decimals", "create"}
          /\ k.service = Currency(t[1]) /\ k.contract = Asked(t).contract
          => Pair(k.by, t[1]) \/ Hidden(k, t[1])

LEMMA TokenStays ==
    ASSUME Shape, Flights, TokenInv, [Next]_vars
    PROVE  TokenInv'
<1>1. ASSUME tokens' = tokens, met \subseteq met',
             \A u \in Tasks : Op(u[1]) = "addSmartContract" =>
                 /\ pc'[u] \in {"idle", "find", "decimals", "create"}
                        => pc[u] \in {"idle", "find", "decimals", "create"}
                 /\ pc'[u] \in {"decimals", "create"} => pc[u] \in {"decimals", "create"}
      PROVE  TokenInv'
  BY <1>1 DEF TokenInv, Pair, Asked, Hidden
<1>2. ASSUME NEW t \in Running, Step(t) PROVE TokenInv'
  <2>1. t \in Tasks /\ Moves(t) /\ met' = met /\ Shape' /\ t[1] \in Requests
    BY <1>2, StepMoves, Effects, ItemsAreTasks, TaskOf
  <2>2. \A u \in Tasks : u # t => pc'[u] = pc[u]
    BY <2>1 DEF Moves, Shape
  <2>3. CASE CreateToken(t)
    <3> DEFINE n == [by |-> t[1], service |-> Currency(t[1]), contract |-> Asked(t).contract]
    <3>0. n.by = t[1] /\ n.service = Currency(t[1]) /\ n.contract = Asked(t).contract
      OBVIOUS
    <3>1. tokens' = tokens \cup {n} /\ At(t, "addSmartContract", "create") /\ pc'[t] = "answer"
      BY <2>1, <2>3 DEF CreateToken, Goto, Shape
    <3> HIDE DEF n
    <3>2. \A k \in tokens : k.by # t[1]
      BY <2>1, <3>1 DEF TokenInv, At
    <3>3. \A k \in tokens : k.service = n.service /\ k.contract = n.contract =>
              Pair(k.by, t[1]) \/ Hidden(k, t[1])
      BY <2>1, <3>0, <3>1 DEF TokenInv, At
    <3>4. \A u \in Tasks : Op(u[1]) = "addSmartContract" /\ u[1] = t[1] => u = t
      BY <2>1, TaskOf DEF Withdrawals
    <3>5. \A u \in Tasks : Op(u[1]) = "addSmartContract" /\ pc[u] \in {"decimals", "create"} =>
              Pair(t[1], u[1])
      BY <1>2 DEF Flights, InFlight, Running
    <3>6. \A a, b : Pair(a, b)' = Pair(a, b) /\ Pair(a, b) = Pair(b, a) /\ Pair(a, a)
      BY <2>1 DEF Pair
    <3>7. \A j, k \in tokens' : j.by = k.by => j = k
      BY <3>0, <3>1, <3>2 DEF TokenInv
    <3>8. ASSUME NEW j \in tokens', NEW k \in tokens', j.service = k.service, j.contract = k.contract
          PROVE  Pair(j.by, k.by) \/ Hidden(j, k.by)
      <4>1. CASE j \in tokens /\ k \in tokens
        BY <3>8, <4>1 DEF TokenInv
      <4>2. CASE j = n /\ k = n
        BY <3>6, <4>2
      <4>3. CASE j \in tokens /\ k = n
        BY <3>0, <3>3, <3>8, <4>3
      <4>4. CASE j = n /\ k \in tokens
        <5>1. Pair(k.by, t[1]) \/ Hidden(k, t[1])
          BY <3>3, <3>8, <4>4
        <5>2. Hidden(k, t[1]) => Hidden(j, k.by)
          BY <3>0, <3>8, <4>4 DEF Hidden
        <5> QED BY <3>0, <3>6, <4>4, <5>1, <5>2
      <4> QED BY <3>1, <3>8, <4>1, <4>2, <4>3, <4>4
    <3>9. \A u \in Tasks : \A k \in tokens' :
              Op(u[1]) = "addSmartContract" /\ pc'[u] \in {"idle", "find", "decimals", "create"}
                  => k.by # u[1]
      BY <2>2, <3>0, <3>1, <3>4 DEF TokenInv
    <3>10. \A u \in Tasks : \A k \in tokens' :
              /\ Op(u[1]) = "addSmartContract" /\ pc'[u] \in {"decimals", "create"}
              /\ k.service = Currency(u[1]) /\ k.contract = Asked(u).contract
              => Pair(k.by, u[1]) \/ Hidden(k, u[1])
      BY <2>2, <3>0, <3>1, <3>5 DEF TokenInv
    <3> QED BY <3>6, <3>7, <3>8, <3>9, <3>10 DEF TokenInv, Asked, Hidden
  <2>4. CASE FindToken(t) /\ pc'[t] = "decimals"
    <3>1. tokens' = tokens /\ pc[t] = "find"
      BY <2>4 DEF FindToken, At, db
    <3>2. SameToken(t) = {}
      BY <2>1, <2>4 DEF FindToken, Refuse, Reject, Succeed, Goto, Shape
    <3>3. Op(t[1]) = "addSmartContract" /\ Asked(t).written # "lower" => Of[t[1]].written = "mixed"
      BY <2>1, RequestsAssumption DEF Asked
    <3>4. \A k \in tokens : Op(t[1]) = "addSmartContract" /\ k.service = Currency(t[1])
              /\ k.contract = Asked(t).contract => Hidden(k, t[1])
      BY <3>2, <3>3 DEF SameToken, Hidden
    <3>5. \A u \in Tasks : \A k \in tokens :
              /\ Op(u[1]) = "addSmartContract" /\ pc'[u] \in {"decimals", "create"}
              /\ k.service = Currency(u[1]) /\ k.contract = Asked(u).contract
              => Pair(k.by, u[1]) \/ Hidden(k, u[1])
      BY <2>2, <3>4 DEF TokenInv
    <3>6. \A u \in Tasks : \A k \in tokens :
              Op(u[1]) = "addSmartContract" /\ pc'[u] \in {"idle", "find", "decimals", "create"}
                  => k.by # u[1]
      BY <2>2, <3>1 DEF TokenInv
    <3> QED BY <2>1, <3>1, <3>5, <3>6 DEF TokenInv, Pair, Asked, Hidden
  <2>5. CASE ~CreateToken(t) /\ ~(FindToken(t) /\ pc'[t] = "decimals")
    <3>1. tokens' = tokens
      BY <1>2, <2>5, Effects
    <3>2. FindToken(t) => pc'[t] \in {"refused", "accepted", "decimals"}
      BY <2>1 DEF FindToken, Refuse, Reject, Succeed, Goto, Shape
    <3>3. ReadDecimals(t) => pc[t] = "decimals"
      BY DEF ReadDecimals, At
    <3>4. Answer(t) => pc'[t] = "accepted"
      BY <2>1 DEF Answer, Succeed, Goto, Shape
    <3> QED BY <1>1, <1>2, <2>1, <2>2, <2>5, <3>1, <3>2, <3>3, <3>4, StepsOf
  <2> QED BY <2>3, <2>4, <2>5
<1>3. ASSUME \A t \in Running : ~Step(t) PROVE TokenInv'
  BY <1>1, <1>3, OutsideSteps DEF Outside, Ended, FirstStep
<1> QED BY <1>2, <1>3

LEMMA ShapeStays == Shape /\ [Next]_vars => Shape'
<1> SUFFICES ASSUME Shape, [Next]_vars PROVE Shape'
  OBVIOUS
<1>1. ASSUME NEW t \in Running, Step(t) PROVE Shape'
  BY <1>1, StepMoves
<1>2. ASSUME \A t \in Running : ~Step(t) PROVE Shape'
  <2>1. Outside
    BY <1>2, OutsideSteps
  <2>2. pc' = [t \in Tasks |-> pc'[t]]
    BY <1>2, ItemsAreTasks
    DEF Next, Fail, Caught, Reject, Goto, InsertAddress, DropAddress, Receive, Crash, Shape, vars, server
  <2>3. \A t \in Tasks : pc'[t] \in States
    BY <2>1 DEF Outside, Shape, Ended, FirstStep, States
  <2>4. answer' = [r \in Requests |-> answer'[r]]
    BY <1>2
    DEF Next, Fail, Caught, Reject, Answered, InsertAddress, DropAddress, Receive, Crash, Shape,
        vars, server
  <2> QED BY <2>1, <2>2, <2>3, <2>4 DEF Outside, Shape
<1> QED BY <1>1, <1>2

\* Two wallets of one name, two rows of one address and two tokens of one contract only
\* come from requests that overlapped, for eth and bnb also from a contract that is not
\* written in lower case (addWallet, getAddress, addSmartContract).
THEOREM DuplicatesNeedOverlap == Spec => []DuplicatesOnlyFromOverlap
<1> DEFINE Inv == Shape /\ Flights /\ WalletInv /\ MadeInv /\ RowInv /\ TokenInv
<1>1. Init => Inv
  <2> SUFFICES ASSUME Init PROVE Inv
    OBVIOUS
  <2>1. Shape /\ Running = {} /\ InFlight = {}
    BY DEF Init, Shape, States, Running, InFlight
  <2> QED BY <2>1 DEF Init, Flights, WalletInv, MadeInv, RowInv, TokenInv, OnWay
<1>2. Inv /\ [Next]_vars => Inv'
  BY ShapeStays, FlightsStay, WalletStays, MadeStays, RowStays, TokenStays
<1>3. Inv => DuplicatesOnlyFromOverlap
  BY DEF DuplicatesOnlyFromOverlap, WalletInv, RowInv, TokenInv, Pair, OnWay, Hidden
<1> QED BY <1>1, <1>2, <1>3, PTL DEF Spec

----------------------------------------------------------------------------
(* The types *)

\* Wallet b of service s is there.
Has(b, s) == \E w \in wallets : w.by = b /\ w.service = s
HasNext(b, s) == \E w \in wallets' : w.by = b /\ w.service = s

\* Tasks of these operations write what belongs to the service of their request.
Serving == {"find", "create", "update", "upsert", "config", "derive", "decimals", "answer"}
ServedInv ==
    /\ \A t \in Tasks : Op(t[1]) \in Simple /\ pc[t] \in Serving => Currency(t[1]) \in Services
    /\ \A w \in wallets : w.by \in Requests /\ w.service \in Services /\ w.complete \in BOOLEAN
    /\ \A k \in tokens : k.by \in Requests /\ k.service \in Services
    /\ thresholds \in [Services -> Requests \cup {None}]

\* The wallets that configWallet found stay.
ConfigInv ==
    /\ \A s \in Services : config[s] # None => \A i \in DOMAIN config[s] : Has(config[s][i], s)
    /\ \A t \in Tasks : At(t, "configWallet", "upsert") =>
          \A i \in DOMAIN Asked(t).wallets : Has(Asked(t).wallets[i], Currency(t[1]))

\* A request succeeds after all of its tasks, and one that made a wallet after the update.
CompleteInv ==
    /\ \A w \in wallets :
          /\ w.by \in Requests /\ Op(w.by) = "addWallet"
          /\ pc[<<w.by, 1>>] \in {"answer", "accepted"} => w.complete
    /\ \A r \in Requests : answer[r] # None =>
          /\ answer[r].status \in {200, 401, 404, 500}
          /\ answer[r].status = 200 => \A t \in TasksOf(r) : pc[t] = "accepted"

\* What a task works with and what has an address is there, also when the row was lost.
UsedInv ==
    /\ \A row \in dropped : Made(row.wallet)
    /\ \A t \in Tasks : wallet[t] # None => Made(wallet[t])

Bounded ==
    scenario \in Scenarios /\ withdrawals \subseteq Items /\ troubles \in 0 .. scenario.troubles

LEMMA WalletsKept ==
    ASSUME Shape, WalletInv, [Next]_vars
    PROVE  /\ \A b, s : Has(b, s) => HasNext(b, s)
           /\ \A b : Made(b) => MadeNext(b)
<1>1. CASE wallets' = wallets
  BY <1>1 DEF Has, HasNext, Made, MadeNext
<1>2. ASSUME NEW t \in Running, Step(t)
      PROVE  \A b, s : Has(b, s) => HasNext(b, s)
  <2>1. CASE CreateWallet(t)
    BY <2>1 DEF CreateWallet, Has, HasNext
  <2>2. CASE UpdateAddress(t)
    <3>1. ASSUME NEW w \in wallets
          PROVE  \E v \in wallets' : v.by = w.by /\ v.service = w.service
      <4> DEFINE v == [w EXCEPT !.complete = w.complete \/ w.by = t[1]]
      <4>1. v \in wallets'
        BY <2>2 DEF UpdateAddress, Updated
      <4>2. v.by = w.by /\ v.service = w.service
        BY DEF WalletInv, WalletRow
      <4> QED BY <4>1, <4>2
    <3> QED BY <3>1 DEF Has, HasNext
  <2> QED BY <1>1, <1>2, <2>1, <2>2, Effects
<1>3. CASE \A t \in Running : ~Step(t)
  BY <1>1, <1>3, OutsideSteps DEF Outside
<1> QED BY <1>2, <1>3, WalletsRemain

LEMMA ServedStays ==
    ASSUME Shape, WalletInv, ServedInv, [Next]_vars
    PROVE  ServedInv'
<1>1. ASSUME NEW t \in Running, Step(t) PROVE ServedInv'
  <2>1. t \in Tasks /\ Moves(t) /\ pc[t] # "idle" /\ t[1] \in Requests
    BY <1>1, StepMoves, ItemsAreTasks, TaskOf DEF Running
  <2>2. \A u \in Tasks : u # t => pc'[u] = pc[u]
    BY <2>1 DEF Moves, Shape
  <2>3. Op(t[1]) \in Simple /\ pc'[t] \in Serving => pc[t] \in Serving
    <3>1. Op(t[1]) = "setWalletThreshold" => UpsertThreshold(t) \/ Answer(t)
      BY <1>1 DEF Step, FindName, FindWallets, CreateWallet, UpdateAddress, UpsertConfig,
         UpsertThreshold, CreateToken, ReadConfig, ReadDecimals, FindAddress, Derive, IsItem,
         FindWithdrawal, CheckWithdrawal, InsertWithdrawal, FindToken, Answer, CallBroken,
         ValidateAddress, ReadList, ReadTotals, At, Withdrawals, Broken
    <3>2. CASE FindName(t) \/ CreateWallet(t) \/ UpdateAddress(t) \/ Answer(t) \/ UpsertThreshold(t)
      BY <3>2 DEF FindName, CreateWallet, UpdateAddress, Answer, UpsertThreshold, At, Serving
    <3>3. CASE ReadConfig(t) \/ FindAddress(t) \/ Derive(t) \/ FindWallets(t) \/ UpsertConfig(t)
      BY <3>3 DEF ReadConfig, FindAddress, Derive, FindWallets, UpsertConfig, At, Serving
    <3>4. CASE FindToken(t) \/ ReadDecimals(t) \/ CreateToken(t)
      BY <3>4 DEF FindToken, ReadDecimals, CreateToken, At, Serving
    <3> QED BY <1>1, <3>1, <3>2, <3>3, <3>4, StepsOf DEF Simple
  <2>4. \A w \in wallets' : w.by \in Requests /\ w.service \in Services /\ w.complete \in BOOLEAN
    <3>1. CASE CreateWallet(t)
      <4>1. Currency(t[1]) \in Services
        BY <2>1, <3>1 DEF CreateWallet, At, ServedInv, Serving, Simple
      <4>2. PICK n : /\ wallets' = wallets \cup {n}
                     /\ n = [by |-> t[1], service |-> Currency(t[1]), name |-> Asked(t).name,
                             complete |-> FALSE]
        BY <3>1 DEF CreateWallet
      <4>3. n.by \in Requests /\ n.service \in Services /\ n.complete \in BOOLEAN
        BY <2>1, <4>1, <4>2
      <4>4. \A w \in wallets : w.by \in Requests /\ w.service \in Services /\ w.complete \in BOOLEAN
        BY DEF ServedInv
      <4> QED BY <4>2, <4>3, <4>4
    <3>2. CASE UpdateAddress(t)
      <4>1. ASSUME NEW w \in wallets, NEW v, v = [w EXCEPT !.complete = w.complete \/ w.by = t[1]]
            PROVE  v.by = w.by /\ v.service = w.service /\ v.complete \in BOOLEAN
        BY <4>1 DEF WalletInv, WalletRow, ServedInv
      <4> QED BY <3>2, <4>1 DEF UpdateAddress, Updated, ServedInv
    <3> QED BY <1>1, <3>1, <3>2, Effects DEF ServedInv
  <2>5. \A k \in tokens' : k.by \in Requests /\ k.service \in Services
    <3>1. CASE CreateToken(t)
      <4>1. Currency(t[1]) \in Services
        BY <2>1, <3>1 DEF CreateToken, At, ServedInv, Serving, Simple
      <4>2. PICK k : /\ tokens' = tokens \cup {k}
                     /\ k = [by |-> t[1], service |-> Currency(t[1]), contract |-> Asked(t).contract]
        BY <3>1 DEF CreateToken
      <4>3. k.by \in Requests /\ k.service \in Services
        BY <2>1, <4>1, <4>2
      <4>4. \A j \in tokens : j.by \in Requests /\ j.service \in Services
        BY DEF ServedInv
      <4> QED BY <4>2, <4>3, <4>4
    <3> QED BY <1>1, <3>1, Effects DEF ServedInv
  <2>6. thresholds' \in [Services -> Requests \cup {None}]
    <3>1. CASE UpsertThreshold(t)
      BY <2>1, <3>1 DEF UpsertThreshold, ServedInv
    <3>2. CASE ~UpsertThreshold(t)
      <4>1. thresholds' = thresholds
        BY <1>1, <3>2 DEF Step, FindName, FindWallets, CreateWallet, UpdateAddress, UpsertConfig,
           CreateToken, ReadConfig, ReadDecimals, FindAddress, Derive, FindWithdrawal, CheckWithdrawal,
           InsertWithdrawal, FindToken, Answer, CallBroken, ValidateAddress, ReadList, ReadTotals, db
      <4> QED BY <4>1 DEF ServedInv
    <3> QED BY <3>1, <3>2
  <2> QED BY <2>2, <2>3, <2>4, <2>5, <2>6 DEF ServedInv
<1>2. ASSUME \A t \in Running : ~Step(t) PROVE ServedInv'
  <2>1. Outside
    BY <1>2, OutsideSteps
  <2>2. thresholds' = thresholds
    BY <1>2 DEF Next, Receive, Fail, InsertAddress, DropAddress, Crash, vars, db
  <2>3. \A t \in Tasks : Op(t[1]) \in Simple /\ pc'[t] \in Serving => Currency(t[1]) \in Services
    BY <2>1 DEF Outside, Ended, Serving, ServedInv, Handled, Simple
  <2> QED BY <2>1, <2>2, <2>3 DEF Outside, ServedInv
<1> QED BY <1>1, <1>2

LEMMA ConfigStays ==
    ASSUME Shape, WalletInv, MadeInv, ConfigInv, [Next]_vars
    PROVE  ConfigInv'
<1>0. \A b, s : Has(b, s) => HasNext(b, s)
  BY WalletsKept
<1>1. ASSUME NEW t \in Running, Step(t) PROVE ConfigInv'
  <2>1. t \in Tasks /\ Moves(t)
    BY <1>1, StepMoves, ItemsAreTasks
  <2>2. \A u \in Tasks : u # t => pc'[u] = pc[u]
    BY <2>1 DEF Moves, Shape
  <2>3. \A s \in Services : config'[s] # None =>
            \A i \in DOMAIN config'[s] : HasNext(config'[s][i], s)
    <3>1. CASE UpsertConfig(t)
      <4>1. config' = [config EXCEPT ![Currency(t[1])] = Asked(t).wallets]
        BY <3>1 DEF UpsertConfig
      <4>2. \A i \in DOMAIN Asked(t).wallets : Has(Asked(t).wallets[i], Currency(t[1]))
        BY <2>1, <3>1 DEF UpsertConfig, At, ConfigInv
      <4> QED BY <1>0, <4>1, <4>2 DEF MadeInv, ConfigInv
    <3> QED BY <1>0, <1>1, <3>1, Effects DEF ConfigInv
  <2>4. Op(t[1]) = "configWallet" /\ pc'[t] = "upsert" =>
            \A i \in DOMAIN Asked(t).wallets : HasNext(Asked(t).wallets[i], Currency(t[1]))
    <3>1. CASE FindWallets(t)
      <4>1. pc'[t] = "upsert" => WalletsFound(t)
        BY <2>1, <3>1 DEF FindWallets, Refuse, Reject, Goto, Shape
      <4> QED BY <1>0, <4>1 DEF WalletsFound, Has
    <3>2. CASE UpsertConfig(t) \/ Answer(t)
      BY <2>1, <3>2 DEF UpsertConfig, Answer, Succeed, Goto, Shape
    <3> QED BY <1>1, <3>1, <3>2, StepsOf
  <2> QED BY <1>0, <2>2, <2>3, <2>4 DEF ConfigInv, At, Asked, Has, HasNext
<1>2. ASSUME \A t \in Running : ~Step(t) PROVE ConfigInv'
  <2>1. Outside
    BY <1>2, OutsideSteps
  <2>2. \A t \in Tasks : At(t, "configWallet", "upsert")' => At(t, "configWallet", "upsert")
    BY <2>1 DEF Outside, Ended, FirstStep, At
  <2> QED BY <1>0, <2>1, <2>2 DEF Outside, ConfigInv, Asked, Has, HasNext
<1> QED BY <1>1, <1>2

LEMMA CompleteStays ==
    ASSUME Shape, WalletInv, CompleteInv, [Next]_vars
    PROVE  CompleteInv'
<1>0. \A r \in Requests : Op(r) = "addWallet" => <<r, 1>> \in Tasks
  BY TaskOf DEF Withdrawals
<1>1. ASSUME NEW t \in Running, Step(t) PROVE CompleteInv'
  <2>1. t \in Tasks /\ Moves(t) /\ pc[t] # "accepted" /\ t[1] \in Requests /\ t \in TasksOf(t[1])
    BY <1>1, StepMoves, ItemsAreTasks, TaskOf DEF Running
  <2>2. \A u \in Tasks : u # t => pc'[u] = pc[u]
    BY <2>1 DEF Moves, Shape
  <2>3. \A r \in Requests : answer'[r] # None =>
            /\ answer'[r].status \in {200, 401, 404, 500}
            /\ answer'[r].status = 200 => \A u \in TasksOf(r) : pc'[u] = "accepted"
    <3>1. \A r \in Requests : \A u \in TasksOf(r) : pc[u] = "accepted" => pc'[u] = "accepted"
      BY <2>1, <2>2, TaskOf
    <3>2. CASE UNCHANGED answer
      BY <3>1, <3>2 DEF CompleteInv
    <3>3. ASSUME NEW body, answer' = [answer EXCEPT ![t[1]] = Reply(500, body)]
          PROVE  \A r \in Requests : answer'[r] # None =>
                    /\ answer'[r].status \in {200, 401, 404, 500}
                    /\ answer'[r].status = 200 => \A u \in TasksOf(r) : pc'[u] = "accepted"
      BY <2>1, <3>1, <3>3 DEF CompleteInv, Shape, Reply
    <3>4. ASSUME NEW body, answer' = [answer EXCEPT ![t[1]] = Reply(200, body)],
                 pc'[t] = "accepted", \A u \in TasksOf(t[1]) \ {t} : pc[u] = "accepted"
          PROVE  \A r \in Requests : answer'[r] # None =>
                    /\ answer'[r].status \in {200, 401, 404, 500}
                    /\ answer'[r].status = 200 => \A u \in TasksOf(r) : pc'[u] = "accepted"
      BY <2>1, <3>1, <3>4 DEF CompleteInv, Shape, Reply
    <3> QED BY <2>1, <3>2, <3>3, <3>4 DEF Moves, Replies
  <2>4. \A w \in wallets' :
            /\ w.by \in Requests /\ Op(w.by) = "addWallet"
            /\ pc'[<<w.by, 1>>] \in {"answer", "accepted"} => w.complete
    <3>1. CASE CreateWallet(t)
      <4>1. pc'[t] = "update" /\ Op(t[1]) = "addWallet" /\ t = <<t[1], 1>>
        BY <2>1, <3>1, TaskOf DEF CreateWallet, At, Goto, Shape, Withdrawals
      <4>2. \A w \in wallets : <<w.by, 1>> # t
        BY <2>1, <3>1, <4>1 DEF CreateWallet, At, WalletInv
      <4>3. PICK n : wallets' = wallets \cup {n} /\ n.by = t[1]
        <5> DEFINE n == [by |-> t[1], service |-> Currency(t[1]), name |-> Asked(t).name,
                         complete |-> FALSE]
        <5>1. wallets' = wallets \cup {n} /\ n.by = t[1]
          BY <3>1 DEF CreateWallet
        <5> QED BY <5>1
      <4>4. \A w \in wallets :
                /\ w.by \in Requests /\ Op(w.by) = "addWallet"
                /\ pc'[<<w.by, 1>>] \in {"answer", "accepted"} => w.complete
        <5> TAKE w \in wallets
        <5>1. /\ w.by \in Requests /\ Op(w.by) = "addWallet"
              /\ pc[<<w.by, 1>>] \in {"answer", "accepted"} => w.complete
          BY DEF CompleteInv
        <5>2. pc'[<<w.by, 1>>] = pc[<<w.by, 1>>]
          BY <1>0, <2>2, <4>2, <5>1
        <5> QED BY <5>1, <5>2
      <4>5. pc'[<<n.by, 1>>] \notin {"answer", "accepted"}
        BY <4>1, <4>3
      <4>6. n.by \in Requests /\ Op(n.by) = "addWallet"
        BY <2>1, <4>1, <4>3
      <4>7. \A w \in wallets' : w \in wallets \/ w = n
        BY <4>3
      <4> QED BY <4>4, <4>5, <4>6, <4>7
    <3>2. CASE UpdateAddress(t)
      <4>1. Op(t[1]) = "addWallet" /\ t = <<t[1], 1>>
        BY <2>1, <3>2, TaskOf DEF UpdateAddress, At, Withdrawals
      <4>2. ASSUME NEW w \in wallets, NEW v, v = [w EXCEPT !.complete = w.complete \/ w.by = t[1]]
            PROVE  v.by = w.by /\ v.complete = (w.complete \/ w.by = t[1])
        BY <4>2 DEF WalletInv, WalletRow
      <4>3. ASSUME NEW w \in wallets, NEW v, v = [w EXCEPT !.complete = w.complete \/ w.by = t[1]]
            PROVE  /\ v.by \in Requests /\ Op(v.by) = "addWallet"
                   /\ pc'[<<v.by, 1>>] \in {"answer", "accepted"} => v.complete
        <5>1. /\ w.by \in Requests /\ Op(w.by) = "addWallet"
              /\ pc[<<w.by, 1>>] \in {"answer", "accepted"} => w.complete
          BY DEF CompleteInv
        <5>2. v.by = w.by /\ v.complete = (w.complete \/ w.by = t[1])
          BY <4>2, <4>3
        <5>3. CASE w.by = t[1]
          BY <5>1, <5>2, <5>3
        <5>4. CASE w.by # t[1]
          <6>1. <<w.by, 1>> \in Tasks /\ <<w.by, 1>> # t
            BY <1>0, <4>1, <5>1, <5>4
          <6> QED BY <2>2, <5>1, <5>2, <6>1
        <5> QED BY <5>3, <5>4
      <4> QED BY <3>2, <4>3 DEF UpdateAddress, Updated
    <3>3. CASE ~CreateWallet(t) /\ ~UpdateAddress(t)
      <4>1. wallets' = wallets
        BY <1>1, <3>3, Effects
      <4>2. Op(t[1]) = "addWallet" /\ pc'[t] \in {"answer", "accepted"} => pc[t] = "answer"
        <5>1. FindName(t) => pc'[t] \in {"refused", "create"}
          BY <2>1 DEF FindName, Refuse, Reject, Goto, Shape
        <5> QED BY <1>1, <3>3, <5>1, StepsOf DEF Answer
      <4>3. \A w \in wallets : pc'[<<w.by, 1>>] \in {"answer", "accepted"}
                                   => pc[<<w.by, 1>>] \in {"answer", "accepted"}
        <5> TAKE w \in wallets
        <5>1. <<w.by, 1>> \in Tasks /\ (<<w.by, 1>> = t => Op(t[1]) = "addWallet")
          BY <1>0 DEF CompleteInv
        <5>2. CASE <<w.by, 1>> = t
          BY <4>2, <5>1, <5>2
        <5>3. CASE <<w.by, 1>> # t
          BY <2>2, <5>1, <5>3
        <5> QED BY <5>2, <5>3
      <4>4. \A w \in wallets :
                /\ w.by \in Requests /\ Op(w.by) = "addWallet"
                /\ pc[<<w.by, 1>>] \in {"answer", "accepted"} => w.complete
        BY DEF CompleteInv
      <4> QED BY <4>1, <4>3, <4>4
    <3> QED BY <3>1, <3>2, <3>3
  <2> QED BY <2>3, <2>4 DEF CompleteInv
<1>2. ASSUME \A t \in Running : ~Step(t) PROVE CompleteInv'
  <2>1. Outside
    BY <1>2, OutsideSteps
  <2>2. \A w \in wallets : pc'[<<w.by, 1>>] \in {"answer", "accepted"}
                               => pc[<<w.by, 1>>] \in {"answer", "accepted"}
    BY <1>0, <2>1 DEF Outside, Ended, FirstStep, CompleteInv
  <2>3. \A u \in Tasks : pc[u] = "accepted" => pc'[u] = "accepted"
    <3>1. ASSUME NEW t \in Running, Fail(t)
          PROVE  \A u \in Tasks : pc[u] = "accepted" => pc'[u] = "accepted"
      BY <3>1 DEF Fail, Caught, Reject, Goto, Shape, Running
    <3>2. ASSUME NEW r \in scenario.requests, Receive(r)
          PROVE  \A u \in Tasks : pc[u] = "accepted" => pc'[u] = "accepted"
      BY <3>2 DEF Receive
    <3> QED BY <1>2, <3>1, <3>2 DEF Next, InsertAddress, DropAddress, Crash, Running, vars, server
  <2>4. \A r \in Requests :
            \/ answer'[r] = answer[r]
            \/ answer'[r].status \in {401, 404, 500}
    <3>1. ASSUME NEW t \in Running, Fail(t)
          PROVE  \A r \in Requests : answer'[r] = answer[r] \/ answer'[r].status \in {401, 404, 500}
      BY <3>1 DEF Fail, Caught, Reject, Answered, Reply, Shape
    <3>2. ASSUME NEW r \in scenario.requests, Receive(r)
          PROVE  \A q \in Requests : answer'[q] = answer[q] \/ answer'[q].status \in {401, 404, 500}
      BY <3>2 DEF Receive, Answered, Reply, Status, Shape
    <3> QED BY <1>2, <3>1, <3>2 DEF Next, InsertAddress, DropAddress, Crash, vars, server
  <2>5. \A r \in Requests : \A u \in TasksOf(r) : pc[u] = "accepted" => pc'[u] = "accepted"
    BY <2>3, TaskOf
  <2> QED BY <2>1, <2>2, <2>4, <2>5 DEF Outside, CompleteInv
<1> QED BY <1>1, <1>2

LEMMA UsedStays ==
    ASSUME Shape, WalletInv, MadeInv, UsedInv, [Next]_vars
    PROVE  UsedInv'
<1>0. \A b : Made(b) => MadeNext(b)
  BY WalletsKept
<1>1. \A row \in dropped' : MadeNext(row.wallet)
  <2>1. dropped' \subseteq dropped \cup inserting
    <3>1. ASSUME NEW t \in Running, Step(t) PROVE dropped' = dropped
      BY <3>1, StepMoves
    <3> QED BY <3>1 DEF Next, Receive, Fail, InsertAddress, DropAddress, Crash, vars
  <2> QED BY <1>0, <2>1 DEF UsedInv, MadeInv, OnWay
<1>2. \A t \in Tasks : wallet'[t] # None => MadeNext(wallet'[t])
  <2>1. ASSUME NEW t \in Running, ReadConfig(t), wallet' # wallet
        PROVE  \A u \in Tasks : wallet'[u] # None => MadeNext(wallet'[u])
    <3>1. /\ config[Currency(t[1])] # None
          /\ wallet' = [wallet EXCEPT ![t] = config[Currency(t[1])][1]]
      BY <2>1 DEF ReadConfig
    <3>2. Made(config[Currency(t[1])][1])
      BY <2>1, <3>1, ItemsAreTasks DEF MadeInv, ReadConfig, At
    <3> QED BY <1>0, <3>1, <3>2 DEF UsedInv, Shape
  <2>2. wallet' = wallet \/ \E t \in Running : ReadConfig(t)
    <3>1. ASSUME \A t \in Running : ~Step(t) PROVE wallet' = wallet
      BY <3>1, OutsideSteps DEF Outside
    <3> QED BY <3>1, Effects
  <2> QED BY <1>0, <2>1, <2>2 DEF UsedInv
<1> QED BY <1>1, <1>2 DEF UsedInv, Made, MadeNext

LEMMA BoundedStays ==
    ASSUME Bounded, [Next]_vars
    PROVE  Bounded'
<1>1. ASSUME NEW t \in Running, Step(t), ~InsertWithdrawal(t)
      PROVE  UNCHANGED <<scenario, withdrawals, troubles>>
  BY <1>1 DEF Step, FindName, FindWallets, CreateWallet, UpdateAddress, UpsertConfig,
     UpsertThreshold, CreateToken, ReadConfig, ReadDecimals, FindAddress, Derive, FindWithdrawal,
     CheckWithdrawal, FindToken, Answer, CallBroken, ValidateAddress, ReadList, ReadTotals, db
<1>2. ASSUME NEW t \in Running, InsertWithdrawal(t)
      PROVE  UNCHANGED <<scenario, troubles>> /\ withdrawals' \subseteq withdrawals \cup Items
  BY <1>2, ItemsAreTasks DEF InsertWithdrawal, Items
<1>3. CASE Trouble /\ UNCHANGED <<scenario, withdrawals>>
  BY <1>3, ScenariosAssumption DEF Trouble, Bounded
<1>4. Next => \/ UNCHANGED <<scenario, withdrawals, troubles>>
              \/ \E t \in Running : InsertWithdrawal(t)
              \/ Trouble /\ UNCHANGED <<scenario, withdrawals>>
  BY <1>1 DEF Next, Receive, Fail, InsertAddress, DropAddress, Crash, db
<1>5. CASE UNCHANGED <<scenario, withdrawals, troubles>>
  BY <1>5 DEF Bounded
<1> QED BY <1>2, <1>3, <1>4, <1>5 DEF Bounded, vars, db, Items

LEMMA TypesHold ==
    ASSUME Shape, MadeInv, ServedInv, ConfigInv, CompleteInv, UsedInv, Bounded
    PROVE  TypeOK
<1>1. ASSUME NEW w \in wallets, answer[w.by] # None, answer[w.by].status = 200
      PROVE  w.complete
  <2>1. w.by \in Requests /\ Op(w.by) = "addWallet"
    BY DEF CompleteInv
  <2>2. <<w.by, 1>> \in TasksOf(w.by)
    BY <2>1, TaskOf DEF Withdrawals
  <2>3. pc[<<w.by, 1>>] = "accepted"
    BY <1>1, <2>1, <2>2 DEF CompleteInv
  <2> QED BY <2>3 DEF CompleteInv
<1>2. \A row \in addresses \cup inserting \cup dropped : \E w \in wallets : w.by = row.wallet
  BY DEF MadeInv, OnWay, UsedInv, Made
<1>3. \A r \in Requests : answer[r] # None => answer[r].status \in {200, 401, 404, 500}
  BY DEF CompleteInv
<1>4. \A s \in Services : config[s] # None =>
          \A i \in DOMAIN config[s] : \E w \in wallets : w.by = config[s][i] /\ w.service = s
  BY DEF ConfigInv, Has
<1>5. \A s \in Services : thresholds[s] \in Requests \cup {None}
  BY DEF ServedInv
<1>6. pc \in [Tasks -> States] /\ \A t \in Tasks : wallet[t] # None => \E w \in wallets : w.by = wallet[t]
  BY DEF Shape, UsedInv, Made
<1>7. /\ \A w \in wallets : w.by \in Requests /\ w.service \in Services /\ w.complete \in BOOLEAN
      /\ \A k \in tokens : k.by \in Requests /\ k.service \in Services
  BY DEF ServedInv
<1>8. scenario \in Scenarios /\ withdrawals \subseteq Items /\ troubles \in 0 .. scenario.troubles
  BY DEF Bounded
<1> QED BY <1>1, <1>2, <1>3, <1>4, <1>5, <1>6, <1>7, <1>8 DEF TypeOK, States

\* The types of the server; with them, that a service is only configured with wallets of
\* its own, that an address belongs to a wallet there is, and that a wallet has its own
\* address when its client learns of it, whatever overlaps or fails.
THEOREM ServiceTypeCorrect == Spec => []TypeOK
<1> DEFINE Inv == /\ Shape /\ Flights /\ WalletInv /\ MadeInv
                  /\ ServedInv /\ ConfigInv /\ CompleteInv /\ UsedInv /\ Bounded
<1>1. Init => Inv
  <2> SUFFICES ASSUME Init PROVE Inv
    OBVIOUS
  <2>1. Shape /\ Running = {} /\ InFlight = {}
    BY DEF Init, Shape, States, Running, InFlight
  <2>2. ServedInv /\ ConfigInv /\ CompleteInv /\ UsedInv
    BY DEF Init, ServedInv, ConfigInv, CompleteInv, UsedInv, Serving, At
  <2>3. Bounded
    BY ScenariosAssumption DEF Init, Bounded
  <2> QED BY <2>1, <2>2, <2>3 DEF Init, Flights, WalletInv, MadeInv, OnWay
<1>2. Inv /\ [Next]_vars => Inv'
  BY ShapeStays, FlightsStay, WalletStays, MadeStays, ServedStays, ConfigStays, CompleteStays,
     UsedStays, BoundedStays
<1>3. Inv => TypeOK
  BY TypesHold
<1> QED BY <1>1, <1>2, <1>3, PTL DEF Spec
=============================================================================
