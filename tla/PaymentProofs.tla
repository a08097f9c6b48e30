--------------------------- MODULE PaymentProofs ---------------------------
(***************************************************************************)
(* Theorems about Payment, for any withdrawals, hot wallets and troubles.  *)
(***************************************************************************)
EXTENDS Payment, FiniteSetTheorems, TLAPS

\* The fields of a coroutine and of a row; what they hold does not matter here.
Shapes ==
    /\ \A m \in Maps : \A s \in sends[m] :
          s = [w |-> s.w, nonce |-> s.nonce, st |-> s.st]
    /\ sends = [m \in Maps |-> sends[m]]
    /\ rows = [w \in Withdrawals |-> rows[w]]
    /\ \A w \in Withdrawals :
          rows[w] = [status |-> rows[w].status, nonce |-> rows[w].nonce,
                     notified |-> rows[w].notified]

\* The node has taken the transaction.
Taken(tx) == tx \in mempool \/ Mined(tx, TRUE) \in mined \/ Mined(tx, FALSE) \in mined

\* What a coroutine knows: when it is about to record, its answer is there; a
\* transaction of trx that waits for its answer was taken.
Known(s) ==
    /\ s.st = "record" => Answered(s)
    /\ s.st \in {"wait", "record"} /\ ~setup.nonced => Taken(Tx(s))

RecordInv ==
    /\ Shapes
    /\ \A m \in Maps : \A s \in sends[m] : Known(s)
    /\ RecordedIsPaid

\* No step takes back what the node has taken or the chain contains; only eth
\* and bnb replace a transaction (Broadcast).
LEMMA ChainGrows ==
    ASSUME [Next]_vars
    PROVE  /\ setup' = setup /\ mined \subseteq mined'
           /\ ~setup.nonced => \A tx : Taken(tx) => Taken(tx)'
<1>1. ASSUME NEW m \in Maps, NEW s \in sends[m], Broadcast(m, s)
      PROVE  /\ setup' = setup /\ mined' = mined
             /\ ~setup.nonced => mempool \subseteq mempool'
  BY <1>1 DEF Broadcast
<1>2. ASSUME NEW tx \in mempool, Mine(tx)
      PROVE  /\ setup' = setup /\ mined \subseteq mined'
             /\ ~setup.nonced => \A u : Taken(u) => Taken(u)'
  <2>1. PICK ok \in BOOLEAN : mined' = mined \cup {Mined(tx, ok)}
    BY <1>2 DEF Mine
  <2>2. mempool' = mempool \ {tx} /\ setup' = setup
    BY <1>2 DEF Mine
  <2>3. ASSUME NEW u, Taken(u) PROVE Taken(u)'
    <3>1. CASE u = tx
      BY <2>1, <3>1 DEF Taken, Mined
    <3>2. CASE u # tx
      BY <2>1, <2>2, <2>3, <3>2 DEF Taken, Mined
    <3> QED BY <3>1, <3>2
  <2> QED BY <2>1, <2>2, <2>3
<1>3. CASE UNCHANGED <<setup, chain>>
  BY <1>3 DEF chain, Taken
<1>4. ASSUME NEW m \in Maps, NEW s \in sends[m],
             Refuse(m, s) \/ Answer(m, s) \/ Reverted(m, s) \/ GiveUp(m, s) \/ Record(m, s)
             \/ SendThrows(m, s)
      PROVE  UNCHANGED <<setup, chain>>
  BY <1>4 DEF Refuse, Answer, Reverted, GiveUp, Record, SendThrows
<1>5. ASSUME Pass \/ ReadFails \/ Crash \/ (\E w \in Withdrawals : Request(w))
             \/ (\E t \in mined : MonitorSees(t))
      PROVE  UNCHANGED <<setup, chain>>
  BY <1>5 DEF Pass, ReadBalance, ReadPending, Accept, PutOff, FilterFails, StartMap, MapDone,
              ReadFails, Crash, Request, MonitorSees
<1>6. CASE UNCHANGED vars
  BY <1>6, <1>3 DEF vars
<1>7. ASSUME \E m \in Maps : \E s \in sends[m] : Broadcast(m, s)
      PROVE  /\ setup' = setup /\ mined \subseteq mined'
             /\ ~setup.nonced => \A tx : Taken(tx) => Taken(tx)'
  BY <1>1, <1>7 DEF Taken
<1> QED BY <1>2, <1>3, <1>4, <1>5, <1>6, <1>7 DEF Next, Process, Fail, Send

\* A transaction that may be recorded.
Sound(tx) ==
    \/ Mined(tx, TRUE) \in mined
    \/ ~setup.nonced /\ (tx \in mempool \/ Mined(tx, FALSE) \in mined)

RowSound(w) ==
    rows[w].status \in {"transfered", "success"} => Sound([w |-> w, nonce |-> rows[w].nonce])

\* So what a coroutine knows stays true, and what was recorded soundly is sound.
LEMMA KnowledgeStays ==
    ASSUME [Next]_vars
    PROVE  /\ \A s : Known(s) => Known(s)'
           /\ \A tx : Sound(tx) => Sound(tx)'
<1> USE ChainGrows
<1>1. ASSUME NEW s, Known(s) PROVE Known(s)'
  BY <1>1 DEF Known, Answered
<1>2. ASSUME NEW tx, Sound(tx) PROVE Sound(tx)'
  BY <1>2 DEF Sound, Taken
<1> QED BY <1>1, <1>2

\* What the step of a coroutine does to it: it ends, or it becomes t.
LEMMA CoroutineSteps ==
    ASSUME Shapes, NEW m \in Maps, NEW s \in sends[m], Send(m, s), Known(s), [Next]_vars
    PROVE  \/ End(m, s)
           \/ \E t : /\ GoOn(m, s, t) /\ t = [w |-> t.w, nonce |-> t.nonce, st |-> t.st]
                     /\ Known(t)'
<1> DEFINE Becomes(t) ==
      GoOn(m, s, t) /\ t = [w |-> t.w, nonce |-> t.nonce, st |-> t.st] /\ Known(t)'
<1>1. CASE Broadcast(m, s)
  <2>1. PICK n : /\ GoOn(m, s, [w |-> s.w, nonce |-> n, st |-> "wait"])
                 /\ [w |-> s.w, nonce |-> n] \in mempool'
    BY <1>1 DEF Broadcast, Tx
  <2> DEFINE t == [w |-> s.w, nonce |-> n, st |-> "wait"]
  <2>2. Known(t)'
    BY <2>1 DEF Known, Taken, Tx
  <2>3. t = [w |-> t.w, nonce |-> t.nonce, st |-> t.st]
    OBVIOUS
  <2> QED BY <2>1, <2>2, <2>3
<1>2. CASE Answer(m, s)
  <2> DEFINE t == [w |-> s.w, nonce |-> s.nonce, st |-> "record"]
  <2>1. s = [w |-> s.w, nonce |-> s.nonce, st |-> s.st]
    BY DEF Shapes
  <2>2. t = [s EXCEPT !.st = "record"]
    BY <2>1
  <2>3. GoOn(m, s, t) /\ s.st = "wait" /\ Answered(s) /\ UNCHANGED <<setup, chain>>
    BY <1>2, <2>2 DEF Answer
  <2>4. Known(t)
    BY <2>3 DEF Known, Answered, Tx, Mined
  <2>5. Known(t)'
    BY <2>4, KnowledgeStays
  <2> QED BY <2>3, <2>5
<1>3. CASE Refuse(m, s) \/ Reverted(m, s) \/ GiveUp(m, s) \/ Record(m, s)
  BY <1>3 DEF Refuse, Reverted, GiveUp, Record
<1> QED BY <1>1, <1>2, <1>3 DEF Send

\* The shapes are kept and every coroutine goes on to know what it claims to.
LEMMA CoroutinesKeep ==
    ASSUME RecordInv, [Next]_vars
    PROVE  /\ \A m \in Maps : \A s \in sends'[m] :
                 s = [w |-> s.w, nonce |-> s.nonce, st |-> s.st] /\ Known(s)'
           /\ sends' = [m \in Maps |-> sends'[m]]
<1> DEFINE Fine ==
      /\ \A m \in Maps : \A s \in sends'[m] :
            s = [w |-> s.w, nonce |-> s.nonce, st |-> s.st] /\ Known(s)'
      /\ sends' = [m \in Maps |-> sends'[m]]
<1>0. /\ \A m \in Maps : \A s \in sends[m] :
            s = [w |-> s.w, nonce |-> s.nonce, st |-> s.st] /\ Known(s) /\ Known(s)'
      /\ sends = [m \in Maps |-> sends[m]]
  BY KnowledgeStays DEF RecordInv, Shapes
<1>1. ASSUME NEW m \in Maps, NEW s \in sends[m], Send(m, s) PROVE Fine
  <2>1. CASE End(m, s)
    BY <2>1, <1>0 DEF End
  <2>2. ASSUME NEW t, GoOn(m, s, t), Known(t)',
               t = [w |-> t.w, nonce |-> t.nonce, st |-> t.st]
        PROVE  Fine
    BY <2>2, <1>0 DEF GoOn
  <2> QED BY <1>0, <1>1, <2>1, <2>2, CoroutineSteps DEF RecordInv
<1>2. ASSUME NEW m \in Maps, NEW s \in sends[m], SendThrows(m, s) PROVE Fine
  <2>1. End(m, s)
    BY <1>2 DEF SendThrows
  <2> QED BY <2>1, <1>0 DEF End
<1>3. ASSUME NEW m \in Maps, StartMap(m) PROVE Fine
  <2>1. PICK I : sends' = [sends EXCEPT ![m] = {Coroutine(i) : i \in I}]
    BY <1>3 DEF StartMap
  <2>2. ASSUME NEW i
        PROVE  /\ Coroutine(i) = [w |-> Coroutine(i).w, nonce |-> Coroutine(i).nonce,
                                  st |-> Coroutine(i).st]
               /\ Coroutine(i).st = "sign"
    BY DEF Coroutine
  <2>3. \A i : Known(Coroutine(i))
    BY <2>2 DEF Known
  <2>4. \A s : Known(s) => Known(s)'
    BY KnowledgeStays
  <2>5. \A n \in Maps : \A s \in sends'[n] : s \in sends[n] \/ \E i \in I : s = Coroutine(i)
    BY <2>1, <1>0
  <2>6. ASSUME NEW n \in Maps, NEW s \in sends'[n]
        PROVE  s = [w |-> s.w, nonce |-> s.nonce, st |-> s.st] /\ Known(s)'
    <3>1. CASE s \in sends[n]
      BY <3>1, <1>0
    <3>2. ASSUME NEW i \in I, s = Coroutine(i)
          PROVE  s = [w |-> s.w, nonce |-> s.nonce, st |-> s.st] /\ Known(s)'
      <4>1. s = [w |-> s.w, nonce |-> s.nonce, st |-> s.st]
        BY <2>2, <3>2
      <4>2. Known(s)
        BY <2>3, <3>2
      <4> QED BY <4>1, <4>2, <2>4
    <3> QED BY <2>5, <3>1, <3>2
  <2>7. sends' = [n \in Maps |-> sends'[n]]
    BY <2>1, <1>0
  <2> QED BY <2>6, <2>7
<1>4. CASE Crash
  BY <1>4 DEF Crash
<1>5. CASE UNCHANGED sends
  BY <1>5, <1>0
<1>6. ASSUME ReadBalance \/ ReadPending
             \/ (\E i \in pending : Accept(i) \/ PutOff(i) \/ FilterFails(i))
             \/ MapDone \/ ReadFails
             \/ (\E w \in Withdrawals : Request(w)) \/ (\E tx \in mempool : Mine(tx))
             \/ (\E t \in mined : MonitorSees(t)) \/ UNCHANGED vars
      PROVE  UNCHANGED sends
  BY <1>6 DEF ReadBalance, ReadPending, Accept, PutOff, FilterFails, MapDone, ReadFails,
              Request, Mine, MonitorSees, vars
<1> QED BY <1>1, <1>2, <1>3, <1>4, <1>5, <1>6 DEF Next, Process, Fail, Pass

\* The rows keep their shape, and only what is sound is recorded.
LEMMA RowsKeep ==
    ASSUME RecordInv, [Next]_vars
    PROVE  /\ rows' = [w \in Withdrawals |-> rows'[w]]
           /\ \A w \in Withdrawals :
                 /\ rows'[w] = [status |-> rows'[w].status, nonce |-> rows'[w].nonce,
                                notified |-> rows'[w].notified]
                 /\ RowSound(w)'
<1> DEFINE Row(r) == r = [status |-> r.status, nonce |-> r.nonce, notified |-> r.notified]
           Fine == /\ rows' = [w \in Withdrawals |-> rows'[w]]
                   /\ \A w \in Withdrawals : Row(rows'[w]) /\ RowSound(w)'
<1>0. /\ rows = [w \in Withdrawals |-> rows[w]]
      /\ \A w \in Withdrawals : Row(rows[w]) /\ RowSound(w)
      /\ \A tx : Sound(tx) => Sound(tx)'
  BY KnowledgeStays DEF RecordInv, Shapes, RecordedIsPaid, RowSound, Sound
<1>1. CASE UNCHANGED rows
  BY <1>0, <1>1 DEF RowSound
<1>2. ASSUME NEW w \in Withdrawals, Request(w) PROVE Fine
  <2>1. rows' = [rows EXCEPT ![w].status = "inqueue"]
    BY <1>2 DEF Request
  <2>2. \A v \in Withdrawals : Row(rows'[v]) /\ rows'[v].nonce = rows[v].nonce
                               /\ (rows'[v].status = rows[v].status \/ rows'[v].status = "inqueue")
    BY <2>1, <1>0
  <2>3. rows' = [v \in Withdrawals |-> rows'[v]]
    BY <2>1, <1>0
  <2> QED BY <2>2, <2>3, <1>0 DEF RowSound
<1>3. ASSUME NEW i \in pending, PutOff(i) PROVE Fine
  <2>1. rows' = [rows EXCEPT ![queue[i]].notified = TRUE]
    BY <1>3 DEF PutOff
  <2>2. \A v \in Withdrawals : Row(rows'[v]) /\ rows'[v].nonce = rows[v].nonce
                               /\ rows'[v].status = rows[v].status
    <3> SUFFICES ASSUME NEW v \in Withdrawals
                 PROVE  Row(rows'[v]) /\ rows'[v].nonce = rows[v].nonce
                        /\ rows'[v].status = rows[v].status
      OBVIOUS
    <3>1. CASE v = queue[i]
      <4>1. rows'[v] = [rows[v] EXCEPT !.notified = TRUE]
        BY <2>1, <1>0, <3>1
      <4> QED BY <4>1, <1>0
    <3>2. CASE v # queue[i]
      <4>1. rows'[v] = rows[v]
        BY <2>1, <1>0, <3>2
      <4> QED BY <4>1, <1>0
    <3> QED BY <3>1, <3>2
  <2>3. rows' = [v \in Withdrawals |-> rows'[v]]
    BY <2>1, <1>0
  <2> QED BY <2>2, <2>3, <1>0 DEF RowSound
<1>4. ASSUME NEW t \in mined, MonitorSees(t) PROVE Fine
  <2>1. CASE /\ rows[t.w].status = "transfered"
             /\ rows' = [rows EXCEPT ![t.w].status = "success"]
    <3>1. \A v \in Withdrawals : Row(rows'[v]) /\ rows'[v].nonce = rows[v].nonce
             /\ (rows'[v].status = rows[v].status \/ rows[v].status = "transfered")
      <4> SUFFICES ASSUME NEW v \in Withdrawals
                   PROVE  Row(rows'[v]) /\ rows'[v].nonce = rows[v].nonce
                          /\ (rows'[v].status = rows[v].status \/ rows[v].status = "transfered")
        OBVIOUS
      <4>1. CASE v = t.w
        <5>1. rows'[v] = [rows[v] EXCEPT !.status = "success"]
          BY <2>1, <1>0, <4>1
        <5> QED BY <5>1, <1>0, <2>1, <4>1
      <4>2. CASE v # t.w
        <5>1. rows'[v] = rows[v]
          BY <2>1, <1>0, <4>2
        <5> QED BY <5>1, <1>0
      <4> QED BY <4>1, <4>2
    <3>2. rows' = [v \in Withdrawals |-> rows'[v]]
      BY <2>1, <1>0
    <3> QED BY <3>1, <3>2, <1>0 DEF RowSound
  <2> QED BY <2>1, <1>1, <1>4 DEF MonitorSees
<1>5. ASSUME NEW m \in Maps, NEW s \in sends[m], Record(m, s) PROVE Fine
  <2>1. rows' = [rows EXCEPT ![s.w].status = "transfered", ![s.w].nonce = s.nonce]
        /\ s.st = "record" /\ UNCHANGED <<setup, chain>>
    BY <1>5 DEF Record
  <2>2. Known(s) /\ s = [w |-> s.w, nonce |-> s.nonce, st |-> s.st]
    BY DEF RecordInv, Shapes
  <2>3. Sound(Tx(s))
    BY <2>1, <2>2 DEF Known, Answered, Sound, Taken, Tx, Mined
  <2>4. \A v \in Withdrawals : /\ Row(rows'[v])
                               /\ v # s.w => rows'[v] = rows[v]
                               /\ v = s.w => rows'[v].nonce = s.nonce
    <3> SUFFICES ASSUME NEW v \in Withdrawals
                 PROVE  /\ Row(rows'[v]) /\ (v # s.w => rows'[v] = rows[v])
                        /\ v = s.w => rows'[v].nonce = s.nonce
      OBVIOUS
    <3>1. CASE v = s.w
      <4>1. rows'[v] = [[rows[v] EXCEPT !.status = "transfered"] EXCEPT !.nonce = s.nonce]
        BY <2>1, <1>0, <3>1
      <4> QED BY <4>1, <1>0, <3>1
    <3>2. CASE v # s.w
      <4>1. rows'[v] = rows[v]
        BY <2>1, <1>0, <3>2
      <4> QED BY <4>1, <1>0, <3>2
    <3> QED BY <3>1, <3>2
  <2>5. rows' = [v \in Withdrawals |-> rows'[v]]
    BY <2>1, <1>0
  <2>6. \A v \in Withdrawals : RowSound(v)'
    BY <2>3, <2>4, <1>0 DEF RowSound, Tx
  <2> QED BY <2>4, <2>5, <2>6
<1>6. ASSUME ReadBalance \/ ReadPending \/ (\E i \in pending : Accept(i) \/ FilterFails(i))
             \/ MapDone \/ ReadFails \/ Crash
             \/ (\E m \in Maps : StartMap(m)) \/ (\E tx \in mempool : Mine(tx))
             \/ UNCHANGED vars
      PROVE  UNCHANGED rows
  BY <1>6 DEF ReadBalance, ReadPending, Accept, FilterFails, MapDone, ReadFails, Crash,
              StartMap, Mine, vars
<1>7. ASSUME NEW m \in Maps, NEW s \in sends[m],
             Broadcast(m, s) \/ Refuse(m, s) \/ Answer(m, s) \/ Reverted(m, s) \/ GiveUp(m, s)
             \/ SendThrows(m, s)
      PROVE  UNCHANGED rows
  BY <1>7 DEF Broadcast, Refuse, Answer, Reverted, GiveUp, SendThrows
<1> QED BY <1>1, <1>2, <1>3, <1>4, <1>5, <1>6, <1>7 DEF Next, Process, Fail, Pass, Send

\* A withdrawal recorded as transfered was paid by the transaction recorded,
\* whatever crashes, throws, gets lost or is refused, and whatever coroutines an
\* exception leaves behind (ProcessWithdraw, updateTransactionHash).
THEOREM RecordedWasPaid == Spec => []RecordedIsPaid
<1>1. Init => RecordInv
  <2> SUFFICES ASSUME Init PROVE RecordInv
    OBVIOUS
  <2>1. sends = [m \in Maps |-> {}]
    BY DEF Init
  <2>2. rows = [w \in Withdrawals |->
                  [status |-> IF w \in ToSet(queue) THEN "inqueue" ELSE "new",
                   nonce |-> Missing, notified |-> FALSE]]
    BY DEF Init
  <2>3. Shapes
    BY <2>1, <2>2 DEF Shapes
  <2>4. RecordedIsPaid
    BY <2>2 DEF RecordedIsPaid
  <2> QED BY <2>1, <2>3, <2>4 DEF RecordInv
<1>2. RecordInv /\ [Next]_vars => RecordInv'
  <2> SUFFICES ASSUME RecordInv, [Next]_vars PROVE RecordInv'
    OBVIOUS
  <2>1. Shapes'
    BY CoroutinesKeep, RowsKeep DEF Shapes
  <2>2. RecordedIsPaid'
    BY RowsKeep DEF RecordedIsPaid, RowSound, Sound
  <2> QED BY <2>1, <2>2, CoroutinesKeep DEF RecordInv
<1>3. RecordInv => RecordedIsPaid
  BY DEF RecordInv
<1> QED BY <1>1, <1>2, <1>3, PTL DEF Spec

----------------------------------------------------------------------------
(* No balance is overdrawn *)

LEMMA Costs ==
    ASSUME NEW w \in Withdrawals, NEW a
    PROVE  /\ Cost(w, a) \in Nat
           /\ a \notin {Asset[w], Coin} => Cost(w, a) = 0
           /\ a \in {Asset[w], Coin} => Cost(w, a) > 0
<1>1. Amount[w] \in Nat \ {0} /\ Fee(w) \in Nat \ {0}
  BY DataAssumption DEF Fee
<1>2. /\ a = Asset[w] /\ a = Coin => Cost(w, a) = Amount[w] + Fee(w)
      /\ a = Asset[w] /\ a # Coin => Cost(w, a) = Amount[w] + 0
      /\ a # Asset[w] /\ a = Coin => Cost(w, a) = 0 + Fee(w)
      /\ a # Asset[w] /\ a # Coin => Cost(w, a) = 0 + 0
  BY DEF Cost
<1> HIDE DEF Cost
<1> QED BY <1>1, <1>2

\* What the filter accepts, the balance covers: it stays a natural number, and no
\* entry appears for a currency that has none.
LEMMA CoveredStays ==
    ASSUME TypeOK, NEW w \in Withdrawals, Covers(w)
    PROVE  [a \in Assets |-> balance[a] - Cost(w, a)] \in [Assets -> Nat \cup {Missing}]
<1> SUFFICES ASSUME NEW a \in Assets
             PROVE  balance[a] - Cost(w, a) \in Nat \cup {Missing}
  OBVIOUS
<1>1. balance[a] \in Nat \cup {-1} /\ Cost(w, a) \in Nat
  BY Costs DEF TypeOK, Missing
<1>2. CASE a \in {Asset[w], Coin}
  <2>1. balance[a] >= Cost(w, a)
    BY <1>2 DEF Covers
  <2> QED BY <2>1, <1>1 DEF Missing
<1>3. CASE a \notin {Asset[w], Coin}
  <2>1. Cost(w, a) = 0
    BY <1>3, Costs
  <2> QED BY <2>1, <1>1 DEF Missing
<1> QED BY <1>2, <1>3

Sends == [w : Withdrawals, nonce : Nat, st : {"sign", "wait", "record"}]

\* The coroutines keep their types.
LEMMA SendsTyped ==
    ASSUME TypeOK, [Next]_vars
    PROVE  sends' \in [Maps -> SUBSET Sends]
<1> USE DEF Sends
<1>0. sends \in [Maps -> SUBSET Sends]
  BY DEF TypeOK
<1>1. ASSUME NEW m \in Maps, NEW s \in sends[m], Send(m, s) PROVE sends' \in [Maps -> SUBSET Sends]
  <2>0. s \in Sends
    BY <1>0
  <2>1. CASE End(m, s)
    BY <2>1, <1>0 DEF End
  <2>2. ASSUME NEW t \in Sends, GoOn(m, s, t) PROVE sends' \in [Maps -> SUBSET Sends]
    BY <2>2, <1>0 DEF GoOn
  <2>3. CASE Broadcast(m, s)
    <3>1. used \in Nat
      BY DEF TypeOK
    <3>2. CASE setup.nonced
      <4>1. GoOn(m, s, [w |-> s.w, nonce |-> s.nonce, st |-> "wait"])
        BY <2>3, <3>2 DEF Broadcast, Tx
      <4> QED BY <4>1, <2>0, <2>2
    <3>3. CASE ~setup.nonced
      <4>1. GoOn(m, s, [w |-> s.w, nonce |-> used, st |-> "wait"])
        BY <2>3, <3>3 DEF Broadcast, Tx
      <4> QED BY <3>1, <4>1, <2>0, <2>2
    <3> QED BY <3>2, <3>3
  <2>4. CASE Answer(m, s)
    <3>1. GoOn(m, s, [s EXCEPT !.st = "record"])
      BY <2>4 DEF Answer
    <3> QED BY <3>1, <2>0, <2>2
  <2>5. CASE Refuse(m, s) \/ Reverted(m, s) \/ GiveUp(m, s) \/ Record(m, s)
    BY <2>1, <2>5 DEF Refuse, Reverted, GiveUp, Record
  <2> QED BY <1>1, <2>3, <2>4, <2>5 DEF Send
<1>2. ASSUME NEW m \in Maps, NEW s \in sends[m], SendThrows(m, s)
      PROVE  sends' \in [Maps -> SUBSET Sends]
  BY <1>2, <1>0 DEF SendThrows, End
<1>3. ASSUME NEW m \in Maps, StartMap(m) PROVE sends' \in [Maps -> SUBSET Sends]
  <2>1. used \in Nat /\ accepted \in Seq(Withdrawals)
    BY DEF TypeOK
  <2>2. ASSUME NEW i \in DOMAIN accepted PROVE Coroutine(i) \in Sends
    <3>1. i \in Nat \ {0} /\ accepted[i] \in Withdrawals
      BY <2>1
    <3>2. (IF setup.nonced THEN used + i - 1 ELSE 0) \in Nat
      BY <2>1, <3>1
    <3> QED BY <3>1, <3>2 DEF Coroutine
  <2>3. PICK I : sends' = [sends EXCEPT ![m] = {Coroutine(i) : i \in I}] /\ I \subseteq DOMAIN accepted
    BY <1>3 DEF StartMap
  <2>4. {Coroutine(i) : i \in I} \in SUBSET Sends
    BY <2>2, <2>3
  <2> QED BY <2>3, <2>4, <1>0
<1>4. CASE Crash
  BY <1>4 DEF Crash
<1>5. ASSUME ReadBalance \/ ReadPending
             \/ (\E i \in pending : Accept(i) \/ PutOff(i) \/ FilterFails(i))
             \/ MapDone \/ ReadFails
             \/ (\E w \in Withdrawals : Request(w)) \/ (\E tx \in mempool : Mine(tx))
             \/ (\E t \in mined : MonitorSees(t)) \/ UNCHANGED vars
      PROVE  UNCHANGED sends
  BY <1>5 DEF ReadBalance, ReadPending, Accept, PutOff, FilterFails, MapDone, ReadFails,
              Request, Mine, MonitorSees, vars
<1> QED BY <1>0, <1>1, <1>2, <1>3, <1>4, <1>5 DEF Next, Process, Fail, Pass

Row == [status : {"new", "inqueue", "transfered", "success"},
        nonce : Nat \cup {Missing}, notified : BOOLEAN]

\* The database keeps its types.
LEMMA StoreTyped ==
    ASSUME TypeOK, [Next]_vars
    PROVE  /\ queue' \in Seq(Withdrawals) /\ DOMAIN queue \subseteq DOMAIN queue'
           /\ rows' \in [Withdrawals -> Row]
           /\ book' \in [Assets -> Nat]
<1> DEFINE Fine == /\ queue' \in Seq(Withdrawals) /\ DOMAIN queue \subseteq DOMAIN queue'
                   /\ rows' \in [Withdrawals -> Row]
                   /\ book' \in [Assets -> Nat]
<1>0. queue \in Seq(Withdrawals) /\ rows \in [Withdrawals -> Row] /\ book \in [Assets -> Nat]
  BY DEF TypeOK, Row
<1>1. CASE UNCHANGED <<queue, rows, book>>
  BY <1>0, <1>1
<1>2. ASSUME NEW w \in Withdrawals, Request(w) PROVE Fine
  <2>1. rows' = [rows EXCEPT ![w].status = "inqueue"] /\ queue' = Append(queue, w) /\ book' = book
    BY <1>2 DEF Request
  <2>2. rows' \in [Withdrawals -> Row]
    BY <2>1, <1>0 DEF Row
  <2> QED BY <2>1, <2>2, <1>0
<1>3. ASSUME NEW i \in pending, PutOff(i) PROVE Fine
  <2>1. rows' = [rows EXCEPT ![queue[i]].notified = TRUE] /\ UNCHANGED <<queue, book>>
    BY <1>3 DEF PutOff
  <2>2. \A w \in Withdrawals : rows'[w] = rows[w] \/ rows'[w] = [rows[w] EXCEPT !.notified = TRUE]
    BY <2>1, <1>0
  <2>3. \A w \in Withdrawals : [rows[w] EXCEPT !.notified = TRUE] \in Row
    BY <1>0 DEF Row
  <2> QED BY <2>1, <2>2, <2>3, <1>0
<1>4. ASSUME NEW t \in mined, MonitorSees(t) PROVE Fine
  <2>1. t.w \in Withdrawals /\ \A a : Cost(t.w, a) \in Nat
    BY Costs DEF TypeOK
  <2>2. book' \in [Assets -> Nat]
    <3>1. ASSUME NEW a \in Assets
          PROVE  (IF book[a] > Cost(t.w, a) THEN book[a] - Cost(t.w, a) ELSE 0) \in Nat
      BY <2>1, <1>0
    <3> QED BY <3>1, <1>0, <1>4 DEF MonitorSees
  <2>3. rows' = rows \/ rows' = [rows EXCEPT ![t.w].status = "success"]
    BY <1>4 DEF MonitorSees
  <2>4. rows' \in [Withdrawals -> Row]
    BY <2>3, <1>0 DEF Row
  <2> QED BY <2>2, <2>4, <1>0, <1>4 DEF MonitorSees
<1>5. ASSUME NEW m \in Maps, NEW s \in sends[m], Record(m, s) PROVE Fine
  <2>1. s.nonce \in Nat
    BY DEF TypeOK
  <2>2. rows' = [rows EXCEPT ![s.w].status = "transfered", ![s.w].nonce = s.nonce]
        /\ UNCHANGED <<queue, book>>
    BY <1>5 DEF Record
  <2>3. \A w \in Withdrawals : rows'[w] = rows[w]
            \/ rows'[w] = [[rows[w] EXCEPT !.status = "transfered"] EXCEPT !.nonce = s.nonce]
    BY <2>2, <1>0
  <2>4. \A w \in Withdrawals :
            [[rows[w] EXCEPT !.status = "transfered"] EXCEPT !.nonce = s.nonce] \in Row
    BY <2>1, <1>0 DEF Row
  <2> QED BY <2>2, <2>3, <2>4, <1>0
<1>6. ASSUME ReadBalance \/ ReadPending \/ (\E i \in pending : Accept(i) \/ FilterFails(i))
             \/ MapDone \/ ReadFails \/ Crash
             \/ (\E m \in Maps : StartMap(m)) \/ (\E tx \in mempool : Mine(tx))
             \/ UNCHANGED vars
      PROVE  UNCHANGED <<queue, rows, book>>
  BY <1>6 DEF ReadBalance, ReadPending, Accept, FilterFails, MapDone, ReadFails, Crash,
              StartMap, Mine, vars
<1>7. ASSUME NEW m \in Maps, NEW s \in sends[m],
             Broadcast(m, s) \/ Refuse(m, s) \/ Answer(m, s) \/ Reverted(m, s) \/ GiveUp(m, s)
             \/ SendThrows(m, s)
      PROVE  UNCHANGED <<queue, rows, book>>
  BY <1>7 DEF Broadcast, Refuse, Answer, Reverted, GiveUp, SendThrows
<1> QED BY <1>1, <1>2, <1>3, <1>4, <1>5, <1>6, <1>7 DEF Next, Process, Fail, Pass, Send

MinedTxs == [w : Withdrawals, nonce : Nat, ok : BOOLEAN]

\* So do the node and the chain.
LEMMA ChainTyped ==
    ASSUME TypeOK, [Next]_vars
    PROVE  /\ setup' = setup /\ used' \in Nat
           /\ mempool' \subseteq Transactions /\ mined' \subseteq MinedTxs
           /\ seen' \subseteq mined'
<1> DEFINE Fine == /\ setup' = setup /\ used' \in Nat
                   /\ mempool' \subseteq Transactions /\ mined' \subseteq MinedTxs
                   /\ seen' \subseteq mined'
<1>0. /\ used \in Nat /\ seen \subseteq mined
      /\ mempool \subseteq Transactions /\ mined \subseteq MinedTxs
  BY DEF TypeOK, MinedTxs
<1>1. CASE UNCHANGED <<setup, chain, seen>>
  BY <1>0, <1>1 DEF chain
<1>2. ASSUME NEW m \in Maps, NEW s \in sends[m], Broadcast(m, s) PROVE Fine
  <2> DEFINE tx == IF setup.nonced THEN Tx(s) ELSE [w |-> s.w, nonce |-> used]
  <2>1. tx \in Transactions
    BY <1>0 DEF TypeOK, Tx, Transactions
  <2>2. mempool' \subseteq mempool \cup {tx} /\ used' \in Nat /\ UNCHANGED <<setup, mined, seen>>
    BY <1>0, <1>2 DEF Broadcast
  <2> HIDE DEF tx
  <2> QED BY <2>1, <2>2, <1>0
<1>3. ASSUME NEW tx \in mempool, Mine(tx) PROVE Fine
  <2>1. \A ok \in BOOLEAN : Mined(tx, ok) \in MinedTxs
    BY <1>0 DEF Mined, MinedTxs, Transactions
  <2>2. PICK ok \in BOOLEAN : mined' = mined \cup {Mined(tx, ok)}
    BY <1>3 DEF Mine
  <2>3. used' = IF setup.nonced THEN used + 1 ELSE used
    BY <1>3 DEF Mine
  <2>4. mempool' \subseteq mempool /\ UNCHANGED <<setup, seen>>
    BY <1>3 DEF Mine
  <2> QED BY <2>1, <2>2, <2>3, <2>4, <1>0
<1>4. ASSUME NEW t \in mined, MonitorSees(t) PROVE Fine
  BY <1>0, <1>4 DEF MonitorSees, chain
<1>5. ASSUME Pass \/ ReadFails \/ Crash \/ (\E w \in Withdrawals : Request(w)) \/ UNCHANGED vars
      PROVE  UNCHANGED <<setup, chain, seen>>
  BY <1>5 DEF Pass, ReadBalance, ReadPending, Accept, PutOff, FilterFails, StartMap, MapDone,
              ReadFails, Crash, Request, vars
<1>6. ASSUME NEW m \in Maps, NEW s \in sends[m],
             Refuse(m, s) \/ Answer(m, s) \/ Reverted(m, s) \/ GiveUp(m, s) \/ Record(m, s)
             \/ SendThrows(m, s)
      PROVE  UNCHANGED <<setup, chain, seen>>
  BY <1>6 DEF Refuse, Answer, Reverted, GiveUp, Record, SendThrows
<1> QED BY <1>1, <1>2, <1>3, <1>4, <1>5, <1>6 DEF Next, Process, Fail, Send

\* And the pass.
LEMMA PassTyped ==
    ASSUME TypeOK, [Next]_vars
    PROVE  /\ pc' \in {"balance", "pending", "filter", "map"}
           /\ balance' \in [Assets -> Nat \cup {Missing}]
           /\ pending' \subseteq DOMAIN queue /\ accepted' \in Seq(Withdrawals)
           /\ call' \in Maps \cup {None} /\ (pc' = "map" <=> call' # None)
           /\ doubt' \subseteq Withdrawals
<1> DEFINE Locals == /\ pc' \in {"balance", "pending", "filter", "map"}
                     /\ balance' \in [Assets -> Nat \cup {Missing}]
                     /\ pending' \subseteq DOMAIN queue /\ accepted' \in Seq(Withdrawals)
                     /\ call' \in Maps \cup {None} /\ (pc' = "map" <=> call' # None)
           Fine == Locals /\ doubt' \subseteq Withdrawals
<1>0. /\ pc \in {"balance", "pending", "filter", "map"}
      /\ balance \in [Assets -> Nat \cup {Missing}]
      /\ pending \subseteq DOMAIN queue /\ accepted \in Seq(Withdrawals)
      /\ call \in Maps \cup {None} /\ (pc = "map" <=> call # None)
      /\ doubt \subseteq Withdrawals /\ book \in [Assets -> Nat]
      /\ queue \in Seq(Withdrawals)
      /\ \A m \in Maps : \A s \in sends[m] : s.w \in Withdrawals
  BY DEF TypeOK
<1>1. ASSUME UNCHANGED <<pc, locals>> PROVE Locals
  BY <1>0, <1>1 DEF locals
<1>2. ASSUME FailPass PROVE Locals
  BY <1>0, <1>2 DEF FailPass, Forget
<1>3. CASE ReadBalance
  BY <1>0, <1>3 DEF ReadBalance
<1>4. CASE ReadPending
  <2>1. PendingWithdraw \subseteq DOMAIN queue
    BY DEF PendingWithdraw
  <2>2. <<>> \in Seq(Withdrawals)
    OBVIOUS
  <2> QED BY <2>1, <2>2, <1>0, <1>4 DEF ReadPending
<1>5. ASSUME NEW i \in pending, Accept(i) PROVE Fine
  <2>1. queue[i] \in Withdrawals
    BY <1>0
  <2>2. balance' \in [Assets -> Nat \cup {Missing}]
    BY <2>1, <1>5, CoveredStays DEF Accept
  <2>3. accepted' \in Seq(Withdrawals)
    BY <2>1, <1>0, <1>5 DEF Accept
  <2> QED BY <2>2, <2>3, <1>0, <1>5 DEF Accept
<1>6. ASSUME NEW i \in pending, PutOff(i) PROVE Fine
  BY <1>0, <1>6 DEF PutOff
<1>7. ASSUME NEW m \in Maps, StartMap(m) PROVE Fine
  <2>1. m # None
    BY BoundsAssumption
  <2> QED BY <2>1, <1>0, <1>7 DEF StartMap, Forget
<1>8. (\E i \in pending : FilterFails(i)) \/ MapDone \/ ReadFails => FailPass /\ doubt' = doubt
  BY DEF FilterFails, MapDone, ReadFails
<1>9. ASSUME (\E w \in Withdrawals : Request(w)) \/ (\E tx \in mempool : Mine(tx))
             \/ (\E t \in mined : MonitorSees(t)) \/ UNCHANGED vars
      PROVE  UNCHANGED <<pc, locals, doubt>>
  BY <1>9 DEF Request, Mine, MonitorSees, vars
<1>10. ASSUME NEW m \in Maps, NEW s \in sends[m], Send(m, s)
       PROVE  UNCHANGED <<pc, locals>> /\ doubt' \subseteq doubt \cup {s.w}
  BY <1>10 DEF Send, Broadcast, Refuse, Answer, Reverted, GiveUp, Record
<1>11. ASSUME NEW m \in Maps, NEW s \in sends[m], SendThrows(m, s)
       PROVE  (FailPass \/ UNCHANGED <<pc, locals>>) /\ doubt' \subseteq Withdrawals
  BY <1>0, <1>11 DEF SendThrows
<1>12. CASE Crash
  BY <1>0, <1>2, <1>12 DEF Crash
<1> QED
  BY <1>0, <1>1, <1>2, <1>3, <1>4, <1>5, <1>6, <1>7, <1>8, <1>9, <1>10, <1>11, <1>12
     DEF Next, Process, Fail, Pass, ReadBalance, ReadPending

LEMMA PaymentInit == Init => TypeOK
<1> SUFFICES ASSUME Init PROVE TypeOK
  OBVIOUS
<1>1. setup \in Setups /\ queue \in Seq(Withdrawals) /\ book \in [Assets -> Nat]
  BY SetupsAssumption DEF Init
<1>2. \A w : (IF w \in ToSet(queue) THEN "inqueue" ELSE "new") \in {"new", "inqueue"}
  OBVIOUS
<1>3. rows \in [Withdrawals -> Row]
  BY <1>2 DEF Init, Row, Missing
<1> QED BY <1>1, <1>3 DEF Init, TypeOK, Row, Missing, Transactions

LEMMA PaymentTyped == TypeOK /\ [Next]_vars => TypeOK'
<1> SUFFICES ASSUME TypeOK, [Next]_vars PROVE TypeOK'
  OBVIOUS
<1>1. setup \in Setups /\ setup' = setup
  BY ChainTyped DEF TypeOK
<1> QED BY <1>1, SendsTyped, StoreTyped, ChainTyped, PassTyped
      DEF TypeOK, Sends, Row, MinedTxs, Transactions

\* The types of the payment; with them, that no pass takes more from balanceMaps
\* than is in it (enoughBalanceFilter).
THEOREM PaymentTypeCorrect == Spec => []TypeOK
BY PaymentInit, PaymentTyped, PTL DEF Spec

----------------------------------------------------------------------------
(* A withdrawal is paid twice only when the program lost sight of it *)

\* What is out for a withdrawal: its transactions in the pool, and those that paid it.
Out(w) == {tx \in mempool : tx.w = w} \cup {t \in mined : t.w = w /\ t.ok}

\* The node counts: no nonce is in two places, and the pool holds the next ones.
Nonces ==
    /\ \A tx, u \in mempool : tx.nonce = u.nonce => tx = u
    /\ \A t, u \in mined : t.nonce = u.nonce => t = u
    /\ \A tx \in mempool : setup.nonced <=> tx.nonce >= used
    /\ \A t \in mined : t.nonce < used
    /\ \A tx \in mempool, t \in mined : tx.nonce # t.nonce

\* A withdrawal is in the queue once, and a pass holds each at most once.
Once ==
    /\ IsInjective(queue)
    /\ \A i \in DOMAIN queue : rows[queue[i]].status # "new"
    /\ IsInjective(accepted)
    /\ \A k \in DOMAIN accepted, i \in pending : accepted[k] # queue[i]
    /\ pc # "filter" => pending = {} /\ accepted = <<>>

\* What the pass holds is queued.
Held ==
    /\ \A i \in pending : queue[i] \notin doubt => rows[queue[i]].status = "inqueue"
    /\ \A k \in DOMAIN accepted :
          accepted[k] \notin doubt => rows[accepted[k]].status = "inqueue"

\* What is left behind is in doubt, and the coroutines of the Promise.map the pass
\* waits for pay different withdrawals, which are queued.
InHand ==
    /\ \A m \in Maps : \A s \in sends[m] : s.w \in doubt \/ m = call
    /\ \A m \in Maps : \A s, t \in sends[m] : s.w = t.w => s = t \/ s.w \in doubt
    /\ \A m \in Maps : \A s \in sends[m] : s.w \in doubt \/ rows[s.w].status = "inqueue"

\* A coroutine that has sent its transaction; nothing else is out for it.
Sent(w) == \E m \in Maps : \E s \in sends[m] : s.w = w /\ s.st \in {"wait", "record"}
Tracked(w) ==
    /\ \A m \in Maps : \A s \in sends[m] : s.w = w =>
          Out(w) \subseteq {Tx(s), Mined(s, TRUE)}
    /\ rows[w].status \in {"new", "inqueue"} /\ ~Sent(w) => Out(w) = {}
    /\ \A a, b \in Out(w) : a = b

PayInv ==
    TypeOK /\ Nonces /\ Once /\ Held /\ InHand /\ \A w \in Withdrawals \ doubt : Tracked(w)

\* Broadcast takes a nonce that is not used, and drops what had it; Mine moves one.
LEMMA NoncesKeep ==
    ASSUME TypeOK, Nonces, [Next]_vars
    PROVE  Nonces'
<1>0. used \in Nat /\ mempool \subseteq Transactions /\ mined \subseteq MinedTxs
  BY DEF TypeOK, MinedTxs
<1>1. CASE UNCHANGED <<setup, chain>>
  BY <1>1 DEF Nonces, chain
<1>2. ASSUME NEW m \in Maps, NEW s \in sends[m], Broadcast(m, s) PROVE Nonces'
  <2>1. s.nonce \in Nat
    BY DEF TypeOK
  <2>2. CASE setup.nonced
    <3>1. /\ s.nonce >= used /\ used' = used /\ mined' = mined /\ setup' = setup
          /\ mempool' = (mempool \ SameNonce(Tx(s))) \cup {Tx(s)}
      BY <1>2, <2>2 DEF Broadcast, Tx
    <3>2. Tx(s).nonce = s.nonce
      BY DEF Tx
    <3>3. \A tx \in mempool' : tx = Tx(s) \/ (tx \in mempool /\ tx.nonce # s.nonce)
      BY <3>1, <3>2 DEF SameNonce
    <3>4. \A tx \in mempool' : tx.nonce >= used
      BY <3>1, <3>2, <3>3, <2>2 DEF Nonces
    <3>5. \A t \in mined : t.nonce \in Nat
      BY <1>0 DEF MinedTxs
    <3>6. \A tx \in mempool', t \in mined : tx.nonce # t.nonce
      BY <3>1, <3>2, <3>3, <3>5, <2>1, <1>0 DEF Nonces
    <3>7. \A tx, u \in mempool' : tx.nonce = u.nonce => tx = u
      BY <3>2, <3>3 DEF Nonces
    <3> QED BY <3>1, <3>4, <3>6, <3>7, <2>2 DEF Nonces
  <2>3. CASE ~setup.nonced
    <3> DEFINE new == [w |-> s.w, nonce |-> used]
    <3>1. /\ used' = used + 1 /\ mined' = mined /\ setup' = setup
          /\ mempool' = mempool \cup {new}
      BY <1>2, <2>3 DEF Broadcast
    <3>2. \A tx \in mempool : tx.nonce \in Nat /\ tx.nonce < used
      BY <1>0, <2>3 DEF Nonces, Transactions
    <3>3. \A t \in mined : t.nonce \in Nat /\ t.nonce < used
      BY <1>0 DEF Nonces, MinedTxs
    <3>4. new.nonce = used
      OBVIOUS
    <3> HIDE DEF new
    <3>5. \A tx \in mempool' : ~(tx.nonce >= used')
      BY <3>1, <3>2, <3>4, <1>0
    <3>6. \A t \in mined' : t.nonce < used'
      BY <3>1, <3>3, <1>0
    <3>7. \A tx, u \in mempool' : tx.nonce = u.nonce => tx = u
      BY <3>1, <3>2, <3>4, <1>0 DEF Nonces
    <3>8. \A tx \in mempool', t \in mined' : tx.nonce # t.nonce
      BY <3>1, <3>2, <3>3, <3>4, <1>0 DEF Nonces
    <3>9. \A t, u \in mined' : t.nonce = u.nonce => t = u
      BY <3>1 DEF Nonces
    <3> QED BY <3>1, <3>5, <3>6, <3>7, <3>8, <3>9, <2>3 DEF Nonces
  <2> QED BY <2>2, <2>3
<1>3. ASSUME NEW tx \in mempool, Mine(tx) PROVE Nonces'
  <2>1. PICK ok \in BOOLEAN : mined' = mined \cup {Mined(tx, ok)}
    BY <1>3 DEF Mine
  <2>2. mempool' = mempool \ {tx} /\ setup' = setup
        /\ (setup.nonced => tx.nonce = used)
        /\ used' = IF setup.nonced THEN used + 1 ELSE used
    BY <1>3 DEF Mine
  <2>3. Mined(tx, ok).nonce = tx.nonce
    BY DEF Mined
  <2>4. /\ \A u \in mempool' : u \in mempool /\ u.nonce # tx.nonce /\ u.nonce \in Nat
        /\ tx.nonce \in Nat
    BY <2>2, <1>0 DEF Nonces, Transactions
  <2>5. \A t \in mined : t.nonce \in Nat /\ t.nonce < used /\ t.nonce # tx.nonce
    BY <1>0 DEF Nonces, MinedTxs
  <2>6. ~setup.nonced => tx.nonce < used
    BY <2>4, <1>0 DEF Nonces
  <2>7. \A u \in mempool' : setup'.nonced <=> u.nonce >= used'
    BY <2>2, <2>4, <1>0 DEF Nonces
  <2>8. \A t \in mined' : t.nonce < used'
    BY <2>1, <2>2, <2>3, <2>4, <2>5, <2>6, <1>0
  <2>9. \A u \in mempool', t \in mined' : u.nonce # t.nonce
    BY <2>1, <2>3, <2>4 DEF Nonces
  <2>10. \A t, u \in mined' : t.nonce = u.nonce => t = u
    BY <2>1, <2>3, <2>5 DEF Nonces
  <2>11. \A t, u \in mempool' : t.nonce = u.nonce => t = u
    BY <2>4 DEF Nonces
  <2> QED BY <2>7, <2>8, <2>9, <2>10, <2>11 DEF Nonces
<1>4. ASSUME Pass \/ ReadFails \/ Crash \/ (\E w \in Withdrawals : Request(w))
             \/ (\E t \in mined : MonitorSees(t)) \/ UNCHANGED vars
      PROVE  UNCHANGED <<setup, chain>>
  BY <1>4 DEF Pass, ReadBalance, ReadPending, Accept, PutOff, FilterFails, StartMap, MapDone,
              ReadFails, Crash, Request, MonitorSees, vars
<1>5. ASSUME NEW m \in Maps, NEW s \in sends[m],
             Refuse(m, s) \/ Answer(m, s) \/ Reverted(m, s) \/ GiveUp(m, s) \/ Record(m, s)
             \/ SendThrows(m, s)
      PROVE  UNCHANGED <<setup, chain>>
  BY <1>5 DEF Refuse, Answer, Reverted, GiveUp, Record, SendThrows
<1> QED BY <1>1, <1>2, <1>3, <1>4, <1>5 DEF Next, Process, Fail, Send

\* Who changes the status of a withdrawal.
LEMMA StatusSteps ==
    ASSUME TypeOK, [Next]_vars, NEW w \in Withdrawals
    PROVE  \/ rows'[w].status = rows[w].status
           \/ Request(w) /\ rows'[w].status = "inqueue"
           \/ rows[w].status = "transfered" /\ rows'[w].status = "success"
           \/ \E m \in Maps : \E s \in sends[m] :
                 /\ Record(m, s) /\ s.w = w
                 /\ rows'[w].status = "transfered"
<1> DEFINE Fine ==
           \/ rows'[w].status = rows[w].status
           \/ Request(w) /\ rows'[w].status = "inqueue"
           \/ rows[w].status = "transfered" /\ rows'[w].status = "success"
           \/ \E m \in Maps : \E s \in sends[m] :
                 /\ Record(m, s) /\ s.w = w
                 /\ rows'[w].status = "transfered"
<1>0. rows \in [Withdrawals -> Row]
  BY DEF TypeOK, Row
<1>1. CASE UNCHANGED rows
  BY <1>1
<1>2. ASSUME NEW v \in Withdrawals, Request(v) PROVE Fine
  <2>1. rows' = [rows EXCEPT ![v].status = "inqueue"]
    BY <1>2 DEF Request
  <2> QED BY <2>1, <1>0, <1>2 DEF Row
<1>3. ASSUME NEW i \in pending, PutOff(i) PROVE Fine
  <2>1. rows' = [rows EXCEPT ![queue[i]].notified = TRUE]
    BY <1>3 DEF PutOff
  <2>2. rows'[w] = rows[w] \/ rows'[w] = [rows[w] EXCEPT !.notified = TRUE]
    BY <2>1, <1>0
  <2> QED BY <2>2, <1>0 DEF Row
<1>4. ASSUME NEW t \in mined, MonitorSees(t) PROVE Fine
  <2>1. \/ rows' = rows
        \/ rows[t.w].status = "transfered" /\ rows' = [rows EXCEPT ![t.w].status = "success"]
    BY <1>4 DEF MonitorSees
  <2> QED BY <2>1, <1>0 DEF Row
<1>5. ASSUME NEW m \in Maps, NEW s \in sends[m], Record(m, s) PROVE Fine
  <2>1. rows' = [rows EXCEPT ![s.w].status = "transfered", ![s.w].nonce = s.nonce]
    BY <1>5 DEF Record
  <2>2. w # s.w => rows'[w] = rows[w]
    BY <2>1, <1>0
  <2>3. w = s.w =>
          rows'[w] = [[rows[w] EXCEPT !.status = "transfered"] EXCEPT !.nonce = s.nonce]
    BY <2>1, <1>0
  <2>4. w = s.w => rows'[w].status = "transfered"
    BY <2>3, <1>0 DEF Row
  <2> QED BY <2>2, <2>4, <1>5
<1>6. ASSUME ReadBalance \/ ReadPending \/ (\E i \in pending : Accept(i) \/ FilterFails(i))
             \/ MapDone \/ ReadFails \/ Crash
             \/ (\E m \in Maps : StartMap(m)) \/ (\E tx \in mempool : Mine(tx))
             \/ UNCHANGED vars
      PROVE  UNCHANGED rows
  BY <1>6 DEF ReadBalance, ReadPending, Accept, FilterFails, MapDone, ReadFails, Crash,
              StartMap, Mine, vars
<1>7. ASSUME NEW m \in Maps, NEW s \in sends[m],
             Broadcast(m, s) \/ Refuse(m, s) \/ Answer(m, s) \/ Reverted(m, s) \/ GiveUp(m, s)
             \/ SendThrows(m, s)
      PROVE  UNCHANGED rows
  BY <1>7 DEF Broadcast, Refuse, Answer, Reverted, GiveUp, SendThrows
<1> QED BY <1>1, <1>2, <1>3, <1>4, <1>5, <1>6, <1>7 DEF Next, Process, Fail, Pass, Send

\* The program does not forget what it lost sight of.
LEMMA DoubtGrows ==
    ASSUME [Next]_vars
    PROVE  doubt \subseteq doubt'
<1>1. ASSUME NEW m \in Maps, NEW s \in sends[m], Send(m, s) \/ SendThrows(m, s)
      PROVE  doubt \subseteq doubt'
  BY <1>1 DEF Send, Broadcast, Refuse, Answer, Reverted, GiveUp, Record, SendThrows
<1>2. ASSUME Pass \/ ReadFails \/ Crash \/ (\E w \in Withdrawals : Request(w))
             \/ (\E tx \in mempool : Mine(tx)) \/ (\E t \in mined : MonitorSees(t))
             \/ UNCHANGED vars
      PROVE  doubt \subseteq doubt'
  BY <1>2 DEF Pass, ReadBalance, ReadPending, Accept, PutOff, FilterFails, StartMap, MapDone,
              ReadFails, Crash, Request, Mine, MonitorSees, vars
<1> QED BY <1>1, <1>2 DEF Next, Process, Fail

\* A withdrawal is stored once, and the filter moves it from the one list to the
\* other.
LEMMA OnceKept ==
    ASSUME TypeOK, Once, [Next]_vars
    PROVE  Once'
<1>0. /\ queue \in Seq(Withdrawals) /\ accepted \in Seq(Withdrawals)
      /\ pending \subseteq DOMAIN queue
  BY DEF TypeOK
<1>1. ASSUME UNCHANGED <<queue, pending, accepted, pc>>,
             ~ \E w \in Withdrawals : Request(w)
      PROVE  Once'
  <2>1. ASSUME NEW i \in DOMAIN queue PROVE rows'[queue[i]].status # "new"
    <3>1. queue[i] \in Withdrawals /\ rows[queue[i]].status # "new"
      BY <1>0 DEF Once
    <3> QED BY <3>1, <1>1, StatusSteps
  <2> QED BY <2>1, <1>1 DEF Once, IsInjective
<1>2. ASSUME Forget, UNCHANGED <<queue, rows>> PROVE Once'
  BY <1>2 DEF Once, Forget, IsInjective
<1>3. ASSUME NEW w \in Withdrawals, Request(w) PROVE Once'
  <2>1. /\ rows[w].status = "new" /\ queue' = Append(queue, w)
        /\ UNCHANGED <<pc, pending, accepted>>
    BY <1>3 DEF Request, locals
  <2>2. \A i \in DOMAIN queue : queue[i] # w
    BY <2>1 DEF Once
  <2>3. /\ \A i \in DOMAIN queue : i \in DOMAIN queue' /\ queue'[i] = queue[i]
        /\ \A i \in DOMAIN queue' : i \in DOMAIN queue \/ i = Len(queue) + 1
        /\ queue'[Len(queue) + 1] = w
    BY <2>1, <1>0
  <2>4. IsInjective(queue')
    BY <2>2, <2>3 DEF Once, IsInjective
  <2>5. ASSUME NEW v \in Withdrawals, v = w \/ rows[v].status # "new"
        PROVE  rows'[v].status # "new"
    <3>1. rows' = [rows EXCEPT ![w].status = "inqueue"] /\ rows \in [Withdrawals -> Row]
      BY <1>3 DEF Request, TypeOK, Row
    <3> QED BY <3>1, <2>5 DEF Row
  <2>6. \A i \in DOMAIN queue' : rows'[queue'[i]].status # "new"
    BY <2>3, <2>5, <1>0 DEF Once
  <2> QED BY <2>1, <2>3, <2>4, <2>6, <1>0 DEF Once
<1>4. ASSUME NEW i \in pending, Accept(i) PROVE Once'
  <2>1. /\ accepted' = Append(accepted, queue[i]) /\ pending' = pending \ {i}
        /\ UNCHANGED <<queue, rows, pc>> /\ pc = "filter"
    BY <1>4 DEF Accept
  <2>2. /\ \A k \in DOMAIN accepted : k \in DOMAIN accepted' /\ accepted'[k] = accepted[k]
        /\ \A k \in DOMAIN accepted' : k \in DOMAIN accepted \/ k = Len(accepted) + 1
        /\ accepted'[Len(accepted) + 1] = queue[i]
    BY <2>1, <1>0
  <2>3. \A k \in DOMAIN accepted : accepted[k] # queue[i]
    BY DEF Once
  <2>4. IsInjective(accepted')
    BY <2>2, <2>3 DEF Once, IsInjective
  <2>5. \A j \in pending' : queue[j] # queue[i] /\ j \in pending
    BY <2>1, <1>0 DEF Once, IsInjective
  <2>6. \A k \in DOMAIN accepted', j \in pending' : accepted'[k] # queue'[j]
    BY <2>1, <2>2, <2>5 DEF Once
  <2> QED BY <2>1, <2>4, <2>6 DEF Once
<1>5. ASSUME NEW i \in pending, PutOff(i) PROVE Once'
  <2>1. pending' = pending \ {i} /\ UNCHANGED <<queue, accepted, pc>> /\ pc = "filter"
    BY <1>5 DEF PutOff
  <2>2. \A j \in DOMAIN queue : rows'[queue[j]].status = rows[queue[j]].status
    <3>1. rows' = [rows EXCEPT ![queue[i]].notified = TRUE] /\ rows \in [Withdrawals -> Row]
      BY <1>5 DEF PutOff, TypeOK, Row
    <3>2. ASSUME NEW w \in Withdrawals PROVE rows'[w].status = rows[w].status
      <4>1. rows'[w] = rows[w] \/ rows'[w] = [rows[w] EXCEPT !.notified = TRUE]
        BY <3>1
      <4> QED BY <4>1, <3>1 DEF Row
    <3> QED BY <3>2, <1>0
  <2> QED BY <2>1, <2>2 DEF Once, IsInjective
<1>6. CASE ReadPending
  <2>1. accepted' = <<>> /\ pc' = "filter" /\ UNCHANGED <<queue, rows>>
    BY <1>6 DEF ReadPending
  <2> QED BY <2>1 DEF Once, IsInjective
<1>7. CASE ReadBalance
  <2>1. /\ UNCHANGED <<queue, pending, accepted, rows>> /\ pc' # "filter" /\ pc # "filter"
    BY <1>7 DEF ReadBalance
  <2> QED BY <2>1 DEF Once, IsInjective
<1>8. ASSUME (\E i \in pending : FilterFails(i)) \/ MapDone \/ ReadFails \/ Crash
             \/ (\E m \in Maps : StartMap(m))
      PROVE  Forget /\ UNCHANGED <<queue, rows>>
  BY <1>8 DEF FilterFails, MapDone, ReadFails, Crash, StartMap, FailPass
<1>9. CASE \E w \in Withdrawals : Request(w)
  BY <1>3, <1>9
<1>10. ASSUME (\E tx \in mempool : Mine(tx)) \/ (\E t \in mined : MonitorSees(t))
              \/ UNCHANGED vars
       PROVE  UNCHANGED <<queue, pending, accepted, pc>>
  BY <1>10 DEF Mine, MonitorSees, vars, locals
<1>11. ASSUME NEW m \in Maps, NEW s \in sends[m], Send(m, s)
       PROVE  UNCHANGED <<queue, pending, accepted, pc>>
  BY <1>11 DEF Send, Broadcast, Refuse, Answer, Reverted, GiveUp, Record, locals
<1>12. ASSUME NEW m \in Maps, NEW s \in sends[m], SendThrows(m, s)
       PROVE  (Forget \/ UNCHANGED <<pending, accepted, pc>>) /\ UNCHANGED <<queue, rows>>
  BY <1>12 DEF SendThrows, FailPass, locals
<1> QED BY <1>1, <1>2, <1>4, <1>5, <1>6, <1>7, <1>8, <1>9, <1>10, <1>11, <1>12
        DEF Next, Process, Fail, Pass

\* The status of what a pass holds changes only when a coroutine left behind records
\* it, and then it is in doubt.
LEMMA HeldKept ==
    ASSUME TypeOK, Once, Held, InHand, [Next]_vars
    PROVE  Held'
<1>0. /\ queue \in Seq(Withdrawals) /\ accepted \in Seq(Withdrawals)
      /\ pending \subseteq DOMAIN queue /\ doubt \subseteq doubt'
  BY DoubtGrows DEF TypeOK
<1>1. ASSUME NEW w \in Withdrawals, w \notin doubt', pc = "filter", rows[w].status = "inqueue"
      PROVE  rows'[w].status = "inqueue"
  <2>1. call = None
    BY <1>1 DEF TypeOK
  <2>2. \A m \in Maps : \A s \in sends[m] : s.w # w
    BY <2>1, <1>0, <1>1, BoundsAssumption DEF InHand
  <2> QED BY <2>2, <1>1, StatusSteps DEF Request
<1>2. ASSUME pending' \subseteq pending, UNCHANGED <<queue, accepted>>
      PROVE  Held'
  <2>1. ASSUME NEW i \in pending', queue[i] \notin doubt' PROVE rows'[queue[i]].status = "inqueue"
    BY <2>1, <1>0, <1>1, <1>2 DEF Once, Held
  <2>2. ASSUME NEW k \in DOMAIN accepted, accepted[k] \notin doubt'
        PROVE  rows'[accepted[k]].status = "inqueue"
    <3>1. pc = "filter"
      BY <2>2 DEF Once
    <3>2. accepted[k] \in Withdrawals
      BY <1>0
    <3> QED BY <2>2, <3>1, <3>2, <1>0, <1>1 DEF Held
  <2> QED BY <2>1, <2>2, <1>2 DEF Held
<1>3. ASSUME Forget PROVE Held'
  BY <1>3 DEF Held, Forget
<1>4. ASSUME NEW w \in Withdrawals, Request(w) PROVE Held'
  <2>1. queue' = Append(queue, w) /\ UNCHANGED <<pending, accepted, doubt>>
    BY <1>4 DEF Request, locals
  <2>2. \A i \in pending : queue'[i] = queue[i] /\ queue[i] \in Withdrawals
    BY <2>1, <1>0
  <2>3. ASSUME NEW i \in pending, queue[i] \notin doubt' PROVE rows'[queue[i]].status = "inqueue"
    BY <2>2, <2>3, <1>0, <1>1 DEF Once, Held
  <2>4. ASSUME NEW k \in DOMAIN accepted, accepted[k] \notin doubt'
        PROVE  rows'[accepted[k]].status = "inqueue"
    <3>1. pc = "filter"
      BY <2>4 DEF Once
    <3>2. accepted[k] \in Withdrawals
      BY <1>0
    <3> QED BY <2>4, <3>1, <3>2, <1>0, <1>1 DEF Held
  <2> QED BY <2>1, <2>2, <2>3, <2>4 DEF Held
<1>5. ASSUME NEW i \in pending, Accept(i) PROVE Held'
  <2>1. /\ accepted' = Append(accepted, queue[i]) /\ pending' = pending \ {i}
        /\ UNCHANGED <<queue, rows, doubt>>
    BY <1>5 DEF Accept
  <2>2. \A k \in DOMAIN accepted' :
            (k \in DOMAIN accepted /\ accepted'[k] = accepted[k]) \/ accepted'[k] = queue[i]
    BY <2>1, <1>0
  <2> QED BY <2>1, <2>2 DEF Held
<1>6. CASE ReadPending
  <2>1. pending' = PendingWithdraw /\ accepted' = <<>> /\ UNCHANGED <<queue, rows>>
    BY <1>6 DEF ReadPending
  <2> QED BY <2>1 DEF Held, PendingWithdraw
<1>7. ASSUME (\E i \in pending : FilterFails(i)) \/ MapDone \/ ReadFails \/ Crash
             \/ (\E m \in Maps : StartMap(m))
      PROVE  Forget
  BY <1>7 DEF FilterFails, MapDone, ReadFails, Crash, StartMap, FailPass
<1>8. ASSUME (\E tx \in mempool : Mine(tx)) \/ (\E t \in mined : MonitorSees(t))
             \/ UNCHANGED vars \/ ReadBalance \/ (\E i \in pending : PutOff(i))
      PROVE  pending' \subseteq pending /\ UNCHANGED <<queue, accepted>>
  BY <1>8 DEF Mine, MonitorSees, vars, locals, ReadBalance, PutOff
<1>9. ASSUME NEW m \in Maps, NEW s \in sends[m], Send(m, s)
      PROVE  UNCHANGED <<queue, pending, accepted>>
  BY <1>9 DEF Send, Broadcast, Refuse, Answer, Reverted, GiveUp, Record, locals
<1>10. ASSUME NEW m \in Maps, NEW s \in sends[m], SendThrows(m, s)
       PROVE  Forget \/ UNCHANGED <<queue, pending, accepted>>
  BY <1>10 DEF SendThrows, FailPass, locals
<1> QED BY <1>2, <1>3, <1>4, <1>5, <1>6, <1>7, <1>8, <1>9, <1>10 DEF Next, Process, Fail, Pass

\* What a coroutine of the pass pays is queued until it is recorded.
LEMMA InHandKept ==
    ASSUME TypeOK, Once, Held, InHand, [Next]_vars
    PROVE  InHand'
<1>0. /\ doubt \subseteq doubt' /\ sends \in [Maps -> SUBSET Sends]
      /\ \A m \in Maps : \A s \in sends[m] : s.w \in Withdrawals
  BY DoubtGrows DEF TypeOK, Sends
<1>1. ASSUME UNCHANGED <<sends, call>>,
             ~ \E m \in Maps : \E s \in sends[m] : Record(m, s)
      PROVE  InHand'
  <2>1. ASSUME NEW w \in Withdrawals, rows[w].status = "inqueue"
        PROVE  rows'[w].status = "inqueue"
    BY <2>1, <1>1, StatusSteps DEF Request
  <2> QED BY <2>1, <1>0, <1>1 DEF InHand
<1>2. ASSUME NEW m \in Maps, NEW s \in sends[m], End(m, s), UNCHANGED <<rows, call>>
      PROVE  InHand'
  <2>1. \A n \in Maps : sends'[n] \subseteq sends[n]
    BY <1>2, <1>0 DEF End
  <2> QED BY <2>1, <1>0, <1>2 DEF InHand
<1>3. ASSUME NEW m \in Maps, NEW s \in sends[m], NEW t, t.w = s.w, GoOn(m, s, t),
             UNCHANGED <<rows, call>>
      PROVE  InHand'
  <2>1. \A n \in Maps : \A u \in sends'[n] : (u \in sends[n] /\ (n = m => u # s)) \/ (n = m /\ u = t)
    BY <1>3, <1>0 DEF GoOn
  <2> QED BY <2>1, <1>0, <1>3 DEF InHand
<1>4. ASSUME NEW m \in Maps, NEW s \in sends[m], Record(m, s) PROVE InHand'
  <2>1. \A n \in Maps : sends'[n] = IF n = m THEN sends[m] \ {s} ELSE sends[n]
    BY <1>4, <1>0 DEF Record, End
  <2>2. UNCHANGED <<call, doubt>>
    BY <1>4 DEF Record, locals
  <2>3. \A w \in Withdrawals : w # s.w => rows'[w] = rows[w]
    BY <1>4 DEF Record, TypeOK
  <2>4. ASSUME NEW n \in Maps, NEW u \in sends'[n], u.w \notin doubt
        PROVE  u.w # s.w
    <3>1. u \in sends[n] /\ (n = m => u # s)
      BY <2>1
    <3>2. n = call /\ (s.w = u.w => m = call)
      BY <3>1, <2>4 DEF InHand
    <3> QED BY <3>1, <3>2, <2>4 DEF InHand
  <2>5. \A n \in Maps : sends'[n] \subseteq sends[n]
    BY <2>1
  <2>6. ASSUME NEW n \in Maps, NEW u \in sends'[n], u.w \notin doubt
        PROVE  rows'[u.w].status = "inqueue" /\ n = call
    BY <2>3, <2>4, <2>5, <2>6, <1>0 DEF InHand
  <2> QED BY <2>2, <2>5, <2>6 DEF InHand
<1>5. ASSUME NEW m \in Maps, NEW s \in sends[m], SendThrows(m, s) PROVE InHand'
  <2>1. End(m, s) /\ UNCHANGED rows
        /\ doubt' = doubt \cup {t.w : t \in sends[m] \ {t \in {s} : t.st = "sign"}}
    BY <1>5 DEF SendThrows
  <2>2. \A n \in Maps : sends'[n] = IF n = m THEN sends[m] \ {s} ELSE sends[n]
    BY <2>1, <1>0 DEF End
  <2>3. \A u \in sends'[m] : u.w \in doubt'
    BY <2>1, <2>2
  <2>4. call' = call \/ (call = m /\ call' = None)
    BY <1>5 DEF SendThrows, FailPass, locals
  <2> QED BY <2>1, <2>2, <2>3, <2>4, <1>0 DEF InHand
<1>6. ASSUME NEW m \in Maps, StartMap(m) PROVE InHand'
  <2>1. /\ sends' = [sends EXCEPT ![m] =
             {Coroutine(i) : i \in {j \in DOMAIN accepted : accepted[j] \in setup.signed}}]
        /\ call' = m /\ pc = "filter" /\ UNCHANGED <<rows, doubt>>
    BY <1>6 DEF StartMap
  <2>2. \A u \in sends'[m] : \E i \in DOMAIN accepted : u = Coroutine(i)
    BY <2>1, <1>0
  <2>3. \A n \in Maps \ {m} : sends'[n] = sends[n]
    BY <2>1, <1>0
  <2>4. \A i : Coroutine(i).w = accepted[i]
    BY DEF Coroutine
  <2>5. \A n \in Maps : \A s \in sends[n] : s.w \in doubt
    BY <2>1, BoundsAssumption DEF InHand, TypeOK
  <2>6. ASSUME NEW u \in sends'[m] PROVE u.w \in doubt \/ rows[u.w].status = "inqueue"
    <3>1. PICK i \in DOMAIN accepted : u = Coroutine(i)
      BY <2>2
    <3> QED BY <3>1, <2>4 DEF Held
  <2>7. ASSUME NEW u \in sends'[m], NEW v \in sends'[m], u.w = v.w PROVE u = v
    <3>1. PICK i \in DOMAIN accepted : u = Coroutine(i)
      BY <2>2
    <3>2. PICK j \in DOMAIN accepted : v = Coroutine(j)
      BY <2>2
    <3>3. i = j
      BY <3>1, <3>2, <2>4, <2>7 DEF Once, IsInjective
    <3> QED BY <3>1, <3>2, <3>3
  <2> HIDE DEF Coroutine
  <2> QED BY <2>1, <2>3, <2>5, <2>6, <2>7 DEF InHand
<1>7. CASE Crash
  <2>1. \A m \in Maps : sends'[m] = {}
    BY <1>7 DEF Crash
  <2> QED BY <2>1 DEF InHand
<1>8. CASE MapDone
  <2>1. pc = "map" /\ sends[call] = {} /\ call' = None /\ UNCHANGED <<sends, rows, doubt>>
    BY <1>8 DEF MapDone, FailPass
  <2>2. \A m \in Maps : \A s \in sends[m] : s.w \in doubt
    BY <2>1 DEF InHand
  <2> QED BY <2>1, <2>2 DEF InHand
<1>9. CASE ReadBalance \/ ReadPending
           \/ (\E i \in pending : Accept(i) \/ PutOff(i) \/ FilterFails(i)) \/ ReadFails
           \/ (\E w \in Withdrawals : Request(w)) \/ (\E tx \in mempool : Mine(tx))
           \/ (\E t \in mined : MonitorSees(t)) \/ UNCHANGED vars
  <2>1. pc # "map" => call = None
    BY DEF TypeOK
  <2>2. UNCHANGED <<sends, call>>
    BY <1>9, <2>1 DEF ReadBalance, ReadPending, Accept, PutOff, FilterFails, ReadFails, FailPass,
              Request, Mine, MonitorSees, vars, locals
  <2>3. CASE ~ \E m \in Maps : \E s \in sends[m] : Record(m, s)
    BY <2>2, <2>3, <1>1
  <2>4. CASE \E m \in Maps : \E s \in sends[m] : Record(m, s)
    BY <2>4, <1>4
  <2> QED BY <2>3, <2>4
<1>10. ASSUME NEW m \in Maps, NEW s \in sends[m], Broadcast(m, s) \/ Answer(m, s) PROVE InHand'
  <2>1. PICK t : t.w = s.w /\ GoOn(m, s, t)
    <3>1. \A tx \in {Tx(s), [w |-> s.w, nonce |-> used]} :
              [w |-> tx.w, nonce |-> tx.nonce, st |-> "wait"].w = s.w
      BY DEF Tx
    <3>2. [s EXCEPT !.st = "record"].w = s.w
      BY <1>0 DEF Sends
    <3> QED BY <3>1, <3>2, <1>10 DEF Broadcast, Answer
  <2> QED BY <2>1, <1>3, <1>10 DEF Broadcast, Answer, locals
<1>11. ASSUME NEW m \in Maps, NEW s \in sends[m], Refuse(m, s) \/ Reverted(m, s) \/ GiveUp(m, s)
       PROVE  InHand'
  BY <1>2, <1>11 DEF Refuse, Reverted, GiveUp, locals
<1> QED BY <1>4, <1>5, <1>6, <1>7, <1>8, <1>9, <1>10, <1>11 DEF Next, Process, Fail, Pass, Send

\* A coroutine that may still send has nothing out: no other one pays the same
\* withdrawal, unless it is in doubt.
LEMMA NothingOut ==
    ASSUME PayInv, NEW m \in Maps, NEW s \in sends[m], s.st = "sign", s.w \notin doubt
    PROVE  ~Sent(s.w) /\ Out(s.w) = {}
<1>1. s.w \in Withdrawals
  BY DEF PayInv, TypeOK
<1>2. ~Sent(s.w)
  BY DEF PayInv, InHand, Sent
<1>3. rows[s.w].status = "inqueue"
  BY DEF PayInv, InHand
<1> QED BY <1>1, <1>2, <1>3 DEF PayInv, Tracked

\* What happens to the coroutines of a withdrawal that is not in doubt, when the chain
\* does not change: none is added that has something out, and none that has something
\* out goes without a record or a proof that it is gone.
LEMMA TrackedWithChain ==
    ASSUME PayInv, [Next]_vars, UNCHANGED chain, NEW w \in Withdrawals, w \notin doubt'
    PROVE  Tracked(w)'
<1> DEFINE Calm == /\ \A n \in Maps : \A u \in sends'[n] : u.w = w =>
                         Out(w) \subseteq {Tx(u), Mined(u, TRUE)}
                   /\ rows'[w].status \in {"new", "inqueue"} /\ ~Sent(w)' => Out(w) = {}
<1>0. /\ w \notin doubt /\ Tracked(w) /\ sends \in [Maps -> SUBSET Sends]
      /\ rows \in [Withdrawals -> Row]
      /\ Out(w)' = Out(w) /\ \A u : Tx(u)' = Tx(u) /\ Mined(u, TRUE)' = Mined(u, TRUE)
  BY DoubtGrows DEF PayInv, TypeOK, Sends, Row, chain, Out, Tx, Mined
<1> SUFFICES Calm
  BY <1>0 DEF Tracked
<1>1. ASSUME UNCHANGED sends PROVE Calm
  <2>1. Sent(w)' = Sent(w)
    BY <1>1 DEF Sent
  <2>2. rows'[w].status \in {"new", "inqueue"} => rows[w].status \in {"new", "inqueue"}
    BY StatusSteps DEF PayInv, Request
  <2> QED BY <1>0, <1>1, <2>1, <2>2 DEF Tracked
<1>2. ASSUME NEW m \in Maps, NEW s \in sends[m], End(m, s), UNCHANGED rows,
             s.w = w => ~Sent(w) \/ Out(w) = {}
      PROVE  Calm
  <2>1. \A n \in Maps : sends'[n] = IF n = m THEN sends[m] \ {s} ELSE sends[n]
    BY <1>2, <1>0 DEF End
  <2>2. s.w # w => Sent(w)' = Sent(w)
    BY <2>1 DEF Sent
  <2> QED BY <2>1, <2>2, <1>0, <1>2 DEF Tracked
<1>3. ASSUME NEW m \in Maps, NEW s \in sends[m], Record(m, s) PROVE Calm
  <2>1. \A n \in Maps : sends'[n] = IF n = m THEN sends[m] \ {s} ELSE sends[n]
    BY <1>3, <1>0 DEF Record, End
  <2>2. rows' = [rows EXCEPT ![s.w].status = "transfered", ![s.w].nonce = s.nonce]
    BY <1>3 DEF Record
  <2>3. CASE s.w # w
    <3>1. Sent(w)' = Sent(w) /\ rows'[w] = rows[w]
      BY <2>1, <2>2, <2>3, <1>0 DEF Sent
    <3> QED BY <3>1, <2>1, <1>0 DEF Tracked
  <2>4. CASE s.w = w
    <3>1. rows'[w] = [[rows[w] EXCEPT !.status = "transfered"] EXCEPT !.nonce = s.nonce]
      BY <2>2, <2>4, <1>0
    <3>2. rows'[w].status = "transfered"
      BY <3>1, <1>0 DEF Row
    <3> QED BY <3>2, <2>1, <1>0 DEF Tracked
  <2> QED BY <2>3, <2>4
<1>4. ASSUME NEW m \in Maps, NEW s \in sends[m], Answer(m, s) PROVE Calm
  <2> DEFINE t == [w |-> s.w, nonce |-> s.nonce, st |-> "record"]
  <2>1. t = [s EXCEPT !.st = "record"] /\ s.st = "wait"
    BY <1>0, <1>4 DEF Answer, Sends
  <2>2. \A n \in Maps : sends'[n] = IF n = m THEN (sends[m] \ {s}) \cup {t} ELSE sends[n]
    BY <1>4, <1>0, <2>1 DEF Answer, GoOn
  <2>3. rows' = rows
    BY <1>4 DEF Answer
  <2>4. Tx(t) = Tx(s) /\ Mined(t, TRUE) = Mined(s, TRUE) /\ t.w = s.w /\ t.st = "record"
    BY DEF Tx, Mined
  <2> HIDE DEF t
  <2>5. Sent(w) => Sent(w)'
    BY <2>2, <2>4 DEF Sent
  <2>6. ASSUME NEW n \in Maps, NEW u \in sends'[n], u.w = w
        PROVE  Out(w) \subseteq {Tx(u), Mined(u, TRUE)}
    <3>1. u \in sends[n] \/ (u = t /\ s \in sends[m] /\ s.w = w)
      BY <2>2, <2>4, <2>6
    <3> QED BY <3>1, <2>4, <2>6, <1>0 DEF Tracked
  <2>7. Sent(w)' => Sent(w)
    BY <2>1, <2>2, <2>4 DEF Sent
  <2> QED BY <2>3, <2>5, <2>6, <2>7, <1>0 DEF Tracked
<1>5. ASSUME NEW m \in Maps, NEW s \in sends[m], Reverted(m, s), s.w = w PROVE Out(w) = {}
  <2>1. setup.nonced /\ Mined(s, FALSE) \in mined
    BY <1>5 DEF Reverted
  <2>2. Mined(s, FALSE).nonce = s.nonce /\ Mined(s, TRUE).nonce = s.nonce /\ Tx(s).nonce = s.nonce
        /\ Mined(s, FALSE) # Mined(s, TRUE)
    BY DEF Mined, Tx
  <2>3. Tx(s) \notin mempool
    BY <2>1, <2>2 DEF PayInv, Nonces
  <2>4. Mined(s, TRUE) \notin mined
    BY <2>1, <2>2 DEF PayInv, Nonces
  <2>5. Out(w) \subseteq {Tx(s), Mined(s, TRUE)}
    BY <1>0, <1>5 DEF Tracked
  <2>6. Mined(s, TRUE) \notin mempool /\ Tx(s) \notin mined
    <3>1. Mined(s, TRUE) \notin mempool
      BY <2>1, <2>2 DEF PayInv, Nonces
    <3>2. Tx(s) \notin mined
      BY <2>1, <2>2, <2>3 DEF PayInv, TypeOK, Tx
    <3> QED BY <3>1, <3>2
  <2> QED BY <2>3, <2>4, <2>5, <2>6 DEF Out
<1>6. ASSUME NEW m \in Maps, NEW s \in sends[m], GiveUp(m, s), s.w = w PROVE Out(w) = {}
  <2>1. Replaced(Tx(s))
    BY <1>6 DEF GiveUp
  <2>2. Mined(Tx(s), TRUE) = Mined(s, TRUE)
    BY DEF Mined, Tx
  <2>3. Tx(s) \notin mempool /\ Mined(s, TRUE) \notin mined
    BY <2>1, <2>2 DEF Replaced
  <2>4. Out(w) \subseteq {Tx(s), Mined(s, TRUE)}
    BY <1>0, <1>6 DEF Tracked
  <2>5. Mined(s, TRUE) \notin mempool /\ Tx(s) \notin mined
    <3>1. \A tx \in mempool : tx = [w |-> tx.w, nonce |-> tx.nonce]
      BY DEF PayInv, TypeOK, Transactions
    <3>2. \A tx \in mined : tx = [w |-> tx.w, nonce |-> tx.nonce, ok |-> tx.ok]
      BY DEF PayInv, TypeOK
    <3>3. Mined(s, TRUE).w = s.w /\ Mined(s, TRUE).nonce = s.nonce
          /\ Tx(s).w = s.w /\ Tx(s).nonce = s.nonce
      BY DEF Mined, Tx
    <3>4. Mined(s, TRUE) \notin mempool
      BY <3>1, <3>3, <2>3 DEF Tx
    <3>5. Tx(s) \notin mined
      <4>1. SUFFICES ASSUME Tx(s) \in mined PROVE FALSE
        OBVIOUS
      <4>2. DOMAIN Tx(s) = {"w", "nonce", "ok"}
        BY <4>1, <3>2
      <4>3. DOMAIN Tx(s) = {"w", "nonce"}
        BY DEF Tx
      <4> QED BY <4>2, <4>3
    <3> QED BY <3>4, <3>5
  <2> QED BY <2>3, <2>4, <2>5 DEF Out
<1>7. ASSUME NEW m \in Maps, NEW s \in sends[m], SendThrows(m, s) PROVE Calm
  <2>1. End(m, s) /\ UNCHANGED rows
        /\ doubt' = doubt \cup {t.w : t \in sends[m] \ {t \in {s} : t.st = "sign"}}
    BY <1>7 DEF SendThrows
  <2>2. s.w = w => s.st = "sign"
    BY <2>1
  <2> QED BY <2>1, <2>2, <1>0, <1>2, NothingOut
<1>8. ASSUME NEW m \in Maps, StartMap(m) PROVE Calm
  <2>1. /\ sends' = [sends EXCEPT ![m] =
             {Coroutine(i) : i \in {j \in DOMAIN accepted : accepted[j] \in setup.signed}}]
        /\ sends[m] = {} /\ pc = "filter" /\ UNCHANGED rows
    BY <1>8 DEF StartMap
  <2>2. \A u \in sends'[m] : \E i \in DOMAIN accepted : u = Coroutine(i)
    BY <2>1, <1>0
  <2>3. \A n \in Maps \ {m} : sends'[n] = sends[n]
    BY <2>1, <1>0
  <2>4. \A i : Coroutine(i).w = accepted[i] /\ Coroutine(i).st = "sign"
    BY DEF Coroutine
  <2>5. \A n \in Maps : \A s \in sends[n] : s.w # w
    BY <2>1, <1>0, BoundsAssumption DEF PayInv, InHand, TypeOK
  <2>6. ~Sent(w)
    BY <2>5 DEF Sent
  <2>7. rows[w].status = "inqueue" => Out(w) = {}
    BY <2>6, <1>0 DEF Tracked
  <2>8. \A u \in sends'[m] : u.w = w => rows[w].status = "inqueue"
    BY <2>2, <2>4, <1>0 DEF PayInv, Held
  <2> HIDE DEF Coroutine
  <2>9. \A n \in Maps : \A u \in sends'[n] : u.w = w => Out(w) = {}
    BY <2>3, <2>5, <2>7, <2>8
  <2> QED BY <2>1, <2>6, <2>9, <1>0 DEF Tracked
<1>9. CASE Crash
  <2>1. (\A m \in Maps : sends'[m] = {}) /\ rows' = rows
        /\ doubt' = doubt \cup {s.w : s \in {t \in UNION {sends[m] : m \in Maps} : t.st # "sign"}}
    BY <1>9 DEF Crash
  <2>2. ~Sent(w)
    BY <2>1 DEF Sent
  <2> QED BY <2>1, <2>2, <1>0 DEF Tracked
<1>10. ASSUME NEW m \in Maps, NEW s \in sends[m], Refuse(m, s) \/ Reverted(m, s) \/ GiveUp(m, s)
       PROVE  Calm
  <2>1. End(m, s) /\ UNCHANGED rows
    BY <1>10 DEF Refuse, Reverted, GiveUp
  <2>2. Refuse(m, s) /\ s.w = w => ~Sent(w)
    BY <1>0, NothingOut DEF Refuse
  <2> QED BY <2>1, <2>2, <1>2, <1>5, <1>6, <1>10
<1>11. ASSUME NEW m \in Maps, NEW s \in sends[m], Broadcast(m, s) PROVE FALSE
  <2> DEFINE tx == IF setup.nonced THEN Tx(s) ELSE [w |-> s.w, nonce |-> used]
  <2>1. tx \notin mempool /\ tx \in mempool'
    BY <1>11 DEF Broadcast
  <2> QED BY <2>1 DEF chain
<1>12. ASSUME ReadBalance \/ ReadPending
              \/ (\E i \in pending : Accept(i) \/ PutOff(i) \/ FilterFails(i))
              \/ MapDone \/ ReadFails
              \/ (\E v \in Withdrawals : Request(v)) \/ (\E tx \in mempool : Mine(tx))
              \/ (\E t \in mined : MonitorSees(t)) \/ UNCHANGED vars
       PROVE  UNCHANGED sends
  BY <1>12 DEF ReadBalance, ReadPending, Accept, PutOff, FilterFails, MapDone, ReadFails,
              Request, Mine, MonitorSees, vars
<1> QED BY <1>1, <1>3, <1>4, <1>7, <1>8, <1>9, <1>10, <1>11, <1>12
        DEF Next, Process, Fail, Pass, Send

\* The transaction that is sent is the only one out for its withdrawal.
LEMMA TrackedWithBroadcast ==
    ASSUME PayInv, NEW m \in Maps, NEW s \in sends[m], Broadcast(m, s),
           NEW w \in Withdrawals, w \notin doubt
    PROVE  Tracked(w)'
<1>0. Tracked(w) /\ sends \in [Maps -> SUBSET Sends]
  BY DEF PayInv, TypeOK, Sends
<1>1. PICK tx : /\ tx.w = s.w /\ Tx([w |-> tx.w, nonce |-> tx.nonce, st |-> "wait"]) = tx
                /\ GoOn(m, s, [w |-> tx.w, nonce |-> tx.nonce, st |-> "wait"])
                /\ tx \in mempool' /\ \A u \in mempool' : u \in mempool \/ u = tx
  BY DEF Broadcast, Tx
<1>2. UNCHANGED <<rows, mined, doubt>> /\ s.st = "sign"
  BY DEF Broadcast
<1> DEFINE t == [w |-> tx.w, nonce |-> tx.nonce, st |-> "wait"]
<1>3. t.w = s.w /\ t.st = "wait" /\ Tx(t) = tx
  BY <1>1
<1>4. \A n \in Maps : sends'[n] = IF n = m THEN (sends[m] \ {s}) \cup {t} ELSE sends[n]
  BY <1>0, <1>1 DEF GoOn
<1>5. \A v : Out(v)' \subseteq Out(v) \cup (IF v = s.w THEN {tx} ELSE {})
  BY <1>1, <1>2 DEF Out
<1>6. \A u : Tx(u)' = Tx(u) /\ Mined(u, TRUE)' = Mined(u, TRUE)
  BY DEF Tx, Mined
<1> HIDE DEF t
<1>7. CASE w # s.w
  <2>1. Out(w)' \subseteq Out(w)
    BY <1>5, <1>7
  <2>2. Sent(w)' = Sent(w)
    BY <1>3, <1>4, <1>7 DEF Sent
  <2>3. ASSUME NEW n \in Maps, NEW u \in sends'[n], u.w = w
        PROVE  Out(w)' \subseteq {Tx(u), Mined(u, TRUE)}
    <3>1. u \in sends[n]
      BY <1>3, <1>4, <1>7, <2>3
    <3> QED BY <3>1, <2>1, <2>3, <1>0 DEF Tracked
  <2> QED BY <2>1, <2>2, <2>3, <1>0, <1>2, <1>6 DEF Tracked
<1>8. CASE w = s.w
  <2>1. Out(w)' \subseteq {tx}
    BY <1>2, <1>5, <1>8, NothingOut
  <2>2. Sent(w)'
    BY <1>3, <1>4, <1>8 DEF Sent
  <2>3. ASSUME NEW n \in Maps, NEW u \in sends'[n], u.w = w
        PROVE  u = t
    <3>1. u \in sends[n] => n = m /\ u = s
      BY <1>8, <2>3 DEF PayInv, InHand
    <3> QED BY <3>1, <1>4, <2>3
  <2> QED BY <2>1, <2>2, <2>3, <1>3, <1>6 DEF Tracked
<1> QED BY <1>7, <1>8

\* A transaction that is mined leaves the pool: what is out for its withdrawal is
\* still one.
LEMMA TrackedWithMine ==
    ASSUME PayInv, NEW tx \in mempool, Mine(tx), NEW w \in Withdrawals, w \notin doubt
    PROVE  Tracked(w)'
<1>0. Tracked(w)
  BY DEF PayInv
<1>1. PICK ok \in BOOLEAN : mined' = mined \cup {Mined(tx, ok)}
  BY DEF Mine
<1>2. mempool' = mempool \ {tx} /\ UNCHANGED <<rows, sends, doubt>>
  BY DEF Mine
<1>3. Sent(w)' = Sent(w)
  BY <1>2 DEF Sent
<1>4. Mined(tx, ok).w = tx.w /\ Mined(tx, ok).ok = ok
  BY DEF Mined
<1>5. \A u : Tx(u)' = Tx(u) /\ Mined(u, TRUE)' = Mined(u, TRUE)
  BY DEF Tx, Mined
<1>6. CASE w # tx.w
  <2>1. Out(w)' \subseteq Out(w)
    BY <1>1, <1>2, <1>4, <1>6 DEF Out
  <2> QED BY <2>1, <1>0, <1>2, <1>3, <1>5 DEF Tracked
<1>7. CASE w = tx.w
  <2>1. tx \in Out(w)
    BY <1>7 DEF Out
  <2>2. \A a \in Out(w) : a = tx
    BY <2>1, <1>0 DEF Tracked
  <2>3. \A a \in mined : ~(a.w = w /\ a.ok)
    <3>1. SUFFICES ASSUME NEW a \in mined, a.w = w, a.ok PROVE FALSE
      OBVIOUS
    <3>2. a = tx
      BY <3>1, <2>2 DEF Out
    <3> QED BY <3>1, <3>2 DEF PayInv, Nonces
  <2>4. Out(w)' \subseteq {Mined(tx, TRUE)}
    <3>1. \A a \in mempool' : a.w # w
      BY <1>2, <2>2 DEF Out
    <3>2. \A a \in mined' : a.w = w /\ a.ok => a = Mined(tx, TRUE)
      BY <1>1, <1>4, <2>3
    <3> QED BY <3>1, <3>2 DEF Out
  <2>5. ASSUME NEW n \in Maps, NEW u \in sends[n], u.w = w
        PROVE  Mined(tx, TRUE) = Mined(u, TRUE)
    <3>1. tx \in {Tx(u), Mined(u, TRUE)}
      BY <2>1, <2>5, <1>0 DEF Tracked
    <3>2. tx.nonce = u.nonce
      BY <3>1 DEF Tx, Mined
    <3> QED BY <3>2, <2>5, <1>7 DEF Mined
  <2>6. ~(rows[w].status \in {"new", "inqueue"} /\ ~Sent(w))
    BY <2>1, <1>0 DEF Tracked
  <2> QED BY <2>4, <2>5, <2>6, <1>2, <1>3, <1>5 DEF Tracked
<1> QED BY <1>6, <1>7

\* The strengthening the next two theorems rest on.
THEOREM PaymentInvariant == Spec => []PayInv
<1>1. Init => PayInv
  <2> SUFFICES ASSUME Init PROVE PayInv
    OBVIOUS
  <2>0. TypeOK
    BY PaymentInit
  <2>1. mempool = {} /\ mined = {} /\ pending = {} /\ accepted = <<>>
        /\ sends = [m \in Maps |-> {}]
    BY DEF Init
  <2>2. Nonces /\ Held /\ InHand
    BY <2>1 DEF Nonces, Held, InHand
  <2>3. \A w : Out(w) = {}
    BY <2>1 DEF Out
  <2>4. \A w : Tracked(w)
    BY <2>1, <2>3 DEF Tracked
  <2>5. Once
    <3>1. IsInjective(queue)
      BY SetupsAssumption DEF Init
    <3>2. ASSUME NEW i \in DOMAIN queue PROVE rows[queue[i]].status # "new"
      <4>1. queue[i] \in Withdrawals /\ queue[i] \in ToSet(queue)
        BY <2>0 DEF TypeOK, ToSet
      <4> QED BY <4>1 DEF Init
    <3> QED BY <2>1, <3>1, <3>2 DEF Once, IsInjective
  <2> QED BY <2>0, <2>2, <2>4, <2>5 DEF PayInv
<1>2. PayInv /\ [Next]_vars => PayInv'
  <2> SUFFICES ASSUME PayInv, [Next]_vars PROVE PayInv'
    OBVIOUS
  <2>1. TypeOK' /\ Nonces' /\ Once' /\ Held' /\ InHand'
    BY PaymentTyped, NoncesKeep, OnceKept, HeldKept, InHandKept DEF PayInv
  <2>2. ASSUME NEW w \in Withdrawals, w \notin doubt' PROVE Tracked(w)'
    <3>1. w \notin doubt
      BY <2>2, DoubtGrows
    <3>2. CASE UNCHANGED chain
      BY <2>2, <3>2, TrackedWithChain
    <3>3. ASSUME NEW m \in Maps, NEW s \in sends[m], Broadcast(m, s) PROVE Tracked(w)'
      BY <3>1, <3>3, TrackedWithBroadcast
    <3>4. ASSUME NEW tx \in mempool, Mine(tx) PROVE Tracked(w)'
      BY <3>1, <3>4, TrackedWithMine
    <3>5. ASSUME NEW m \in Maps, NEW s \in sends[m],
                 Refuse(m, s) \/ Answer(m, s) \/ Reverted(m, s) \/ GiveUp(m, s) \/ Record(m, s)
                 \/ SendThrows(m, s)
          PROVE  UNCHANGED chain
      BY <3>5 DEF Refuse, Answer, Reverted, GiveUp, Record, SendThrows
    <3>6. ASSUME Pass \/ ReadFails \/ Crash \/ (\E v \in Withdrawals : Request(v))
                 \/ (\E t \in mined : MonitorSees(t)) \/ UNCHANGED vars
          PROVE  UNCHANGED chain
      BY <3>6 DEF Pass, ReadBalance, ReadPending, Accept, PutOff, FilterFails, StartMap, MapDone,
                  ReadFails, Crash, Request, MonitorSees, vars, chain
    <3> QED BY <3>2, <3>3, <3>4, <3>5, <3>6 DEF Next, Process, Fail, Send
  <2> QED BY <2>1, <2>2 DEF PayInv
<1> QED BY <1>1, <1>2, PTL DEF Spec

\* Two transactions pay one withdrawal only when the program lost sight of the first,
\* with any number of coroutines left behind and any troubles (ProcessWithdraw).
THEOREM PaidTwiceNeedsDoubt == Spec => []PaidTwiceOnlyInDoubt
<1>1. PayInv => PaidTwiceOnlyInDoubt
  <2> SUFFICES ASSUME PayInv, NEW w \in Withdrawals \ doubt PROVE Cardinality(Out(w)) <= 1
    BY DEF PaidTwiceOnlyInDoubt, Out
  <2>1. \A a, b \in Out(w) : a = b
    BY DEF PayInv, Tracked
  <2>2. CASE Out(w) = {}
    BY <2>2, FS_EmptySet
  <2>3. ASSUME NEW a \in Out(w) PROVE Cardinality(Out(w)) <= 1
    <3>1. Out(w) = {a}
      BY <2>1
    <3> QED BY <3>1, FS_Singleton
  <2> QED BY <2>2, <2>3
<1> QED BY <1>1, PaymentInvariant, PTL

\* What is settled stays settled: a coroutine that records a withdrawal again has lost
\* sight of it before (updateTransactionHash).
THEOREM SettledWithoutDoubtStays == Spec => SettledStays
<1>1. ASSUME PayInv, [Next]_vars, NEW w \in Withdrawals \ doubt, rows[w].status = "success"
      PROVE  rows'[w].status = "success"
  <2>1. \A m \in Maps : \A s \in sends[m] : s.w # w
    BY <1>1 DEF PayInv, InHand
  <2> QED BY <2>1, <1>1, StatusSteps DEF PayInv, Request
<1>2. PayInv /\ [Next]_vars =>
        [\A w \in Withdrawals \ doubt :
            rows[w].status = "success" => rows'[w].status = "success"]_vars
  BY <1>1
<1> QED BY <1>2, PaymentInvariant, PTL DEF Spec, SettledStays
=============================================================================
