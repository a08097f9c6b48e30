----------------------- MODULE BlockProcessingProofs -----------------------
(***************************************************************************)
(* Theorems about BlockProcessing, for every chain and any number of       *)
(* crashes, database errors and blocks fetched ahead.                      *)
(***************************************************************************)
EXTENDS BlockProcessing, AmountsProofs, FiniteSetTheorems, TLAPS

IsRow(r) ==
    r = [hash |-> r.hash, idx |-> r.idx, type |-> r.type, to |-> r.to,
         amount |-> r.amount, cur |-> r.cur, spent |-> r.spent]

\* A deposit on its way to the outbox is recorded or about to be.
AnnounceInv ==
    /\ \A r \in fundings \cup marking : IsRow(r)
    /\ pc = "add" => \A t \in event.deposits :
        FundingExists(t.hash, t.idx) \/ \E i \in adding : block[i] = t
    /\ pc \in {"join", "spend", "emit"} =>
        \A t \in event.deposits : FundingExists(t.hash, t.idx)
    /\ event = [deposits |-> event.deposits, confirmed |-> event.confirmed]
    /\ AnnouncedIsRecorded

\* No funding disappears: marking it as spent keeps what identifies it.
LEMMA MarkingKeeps ==
    ASSUME NEW rows, NEW which, NEW hash,
           \A r \in rows \cup which : IsRow(r)
    PROVE  /\ \A r \in MarkSpent(rows, which, hash) : IsRow(r)
           /\ \A r \in rows : \E s \in MarkSpent(rows, which, hash) :
                s.hash = r.hash /\ s.idx = r.idx /\ s.type = r.type
<1>1. ASSUME NEW r \in rows \cup which
      PROVE  LET s == [r EXCEPT !.spent = hash] IN
             IsRow(s) /\ s.hash = r.hash /\ s.idx = r.idx /\ s.type = r.type
  <2>1. r = [hash |-> r.hash, idx |-> r.idx, type |-> r.type, to |-> r.to,
             amount |-> r.amount, cur |-> r.cur, spent |-> r.spent]
    BY DEF IsRow
  <2>2. [r EXCEPT !.spent = hash] =
            [hash |-> r.hash, idx |-> r.idx, type |-> r.type, to |-> r.to,
             amount |-> r.amount, cur |-> r.cur, spent |-> hash]
    BY <2>1
  <2> QED BY <2>2 DEF IsRow
<1> QED BY <1>1 DEF MarkSpent

\* A step that keeps every funding and leaves the announcement alone is harmless.
LEMMA KeepingStep ==
    ASSUME AnnounceInv,
           UNCHANGED <<pc, block, adding, event, outbox>>,
           \A r \in (fundings \cup marking)' : IsRow(r),
           \A r \in fundings : \E s \in fundings' :
                s.hash = r.hash /\ s.idx = r.idx /\ s.type = r.type
    PROVE  AnnounceInv'
<1>1. \A hash, idx : FundingExists(hash, idx) => FundingExists(hash, idx)'
  BY DEF FundingExists
<1> QED BY <1>1 DEF AnnounceInv, AnnouncedIsRecorded

\* processBlock is left: nothing is on its way any more.
LEMMA ForgettingStep ==
    ASSUME AnnounceInv, Forget, UNCHANGED <<fundings, outbox>>
    PROVE  AnnounceInv'
<1>1. \A r \in fundings' \cup marking' : IsRow(r)
  BY DEF Forget, AnnounceInv
<1>2. AnnouncedIsRecorded'
  BY DEF AnnounceInv, AnnouncedIsRecorded, FundingExists
<1> QED BY <1>1, <1>2 DEF Forget, AnnounceInv, NoEvent

LEMMA AnnounceAlways == Spec => []AnnounceInv
<1>1. Init => AnnounceInv
  BY DEF Init, AnnounceInv, AnnouncedIsRecorded, NoEvent
<1>2. AnnounceInv /\ [Next]_vars => AnnounceInv'
  <2> SUFFICES ASSUME AnnounceInv, [Next]_vars PROVE AnnounceInv'
    OBVIOUS
  <2> USE DEF external, locals, bounds
  <2>1. ASSUME UNCHANGED <<fundings, pc, block, adding, event, marking, outbox>>
        PROVE  AnnounceInv'
    BY <2>1, KeepingStep DEF AnnounceInv
  <2>2. CASE PopBlock
    BY <2>2 DEF PopBlock, AnnounceInv, AnnouncedIsRecorded, FundingExists
  <2>3. CASE BuildFundings
    <3>1. event' = [deposits |-> BalancesHash(adding'), confirmed |-> {}]
      BY <2>3 DEF BuildFundings, NoEvent
    <3>2. \A t \in event'.deposits : \E i \in adding' : block'[i] = t
      BY <2>3, <3>1 DEF BuildFundings, BalancesHash
    <3>3. UNCHANGED <<fundings, marking, outbox, block>> /\ pc' = "add"
      BY <2>3 DEF BuildFundings
    <3>4. AnnouncedIsRecorded'
      BY <3>3 DEF AnnounceInv, AnnouncedIsRecorded, FundingExists
    <3>5. \A r \in fundings' \cup marking' : IsRow(r)
      BY <3>3 DEF AnnounceInv
    <3>6. event' = [deposits |-> event'.deposits, confirmed |-> event'.confirmed]
      BY <3>1
    <3> QED BY <3>2, <3>3, <3>4, <3>5, <3>6 DEF AnnounceInv
  <2>4. CASE AddFunding
    <3>1. PICK i \in adding :
            IF Clash(Deposit(block[i]), fundings)
            THEN Swallow /\ UNCHANGED fundings
            ELSE /\ fundings' = fundings \cup {Deposit(block[i])}
                 /\ adding' = adding \ {i}
                 /\ UNCHANGED <<next, pc, block, leaving, payoutOf, settling, spends, marking,
                                event, swallowed>>
      BY <2>4 DEF AddFunding
    <3>2. pc = "add" /\ outbox' = outbox
      BY <2>4 DEF AddFunding
    <3>3. CASE Clash(Deposit(block[i]), fundings)
      BY <3>1, <3>2, <3>3, ForgettingStep DEF Swallow
    <3>4. CASE ~Clash(Deposit(block[i]), fundings)
      <4>1. /\ fundings' = fundings \cup {Deposit(block[i])} /\ adding' = adding \ {i}
            /\ UNCHANGED <<pc, block, marking, event>>
        BY <3>1, <3>4
      <4>2. \A hash, idx : FundingExists(hash, idx) => FundingExists(hash, idx)'
        BY <4>1 DEF FundingExists
      <4>3. FundingExists(block[i].hash, block[i].idx)'
        <5>1. /\ Deposit(block[i]).hash = block[i].hash
              /\ Deposit(block[i]).idx = block[i].idx
              /\ Deposit(block[i]).type = "funding"
          BY DEF Deposit
        <5> QED BY <4>1, <5>1 DEF FundingExists
      <4>4. IsRow(Deposit(block[i]))
        BY DEF IsRow, Deposit
      <4>5. \A t \in event.deposits :
              FundingExists(t.hash, t.idx)' \/ \E j \in adding' : block[j] = t
        BY <3>2, <4>1, <4>2, <4>3 DEF AnnounceInv
      <4> QED BY <3>2, <4>1, <4>2, <4>4, <4>5 DEF AnnounceInv, AnnouncedIsRecorded
    <3> QED BY <3>3, <3>4
  <2>5. CASE FilterWithdrawals
    BY <2>5 DEF FilterWithdrawals, AnnounceInv, AnnouncedIsRecorded, FundingExists
  <2>6. CASE JoinWithdrawals
    <3>1. /\ UNCHANGED <<fundings, marking, outbox>> /\ pc = "join" /\ pc' = "spend"
          /\ event' = [event EXCEPT !.confirmed = Confirmed(payoutOf')]
      BY <2>6 DEF JoinWithdrawals
    <3>2. event'.deposits = event.deposits
      BY <3>1
    <3> QED BY <3>1, <3>2 DEF AnnounceInv, AnnouncedIsRecorded, FundingExists
  <2>7. CASE SpendOutput
    <3>1. PICK s : fundings' = MarkSpent(fundings, OutputRows(s), s.hash)
      BY <2>7 DEF SpendOutput
    <3>2. OutputRows(s) \subseteq fundings
      BY DEF OutputRows
    <3> QED BY <2>7, <3>1, <3>2, MarkingKeeps, KeepingStep DEF SpendOutput, AnnounceInv
  <2>8. CASE AddChange
    <3> DEFINE s == Head(spends)
               rows == Unspent(fundings, s.from, s.cur)
               change == Change(s, Total(rows) - s.amount)
    <3>1. outbox' = outbox
      BY <2>8 DEF AddChange
    <3>2. CASE HasChange(change.amount) /\ Clash(change, fundings)
      <4>1. fundings' = fundings /\ (Swallow \/ LeaveFee)
        BY <2>8, <3>2 DEF AddChange, Catch
      <4>2. CASE LeaveFee
        BY <3>1, <4>1, <4>2, KeepingStep DEF LeaveFee, AnnounceInv
      <4> QED BY <3>1, <4>1, <4>2, ForgettingStep DEF Swallow
    <3>3. CASE ~(HasChange(change.amount) /\ Clash(change, fundings))
      <4>1. /\ fundings' = fundings \/ fundings' = fundings \cup {change}
            /\ marking' = rows /\ UNCHANGED <<pc, block, adding, event>>
        BY <2>8, <3>3 DEF AddChange
      <4>2. IsRow(change) /\ rows \subseteq fundings
        BY DEF IsRow, Change, Unspent
      <4> QED BY <3>1, <4>1, <4>2, KeepingStep DEF AnnounceInv
    <3> QED BY <3>2, <3>3
  <2>9. CASE MarkRow
    <3>1. PICK r \in marking : /\ fundings' = MarkSpent(fundings, {r}, Head(spends).hash)
                               /\ marking' = marking \ {r}
      BY <2>9 DEF MarkRow
    <3> QED BY <2>9, <3>1, MarkingKeeps, KeepingStep DEF MarkRow, AnnounceInv
  <2>10. CASE SyncHeight
    BY <2>10 DEF SyncHeight, AnnounceInv, AnnouncedIsRecorded, FundingExists
  <2>11. CASE EmitBlock
    <3>1. Forget /\ fundings' = fundings /\ pc = "emit"
      BY <2>11 DEF EmitBlock
    <3>2. outbox' = outbox \/ outbox' = outbox \cup {[height |-> next, block |-> event]}
      BY <2>11 DEF EmitBlock
    <3>3. \A t \in event.deposits : FundingExists(t.hash, t.idx)
      BY <3>1 DEF AnnounceInv
    <3>4. /\ \A r \in fundings' \cup marking' : IsRow(r)
          /\ pc' = "idle" /\ event' = NoEvent
      BY <3>1 DEF Forget, AnnounceInv
    <3>5. \A e \in outbox' : \A t \in e.block.deposits : FundingExists(t.hash, t.idx)
      BY <3>2, <3>3 DEF AnnounceInv, AnnouncedIsRecorded
    <3>6. AnnouncedIsRecorded'
      BY <3>1, <3>5 DEF AnnouncedIsRecorded, FundingExists
    <3> QED BY <3>4, <3>6 DEF AnnounceInv, NoEvent
  <2>12. CASE DatabaseError
    <3>1. UNCHANGED <<fundings, outbox>> /\ (Swallow \/ LeaveFee)
      BY <2>12 DEF DatabaseError, Catch
    <3>2. CASE LeaveFee
      BY <3>1, <3>2, KeepingStep DEF LeaveFee, AnnounceInv
    <3> QED BY <3>1, <3>2, ForgettingStep DEF Swallow
  <2>13. CASE Crash
    BY <2>13, ForgettingStep DEF Crash
  <2> QED
    BY <2>1, <2>2, <2>3, <2>4, <2>5, <2>6, <2>7, <2>8, <2>9, <2>10, <2>11, <2>12, <2>13
    DEF Next, Environment, ProcessBlock, Broadcast, RecordPayout, RecordDistribution,
        FetchBlock, ProcessWithdrawal, UpdateStatus, Poll, vars
<1> QED BY <1>1, <1>2, PTL DEF Spec

\* Whatever crashes, fails or is refused, a deposit that was announced is recorded
\* as a funding.
THEOREM NothingUnrecordedAnnounced == Spec => []AnnouncedIsRecorded
<1>1. AnnounceInv => AnnouncedIsRecorded
  BY DEF AnnounceInv
<1> QED BY <1>1, AnnounceAlways, PTL

----------------------------------------------------------------------------
(* Retries *)

\* A block as it was fetched: each transfer is one of the chain but for its inputs,
\* and a transaction that failed is in it once.
Fetched ==
    {b \in Seq(Transfers \cup {[t EXCEPT !.inputs = <<>>] : t \in Transfers}) :
        \A i \in DOMAIN b :
            /\ b[i].hash # None
            /\ \E t \in Transfers : t.hash = b[i].hash /\ t.idx = b[i].idx /\ t.ok = b[i].ok
            /\ \A j \in DOMAIN b \ {i} :
                  b[i].hash = b[j].hash /\ b[i].idx = b[j].idx => b[i].ok}

Failed(w, k) == \E t \in Transfers : t.hash = chain.attempts[w][k].hash /\ ~t.ok

\* x, a row or a transfer, is of the attempt k of w.
IsAttempt(w, k, x) ==
    x.hash = chain.attempts[w][k].hash /\ x.idx = chain.attempts[w][k].idx

\* The row of a withdrawal names an attempt that was recorded, unless it is queued.
PayoutRow(w) ==
    /\ payouts[w] = [status |-> payouts[w].status, hash |-> payouts[w].hash,
                     idx |-> payouts[w].idx, retries |-> payouts[w].retries]
    /\ payouts[w].status \in {"inqueue", "transfered", "success"}
    /\ payouts[w].idx \in Nat /\ payouts[w].retries \in Nat
    /\ sent[w] \in Nat /\ sent[w] <= Len(chain.attempts[w])
    /\ recorded[w] \subseteq 1 .. sent[w]
    /\ payouts[w].status = "inqueue" => payouts[w].hash = None
    /\ payouts[w].status # "inqueue" => \E k \in recorded[w] : IsAttempt(w, k, payouts[w])

\* The withdrawals of the block were read together, and each by an attempt recorded then.
Work ==
    /\ parsed \in Seq(Fetched) /\ block \in Fetched
    /\ pc = "join" => leaving \subseteq DOMAIN block
    /\ pc # "spend" => settling = {}
    /\ settling \subseteq DOMAIN block
    /\ \A i \in settling : payoutOf[i] # None =>
          /\ payoutOf[i] \in Withdrawals
          /\ \E k \in recorded[payoutOf[i]] : IsAttempt(payoutOf[i], k, block[i])
          /\ \A j \in settling : payoutOf[j] = payoutOf[i] =>
                block[j].hash = block[i].hash /\ block[j].idx = block[i].idx

RetryInv ==
    /\ chain \in Chains /\ doubt \subseteq Withdrawals
    /\ sent = [w \in Withdrawals |-> sent[w]] /\ recorded = [w \in Withdrawals |-> recorded[w]]
    /\ payouts = [w \in Withdrawals |-> payouts[w]]
    /\ \A w \in Withdrawals : PayoutRow(w)
    /\ Work

LEMMA ParsedIsFetched ==
    ASSUME chain \in Chains, NEW h \in DOMAIN chain.blocks
    PROVE  [i \in DOMAIN chain.blocks[h] |-> Parse(chain.blocks[h][i])] \in Fetched
<1> DEFINE b == chain.blocks[h]
           p == [i \in DOMAIN b |-> Parse(b[i])]
<1>0. /\ b \in Seq(ToSet(b))
      /\ \A i \in DOMAIN b :
            /\ b[i] = [f \in TransferFields |-> b[i][f]]
            /\ b[i].hash # None
            /\ \A j \in DOMAIN b \ {i} :
                  b[i].hash = b[j].hash /\ b[i].idx = b[j].idx => b[i].ok
  <2>1. WellFormed(b)
    BY ChainsAssumption
  <2> HIDE DEF b
  <2> QED BY <2>1 DEF WellFormed
<1>1. b \in Seq(ToSet(b))
  BY <1>0
<1>2. ASSUME NEW i \in DOMAIN b
      PROVE  /\ b[i] \in Transfers
             /\ p[i] \in Transfers \cup {[t EXCEPT !.inputs = <<>>] : t \in Transfers}
             /\ p[i].hash = b[i].hash /\ p[i].idx = b[i].idx /\ p[i].ok = b[i].ok
  <2>1. b[i] \in Transfers
    BY <1>1 DEF Transfers, TransfersOf, ToSet
  <2>2. b[i] = [f \in TransferFields |-> b[i][f]]
    BY <1>0
  <2>3. [b[i] EXCEPT !.inputs = <<>>] =
            [f \in TransferFields |-> IF f = "inputs" THEN <<>> ELSE b[i][f]]
    BY <2>2
  <2>4. LET t == [b[i] EXCEPT !.inputs = <<>>] IN
        t.hash = b[i].hash /\ t.idx = b[i].idx /\ t.ok = b[i].ok
    BY <2>3 DEF TransferFields
  <2> QED BY <2>1, <2>4 DEF Parse
<1>3. p \in Seq(Transfers \cup {[t EXCEPT !.inputs = <<>>] : t \in Transfers}) /\ DOMAIN p = DOMAIN b
  <2> DEFINE S == Transfers \cup {[t EXCEPT !.inputs = <<>>] : t \in Transfers}
  <2>1. DOMAIN b = 1 .. Len(b) /\ Len(b) \in Nat
    BY <1>1
  <2>2. DOMAIN p = DOMAIN b /\ \A i \in DOMAIN b : p[i] \in S
    BY <1>2
  <2>3. p = [i \in 1 .. Len(b) |-> p[i]]
    BY <2>1
  <2> HIDE DEF S, p, b
  <2>4. p \in Seq(S)
    BY <2>1, <2>2, <2>3
  <2> QED BY <2>2, <2>4 DEF S
<1>4. \A i \in DOMAIN b : /\ b[i].hash # None
                          /\ \A j \in DOMAIN b \ {i} :
                                b[i].hash = b[j].hash /\ b[i].idx = b[j].idx => b[i].ok
  BY <1>0
<1> HIDE DEF p, b
<1>5. p \in Fetched
  BY <1>2, <1>3, <1>4 DEF Fetched
<1> QED BY <1>5 DEF p, b

LEMMA AttemptFacts ==
    ASSUME chain \in Chains, NEW w \in Withdrawals
    PROVE  /\ chain.attempts[w] \in Seq(ToSet(chain.attempts[w]))
           /\ Len(chain.attempts[w]) \in Nat
           /\ \A k \in 1 .. Len(chain.attempts[w]) :
                 /\ chain.attempts[w][k].hash \in Hashes /\ chain.attempts[w][k].hash # None
                 /\ chain.attempts[w][k].idx \in Nat
           /\ \A j, k \in 1 .. Len(chain.attempts[w]) :
                 chain.attempts[w][j].hash = chain.attempts[w][k].hash => j = k
<1>1. /\ chain.attempts[w] \in Seq(ToSet(chain.attempts[w]))
      /\ \A a \in ToSet(chain.attempts[w]) : a.hash # None /\ a.idx \in Nat
      /\ \A j, k \in DOMAIN chain.attempts[w] :
            chain.attempts[w][j].hash = chain.attempts[w][k].hash => j = k
  BY ChainsAssumption DEF Withdrawals
<1>2. Len(chain.attempts[w]) \in Nat /\ DOMAIN chain.attempts[w] = 1 .. Len(chain.attempts[w])
  BY <1>1
<1>3. \A k \in 1 .. Len(chain.attempts[w]) : chain.attempts[w][k] \in ToSet(chain.attempts[w])
  BY <1>1, <1>2
<1>4. \A k \in 1 .. Len(chain.attempts[w]) : chain.attempts[w][k].hash \in Hashes
  BY <1>3 DEF Hashes
<1> QED BY <1>1, <1>2, <1>3, <1>4

LEMMA RowKept ==
    ASSUME chain' = chain, NEW w, payouts'[w] = payouts[w], sent'[w] = sent[w],
           recorded'[w] = recorded[w]
    PROVE  PayoutRow(w)' <=> PayoutRow(w)
BY DEF PayoutRow, IsAttempt

\* Records are added and withdrawals settled: what was read stays true of the rest.
LEMMA WorkKept ==
    ASSUME Work, chain' = chain, \A w \in Withdrawals : recorded[w] \subseteq recorded'[w],
           UNCHANGED <<parsed, block, payoutOf>>, settling' \subseteq settling,
           pc' = "join" => pc = "join" /\ leaving' = leaving,
           pc' # "spend" => settling' = {}
    PROVE  Work'
<1>1. Fetched' = Fetched /\ Withdrawals' = Withdrawals
  BY DEF Fetched, Transfers, Withdrawals
<1>2. \A w, k, x : IsAttempt(w, k, x)' <=> IsAttempt(w, k, x)
  BY DEF IsAttempt
<1> HIDE DEF Fetched
<1>3. ASSUME NEW i \in settling', payoutOf[i] # None
      PROVE  /\ payoutOf[i] \in Withdrawals
             /\ \E k \in recorded'[payoutOf[i]] : IsAttempt(payoutOf[i], k, block[i])
             /\ \A j \in settling' : payoutOf[j] = payoutOf[i] =>
                   block[j].hash = block[i].hash /\ block[j].idx = block[i].idx
  BY <1>3 DEF Work
<1>4. /\ parsed \in Seq(Fetched) /\ block \in Fetched /\ settling' \subseteq DOMAIN block
      /\ pc' = "join" => leaving' \subseteq DOMAIN block
  BY DEF Work
<1> QED BY <1>1, <1>3, <1>4 DEF Work, IsAttempt

\* No row changes.
LEMMA CalmStep ==
    ASSUME RetryInv, UNCHANGED <<chain, sent, recorded, doubt, payouts>>, Work'
    PROVE  RetryInv'
<1>1. \A w \in Withdrawals : PayoutRow(w)'
  BY RowKept DEF RetryInv
<1> QED BY <1>1 DEF RetryInv, Withdrawals

\* processBlock is left: its locals are gone.
LEMMA LeavingStep ==
    ASSUME RetryInv, Forget, UNCHANGED <<chain, sent, recorded, doubt, payouts>>,
           parsed' \in {parsed, <<>>}
    PROVE  RetryInv'
<1>1. Fetched' = Fetched
  BY DEF Fetched, Transfers
<1>2. <<>> \in Fetched
  BY DEF Fetched
<1> HIDE DEF Fetched
<1>3. parsed \in Seq(Fetched)
  BY DEF RetryInv, Work
<1>4. parsed' \in Seq(Fetched)
  <2>1. CASE parsed' = parsed
    BY <1>3, <2>1
  <2>2. CASE parsed' = <<>>
    BY <2>2
  <2> QED BY <2>1, <2>2
<1>5. Work'
  BY <1>1, <1>2, <1>4 DEF Work, Forget
<1> QED BY <1>5, CalmStep

\* Only the row of w changes.
LEMMA OneRow ==
    ASSUME RetryInv, NEW w \in Withdrawals, chain' = chain, doubt' \subseteq Withdrawals,
           sent' = [v \in Withdrawals |-> sent'[v]],
           recorded' = [v \in Withdrawals |-> recorded'[v]],
           payouts' = [v \in Withdrawals |-> payouts'[v]],
           \A v \in Withdrawals \ {w} :
               sent'[v] = sent[v] /\ recorded'[v] = recorded[v] /\ payouts'[v] = payouts[v],
           PayoutRow(w)', Work'
    PROVE  RetryInv'
<1>1. \A v \in Withdrawals \ {w} : PayoutRow(v)'
  BY RowKept DEF RetryInv
<1>2. Withdrawals' = Withdrawals
  BY DEF Withdrawals
<1> QED BY <1>1, <1>2 DEF RetryInv

LEMMA RetryInit == Init => RetryInv
<1> SUFFICES ASSUME Init PROVE RetryInv
  OBVIOUS
<1>1. /\ chain \in Chains /\ sent = [w \in Withdrawals |-> 0] /\ doubt = {}
      /\ recorded = [w \in Withdrawals |-> {}]
      /\ payouts = [w \in Withdrawals |->
                      [status |-> "inqueue", hash |-> None, idx |-> 0, retries |-> 0]]
      /\ parsed = <<>> /\ block = <<>> /\ settling = {} /\ pc = "idle"
  BY DEF Init
<1>2. <<>> \in Fetched
  BY DEF Fetched
<1>3. ASSUME NEW w \in Withdrawals PROVE PayoutRow(w)
  <2>1. Len(chain.attempts[w]) \in Nat
    BY <1>1, AttemptFacts
  <2> QED BY <1>1, <2>1 DEF PayoutRow
<1>4. parsed \in Seq(Fetched)
  BY <1>1
<1> HIDE DEF Fetched
<1> QED BY <1>1, <1>2, <1>3, <1>4 DEF RetryInv, Work

\* The payment process sends the next attempt, or records one.
LEMMA RetryBroadcast ==
    ASSUME RetryInv, NEW w \in Withdrawals, Broadcast(w)
    PROVE  RetryInv'
<1>1. /\ sent[w] < Len(chain.attempts[w]) /\ sent' = [sent EXCEPT ![w] = @ + 1]
      /\ doubt' \subseteq doubt \cup {w}
      /\ UNCHANGED <<chain, recorded, payouts, parsed, pc, block, leaving, settling, payoutOf>>
  BY DEF Broadcast, locals
<1>2. sent'[w] = sent[w] + 1
      /\ sent' = [v \in Withdrawals |-> sent'[v]] /\ \A v \in Withdrawals \ {w} : sent'[v] = sent[v]
  BY <1>1 DEF RetryInv
<1>3. PayoutRow(w)'
  <2>1. PayoutRow(w) /\ Len(chain.attempts[w]) \in Nat
    BY AttemptFacts DEF RetryInv
  <2>2. 1 .. sent[w] \subseteq 1 .. sent'[w] /\ sent'[w] \in Nat /\ sent'[w] <= Len(chain.attempts[w])
    BY <1>1, <1>2, <2>1 DEF PayoutRow
  <2> QED BY <1>1, <2>1, <2>2 DEF PayoutRow, IsAttempt
<1>4. Work /\ (pc # "spend" => settling = {})
  BY DEF RetryInv, Work
<1>5. Work'
  BY <1>1, <1>4, WorkKept
<1> QED BY <1>1, <1>2, <1>3, <1>5, OneRow DEF RetryInv

LEMMA RetryRecord ==
    ASSUME RetryInv, NEW w \in Withdrawals, RecordPayout(w)
    PROVE  RetryInv'
<1>1. PICK k \in (1 .. sent[w]) \ recorded[w] :
        /\ recorded' = [recorded EXCEPT ![w] = @ \cup {k}]
        /\ payouts' = [payouts EXCEPT ![w].status = "transfered",
                                      ![w].hash = chain.attempts[w][k].hash,
                                      ![w].idx = chain.attempts[w][k].idx]
  BY DEF RecordPayout
<1>2. UNCHANGED <<chain, sent, doubt, parsed, pc, block, leaving, settling, payoutOf>>
  BY DEF RecordPayout, locals
<1>3. PICK a : a = chain.attempts[w][k]
  OBVIOUS
<1>4. PayoutRow(w)
  BY DEF RetryInv
<1>5. payouts'[w] = [status |-> "transfered", hash |-> a.hash, idx |-> a.idx,
                     retries |-> payouts[w].retries]
  <2>1. payouts'[w] = [[[payouts[w] EXCEPT !.status = "transfered"] EXCEPT !.hash = a.hash]
                          EXCEPT !.idx = a.idx]
    BY <1>1, <1>3 DEF RetryInv
  <2> QED BY <2>1, <1>4 DEF PayoutRow
<1>6. /\ payouts' = [v \in Withdrawals |-> payouts'[v]]
      /\ recorded' = [v \in Withdrawals |-> recorded'[v]] /\ recorded'[w] = recorded[w] \cup {k}
      /\ \A v \in Withdrawals \ {w} : payouts'[v] = payouts[v] /\ recorded'[v] = recorded[v]
  BY <1>1 DEF RetryInv
<1>7. a.idx \in Nat
  <2>1. k \in 1 .. Len(chain.attempts[w])
    BY <1>4, AttemptFacts DEF PayoutRow, RetryInv
  <2> QED BY <1>3, <2>1, AttemptFacts DEF RetryInv
<1>8. PayoutRow(w)'
  <2>1. k \in recorded'[w] /\ recorded'[w] \subseteq 1 .. sent[w]
    BY <1>4, <1>6 DEF PayoutRow
  <2>2. IsAttempt(w, k, payouts[w])'
    BY <1>2, <1>3, <1>5 DEF IsAttempt
  <2> HIDE <1>1
  <2> QED BY <1>2, <1>4, <1>5, <1>7, <2>1, <2>2 DEF PayoutRow
<1>9. Work /\ (pc # "spend" => settling = {}) /\ \A v \in Withdrawals : recorded[v] \subseteq recorded'[v]
  BY <1>6 DEF RetryInv, Work
<1>10. Work'
  BY <1>2, <1>9, WorkKept
<1> QED BY <1>2, <1>6, <1>8, <1>10, OneRow DEF RetryInv

\* The row that updateStatus writes: it keeps its transaction, or is queued again.
LEMMA SettledRow ==
    ASSUME NEW w, PayoutRow(w), NEW t
    PROVE  LET row == Settled(payouts[w], t) IN
           /\ row = [status |-> row.status, hash |-> row.hash, idx |-> row.idx,
                     retries |-> row.retries]
           /\ row.idx = payouts[w].idx
           /\ MinerStatus(t) =>
                 /\ row.hash = payouts[w].hash /\ row.retries = payouts[w].retries
                 /\ \/ row = payouts[w]
                    \/ /\ row.status = "success"
                       /\ payouts[w].hash = t.hash /\ payouts[w].idx = t.idx
           /\ ~MinerStatus(t) => row.status = "inqueue" /\ row.hash = None
                                 /\ row.retries = payouts[w].retries + 1
BY DEF PayoutRow, Settled, Succeeded

\* What updateStatus does to the rows.
LEMMA Settling ==
    ASSUME RetryInv, UpdateStatus
    PROVE  /\ UNCHANGED <<chain, sent, recorded, doubt, parsed, pc, block, payoutOf>>
           /\ pc = "spend" /\ payouts' = [v \in Withdrawals |-> payouts'[v]]
           /\ \E i \in settling :
                 /\ settling' = settling \ {i} /\ i \in DOMAIN block
                 /\ payoutOf[i] = None => payouts' = payouts
                 /\ payoutOf[i] # None =>
                       /\ payoutOf[i] \in Withdrawals
                       /\ payouts'[payoutOf[i]] = Settled(payouts[payoutOf[i]], block[i])
                       /\ \A v \in Withdrawals \ {payoutOf[i]} : payouts'[v] = payouts[v]
<1>1. PICK i \in settling :
        /\ payouts' = IF payoutOf[i] = None THEN payouts
                      ELSE [payouts EXCEPT ![payoutOf[i]] = Settled(payouts[payoutOf[i]], block[i])]
        /\ settling' = settling \ {i}
  BY DEF UpdateStatus
<1>2. pc = "spend" /\ UNCHANGED <<chain, sent, recorded, doubt, parsed, pc, block, payoutOf>>
  BY DEF UpdateStatus
<1>3. i \in DOMAIN block /\ (payoutOf[i] # None => payoutOf[i] \in Withdrawals)
      /\ payouts = [v \in Withdrawals |-> payouts[v]]
  BY DEF RetryInv, Work
<1> HIDE DEF Settled
<1> QED BY <1>1, <1>2, <1>3

\* updateStatus settles the row it has read.
LEMMA RetrySettle ==
    ASSUME RetryInv, UpdateStatus
    PROVE  RetryInv'
<1>1. PICK i \in settling :
                 /\ settling' = settling \ {i} /\ i \in DOMAIN block
                 /\ payoutOf[i] = None => payouts' = payouts
                 /\ payoutOf[i] # None =>
                       /\ payoutOf[i] \in Withdrawals
                       /\ payouts'[payoutOf[i]] = Settled(payouts[payoutOf[i]], block[i])
                       /\ \A v \in Withdrawals \ {payoutOf[i]} : payouts'[v] = payouts[v]
  BY Settling
<1>2. /\ UNCHANGED <<chain, sent, recorded, doubt, parsed, pc, block, payoutOf>>
      /\ pc = "spend" /\ payouts' = [v \in Withdrawals |-> payouts'[v]]
  BY Settling
<1>3. Work'
  <2>1. Work
    BY DEF RetryInv
  <2> QED BY <1>1, <1>2, <2>1, WorkKept
<1>4. CASE payoutOf[i] = None
  BY <1>1, <1>2, <1>3, <1>4, CalmStep
<1>5. CASE payoutOf[i] # None
  <2>1. PICK w, t : w = payoutOf[i] /\ t = block[i]
    OBVIOUS
  <2>2. w \in Withdrawals /\ payouts'[w] = Settled(payouts[w], t)
        /\ \A v \in Withdrawals \ {w} : payouts'[v] = payouts[v]
    BY <1>1, <1>5, <2>1
  <2>3. PayoutRow(w)
    BY <2>2 DEF RetryInv
  <2>4. PICK row : row = Settled(payouts[w], t)
    OBVIOUS
  <2>5. PayoutRow(w)'
    <3>1. /\ row = [status |-> row.status, hash |-> row.hash, idx |-> row.idx,
                    retries |-> row.retries]
          /\ row.idx = payouts[w].idx
          /\ MinerStatus(t) =>
                /\ row.hash = payouts[w].hash /\ row.retries = payouts[w].retries
                /\ \/ row = payouts[w]
                   \/ row.status = "success" /\ payouts[w].hash = t.hash /\ payouts[w].idx = t.idx
          /\ ~MinerStatus(t) => row.status = "inqueue" /\ row.hash = None
                                /\ row.retries = payouts[w].retries + 1
      BY <2>3, <2>4, SettledRow
    <3>2. payouts'[w] = row /\ UNCHANGED <<chain, sent, recorded>>
      BY <1>2, <2>2, <2>4
    <3>3. row.status = "success" => row = payouts[w] \/ payouts[w].status # "inqueue"
                                    \/ (t.hash = None)
      BY <2>3, <3>1 DEF PayoutRow
    <3>4. t.hash # None
      <4>1. block \in Fetched
        BY DEF RetryInv, Work
      <4> QED BY <1>1, <2>1, <4>1 DEF Fetched
    <3>5. CASE row = payouts[w]
      BY <2>3, <3>2, <3>5 DEF PayoutRow, IsAttempt
    <3>6. CASE row.status = "success" /\ row # payouts[w]
      <4>1. PICK k \in recorded[w] : IsAttempt(w, k, payouts[w])
        BY <2>3, <3>3, <3>4, <3>6 DEF PayoutRow
      <4>2. IsAttempt(w, k, payouts[w])'
        BY <3>1, <3>2, <3>6, <4>1 DEF IsAttempt
      <4> QED BY <2>3, <3>1, <3>2, <3>6, <4>1, <4>2 DEF PayoutRow
    <3>7. CASE ~MinerStatus(t)
      BY <2>3, <3>1, <3>2, <3>7 DEF PayoutRow
    <3> QED BY <3>1, <3>5, <3>6, <3>7
  <2> QED BY <1>2, <1>3, <2>2, <2>5, OneRow DEF RetryInv
<1> QED BY <1>4, <1>5

\* What buildWithdrawals reads is recorded.
LEMMA RetryReads ==
    ASSUME RetryInv, FilterWithdrawals \/ JoinWithdrawals
    PROVE  RetryInv'
<1>1. UNCHANGED <<chain, sent, recorded, doubt, payouts, parsed, block>>
  BY DEF FilterWithdrawals, JoinWithdrawals, external
<1>2. Fetched' = Fetched /\ Withdrawals' = Withdrawals
  BY <1>1 DEF Fetched, Transfers, Withdrawals
<1> HIDE DEF Fetched
<1>3. parsed \in Seq(Fetched) /\ block \in Fetched
  BY DEF RetryInv, Work
<1>4. CASE FilterWithdrawals
  <2>1. /\ pc = "add" /\ pc' = "join" /\ UNCHANGED <<settling, payoutOf>>
        /\ leaving' = {i \in DOMAIN block : IsWithdrawal(block[i])}
    BY <1>4 DEF FilterWithdrawals
  <2>2. settling = {}
    BY <2>1 DEF RetryInv, Work
  <2>3. Work'
    BY <1>1, <1>2, <1>3, <2>1, <2>2 DEF Work
  <2> QED BY <1>1, <2>3, CalmStep
<1>5. CASE JoinWithdrawals
  <2>1. /\ pc = "join" /\ pc' = "spend" /\ settling' = leaving
        /\ payoutOf' = [i \in leaving |->
              IF PayoutsOf(block[i]) = {} THEN None ELSE CHOOSE w \in PayoutsOf(block[i]) : TRUE]
    BY <1>5 DEF JoinWithdrawals
  <2>2. leaving \subseteq DOMAIN block
    BY <2>1 DEF RetryInv, Work
  <2>3. ASSUME NEW i \in leaving, NEW w, w = payoutOf'[i], w # None
        PROVE  /\ w \in Withdrawals /\ payouts[w].hash = block[i].hash /\ payouts[w].idx = block[i].idx
               /\ \E k \in recorded[w] : IsAttempt(w, k, block[i])
    <3>1. w \in PayoutsOf(block[i])
      BY <2>1, <2>3
    <3>2. w \in Withdrawals /\ payouts[w].hash = block[i].hash /\ payouts[w].idx = block[i].idx
      BY <3>1 DEF PayoutsOf
    <3>3. block[i].hash # None
      BY <1>3, <2>2 DEF Fetched
    <3>4. PICK k \in recorded[w] : IsAttempt(w, k, payouts[w])
      BY <3>2, <3>3 DEF RetryInv, PayoutRow
    <3>5. IsAttempt(w, k, block[i])
      BY <3>2, <3>4 DEF IsAttempt
    <3> QED BY <3>2, <3>5
  <2>4. ASSUME NEW i \in leaving, payoutOf'[i] # None
        PROVE  /\ payoutOf'[i] \in Withdrawals
               /\ \E k \in recorded[payoutOf'[i]] : IsAttempt(payoutOf'[i], k, block[i])
               /\ \A j \in leaving : payoutOf'[j] = payoutOf'[i] =>
                     block[j].hash = block[i].hash /\ block[j].idx = block[i].idx
    <3>1. PICK w : w = payoutOf'[i]
      OBVIOUS
    <3>2. w \in Withdrawals /\ \E k \in recorded[w] : IsAttempt(w, k, block[i])
      BY <2>3, <2>4, <3>1
    <3>3. \A j \in leaving : payoutOf'[j] = w =>
              block[j].hash = block[i].hash /\ block[j].idx = block[i].idx
      <4>1. payouts[w].hash = block[i].hash /\ payouts[w].idx = block[i].idx
        BY <2>3, <2>4, <3>1
      <4>2. ASSUME NEW j \in leaving, payoutOf'[j] = w
            PROVE  payouts[w].hash = block[j].hash /\ payouts[w].idx = block[j].idx
        BY <2>3, <2>4, <3>1, <4>2
      <4> QED BY <4>1, <4>2
    <3> QED BY <3>1, <3>2, <3>3
  <2>5. Work'
    <3>1. ASSUME NEW i \in settling', payoutOf'[i] # None
          PROVE  \E k \in recorded'[payoutOf'[i]] :
                    /\ block'[i].hash = chain'.attempts[payoutOf'[i]][k].hash
                    /\ block'[i].idx = chain'.attempts[payoutOf'[i]][k].idx
      BY <1>1, <2>1, <2>4, <3>1 DEF IsAttempt
    <3>2. ASSUME NEW i \in settling', payoutOf'[i] # None
          PROVE  /\ payoutOf'[i] \in Withdrawals'
                 /\ \A j \in settling' : payoutOf'[j] = payoutOf'[i] =>
                       block'[j].hash = block'[i].hash /\ block'[j].idx = block'[i].idx
      BY <1>1, <1>2, <2>1, <2>4, <3>2
    <3> HIDE <2>4
    <3>3. /\ parsed' \in Seq(Fetched') /\ block' \in Fetched' /\ settling' \subseteq DOMAIN block'
          /\ pc' = "spend"
      BY <1>1, <1>2, <1>3, <2>1, <2>2
    <3> QED BY <3>1, <3>2, <3>3 DEF Work, IsAttempt
  <2> QED BY <1>1, <2>5, CalmStep
<1> QED BY <1>4, <1>5

\* The blocks on their way.
LEMMA RetryBlocks ==
    ASSUME RetryInv, FetchBlock \/ PopBlock
    PROVE  RetryInv'
<1>1. UNCHANGED <<chain, sent, recorded, doubt, payouts, leaving, settling, payoutOf>>
  BY DEF FetchBlock, PopBlock, external, locals
<1>2. Fetched' = Fetched /\ Withdrawals' = Withdrawals
  BY <1>1 DEF Fetched, Transfers, Withdrawals
<1>3. parsed \in Seq(Fetched) /\ block \in Fetched /\ chain \in Chains
  BY DEF RetryInv, Work
<1> HIDE DEF Fetched
<1>4. CASE FetchBlock
  <2> DEFINE new == [i \in DOMAIN chain.blocks[NextToFetch] |-> Parse(chain.blocks[NextToFetch][i])]
  <2>1. parsed' = Append(parsed, new) /\ UNCHANGED <<pc, block>> /\ NextToFetch \in DOMAIN chain.blocks
    BY <1>4 DEF FetchBlock, locals
  <2>2. new \in Fetched
    BY <1>3, <2>1, ParsedIsFetched
  <2> HIDE DEF new
  <2>3. parsed' \in Seq(Fetched)
    BY <1>3, <2>1, <2>2
  <2>4. Work'
    BY <1>1, <1>2, <1>3, <2>1, <2>3 DEF RetryInv, Work, IsAttempt
  <2> QED BY <1>1, <2>4, CalmStep
<1>5. CASE PopBlock
  <2>1. pc = "idle" /\ pc' = "build" /\ parsed # <<>> /\ block' = Head(parsed) /\ parsed' = Tail(parsed)
    BY <1>5 DEF PopBlock
  <2>2. block' \in Fetched /\ parsed' \in Seq(Fetched)
    BY <1>3, <2>1
  <2>3. settling = {}
    BY <2>1 DEF RetryInv, Work
  <2>4. Work'
    BY <1>1, <1>2, <2>1, <2>2, <2>3 DEF Work
  <2> QED BY <1>1, <2>4, CalmStep
<1> QED BY <1>4, <1>5

LEMMA RetryStep == RetryInv /\ [Next]_vars => RetryInv'
<1> SUFFICES ASSUME RetryInv, [Next]_vars PROVE RetryInv'
  OBVIOUS
<1> USE DEF external, locals, bounds
<1>0. Work /\ (pc # "spend" => settling = {})
  BY DEF RetryInv, Work
<1>1. ASSUME (\E g \in chain.gas : RecordDistribution(g)) \/ SpendOutput \/ MarkRow
             \/ SyncHeight \/ BuildFundings \/ Poll \/ ProcessWithdrawal \/ UNCHANGED vars
      PROVE  RetryInv'
  <2>1. UNCHANGED <<chain, sent, recorded, doubt, payouts, parsed, block, settling, payoutOf>>
    BY <1>1 DEF RecordDistribution, SpendOutput, MarkRow, SyncHeight, BuildFundings, Poll,
                ProcessWithdrawal, vars
  <2>2. /\ pc' = "join" => pc = "join" /\ leaving' = leaving
        /\ pc = "spend" /\ pc' # "spend" => settling = {}
    BY <1>1 DEF RecordDistribution, SpendOutput, MarkRow, SyncHeight, BuildFundings, Poll,
                ProcessWithdrawal, vars
  <2>3. Work'
    BY <1>0, <2>1, <2>2, WorkKept
  <2> QED BY <2>1, <2>3, CalmStep
<1>2. ASSUME AddFunding \/ AddChange \/ DatabaseError \/ Crash \/ EmitBlock PROVE RetryInv'
  <2>1. UNCHANGED <<chain, sent, recorded, doubt, payouts>> /\ parsed' \in {parsed, <<>>}
    BY <1>2 DEF AddFunding, AddChange, DatabaseError, Crash, EmitBlock
  <2>2. Forget \/ UNCHANGED <<pc, parsed, block, leaving, settling, payoutOf>>
    BY <1>2 DEF AddFunding, AddChange, DatabaseError, Crash, EmitBlock, Swallow, Catch, LeaveFee
  <2>3. CASE UNCHANGED <<pc, parsed, block, leaving, settling, payoutOf>>
    <3>1. Work'
      BY <1>0, <2>1, <2>3, WorkKept
    <3> QED BY <2>1, <3>1, CalmStep
  <2> QED BY <2>1, <2>2, <2>3, LeavingStep
<1> QED
  BY <1>1, <1>2, RetryBroadcast, RetryRecord, RetrySettle, RetryReads, RetryBlocks
  DEF Next, Environment, ProcessBlock

----------------------------------------------------------------------------
(* Payments *)

\* The attempts that failed; those whose failure can still cost a retry: they are not
\* recorded, or the row names them, or they are about to be settled.
Lost(w) == {k \in 1 .. sent[w] : Failed(w, k)}
Settles(w, k) ==
    \E i \in settling : payoutOf[i] = w /\ w # None /\ block[i].hash = chain.attempts[w][k].hash
Open(w) ==
    {k \in 1 .. sent[w] : \/ k \notin recorded[w]
                          \/ chain.attempts[w][k].hash = payouts[w].hash
                          \/ Settles(w, k)}
Counted(w) == payouts[w].retries <= Cardinality(Lost(w) \ Open(w))

\* Without doubt each attempt is recorded before the next one, which follows its failure.
Sure(w) ==
    /\ \A k \in 1 .. sent[w] - 1 : k \in recorded[w] /\ Failed(w, k)
    /\ sent[w] \notin recorded[w] => payouts[w].status = "inqueue"
    /\ sent[w] \in recorded[w] /\ payouts[w].status = "inqueue" => Failed(w, sent[w])
    /\ payouts[w].status # "inqueue" => IsAttempt(w, sent[w], payouts[w])
    /\ \A i \in settling : payoutOf[i] = w /\ w # None =>
          /\ payouts[w].status # "inqueue"
          /\ block[i].hash = payouts[w].hash /\ block[i].idx = payouts[w].idx

PaidRow(w) ==
    payouts[w].status = "success" =>
        \E t \in Transfers : t.hash = payouts[w].hash /\ t.idx = payouts[w].idx /\ MinerStatus(t)

PayInv == \A w \in Withdrawals : Counted(w) /\ (w \notin doubt => Sure(w)) /\ PaidRow(w)

LEMMA FailedKept ==
    ASSUME chain' = chain
    PROVE  /\ \A w, k : Failed(w, k)' <=> Failed(w, k)
           /\ Withdrawals' = Withdrawals /\ Transfers' = Transfers
BY DEF Failed, Transfers, Withdrawals

\* No attempt becomes open that was broadcast before.
LEMMA CountedKept ==
    ASSUME RetryInv, NEW w \in Withdrawals, chain' = chain, sent'[w] \in Nat, sent[w] <= sent'[w],
           payouts'[w].retries = payouts[w].retries, Counted(w),
           \A k \in 1 .. sent[w] : k \in Open(w)' => k \in Open(w)
    PROVE  Counted(w)'
<1>1. sent[w] \in Nat /\ payouts[w].retries \in Nat
  BY DEF RetryInv, PayoutRow
<1>2. \A k \in Lost(w) \ Open(w) : k \in Lost(w)' /\ k \notin Open(w)'
  BY <1>1, FailedKept DEF Lost
<1>3. PICK A, B : A = Lost(w) \ Open(w) /\ B = Lost(w)' \ Open(w)'
  OBVIOUS
<1>4. A \subseteq B /\ B \subseteq 1 .. sent'[w]
  BY <1>2, <1>3 DEF Lost
<1>5. IsFiniteSet(B)
  <2>1. IsFiniteSet(1 .. sent'[w])
    BY FS_Interval
  <2> QED BY <1>4, <2>1, FS_Subset
<1>6. Cardinality(A) <= Cardinality(B) /\ Cardinality(A) \in Nat /\ Cardinality(B) \in Nat
  BY <1>4, <1>5, FS_Subset, FS_CardinalityType
<1>7. payouts[w].retries <= Cardinality(A)
  BY <1>3 DEF Counted
<1>8. payouts'[w].retries <= Cardinality(B)
  BY <1>1, <1>6, <1>7
<1> QED BY <1>3, <1>8 DEF Counted

\* One attempt less is open, and it failed.
LEMMA CountedMore ==
    ASSUME RetryInv, NEW w \in Withdrawals, chain' = chain, sent'[w] = sent[w],
           payouts'[w].retries = payouts[w].retries + 1, Counted(w),
           \A k \in 1 .. sent[w] : k \in Open(w)' => k \in Open(w),
           NEW n \in Open(w), n \notin Open(w)', Failed(w, n)
    PROVE  Counted(w)'
<1>1. sent[w] \in Nat /\ payouts[w].retries \in Nat /\ n \in 1 .. sent[w]
  BY DEF RetryInv, PayoutRow, Open
<1>2. \A k \in Lost(w) \ Open(w) : k \in Lost(w)' /\ k \notin Open(w)'
  BY <1>1, FailedKept DEF Lost
<1>3. PICK A, B : A = Lost(w) \ Open(w) /\ B = Lost(w)' \ Open(w)'
  OBVIOUS
<1>4. n \in Lost(w)'
  BY <1>1, FailedKept DEF Lost
<1>5. A \cup {n} \subseteq B /\ B \subseteq 1 .. sent[w] /\ n \notin A
  BY <1>2, <1>3, <1>4 DEF Lost
<1>6. IsFiniteSet(B) /\ IsFiniteSet(A)
  <2>1. IsFiniteSet(1 .. sent[w])
    BY <1>1, FS_Interval
  <2>2. A \subseteq 1 .. sent[w]
    BY <1>5
  <2> QED BY <1>5, <2>1, <2>2, FS_Subset
<1>7. Cardinality(A \cup {n}) = Cardinality(A) + 1 /\ Cardinality(A) \in Nat
  BY <1>5, <1>6, FS_AddElement, FS_CardinalityType
<1>8. Cardinality(A \cup {n}) <= Cardinality(B) /\ Cardinality(B) \in Nat
  BY <1>5, <1>6, FS_Subset, FS_CardinalityType
<1>9. payouts[w].retries <= Cardinality(A)
  BY <1>3 DEF Counted
<1>10. payouts'[w].retries <= Cardinality(B)
  BY <1>1, <1>7, <1>8, <1>9
<1> QED BY <1>3, <1>10 DEF Counted

\* The row of w and what is read of it stay, or are forgotten.
LEMMA PaySteady ==
    ASSUME RetryInv, PayInv, NEW w \in Withdrawals, chain' = chain, payouts'[w] = payouts[w],
           sent'[w] = sent[w], recorded'[w] = recorded[w], w \notin doubt' => w \notin doubt,
           \A i \in settling' :
               i \in settling /\ payoutOf'[i] = payoutOf[i] /\ block'[i] = block[i]
    PROVE  Counted(w)' /\ (w \notin doubt' => Sure(w)') /\ PaidRow(w)'
<1>1. Counted(w) /\ (w \notin doubt => Sure(w)) /\ PaidRow(w) /\ sent[w] \in Nat
  BY DEF PayInv, RetryInv, PayoutRow
<1>2. \A k : Settles(w, k)' => Settles(w, k)
  BY DEF Settles
<1>3. \A k \in 1 .. sent[w] : k \in Open(w)' => k \in Open(w)
  BY <1>2 DEF Open
<1>4. Counted(w)'
  BY <1>1, <1>3, CountedKept
<1>5. PaidRow(w)'
  BY <1>1, FailedKept DEF PaidRow, MinerStatus
<1>6. Sure(w) => Sure(w)'
  BY FailedKept DEF Sure, IsAttempt
<1> QED BY <1>1, <1>4, <1>5, <1>6

LEMMA PayCalm ==
    ASSUME RetryInv, PayInv, UNCHANGED <<chain, sent, recorded, doubt, payouts>>,
           \A i \in settling' :
               i \in settling /\ payoutOf'[i] = payoutOf[i] /\ block'[i] = block[i]
    PROVE  PayInv'
<1>1. ASSUME NEW w \in Withdrawals
      PROVE  Counted(w)' /\ (w \notin doubt' => Sure(w)') /\ PaidRow(w)'
  BY PaySteady
<1> QED BY <1>1, FailedKept DEF PayInv

LEMMA PayBroadcast ==
    ASSUME RetryInv, PayInv, NEW w \in Withdrawals, Broadcast(w)
    PROVE  PayInv'
<1>1. /\ payouts[w].status = "inqueue" /\ sent' = [sent EXCEPT ![w] = @ + 1]
      /\ doubt' = doubt \cup (IF sent[w] \in recorded[w] \cup {0} THEN {} ELSE {w})
      /\ UNCHANGED <<chain, recorded, payouts, block, settling, payoutOf>>
  BY DEF Broadcast, locals
<1>2. sent'[w] = sent[w] + 1 /\ sent[w] \in Nat /\ recorded[w] \subseteq 1 .. sent[w]
      /\ \A v \in Withdrawals \ {w} : sent'[v] = sent[v]
  BY <1>1 DEF RetryInv, PayoutRow
<1>3. ASSUME NEW v \in Withdrawals \ {w}
      PROVE  Counted(v)' /\ (v \notin doubt' => Sure(v)') /\ PaidRow(v)'
  BY <1>1, <1>2, PaySteady
<1>4. Counted(w)'
  <2>1. \A k : Settles(w, k)' => Settles(w, k)
    BY <1>1 DEF Settles
  <2>2. \A k \in 1 .. sent[w] : k \in Open(w)' => k \in Open(w)
    BY <1>1, <2>1 DEF Open
  <2> QED BY <1>1, <1>2, <2>2, CountedKept DEF PayInv
<1>5. PaidRow(w)'
  BY <1>1 DEF PaidRow
<1>6. ASSUME w \notin doubt' PROVE Sure(w)'
  <2>1. Sure(w) /\ sent[w] \in recorded[w] \cup {0}
    BY <1>1, <1>6 DEF PayInv
  <2>2. \A k \in 1 .. sent[w] : k \in recorded[w] /\ Failed(w, k)
    <3>1. sent[w] \in recorded[w] => Failed(w, sent[w])
      BY <1>1, <2>1 DEF Sure
    <3>2. \A k \in 1 .. sent[w] - 1 : k \in recorded[w] /\ Failed(w, k)
      BY <2>1 DEF Sure
    <3>3. \A k \in 1 .. sent[w] : k \in 1 .. sent[w] - 1 \/ k = sent[w]
      BY <1>2
    <3> QED BY <1>2, <2>1, <3>1, <3>2, <3>3
  <2>3. \A k \in 1 .. sent'[w] - 1 : k \in recorded'[w] /\ Failed(w, k)'
    <3>1. sent'[w] - 1 = sent[w]
      BY <1>2
    <3> QED BY <1>1, <2>2, <3>1, FailedKept
  <2>4. sent'[w] \notin recorded'[w]
    BY <1>1, <1>2
  <2>5. \A i \in settling : ~(payoutOf[i] = w /\ w # None)
    BY <1>1, <2>1 DEF Sure
  <2> QED BY <1>1, <2>3, <2>4, <2>5 DEF Sure
<1> QED BY <1>1, <1>3, <1>4, <1>5, <1>6, FailedKept DEF PayInv

LEMMA PayRecord ==
    ASSUME RetryInv, PayInv, NEW w \in Withdrawals, RecordPayout(w)
    PROVE  PayInv'
<1>1. PICK n \in (1 .. sent[w]) \ recorded[w] :
        /\ recorded' = [recorded EXCEPT ![w] = @ \cup {n}]
        /\ payouts' = [payouts EXCEPT ![w].status = "transfered",
                                      ![w].hash = chain.attempts[w][n].hash,
                                      ![w].idx = chain.attempts[w][n].idx]
  BY DEF RecordPayout
<1>2. UNCHANGED <<chain, sent, doubt, block, settling, payoutOf>>
  BY DEF RecordPayout, locals
<1>3. PICK a : a = chain.attempts[w][n]
  OBVIOUS
<1>4. PayoutRow(w)
  BY DEF RetryInv
<1>5. payouts'[w] = [status |-> "transfered", hash |-> a.hash, idx |-> a.idx,
                     retries |-> payouts[w].retries]
  <2>1. payouts'[w] = [[[payouts[w] EXCEPT !.status = "transfered"] EXCEPT !.hash = a.hash]
                          EXCEPT !.idx = a.idx]
    BY <1>1, <1>3 DEF RetryInv
  <2> QED BY <2>1, <1>4 DEF PayoutRow
<1>6. /\ recorded'[w] = recorded[w] \cup {n}
      /\ \A v \in Withdrawals \ {w} : payouts'[v] = payouts[v] /\ recorded'[v] = recorded[v]
  BY <1>1 DEF RetryInv
<1>7. ASSUME NEW v \in Withdrawals \ {w}
      PROVE  Counted(v)' /\ (v \notin doubt' => Sure(v)') /\ PaidRow(v)'
  BY <1>2, <1>6, PaySteady
<1>8. Counted(w)'
  <2>1. \A k : Settles(w, k)' => Settles(w, k)
    BY <1>2 DEF Settles
  <2>2. ASSUME NEW k \in 1 .. sent[w], k \in Open(w)' PROVE k \in Open(w)
    <3>1. \/ k \notin recorded[w] \/ chain.attempts[w][k].hash = a.hash \/ Settles(w, k)
      BY <1>2, <1>5, <1>6, <2>1, <2>2 DEF Open
    <3>2. chain.attempts[w][k].hash = a.hash => k = n
      <4>1. k \in 1 .. Len(chain.attempts[w]) /\ n \in 1 .. Len(chain.attempts[w])
        BY <1>4, AttemptFacts DEF PayoutRow, RetryInv
      <4> QED BY <1>3, <4>1, AttemptFacts DEF RetryInv
    <3> QED BY <3>1, <3>2 DEF Open
  <2>3. payouts'[w].retries = payouts[w].retries /\ sent'[w] = sent[w] /\ sent[w] \in Nat
    BY <1>2, <1>4, <1>5 DEF PayoutRow
  <2> QED BY <1>2, <2>2, <2>3, CountedKept DEF PayInv
<1>9. PaidRow(w)'
  BY <1>5 DEF PaidRow
<1>10. ASSUME w \notin doubt' PROVE Sure(w)'
  <2>1. Sure(w)
    BY <1>2, <1>10 DEF PayInv
  <2>2. n = sent[w]
    BY <1>4, <2>1 DEF Sure, PayoutRow
  <2>3. payouts[w].status = "inqueue"
    BY <2>1, <2>2 DEF Sure
  <2>4. \A i \in settling : ~(payoutOf[i] = w /\ w # None)
    BY <2>1, <2>3 DEF Sure
  <2>5. \A k \in 1 .. sent[w] - 1 : k \in recorded'[w] /\ Failed(w, k)'
    BY <1>2, <1>6, <2>1, FailedKept DEF Sure
  <2>6. sent[w] \in recorded'[w] /\ IsAttempt(w, sent[w], payouts[w])'
    BY <1>2, <1>3, <1>5, <1>6, <2>2 DEF IsAttempt
  <2> HIDE <1>1
  <2> QED BY <1>2, <1>5, <2>4, <2>5, <2>6 DEF Sure
<1> HIDE <1>1
<1> QED BY <1>2, <1>7, <1>8, <1>9, <1>10, FailedKept DEF PayInv

\* A success keeps the row's transaction; a failure frees one attempt, which no other
\* transfer of the block names.
LEMMA PaySettle ==
    ASSUME RetryInv, PayInv, UpdateStatus
    PROVE  PayInv'
<1>1. PICK i \in settling :
                 /\ settling' = settling \ {i} /\ i \in DOMAIN block
                 /\ payoutOf[i] = None => payouts' = payouts
                 /\ payoutOf[i] # None =>
                       /\ payoutOf[i] \in Withdrawals
                       /\ payouts'[payoutOf[i]] = Settled(payouts[payoutOf[i]], block[i])
                       /\ \A v \in Withdrawals \ {payoutOf[i]} : payouts'[v] = payouts[v]
  BY Settling
<1>2. UNCHANGED <<chain, sent, recorded, doubt, block, payoutOf>>
  BY Settling
<1>3. CASE payoutOf[i] = None
  BY <1>1, <1>2, <1>3, PayCalm
<1>4. CASE payoutOf[i] # None
  <2>1. PICK w, t : w = payoutOf[i] /\ t = block[i] /\ w # None
    BY <1>4
  <2>2. w \in Withdrawals /\ payouts'[w] = Settled(payouts[w], t)
        /\ \A v \in Withdrawals \ {w} : payouts'[v] = payouts[v]
    BY <1>1, <1>4, <2>1
  <2>3. PayoutRow(w) /\ Counted(w) /\ PaidRow(w) /\ (w \notin doubt => Sure(w)) /\ sent[w] \in Nat
    BY <2>2 DEF RetryInv, PayInv, PayoutRow
  <2>4. /\ \E u \in Transfers : u.hash = t.hash /\ u.idx = t.idx /\ u.ok = t.ok
        /\ t.hash # None
        /\ \A j \in DOMAIN block \ {i} :
              t.hash = block[j].hash /\ t.idx = block[j].idx => t.ok
    <3>1. block \in Fetched
      BY DEF RetryInv, Work
    <3> QED BY <1>1, <2>1, <3>1 DEF Fetched
  <2>5. ASSUME NEW v \in Withdrawals \ {w}
        PROVE  Counted(v)' /\ (v \notin doubt' => Sure(v)') /\ PaidRow(v)'
    BY <1>1, <1>2, <2>2, PaySteady
  <2>6. PICK row : row = Settled(payouts[w], t)
    OBVIOUS
  <2>7. /\ row.idx = payouts[w].idx
        /\ MinerStatus(t) =>
              /\ row.hash = payouts[w].hash /\ row.retries = payouts[w].retries
              /\ \/ row = payouts[w]
                 \/ row.status = "success" /\ payouts[w].hash = t.hash /\ payouts[w].idx = t.idx
        /\ ~MinerStatus(t) => row.status = "inqueue" /\ row.hash = None
                              /\ row.retries = payouts[w].retries + 1
    BY <2>3, <2>6, SettledRow
  <2>8. payouts'[w] = row
    BY <2>2, <2>6
  <2>9. \A k : Settles(w, k)' => Settles(w, k)
    BY <1>1, <1>2 DEF Settles
  <2>10. CASE MinerStatus(t)
    <3>1. \A k \in 1 .. sent[w] : k \in Open(w)' => k \in Open(w)
      BY <1>2, <2>7, <2>8, <2>9, <2>10 DEF Open
    <3>2. Counted(w)'
      BY <1>2, <2>2, <2>3, <2>7, <2>8, <2>10, <3>1, CountedKept
    <3>3. PaidRow(w)'
      <4>1. CASE row = payouts[w]
        BY <1>2, <2>3, <2>8, <4>1, FailedKept DEF PaidRow, MinerStatus
      <4>2. CASE row # payouts[w]
        <5>1. PICK u \in Transfers : u.hash = t.hash /\ u.idx = t.idx /\ u.ok = t.ok
          BY <2>4
        <5>2. MinerStatus(u) /\ u.hash = row.hash /\ u.idx = row.idx
          BY <2>7, <2>10, <4>2, <5>1 DEF MinerStatus
        <5> QED BY <1>2, <2>8, <5>2, FailedKept DEF PaidRow, MinerStatus
      <4> QED BY <4>1, <4>2
    <3>4. Sure(w) => Sure(w)'
      <4> SUFFICES ASSUME Sure(w) PROVE Sure(w)'
        OBVIOUS
      <4>1. payouts[w].status # "inqueue"
        BY <1>1, <2>1 DEF Sure
      <4>2. row.status # "inqueue" /\ row.hash = payouts[w].hash /\ row.idx = payouts[w].idx
        BY <2>7, <2>10, <4>1
      <4>3. IsAttempt(w, sent[w], payouts[w])' <=> IsAttempt(w, sent[w], payouts[w])
        BY <1>2, <2>8, <4>2 DEF IsAttempt
      <4>4. sent[w] \in recorded[w] /\ IsAttempt(w, sent[w], payouts[w])
        BY <4>1 DEF Sure
      <4>5. \A k \in 1 .. sent[w] - 1 : k \in recorded'[w] /\ Failed(w, k)'
        BY <1>2, FailedKept DEF Sure
      <4>6. \A j \in settling' : payoutOf[j] = w /\ w # None =>
              block[j].hash = row.hash /\ block[j].idx = row.idx
        BY <1>1, <4>2 DEF Sure
      <4> QED BY <1>2, <2>8, <4>2, <4>3, <4>4, <4>5, <4>6 DEF Sure
    <3> QED BY <1>2, <2>3, <2>5, <3>2, <3>3, <3>4, FailedKept DEF PayInv
  <2>11. CASE ~MinerStatus(t)
    <3>1. ~t.ok
      BY <2>11 DEF MinerStatus
    <3>2. PICK n \in recorded[w] : IsAttempt(w, n, t)
      BY <1>1, <1>4, <2>1 DEF RetryInv, Work
    <3>3. Failed(w, n) /\ n \in 1 .. sent[w]
      BY <2>3, <2>4, <3>1, <3>2 DEF Failed, IsAttempt, PayoutRow
    <3>4. ASSUME NEW j \in settling', payoutOf[j] = w PROVE FALSE
      <4>1. block[j].hash = t.hash /\ block[j].idx = t.idx /\ j \in DOMAIN block /\ j # i
        BY <1>1, <1>4, <2>1, <3>4 DEF RetryInv, Work
      <4> QED BY <2>4, <3>1, <4>1
    <3>5. \A k : ~Settles(w, k)'
      BY <1>2, <3>4 DEF Settles
    <3>6. \A k \in 1 .. sent[w] : chain.attempts[w][k].hash # None
      <4>1. \A k \in 1 .. sent[w] : k \in 1 .. Len(chain.attempts[w])
        BY <2>2, <2>3, AttemptFacts DEF PayoutRow, RetryInv
      <4> QED BY <2>2, <4>1, AttemptFacts DEF RetryInv
    <3>7. \A k \in 1 .. sent[w] : k \in Open(w)' => k \notin recorded[w]
      BY <1>2, <2>7, <2>8, <2>11, <3>5, <3>6 DEF Open
    <3>8. n \in Open(w) /\ n \notin Open(w)'
      <4>1. Settles(w, n)
        BY <1>1, <2>1, <3>2 DEF Settles, IsAttempt
      <4> QED BY <3>2, <3>3, <3>7, <4>1 DEF Open
    <3>9. \A k \in 1 .. sent[w] : k \in Open(w)' => k \in Open(w)
      BY <3>7 DEF Open
    <3>10. Counted(w)'
      BY <1>2, <2>2, <2>3, <2>7, <2>8, <2>11, <3>3, <3>8, <3>9, CountedMore
    <3>11. PaidRow(w)'
      BY <2>7, <2>8, <2>11 DEF PaidRow
    <3>12. Sure(w) => Sure(w)'
      <4> SUFFICES ASSUME Sure(w) PROVE Sure(w)'
        OBVIOUS
      <4>1. payouts[w].status # "inqueue" /\ t.hash = payouts[w].hash
        BY <1>1, <2>1 DEF Sure
      <4>2. t.hash = chain.attempts[w][sent[w]].hash
        BY <4>1 DEF Sure, IsAttempt
      <4>3. Failed(w, sent[w])'
        <5>1. Failed(w, sent[w])
          BY <2>4, <3>1, <4>2 DEF Failed
        <5> QED BY <1>2, <5>1, FailedKept
      <4>4. \A k \in 1 .. sent[w] - 1 : k \in recorded'[w] /\ Failed(w, k)'
        BY <1>2, FailedKept DEF Sure
      <4> QED BY <1>2, <2>7, <2>8, <2>11, <3>4, <4>3, <4>4 DEF Sure
    <3> QED BY <1>2, <2>3, <2>5, <3>10, <3>11, <3>12, FailedKept DEF PayInv
  <2> QED BY <2>10, <2>11
<1> QED BY <1>3, <1>4

\* Only withdrawals whose row names the transaction are read.
LEMMA PayJoin ==
    ASSUME RetryInv, PayInv, JoinWithdrawals
    PROVE  PayInv'
<1>1. /\ settling' = leaving /\ UNCHANGED <<chain, sent, recorded, doubt, payouts, block>>
      /\ payoutOf' = [i \in leaving |->
            IF PayoutsOf(block[i]) = {} THEN None ELSE CHOOSE w \in PayoutsOf(block[i]) : TRUE]
      /\ pc = "join"
  BY DEF JoinWithdrawals, external
<1>2. ASSUME NEW i \in leaving, NEW w, w = payoutOf'[i], w # None
      PROVE  /\ payouts[w].hash = block[i].hash /\ payouts[w].idx = block[i].idx
             /\ payouts[w].status # "inqueue"
  <2>1. w \in PayoutsOf(block[i])
    BY <1>1, <1>2
  <2>2. w \in Withdrawals /\ payouts[w].hash = block[i].hash /\ payouts[w].idx = block[i].idx
    BY <2>1 DEF PayoutsOf
  <2>3. block[i].hash # None
    <3>1. block \in Fetched /\ i \in DOMAIN block
      BY <1>1 DEF RetryInv, Work
    <3> QED BY <3>1 DEF Fetched
  <2> QED BY <2>2, <2>3 DEF RetryInv, PayoutRow
<1>3. ASSUME NEW w \in Withdrawals
      PROVE  Counted(w)' /\ (w \notin doubt' => Sure(w)') /\ PaidRow(w)'
  <2>1. Counted(w) /\ (w \notin doubt => Sure(w)) /\ PaidRow(w) /\ sent[w] \in Nat
    BY DEF PayInv, RetryInv, PayoutRow
  <2>2. \A k : Settles(w, k)' => chain.attempts[w][k].hash = payouts[w].hash
    BY <1>1, <1>2 DEF Settles
  <2>3. \A k \in 1 .. sent[w] : k \in Open(w)' => k \in Open(w)
    BY <1>1, <2>2 DEF Open
  <2>4. Counted(w)'
    BY <1>1, <2>1, <2>3, CountedKept
  <2>5. PaidRow(w)'
    BY <1>1, <2>1, FailedKept DEF PaidRow, MinerStatus
  <2>6. Sure(w) => Sure(w)'
    <3>1. \A i \in settling' : payoutOf'[i] = w /\ w # None =>
              /\ payouts[w].hash = block[i].hash /\ payouts[w].idx = block[i].idx
              /\ payouts[w].status # "inqueue"
      BY <1>1, <1>2
    <3> QED BY <1>1, <3>1, FailedKept DEF Sure, IsAttempt
  <2> QED BY <1>1, <2>1, <2>4, <2>5, <2>6
<1> QED BY <1>1, <1>3, FailedKept DEF PayInv

LEMMA PayInit == Init => PayInv
<1> SUFFICES ASSUME Init, NEW w \in Withdrawals PROVE Counted(w) /\ Sure(w) /\ PaidRow(w)
  BY DEF PayInv
<1>1. /\ sent[w] = 0 /\ recorded[w] = {} /\ settling = {}
      /\ payouts[w] = [status |-> "inqueue", hash |-> None, idx |-> 0, retries |-> 0]
  BY DEF Init
<1>2. Sure(w) /\ PaidRow(w)
  BY <1>1 DEF Sure, PaidRow
<1>3. PICK A : A = Lost(w) \ Open(w)
  OBVIOUS
<1>4. A = {}
  BY <1>1, <1>3 DEF Lost
<1>5. Cardinality(A) = 0
  BY <1>4, FS_EmptySet
<1> QED BY <1>1, <1>2, <1>3, <1>5 DEF Counted

LEMMA PayStep == RetryInv /\ PayInv /\ [Next]_vars => PayInv'
<1> SUFFICES ASSUME RetryInv, PayInv, [Next]_vars PROVE PayInv'
  OBVIOUS
<1> USE DEF external, locals, bounds
<1>1. pc = "idle" => settling = {}
  BY DEF RetryInv, Work
<1>2. ASSUME (\E g \in chain.gas : RecordDistribution(g)) \/ FetchBlock \/ PopBlock
             \/ BuildFundings \/ AddFunding \/ FilterWithdrawals \/ ProcessWithdrawal
             \/ SpendOutput \/ AddChange \/ MarkRow \/ SyncHeight \/ EmitBlock \/ Poll
             \/ DatabaseError \/ Crash \/ UNCHANGED vars
      PROVE  PayInv'
  <2>1. UNCHANGED <<chain, sent, recorded, doubt, payouts>>
    BY <1>2 DEF RecordDistribution, FetchBlock, PopBlock, BuildFundings, AddFunding,
        FilterWithdrawals, ProcessWithdrawal, SpendOutput, AddChange, MarkRow, SyncHeight,
        EmitBlock, Poll, DatabaseError, Crash, vars
  <2>2. settling' = {} \/ UNCHANGED <<settling, payoutOf, block>>
    BY <1>1, <1>2 DEF RecordDistribution, FetchBlock, PopBlock, BuildFundings, AddFunding,
        FilterWithdrawals, ProcessWithdrawal, SpendOutput, AddChange, MarkRow, SyncHeight,
        EmitBlock, Poll, DatabaseError, Crash, vars, Forget, Swallow, Catch, LeaveFee
  <2> QED BY <2>1, <2>2, PayCalm
<1> QED
  BY <1>2, PayBroadcast, PayRecord, PaySettle, PayJoin DEF Next, Environment, ProcessBlock

LEMMA PayAlways == Spec => [](RetryInv /\ PayInv)
<1> QED BY RetryInit, RetryStep, PayInit, PayStep, PTL DEF Spec

\* On every chain, whatever crashes or fails: unless the payment process has lost sight of
\* an attempt, the monitor makes it try again only after a failure.
THEOREM TriedAgainAfterFailure == Spec => []TriedAgainOnlyAfterFailure
<1>1. RetryInv /\ PayInv => TriedAgainOnlyAfterFailure
  <2> SUFFICES ASSUME RetryInv, PayInv, NEW w \in Withdrawals \ doubt, NEW k \in 1 .. sent[w] - 1
               PROVE  Failed(w, k)
    BY DEF TriedAgainOnlyAfterFailure, Failed
  <2> QED BY DEF PayInv, Sure
<1> QED BY <1>1, PayAlways, PTL

\* A withdrawal is settled by a transaction of the chain that succeeded, also when attempts
\* are recorded late, out of order or while their blocks are processed.
THEOREM SettledWasPaid == Spec => []SettledIsPaid
<1>1. RetryInv /\ PayInv => SettledIsPaid
  BY DEF PayInv, PaidRow, SettledIsPaid
<1> QED BY <1>1, PayAlways, PTL

\* A failed transaction costs its withdrawal one retry, also when its block is processed
\* again, and also when several attempts are out at a time.
THEOREM OneRetryPerFailure == Spec => []RetriedOncePerFailedTx
<1>1. RetryInv /\ PayInv => RetriedOncePerFailedTx
  <2> SUFFICES ASSUME RetryInv, PayInv, NEW w \in Withdrawals
               PROVE  payouts[w].retries <= Cardinality(Lost(w))
    BY DEF RetriedOncePerFailedTx, Failed, Lost
  <2>1. sent[w] \in Nat /\ payouts[w].retries \in Nat /\ Counted(w)
    BY DEF RetryInv, PayoutRow, PayInv
  <2>2. PICK A, B : A = Lost(w) \ Open(w) /\ B = Lost(w)
    OBVIOUS
  <2>3. A \subseteq B /\ B \subseteq 1 .. sent[w]
    BY <2>2 DEF Lost
  <2>4. IsFiniteSet(B)
    <3>1. IsFiniteSet(1 .. sent[w])
      BY <2>1, FS_Interval
    <3> QED BY <2>3, <3>1, FS_Subset
  <2>5. Cardinality(A) <= Cardinality(B) /\ Cardinality(A) \in Nat /\ Cardinality(B) \in Nat
    BY <2>3, <2>4, FS_Subset, FS_CardinalityType
  <2>6. payouts[w].retries <= Cardinality(A)
    BY <2>1, <2>2 DEF Counted
  <2> QED BY <2>1, <2>2, <2>5, <2>6
<1> QED BY <1>1, PayAlways, PTL

----------------------------------------------------------------------------
(* Which block is where *)

\* b is the block at height h as it was parsed: its transfers, but for the inputs of
\* UTXO transactions whose first input was not recorded then.
IsParse(c, hidden, h, b) ==
    /\ h \in DOMAIN c.blocks /\ DOMAIN b = DOMAIN c.blocks[h]
    /\ \A i \in DOMAIN b : LET t == c.blocks[h][i] IN
          \/ b[i] = t
          \/ b[i] = [t EXCEPT !.inputs = <<>>] /\ t.inputs # <<>> /\ t.hash \in hidden

Busy == IF pc = "idle" THEN 0 ELSE 1

\* The parsed blocks are the next ones in their order; what lies between the synced height
\* and the next block was swallowed.
PositionInv ==
    /\ chain \in Chains
    /\ next \in Nat /\ synced \in Nat
    /\ IF pc = "emit" THEN synced = next ELSE synced < next
    /\ synced <= Len(chain.blocks) /\ NextToFetch <= Len(chain.blocks) + 1
    /\ \A k \in 1 .. Len(parsed) : IsParse(chain, blind, next + Busy + k - 1, parsed[k])
    /\ IF pc = "idle" THEN block = <<>> ELSE IsParse(chain, blind, next, block)
    /\ \A h \in 1 .. Len(chain.blocks) : synced < h /\ h < next => h \in swallowed
    /\ swallowed \subseteq DOMAIN chain.blocks

LEMMA BlocksOfChain ==
    ASSUME chain \in Chains
    PROVE  Len(chain.blocks) \in Nat /\ DOMAIN chain.blocks = 1 .. Len(chain.blocks)
<1>1. chain.blocks \in Seq(ToSet(chain.blocks))
  BY ChainsAssumption
<1> QED BY <1>1

\* Nothing of it changes.
LEMMA PositionKept ==
    ASSUME PositionInv,
           UNCHANGED <<chain, next, synced, parsed, pc, block, swallowed>>, blind \subseteq blind'
    PROVE  PositionInv'
<1>1. \A h, b : IsParse(chain, blind, h, b) => IsParse(chain', blind', h, b)
  BY DEF IsParse
<1> QED BY <1>1 DEF PositionInv, NextToFetch, Busy

\* A block is under way before and after the step.
LEMMA PositionBusy ==
    ASSUME PositionInv, pc \notin {"idle", "emit"}, pc' \notin {"idle", "emit"},
           UNCHANGED <<chain, next, synced, parsed, block, swallowed, blind>>
    PROVE  PositionInv'
<1>1. \A h, b : IsParse(chain, blind, h, b) => IsParse(chain', blind', h, b)
  BY DEF IsParse
<1> QED BY <1>1 DEF PositionInv, NextToFetch, Busy

\* The block under way is left behind.
LEMMA PositionPassed ==
    ASSUME PositionInv, RetryInv, pc # "idle", Forget, next' = next + 1,
           UNCHANGED <<chain, synced, parsed, blind>>,
           \/ pc = "emit" /\ swallowed' = swallowed
           \/ pc # "emit" /\ swallowed' = swallowed \cup {next}
    PROVE  PositionInv'
<1>1. \A h, b : IsParse(chain, blind, h, b) => IsParse(chain', blind', h, b)
  BY DEF IsParse
<1>2. Len(parsed) \in Nat /\ Len(chain.blocks) \in Nat
  BY BlocksOfChain DEF RetryInv, Work
<1>3. pc' = "idle" /\ block' = <<>>
  BY DEF Forget
<1>4. NextToFetch' = NextToFetch
  BY <1>3 DEF NextToFetch, PositionInv
<1>5. \A k \in 1 .. Len(parsed) : IsParse(chain', blind', next' + Busy' + k - 1, parsed[k])
  <2>1. \A k \in 1 .. Len(parsed) : next' + Busy' + k - 1 = next + Busy + k - 1
    BY <1>2, <1>3 DEF PositionInv, Busy
  <2> QED BY <1>1, <2>1 DEF PositionInv
<1>6. next \in DOMAIN chain.blocks
  BY DEF PositionInv, IsParse
<1>7. synced < next'
  BY DEF PositionInv
<1>8. \A h \in 1 .. Len(chain.blocks) : synced < h /\ h < next' => h \in swallowed'
  BY DEF PositionInv
<1> QED BY <1>1, <1>2, <1>3, <1>4, <1>5, <1>6, <1>7, <1>8 DEF PositionInv

\* The worker starts behind the synced height.
LEMMA PositionReset ==
    ASSUME PositionInv, parsed' = <<>>, next' = synced + 1, pc' = "idle", block' = <<>>,
           UNCHANGED <<chain, synced, swallowed, blind>>
    PROVE  PositionInv'
<1>1. Len(chain.blocks) \in Nat
  BY BlocksOfChain DEF PositionInv
<1> QED BY <1>1 DEF PositionInv, NextToFetch

LEMMA PositionFetch ==
    ASSUME PositionInv, RetryInv, FetchBlock
    PROVE  PositionInv'
<1> DEFINE n == NextToFetch
           b == chain.blocks[n]
           new == [i \in DOMAIN b |-> Parse(b[i])]
<1>1. /\ n \in DOMAIN chain.blocks /\ parsed' = Append(parsed, new)
      /\ UNCHANGED <<chain, next, synced, pc, block, swallowed, fundings>>
      /\ blind' = blind \cup {t.hash : t \in {u \in TransfersOf(b) :
                                 u.inputs # <<>> /\ ~SpendsRecorded(u)}}
  BY DEF FetchBlock, external, locals
<1>2. \A h, c : IsParse(chain, blind, h, c) => IsParse(chain', blind', h, c)
  BY <1>1 DEF IsParse
<1>3. b \in Seq(ToSet(b)) /\ \A i \in DOMAIN b : b[i] = [f \in TransferFields |-> b[i][f]]
  <2>1. WellFormed(b)
    BY <1>1, ChainsAssumption DEF PositionInv
  <2> HIDE DEF b
  <2> QED BY <2>1 DEF WellFormed
<1>4. IsParse(chain', blind', n, new)
  <2>1. ASSUME NEW i \in DOMAIN b
        PROVE  \/ new[i] = b[i]
               \/ /\ new[i] = [b[i] EXCEPT !.inputs = <<>>]
                  /\ b[i].inputs # <<>> /\ b[i].hash \in blind'
    <3>1. CASE SpendsRecorded(b[i])
      BY <3>1 DEF Parse
    <3>2. CASE b[i].inputs = <<>>
      <4>1. b[i] = [f \in TransferFields |-> b[i][f]]
        BY <1>3
      <4>2. [b[i] EXCEPT !.inputs = <<>>] =
                [f \in TransferFields |-> IF f = "inputs" THEN <<>> ELSE b[i][f]]
        BY <4>1
      <4>3. [b[i] EXCEPT !.inputs = <<>>] = b[i]
        BY <3>2, <4>1, <4>2 DEF TransferFields
      <4> QED BY <4>3 DEF Parse
    <3>3. CASE ~SpendsRecorded(b[i]) /\ b[i].inputs # <<>>
      <4>1. b[i] \in TransfersOf(b)
        BY <1>3 DEF TransfersOf, ToSet
      <4> QED BY <1>1, <3>3, <4>1 DEF Parse
    <3> QED BY <3>1, <3>2, <3>3
  <2> HIDE DEF new
  <2>2. DOMAIN new = DOMAIN b
    BY DEF new
  <2>3. DOMAIN new = DOMAIN b /\ \A i \in DOMAIN new : LET t == b[i] IN
          \/ new[i] = t
          \/ new[i] = [t EXCEPT !.inputs = <<>>] /\ t.inputs # <<>> /\ t.hash \in blind'
    BY <2>1, <2>2
  <2> QED BY <1>1, <2>3 DEF IsParse
<1> HIDE DEF new
<1>5. Len(parsed) \in Nat /\ parsed \in Seq(Fetched) /\ Len(chain.blocks) \in Nat
      /\ DOMAIN chain.blocks = 1 .. Len(chain.blocks)
  BY BlocksOfChain DEF RetryInv, Work
<1>6. /\ Len(parsed') = Len(parsed) + 1 /\ parsed'[Len(parsed) + 1] = new
      /\ \A k \in 1 .. Len(parsed) : parsed'[k] = parsed[k]
  BY <1>1, <1>5
<1>7. n = next + Busy + Len(parsed) /\ n \in Nat /\ n' = n + 1
  <2>1. next \in Nat /\ Busy \in 0 .. 1 /\ next' = next /\ Busy' = Busy
    BY <1>1 DEF PositionInv, Busy
  <2>2. NextToFetch = next + Len(parsed) + Busy
    BY DEF NextToFetch, Busy
  <2>3. NextToFetch' = next' + Len(parsed') + Busy'
    BY DEF NextToFetch, Busy
  <2> QED BY <1>5, <1>6, <2>1, <2>2, <2>3
<1>8. ASSUME NEW k \in 1 .. Len(parsed')
      PROVE  IsParse(chain', blind', next' + Busy' + k - 1, parsed'[k])
  <2>1. Busy' = Busy /\ next' = next /\ Busy \in {0, 1}
    BY <1>1 DEF Busy
  <2>2. CASE k \in 1 .. Len(parsed)
    BY <1>2, <1>6, <2>1, <2>2 DEF PositionInv
  <2>3. CASE k = Len(parsed) + 1
    <3>1. next' + Busy' + k - 1 = n
      BY <1>5, <1>7, <2>1, <2>3 DEF PositionInv
    <3> QED BY <1>4, <1>6, <2>3, <3>1
  <2> QED BY <1>5, <1>6, <2>2, <2>3
<1>9. n' <= Len(chain.blocks) + 1
  BY <1>1, <1>5, <1>7
<1> QED BY <1>1, <1>2, <1>8, <1>9 DEF PositionInv

LEMMA PositionPop ==
    ASSUME PositionInv, RetryInv, PopBlock
    PROVE  PositionInv'
<1>1. /\ pc = "idle" /\ pc' = "build" /\ parsed # <<>> /\ block' = Head(parsed)
      /\ parsed' = Tail(parsed)
      /\ UNCHANGED <<chain, next, synced, swallowed, blind>>
  BY DEF PopBlock, external, bounds
<1>2. \A h, c : IsParse(chain, blind, h, c) => IsParse(chain', blind', h, c)
  BY <1>1 DEF IsParse
<1>3. parsed \in Seq(Fetched) /\ Len(parsed) \in Nat /\ Len(parsed) >= 1 /\ next \in Nat
  <2>1. parsed \in Seq(Fetched)
    BY DEF RetryInv, Work
  <2> QED BY <1>1, <2>1 DEF PositionInv
<1>4. /\ Len(parsed') = Len(parsed) - 1 /\ block' = parsed[1]
      /\ \A k \in 1 .. Len(parsed') : parsed'[k] = parsed[k + 1]
  BY <1>1, <1>3
<1>5. IsParse(chain', blind', next, block')
  <2>1. IsParse(chain, blind, next + Busy + 1 - 1, parsed[1]) /\ Busy = 0
    BY <1>1, <1>3 DEF PositionInv, Busy
  <2>2. next + Busy + 1 - 1 = next
    BY <1>3, <2>1
  <2> QED BY <1>2, <1>4, <2>1, <2>2
<1>6. ASSUME NEW k \in 1 .. Len(parsed') PROVE IsParse(chain', blind', next' + Busy' + k - 1, parsed'[k])
  <2>1. k + 1 \in 1 .. Len(parsed)
    BY <1>3, <1>4
  <2>2. IsParse(chain, blind, next + Busy + (k + 1) - 1, parsed[k + 1])
    BY <2>1 DEF PositionInv
  <2>3. next' + Busy' + k - 1 = next + Busy + (k + 1) - 1
    BY <1>1, <1>3 DEF Busy
  <2> QED BY <1>2, <1>4, <2>2, <2>3
<1>7. NextToFetch' = NextToFetch
  BY <1>1, <1>3, <1>4 DEF NextToFetch
<1> QED BY <1>1, <1>2, <1>5, <1>6, <1>7 DEF PositionInv

LEMMA PositionInit == Init => PositionInv
<1> SUFFICES ASSUME Init PROVE PositionInv
  OBVIOUS
<1>1. Len(chain.blocks) \in Nat
  BY BlocksOfChain DEF Init
<1> QED BY <1>1 DEF Init, PositionInv, NextToFetch

LEMMA PositionStep ==
    ASSUME PositionInv, RetryInv, [Next]_vars
    PROVE  PositionInv'
<1> USE DEF external, locals, bounds
<1>1. CASE Environment \/ UNCHANGED vars
  BY <1>1, PositionKept DEF Environment, Broadcast, RecordPayout, RecordDistribution, vars
<1>2. CASE BuildFundings \/ FilterWithdrawals \/ JoinWithdrawals
  BY <1>2, PositionBusy DEF BuildFundings, FilterWithdrawals, JoinWithdrawals
<1>3. CASE ProcessWithdrawal \/ SpendOutput \/ MarkRow \/ UpdateStatus
  BY <1>3, PositionKept DEF ProcessWithdrawal, SpendOutput, MarkRow, UpdateStatus
<1>4. CASE AddFunding \/ AddChange
  <2>1. /\ pc \in {"add", "spend"} /\ UNCHANGED <<chain, synced, parsed, blind>>
        /\ Swallow \/ UNCHANGED <<next, pc, block, swallowed>>
    BY <1>4 DEF AddFunding, AddChange, Catch, LeaveFee
  <2> QED BY <2>1, PositionKept, PositionPassed DEF Swallow, Catch, LeaveFee
<1>5. CASE DatabaseError \/ EmitBlock
  <2>1. CASE EmitBlock \/ (DatabaseError /\ Swallow)
    BY <2>1, PositionPassed DEF DatabaseError, Swallow, Catch, LeaveFee, EmitBlock
  <2>2. CASE DatabaseError /\ LeaveFee
    BY <2>2, PositionKept DEF DatabaseError, LeaveFee
  <2> QED BY <1>5, <2>1, <2>2 DEF DatabaseError, Catch
<1>6. CASE Poll \/ Crash
  BY <1>6, PositionReset DEF Poll, Crash, Forget, PositionInv
<1>7. CASE SyncHeight
  <2>1. /\ pc = "spend" /\ pc' = "emit" /\ synced' = next
        /\ UNCHANGED <<chain, next, parsed, block, swallowed, blind>>
    BY <1>7 DEF SyncHeight
  <2>2. \A h, b : IsParse(chain, blind, h, b) => IsParse(chain', blind', h, b)
    BY <2>1 DEF IsParse
  <2>3. next \in 1 .. Len(chain.blocks)
    BY <2>1, BlocksOfChain DEF PositionInv, IsParse
  <2>4. Busy' = Busy /\ NextToFetch' = NextToFetch
    BY <2>1 DEF Busy, NextToFetch
  <2> QED BY <2>1, <2>2, <2>3, <2>4 DEF PositionInv
<1> QED
  BY <1>1, <1>2, <1>3, <1>4, <1>5, <1>6, <1>7, PositionFetch, PositionPop
  DEF Next, ProcessBlock

\* What the following invariants rest on.
BaseInv == RetryInv /\ PositionInv

LEMMA BaseAlways == Spec => []BaseInv
<1>1. Init => BaseInv
  BY RetryInit, PositionInit DEF BaseInv
<1>2. BaseInv /\ [Next]_vars => BaseInv'
  BY RetryStep, PositionStep DEF BaseInv
<1> QED BY <1>1, <1>2, PTL DEF Spec

----------------------------------------------------------------------------
(* What is announced *)

\* Deposits are announced as buildFundings has built them.
LEMMA EventStep ==
    ASSUME AnnounceInv, [Next]_vars
    PROVE  /\ \A t \in event'.deposits :
                 t \in event.deposits \/ \E i \in DOMAIN block : t = block[i] /\ IsDeposit(t)
           /\ \A e \in outbox' : e \in outbox \/ e.block = event
<1> USE DEF external, locals, bounds
<1>1. CASE BuildFundings
  <2>1. event' = [deposits |-> BalancesHash(adding'), confirmed |-> {}] /\ outbox' = outbox
    BY <1>1 DEF BuildFundings, NoEvent
  <2>2. adding' = {i \in DOMAIN block : IsDeposit(block[i])}
    BY <1>1 DEF BuildFundings
  <2> QED BY <2>1, <2>2 DEF BalancesHash
<1>2. CASE JoinWithdrawals
  <2>1. event' = [event EXCEPT !.confirmed = Confirmed(payoutOf')] /\ outbox' = outbox
    BY <1>2 DEF JoinWithdrawals
  <2>2. event = [deposits |-> event.deposits, confirmed |-> event.confirmed]
    BY DEF AnnounceInv
  <2>3. event'.deposits = event.deposits
    BY <2>1, <2>2
  <2> QED BY <2>1, <2>3
<1>3. CASE AddFunding \/ AddChange \/ DatabaseError \/ Crash
  <2>1. event' \in {event, NoEvent} /\ outbox' = outbox
    BY <1>3 DEF AddFunding, AddChange, DatabaseError, Crash, Swallow, Catch, LeaveFee, Forget
  <2> QED BY <2>1 DEF NoEvent
<1>4. CASE EmitBlock
  <2>1. /\ event' = NoEvent
        /\ outbox' \in {outbox, outbox \cup {[height |-> next, block |-> event]}}
    BY <1>4 DEF EmitBlock, Forget
  <2> QED BY <2>1 DEF NoEvent
<1> QED
  BY <1>1, <1>2, <1>3, <1>4
  DEF Next, Environment, ProcessBlock, Broadcast, RecordPayout, RecordDistribution, FetchBlock,
      PopBlock, FilterWithdrawals, ProcessWithdrawal, SpendOutput, MarkRow, UpdateStatus,
      SyncHeight, Poll, vars

\* The top-ups of the blocks that were fetched are recorded.
RecordedInv ==
    /\ distributions \subseteq chain.gas
    /\ \A k \in 1 .. Len(parsed) : \A i \in DOMAIN parsed[k] : IsRecorded(parsed[k][i].hash)
    /\ \A i \in DOMAIN block : IsRecorded(block[i].hash)

LEMMA RecordedAlways == Spec => []RecordedInv
<1>1. Init => RecordedInv
  BY DEF Init, RecordedInv
<1>2. BaseInv /\ RecordedInv /\ [Next]_vars => RecordedInv'
  <2> SUFFICES ASSUME BaseInv, RecordedInv, [Next]_vars PROVE RecordedInv'
    OBVIOUS
  <2> USE DEF external, locals, bounds
  <2>1. ASSUME distributions \subseteq distributions', distributions' \subseteq chain.gas,
               chain' = chain
        PROVE  \A hash : IsRecorded(hash) => IsRecorded(hash)'
    BY <2>1 DEF IsRecorded
  <2>2. ASSUME UNCHANGED <<chain, distributions>>, parsed' \in {parsed, <<>>},
               block' \in {block, <<>>}
        PROVE  RecordedInv'
    BY <2>1, <2>2 DEF RecordedInv
  <2>3. CASE \E g \in chain.gas : RecordDistribution(g)
    BY <2>1, <2>3 DEF RecordDistribution, RecordedInv
  <2>4. CASE FetchBlock
    <3> DEFINE b == chain.blocks[NextToFetch]
               new == [i \in DOMAIN b |-> Parse(b[i])]
    <3>1. /\ NextToFetch \in DOMAIN chain.blocks /\ parsed' = Append(parsed, new)
          /\ \A t \in TransfersOf(b) : IsRecorded(t.hash)
          /\ UNCHANGED <<chain, distributions, block>>
      BY <2>4 DEF FetchBlock
    <3>2. parsed \in Seq(Fetched) /\ \A i \in DOMAIN b : Parse(b[i]).hash = b[i].hash
      <4>1. WellFormed(b)
        BY <3>1, ChainsAssumption DEF BaseInv, PositionInv
      <4>2. ASSUME NEW i \in DOMAIN b PROVE Parse(b[i]).hash = b[i].hash
        <5> HIDE DEF b
        <5>1. b[i] = [f \in TransferFields |-> b[i][f]]
          BY <4>1 DEF WellFormed
        <5>2. [b[i] EXCEPT !.inputs = <<>>] =
                  [f \in TransferFields |-> IF f = "inputs" THEN <<>> ELSE b[i][f]]
          BY <5>1
        <5>3. [b[i] EXCEPT !.inputs = <<>>].hash = b[i].hash
          BY <5>2 DEF TransferFields
        <5> QED BY <5>3 DEF Parse
      <4> QED BY <4>2 DEF BaseInv, RetryInv, Work
    <3>3. b \in Seq(ToSet(b))
      BY <3>1, ChainsAssumption DEF BaseInv, PositionInv, WellFormed
    <3>4. \A i \in DOMAIN new : IsRecorded(new[i].hash)
      BY <3>1, <3>2, <3>3 DEF TransfersOf, ToSet
    <3> HIDE DEF new
    <3>5. /\ Len(parsed') = Len(parsed) + 1 /\ parsed'[Len(parsed) + 1] = new
          /\ \A k \in 1 .. Len(parsed) : parsed'[k] = parsed[k]
          /\ Len(parsed) \in Nat
      BY <3>1, <3>2
    <3>6. \A k \in 1 .. Len(parsed') : \A i \in DOMAIN parsed'[k] : IsRecorded(parsed'[k][i].hash)
      BY <3>4, <3>5 DEF RecordedInv
    <3>7. \A hash : IsRecorded(hash) => IsRecorded(hash)'
      BY <2>1, <3>1 DEF RecordedInv
    <3> QED BY <3>1, <3>6, <3>7 DEF RecordedInv
  <2>5. CASE PopBlock
    <3>1. parsed # <<>> /\ block' = Head(parsed) /\ parsed' = Tail(parsed)
          /\ UNCHANGED <<chain, distributions>>
      BY <2>5 DEF PopBlock
    <3>2. parsed \in Seq(Fetched)
      BY DEF BaseInv, RetryInv, Work
    <3>3. /\ block' = parsed[1] /\ 1 \in 1 .. Len(parsed)
          /\ \A k \in 1 .. Len(parsed') : k + 1 \in 1 .. Len(parsed) /\ parsed'[k] = parsed[k + 1]
      BY <3>1, <3>2
    <3>4. \A hash : IsRecorded(hash) => IsRecorded(hash)'
      BY <2>1, <3>1 DEF RecordedInv
    <3> QED BY <3>1, <3>3, <3>4 DEF RecordedInv
  <2>6. CASE AddFunding \/ AddChange \/ DatabaseError \/ Crash \/ EmitBlock
    <3>1. UNCHANGED <<chain, distributions>> /\ parsed' \in {parsed, <<>>}
          /\ block' \in {block, <<>>}
      BY <2>6 DEF AddFunding, AddChange, DatabaseError, Crash, EmitBlock, Swallow, Catch, LeaveFee, Forget
    <3> QED BY <2>2, <3>1
  <2>7. CASE UNCHANGED <<chain, distributions, parsed, block>>
    BY <2>2, <2>7
  <2> QED
    BY <2>3, <2>4, <2>5, <2>6, <2>7
    DEF Next, Environment, ProcessBlock, Broadcast, RecordPayout, BuildFundings,
        FilterWithdrawals, JoinWithdrawals, ProcessWithdrawal, SpendOutput, MarkRow, UpdateStatus,
        SyncHeight, Poll, vars
<1> QED BY <1>1, <1>2, BaseAlways, PTL DEF Spec

\* When the record of a top-up is written before the monitor reads its block, no top-up
\* is announced as a deposit, whatever crashes or fails.
THEOREM TopUpsNotAnnounced ==
    ASSUME RecordedFirst
    PROVE  Spec => []DistributionsIgnored
<1> DEFINE Inv == (\A t \in event.deposits : t.hash \notin chain.gas) /\ DistributionsIgnored
<1>1. Init => Inv
  BY DEF Init, NoEvent, DistributionsIgnored
<1>2. AnnounceInv /\ RecordedInv /\ Inv /\ [Next]_vars /\ chain' = chain => Inv'
  BY EventStep DEF IsDeposit, RecordedInv, IsRecorded, DistributionsIgnored
<1>3. [Next]_vars => chain' = chain
  BY DEF Next, Environment, ProcessBlock, Broadcast, RecordPayout, RecordDistribution, FetchBlock,
      PopBlock, BuildFundings, AddFunding, FilterWithdrawals, JoinWithdrawals, ProcessWithdrawal,
      SpendOutput, AddChange, MarkRow, UpdateStatus, SyncHeight, EmitBlock, Poll, DatabaseError,
      Crash, vars, external
<1> QED BY <1>1, <1>2, <1>3, AnnounceAlways, RecordedAlways, PTL DEF Spec

----------------------------------------------------------------------------
(* Types *)

LEMMA ChainKept == [Next]_vars => chain' = chain
BY DEF Next, Environment, ProcessBlock, Broadcast, RecordPayout, RecordDistribution, FetchBlock,
    PopBlock, BuildFundings, AddFunding, FilterWithdrawals, JoinWithdrawals, ProcessWithdrawal,
    SpendOutput, AddChange, MarkRow, UpdateStatus, SyncHeight, EmitBlock, Poll, DatabaseError,
    Crash, vars, external

\* Two transfers that differ in their inputs at most.
Alike(u, t) ==
    /\ u.hash = t.hash /\ u.idx = t.idx /\ u.cur = t.cur /\ u.amount = t.amount
    /\ u.fee = t.fee /\ u.from = t.from /\ u.to = t.to /\ u.ok = t.ok

\* What ChainsAssumption says of one transfer.
IsTransfer(t) ==
    /\ t.hash # None /\ t.idx \in Nat /\ t.amount \in Nat /\ t.fee \in Nat /\ t.ok \in BOOLEAN
    /\ t.inputs \in Seq(ToSet(t.inputs)) /\ (t.inputs # <<>> => t.from = None)
    /\ \A o \in ToSet(t.inputs) : o = [hash |-> o.hash, idx |-> o.idx]

LEMMA TransferFacts ==
    ASSUME chain \in Chains, NEW h \in DOMAIN chain.blocks
    PROVE  /\ chain.blocks[h] \in Seq(TransfersOf(chain.blocks[h]))
           /\ \A i \in DOMAIN chain.blocks[h] :
                 /\ IsTransfer(chain.blocks[h][i])
                 /\ chain.blocks[h][i] = [f \in TransferFields |-> chain.blocks[h][i][f]]
                 /\ chain.blocks[h][i] \in TransfersOf(chain.blocks[h])
                 /\ chain.blocks[h][i] \in Transfers
<1> DEFINE b == chain.blocks[h]
<1>1. WellFormed(b)
  BY ChainsAssumption
<1>2. \A t \in TransfersOf(b) : t \in Transfers
  BY DEF Transfers
<1> HIDE DEF b
<1>3. b \in Seq(TransfersOf(b))
  BY <1>1 DEF WellFormed, TransfersOf
<1>4. ASSUME NEW i \in DOMAIN b
      PROVE IsTransfer(b[i]) /\ b[i] = [f \in TransferFields |-> b[i][f]]
  BY <1>1, <1>4 DEF WellFormed, IsTransfer
<1>5. \A i \in DOMAIN b : b[i] \in TransfersOf(b)
  BY <1>3
<1> QED BY <1>2, <1>3, <1>4, <1>5 DEF b

\* A parsed transfer and the one of the chain.
IsParsed(u, t, hidden) ==
    /\ Alike(u, t) /\ IsTransfer(u)
    /\ u.inputs = t.inputs \/ (u.inputs = <<>> /\ t.inputs # <<>> /\ t.hash \in hidden)

LEMMA BlockFacts ==
    ASSUME BaseInv, NEW i \in DOMAIN block
    PROVE  /\ pc # "idle" /\ next \in DOMAIN chain.blocks /\ i \in DOMAIN chain.blocks[next]
           /\ IsParsed(block[i], chain.blocks[next][i], blind)
           /\ chain.blocks[next][i] \in Transfers
           /\ chain.blocks[next][i] \in TransfersOf(chain.blocks[next])
<1>1. pc # "idle" /\ IsParse(chain, blind, next, block) /\ chain \in Chains
  BY DEF BaseInv, PositionInv
<1>2. PICK t : t = chain.blocks[next][i]
  OBVIOUS
<1>3. /\ next \in DOMAIN chain.blocks /\ i \in DOMAIN chain.blocks[next]
      /\ \/ block[i] = t
         \/ block[i] = [t EXCEPT !.inputs = <<>>] /\ t.inputs # <<>> /\ t.hash \in blind
  BY <1>1, <1>2 DEF IsParse
<1>4. /\ IsTransfer(t) /\ t = [f \in TransferFields |-> t[f]]
      /\ t \in Transfers /\ t \in TransfersOf(chain.blocks[next])
  <2>1. \A j \in DOMAIN chain.blocks[next] :
          /\ IsTransfer(chain.blocks[next][j])
          /\ chain.blocks[next][j] = [f \in TransferFields |-> chain.blocks[next][j][f]]
          /\ chain.blocks[next][j] \in TransfersOf(chain.blocks[next])
          /\ chain.blocks[next][j] \in Transfers
    BY <1>1, <1>3, TransferFacts
  <2> QED BY <1>2, <1>3, <2>1
<1>5. CASE block[i] = t
  BY <1>1, <1>2, <1>3, <1>4, <1>5 DEF IsParsed, Alike
<1>6. CASE block[i] = [t EXCEPT !.inputs = <<>>] /\ t.inputs # <<>> /\ t.hash \in blind
  <2>1. block[i] = [f \in TransferFields |-> IF f = "inputs" THEN <<>> ELSE t[f]]
    BY <1>4, <1>6
  <2>2. Alike(block[i], t) /\ block[i].inputs = <<>>
    BY <2>1 DEF TransferFields, Alike
  <2>3. IsTransfer(block[i])
    BY <1>4, <2>2 DEF IsTransfer, Alike, ToSet
  <2> QED BY <1>1, <1>2, <1>3, <1>4, <1>6, <2>2, <2>3 DEF IsParsed
<1> QED BY <1>3, <1>5, <1>6

\* Where the transfers of the block under way are handled.
PlaceTypes ==
    /\ Len(parsed) <= MaxAhead
    /\ pc \in {"idle", "build", "add", "join", "spend", "emit"}
    /\ adding \cup leaving \cup settling \subseteq DOMAIN block
    /\ pc # "add" => adding = {}
    /\ pc \notin {"join", "spend"} => leaving = {}
    /\ \A i \in adding : block[i].to # None /\ block[i].cur \in Supported /\ block[i].amount > 0
    /\ \A i \in leaving : block[i].inputs # <<>> \/ block[i].from # None

LEMMA PlaceTypesStep ==
    ASSUME BaseInv, PlaceTypes, [Next]_vars
    PROVE  PlaceTypes'
<1> USE DEF external, locals, bounds
<1>1. parsed \in Seq(Fetched) /\ MaxAhead \in Nat
  BY BoundsAssumption DEF BaseInv, RetryInv, Work
<1> HIDE DEF Fetched
<1>2. CASE FetchBlock
  <2>1. Len(parsed) < MaxAhead /\ UNCHANGED <<pc, block, adding, leaving, settling>>
    BY <1>2 DEF FetchBlock
  <2>2. PICK b : parsed' = Append(parsed, b)
    BY <1>2 DEF FetchBlock
  <2>3. Len(parsed') = Len(parsed) + 1 /\ Len(parsed) \in Nat
    BY <1>1, <2>2
  <2> QED BY <1>1, <2>1, <2>3 DEF PlaceTypes
<1>3. CASE PopBlock
  <2>1. /\ pc = "idle" /\ pc' = "build" /\ parsed # <<>> /\ parsed' = Tail(parsed)
        /\ UNCHANGED <<adding, leaving, settling>>
    BY <1>3 DEF PopBlock
  <2>2. Len(parsed') <= Len(parsed) /\ Len(parsed) \in Nat /\ Len(parsed') \in Nat
    BY <1>1, <2>1
  <2>3. settling = {}
    BY <2>1 DEF BaseInv, RetryInv, Work
  <2>4. Len(parsed') <= MaxAhead
    BY <1>1, <2>2 DEF PlaceTypes
  <2> QED BY <2>1, <2>3, <2>4 DEF PlaceTypes
<1>4. CASE BuildFundings
  BY <1>4 DEF BuildFundings, IsDeposit, PlaceTypes
<1>5. CASE FilterWithdrawals
  BY <1>5 DEF FilterWithdrawals, IsWithdrawal, PlaceTypes
<1>6. CASE JoinWithdrawals
  BY <1>6 DEF JoinWithdrawals, PlaceTypes
<1>7. CASE SyncHeight \/ UpdateStatus \/ ProcessWithdrawal
  BY <1>7 DEF SyncHeight, UpdateStatus, ProcessWithdrawal, PlaceTypes
<1>8. ASSUME Forget, parsed' \in {parsed, <<>>} PROVE PlaceTypes'
  <2>1. Len(parsed') <= MaxAhead
    BY <1>1, <1>8 DEF PlaceTypes
  <2> QED BY <1>8, <2>1 DEF Forget, PlaceTypes
<1>9. CASE AddFunding \/ AddChange \/ DatabaseError \/ Crash \/ EmitBlock
  <2>1. parsed' \in {parsed, <<>>}
    BY <1>9 DEF AddFunding, AddChange, DatabaseError, Crash, EmitBlock
  <2>2. \/ Forget
        \/ UNCHANGED <<pc, block, leaving, settling>> /\ adding' \subseteq adding
    BY <1>9 DEF AddFunding, AddChange, DatabaseError, Crash, EmitBlock, Swallow, Catch, LeaveFee
  <2>3. pc # "add" => adding = {}
    BY DEF PlaceTypes
  <2>4. CASE UNCHANGED <<pc, block, leaving, settling>> /\ adding' \subseteq adding
    <3>1. Len(parsed') <= MaxAhead
      BY <1>1, <2>1 DEF PlaceTypes
    <3> QED BY <2>4, <3>1 DEF PlaceTypes
  <2> QED BY <1>8, <2>1, <2>2, <2>4
<1>10. CASE UNCHANGED <<parsed, pc, block, adding, leaving, settling>>
  BY <1>10 DEF PlaceTypes
<1> QED
  BY <1>2, <1>3, <1>4, <1>5, <1>6, <1>7, <1>9, <1>10
  DEF Next, Environment, ProcessBlock, Broadcast, RecordPayout, RecordDistribution, SpendOutput,
      MarkRow, Poll, vars

\* What the transfers of the chain let processWithdrawal spend.
Currencies == {t.cur : t \in Transfers} \cup {FeeCurrency}
OutputsOf(t) == {Output(t, o) : o \in ToSet(t.inputs)}
FeeOf(t, n) ==
    [kind |-> "fee", hash |-> t.hash, from |-> t.from, cur |-> FeeCurrency, amount |-> n]
VirtualsOf(t) ==
    IF t.inputs = <<>> /\ t.from # None
    THEN {Virtual(t, cur, n) : cur \in Currencies, n \in Nat} \cup {FeeOf(t, n) : n \in Nat}
    ELSE {}
Spendings == UNION {OutputsOf(t) \cup VirtualsOf(t) : t \in Transfers}

\* A transaction of the chain that may spend the row.
SpentBy(r) ==
    \E t \in Transfers :
        /\ t.hash = r.spent
        /\ \/ [hash |-> r.hash, idx |-> r.idx] \in ToSet(t.inputs)
           \/ t.inputs = <<>> /\ t.from = r.to

\* The rows of the fundings, and how they are spent.
RowTypes ==
    /\ fundings \subseteq Rows /\ IsFiniteSet(fundings)
    /\ \A r \in fundings : r.spent # None => SpentBy(r)
    /\ spends \in Seq(Spendings) /\ (spends # <<>> => pc = "spend")
    /\ marking \subseteq fundings
    /\ marking # {} =>
          /\ spends # <<>> /\ Head(spends).kind # "output"
          /\ \A r \in marking : /\ r.to = Head(spends).from /\ r.cur = Head(spends).cur
                                /\ r.spent = None

LEMMA SpendsTyped ==
    ASSUME BaseInv, PlaceTypes, NEW i \in leaving
    PROVE  SpendsOf(block[i]) \in Seq(Spendings)
<1>1. PICK u, t : u = block[i] /\ t = chain.blocks[next][i]
  OBVIOUS
<1>2. i \in DOMAIN block /\ (u.inputs # <<>> \/ u.from # None)
  BY <1>1 DEF PlaceTypes
<1>3. IsParsed(u, t, blind) /\ t \in Transfers /\ IsTransfer(t)
  <2>1. /\ IsParsed(u, t, blind) /\ t \in Transfers /\ next \in DOMAIN chain.blocks
        /\ i \in DOMAIN chain.blocks[next]
    BY <1>1, <1>2, BlockFacts
  <2>2. chain \in Chains
    BY DEF BaseInv, PositionInv
  <2>3. \A j \in DOMAIN chain.blocks[next] : IsTransfer(chain.blocks[next][j])
    BY <2>1, <2>2, TransferFacts
  <2> QED BY <1>1, <2>1, <2>3
<1>4. Alike(u, t) /\ IsTransfer(u)
  BY <1>3 DEF IsParsed
<1>5. CASE u.inputs # <<>>
  <2>1. u.inputs = t.inputs /\ u.inputs \in Seq(ToSet(u.inputs))
    BY <1>3, <1>5 DEF IsParsed, IsTransfer
  <2>2. \A k \in DOMAIN u.inputs : Output(u, u.inputs[k]) \in Spendings
    <3> SUFFICES ASSUME NEW k \in DOMAIN u.inputs PROVE Output(u, u.inputs[k]) \in Spendings
      OBVIOUS
    <3>1. u.inputs[k] \in ToSet(t.inputs)
      BY <2>1 DEF ToSet
    <3>2. Output(u, u.inputs[k]) = Output(t, u.inputs[k])
      BY <1>4 DEF Output, Alike
    <3>3. Output(t, u.inputs[k]) \in OutputsOf(t)
      BY <3>1 DEF OutputsOf
    <3> QED BY <1>3, <3>2, <3>3 DEF Spendings
  <2>3. SpendsOf(u) = [k \in DOMAIN u.inputs |-> Output(u, u.inputs[k])]
    BY <1>5 DEF SpendsOf
  <2>4. DOMAIN u.inputs = 1 .. Len(u.inputs) /\ Len(u.inputs) \in Nat
    BY <2>1
  <2> HIDE DEF Spendings
  <2>5. SpendsOf(u) \in Seq(Spendings)
    BY <2>2, <2>3, <2>4
  <2> QED BY <1>1, <2>5
<1>6. CASE u.inputs = <<>>
  <2>1. t.inputs = <<>> /\ t.from # None
    BY <1>2, <1>3, <1>4, <1>6 DEF IsParsed, IsTransfer, Alike
  <2>2. u.cur \in Currencies /\ FeeCurrency \in Currencies
    BY <1>3, <1>4 DEF Currencies, Alike
  <2>3. u.amount \in Nat /\ u.fee \in Nat /\ u.amount + u.fee \in Nat
    BY <1>4 DEF IsTransfer
  <2>4. ASSUME NEW cur \in Currencies, NEW n \in Nat PROVE Virtual(u, cur, n) \in Spendings
    <3>1. Virtual(u, cur, n) = Virtual(t, cur, n)
      BY <1>4 DEF Virtual, Alike
    <3>2. Virtual(t, cur, n) \in VirtualsOf(t)
      BY <2>1 DEF VirtualsOf
    <3> QED BY <1>3, <3>1, <3>2 DEF Spendings
  <2>5. /\ Virtual(u, u.cur, u.amount) \in Spendings
        /\ u.cur = FeeCurrency => Virtual(u, u.cur, u.amount + u.fee) \in Spendings
    BY <2>2, <2>3, <2>4
  <2>8. TokenFee(u) \in Spendings
    <3>1. TokenFee(u) = FeeOf(t, u.fee)
      BY <1>4 DEF TokenFee, FeeOf, Alike
    <3>2. FeeOf(t, u.fee) \in VirtualsOf(t)
      BY <2>1, <2>3 DEF VirtualsOf
    <3> QED BY <1>3, <3>1, <3>2 DEF Spendings
  <2> HIDE DEF Spendings, Virtual, TokenFee
  <2>6. CASE u.cur = FeeCurrency
    <3>1. SpendsOf(u) \in {<<Virtual(u, u.cur, u.amount + u.fee)>>, <<>>}
      BY <1>6, <2>6 DEF SpendsOf
    <3>2. PICK v : v = Virtual(u, u.cur, u.amount + u.fee)
      OBVIOUS
    <3>3. <<v>> \in Seq(Spendings) /\ <<>> \in Seq(Spendings)
      BY <2>5, <2>6, <3>2
    <3> QED BY <1>1, <3>1, <3>2, <3>3
  <2>7. CASE u.cur # FeeCurrency
    <3>1. SpendsOf(u) = <<Virtual(u, u.cur, u.amount)>>
                          \o IF HasFee(u) /\ u.fee > 0 THEN <<TokenFee(u)>> ELSE <<>>
      BY <1>6, <2>7 DEF SpendsOf
    <3>2. <<Virtual(u, u.cur, u.amount)>> \in Seq(Spendings)
          /\ <<TokenFee(u)>> \in Seq(Spendings)
      BY <2>5, <2>8
    <3> QED BY <1>1, <3>1, <3>2
  <2> QED BY <2>6, <2>7
<1> QED BY <1>5, <1>6

\* What a spending is made of.
LEMMA SpendingFacts ==
    ASSUME chain \in Chains, NEW s \in Spendings
    PROVE  /\ s.hash \in Hashes /\ s.kind \in {"virtual", "fee", "output"}
           /\ s.kind = "output" =>
                \E t \in Transfers : \E o \in ToSet(t.inputs) :
                    s = Output(t, o) /\ o = [hash |-> o.hash, idx |-> o.idx]
           /\ s.kind # "output" =>
                /\ s.amount \in Nat /\ s.cur \in Currencies
                /\ \E t \in Transfers : s.hash = t.hash /\ t.inputs = <<>> /\ t.from = s.from
<1>1. PICK t \in Transfers : s \in OutputsOf(t) \cup VirtualsOf(t)
  BY DEF Spendings
<1>2. t.hash \in Hashes
  BY <1>1 DEF Hashes
<1>3. CASE s \in OutputsOf(t)
  <2>1. PICK o \in ToSet(t.inputs) : s = Output(t, o)
    BY <1>3 DEF OutputsOf
  <2>2. s.kind = "output" /\ s.hash = t.hash
    BY <2>1 DEF Output
  <2>3. IsTransfer(t)
    <3>1. PICK h \in DOMAIN chain.blocks : t \in TransfersOf(chain.blocks[h])
      BY <1>1 DEF Transfers
    <3>2. /\ chain.blocks[h] \in Seq(TransfersOf(chain.blocks[h]))
          /\ \A i \in DOMAIN chain.blocks[h] : IsTransfer(chain.blocks[h][i])
      BY TransferFacts
    <3>3. \E i \in DOMAIN chain.blocks[h] : t = chain.blocks[h][i]
      BY <3>1 DEF TransfersOf, ToSet
    <3> QED BY <3>2, <3>3
  <2>4. o = [hash |-> o.hash, idx |-> o.idx]
    BY <2>3 DEF IsTransfer
  <2> QED BY <1>2, <2>1, <2>2, <2>4
<1>4. CASE s \in VirtualsOf(t)
  <2>1. t.inputs = <<>> /\ t.from # None
    BY <1>4 DEF VirtualsOf
  <2>2. s \in {Virtual(t, cur, n) : cur \in Currencies, n \in Nat}
        \/ s \in {FeeOf(t, n) : n \in Nat}
    BY <1>4, <2>1 DEF VirtualsOf
  <2>3. PICK cur \in Currencies, n \in Nat :
          s = Virtual(t, cur, n) \/ (s = FeeOf(t, n) /\ cur = FeeCurrency)
    BY <2>2 DEF Currencies
  <2>4. s.kind \in {"virtual", "fee"} /\ s.hash = t.hash /\ s.from = t.from /\ s.cur = cur
        /\ s.amount = n
    BY <2>3 DEF Virtual, FeeOf
  <2> QED BY <1>2, <2>1, <2>4
<1> QED BY <1>1, <1>3, <1>4

\* Marking rows as spent keeps their types and their number finite.
LEMMA MarkingTypes ==
    ASSUME NEW rows, rows \subseteq Rows, IsFiniteSet(rows), NEW which, which \subseteq rows,
           NEW hash \in Hashes
    PROVE  /\ MarkSpent(rows, which, hash) \subseteq Rows /\ IsFiniteSet(MarkSpent(rows, which, hash))
           /\ \A r \in MarkSpent(rows, which, hash) :
                 \/ r \in rows \ which
                 \/ \E q \in which : /\ r.hash = q.hash /\ r.idx = q.idx /\ r.to = q.to
                                     /\ r.cur = q.cur /\ r.amount = q.amount
                                     /\ r.type = q.type /\ r.spent = hash
<1>1. ASSUME NEW q \in which
      PROVE  LET r == [q EXCEPT !.spent = hash] IN
             /\ r \in Rows /\ r.hash = q.hash /\ r.idx = q.idx /\ r.to = q.to
             /\ r.cur = q.cur /\ r.amount = q.amount /\ r.type = q.type /\ r.spent = hash
  <2>1. q \in Rows
    OBVIOUS
  <2> HIDE DEF Hashes
  <2> QED BY <2>1 DEF Rows
<1>2. IsFiniteSet({[q EXCEPT !.spent = hash] : q \in which})
  <2>1. PICK g : g = [q \in which |-> [q EXCEPT !.spent = hash]]
    OBVIOUS
  <2>2. DOMAIN g = which /\ g = [q \in DOMAIN g |-> g[q]] /\ IsFiniteSet(DOMAIN g)
    BY <2>1, FS_Subset
  <2>3. IsFiniteSet({g[q] : q \in DOMAIN g})
    BY <2>2, ImageFinite
  <2>4. {g[q] : q \in DOMAIN g} = {[q EXCEPT !.spent = hash] : q \in which}
    BY <2>1
  <2> QED BY <2>3, <2>4
<1>3. IsFiniteSet(rows \ which)
  BY FS_Subset
<1>4. IsFiniteSet(MarkSpent(rows, which, hash))
  BY <1>2, <1>3, FS_Union DEF MarkSpent
<1> HIDE DEF Rows
<1>5. SUFFICES ASSUME NEW r \in MarkSpent(rows, which, hash)
              PROVE  /\ r \in Rows
                     /\ \/ r \in rows \ which
                        \/ \E q \in which : /\ r.hash = q.hash /\ r.idx = q.idx /\ r.to = q.to
                                            /\ r.cur = q.cur /\ r.amount = q.amount
                                            /\ r.type = q.type /\ r.spent = hash
  BY <1>4
<1>6. CASE r \in rows \ which
  BY <1>6
<1>7. CASE r \notin rows \ which
  <2>1. PICK q \in which : r = [q EXCEPT !.spent = hash]
    BY <1>7 DEF MarkSpent
  <2> QED BY <1>1, <2>1
<1> QED BY <1>6, <1>7

LEMMA TotalIsNat ==
    ASSUME NEW rows, rows \subseteq Rows, IsFiniteSet(rows)
    PROVE  IsAmounts([r \in rows |-> r.amount]) /\ Total(rows) \in Nat
<1>1. IsAmounts([r \in rows |-> r.amount])
  BY DEF IsAmounts, Rows
<1> QED BY <1>1, SumIsNat DEF Total

\* processBlock is left.
LEMMA RowsForgotten ==
    ASSUME RowTypes, Forget, UNCHANGED <<chain, fundings>>
    PROVE  RowTypes'
<1>1. Rows' = Rows /\ Spendings' = Spendings
  BY DEF Rows, Hashes, Transfers, Withdrawals, Spendings, OutputsOf, VirtualsOf, Currencies
<1>2. \A r : SpentBy(r)' = SpentBy(r)
  BY DEF SpentBy, Transfers
<1> HIDE DEF Rows, Spendings
<1>3. <<>> \in Seq(Spendings)
  OBVIOUS
<1> QED BY <1>1, <1>2, <1>3 DEF RowTypes, Forget

\* The spending under way is given up.
LEMMA RowsPassed ==
    ASSUME RowTypes, UNCHANGED <<chain, fundings, pc>>, marking' = {}, spends # <<>>,
           spends' = Tail(spends)
    PROVE  RowTypes'
<1>1. Rows' = Rows /\ Spendings' = Spendings
  BY DEF Rows, Hashes, Transfers, Withdrawals, Spendings, OutputsOf, VirtualsOf, Currencies
<1>2. \A r : SpentBy(r)' = SpentBy(r)
  BY DEF SpentBy, Transfers
<1> HIDE DEF Rows, Spendings
<1>3. spends' \in Seq(Spendings)
  BY DEF RowTypes
<1> QED BY <1>1, <1>2, <1>3 DEF RowTypes

LEMMA RowsCaught ==
    ASSUME RowTypes, Catch, UNCHANGED <<chain, fundings>>
    PROVE  RowTypes'
<1>1. CASE PayingFee
  BY <1>1, RowsPassed DEF Catch, LeaveFee, PayingFee
<1>2. CASE ~PayingFee
  BY <1>2, RowsForgotten DEF Catch, Swallow
<1> QED BY <1>1, <1>2

LEMMA RowTypesStep ==
    ASSUME BaseInv, PlaceTypes, RowTypes, [Next]_vars
    PROVE  RowTypes'
<1> USE DEF external, locals, bounds
<1>1. Rows' = Rows /\ Spendings' = Spendings /\ chain' = chain /\ chain \in Chains
      /\ \A r : SpentBy(r)' = SpentBy(r)
  <2>1. chain' = chain /\ chain \in Chains
    BY ChainKept DEF BaseInv, PositionInv
  <2>2. Transfers' = Transfers /\ Hashes' = Hashes
    BY <2>1 DEF Hashes, Transfers, Withdrawals
  <2>3. Rows' = Rows /\ Currencies' = Currencies
    BY <2>1, <2>2 DEF Rows, Currencies
  <2>4. Spendings' = Spendings
    BY <2>2, <2>3 DEF Spendings, OutputsOf, VirtualsOf
  <2>5. \A r : SpentBy(r)' = SpentBy(r)
    BY <2>2 DEF SpentBy
  <2> QED BY <2>1, <2>3, <2>4, <2>5
<1> HIDE DEF Rows, Spendings, Hashes, Transfers, Currencies
<1>2. CASE AddFunding
  <2>1. PICK i \in adding :
          IF Clash(Deposit(block[i]), fundings)
          THEN Swallow /\ UNCHANGED fundings
          ELSE /\ fundings' = fundings \cup {Deposit(block[i])}
               /\ adding' = adding \ {i}
               /\ UNCHANGED <<next, pc, block, leaving, payoutOf, settling, spends, marking,
                              event, swallowed>>
    BY <1>2 DEF AddFunding
  <2>2. CASE Clash(Deposit(block[i]), fundings)
    BY <1>1, <2>1, <2>2, RowsForgotten DEF Swallow
  <2>3. CASE ~Clash(Deposit(block[i]), fundings)
    <3>1. PICK r : r = Deposit(block[i])
      OBVIOUS
    <3>2. fundings' = fundings \cup {r} /\ UNCHANGED <<pc, spends, marking>>
      BY <2>1, <2>3, <3>1
    <3>3. r \in Rows /\ r.spent = None
      <4>1. i \in DOMAIN block /\ block[i].amount > 0
        BY DEF PlaceTypes
      <4>2. PICK t \in Transfers : Alike(block[i], t) /\ IsTransfer(block[i])
        BY <4>1, BlockFacts DEF IsParsed
      <4>3. t.hash \in Hashes
        BY <4>2 DEF Hashes
      <4>4. r = [hash |-> t.hash, idx |-> t.idx, type |-> "funding", to |-> t.to,
                 amount |-> t.amount, cur |-> t.cur, spent |-> None]
        BY <3>1, <4>2 DEF Deposit, Alike
      <4>5. t.idx \in Nat /\ t.amount \in Nat \ {0}
        BY <4>1, <4>2 DEF Alike, IsTransfer
      <4> QED BY <4>2, <4>3, <4>4, <4>5 DEF Rows
    <3>4. IsFiniteSet(fundings')
      BY <3>2, FS_AddElement DEF RowTypes
    <3> QED BY <1>1, <3>2, <3>3, <3>4 DEF RowTypes
  <2> QED BY <2>2, <2>3
<1>3. CASE ProcessWithdrawal
  <2>1. /\ pc = "spend" /\ marking = {} /\ UNCHANGED <<fundings, marking, pc>>
        /\ \E i \in leaving : spends' = SpendsOf(block[i])
    BY <1>3 DEF ProcessWithdrawal
  <2>2. spends' \in Seq(Spendings)
    BY <2>1, SpendsTyped
  <2> QED BY <1>1, <2>1, <2>2 DEF RowTypes
<1>4. CASE SpendOutput
  <2>1. PICK s : s = Head(spends)
    OBVIOUS
  <2>2. /\ pc = "spend" /\ marking = {} /\ spends # <<>> /\ s.kind = "output"
        /\ fundings' = MarkSpent(fundings, OutputRows(s), s.hash) /\ spends' = Tail(spends)
        /\ UNCHANGED <<pc, marking>>
    BY <1>4, <2>1 DEF SpendOutput
  <2>3. s \in Spendings /\ spends' \in Seq(Spendings)
    BY <2>1, <2>2 DEF RowTypes
  <2>4. s.hash \in Hashes /\ \E t \in Transfers : \E o \in ToSet(t.inputs) :
          s = Output(t, o) /\ o = [hash |-> o.hash, idx |-> o.idx]
    BY <1>1, <2>2, <2>3, SpendingFacts
  <2>5. PICK t \in Transfers : \E o \in ToSet(t.inputs) :
          s = Output(t, o) /\ o = [hash |-> o.hash, idx |-> o.idx]
    BY <2>4
  <2>6. PICK o \in ToSet(t.inputs) :
          s.hash = t.hash /\ s.output = o /\ o = [hash |-> o.hash, idx |-> o.idx]
    BY <2>5 DEF Output
  <2>7. OutputRows(s) \subseteq fundings
        /\ \A q \in OutputRows(s) : [hash |-> q.hash, idx |-> q.idx] = o
    BY <2>6 DEF OutputRows
  <2>8. /\ fundings' \subseteq Rows /\ IsFiniteSet(fundings')
        /\ \A r \in fundings' :
              \/ r \in fundings
              \/ \E q \in OutputRows(s) : r.hash = q.hash /\ r.idx = q.idx /\ r.spent = s.hash
    <3>1. PICK which, hash : which = OutputRows(s) /\ hash = s.hash
      OBVIOUS
    <3>2. which \subseteq fundings /\ hash \in Hashes
      BY <2>4, <2>7, <3>1
    <3>3. fundings \subseteq Rows /\ IsFiniteSet(fundings)
      BY DEF RowTypes
    <3>4. fundings' = MarkSpent(fundings, which, hash)
      BY <2>2, <3>1
    <3>5. /\ fundings' \subseteq Rows /\ IsFiniteSet(fundings')
          /\ \A r \in fundings' :
                r \in fundings \/ \E q \in which : r.hash = q.hash /\ r.idx = q.idx /\ r.spent = hash
      BY <3>2, <3>3, <3>4, MarkingTypes
    <3> QED BY <3>1, <3>5
  <2>9. \A r \in fundings' : r.spent # None => SpentBy(r)
    BY <2>6, <2>7, <2>8 DEF RowTypes, SpentBy
  <2> QED BY <1>1, <2>2, <2>3, <2>8, <2>9 DEF RowTypes
<1>5. CASE AddChange
  <2>1. PICK s : s = Head(spends)
    OBVIOUS
  <2>2. PICK rows : rows = Unspent(fundings, s.from, s.cur)
    OBVIOUS
  <2>3. PICK change : change = Change(s, Total(rows) - s.amount)
    OBVIOUS
  <2>4. /\ pc = "spend" /\ marking = {} /\ spends # <<>> /\ s.kind # "output"
        /\ IF HasChange(change.amount) /\ Clash(change, fundings)
           THEN Catch /\ UNCHANGED fundings
           ELSE /\ fundings' = IF HasChange(change.amount) THEN fundings \cup {change} ELSE fundings
                /\ marking' = rows
                /\ spends' = IF rows = {} THEN Tail(spends) ELSE spends
                /\ UNCHANGED <<next, pc, block, adding, leaving, payoutOf, settling, event,
                               swallowed, unpaid>>
    BY <1>5, <2>1, <2>2, <2>3 DEF AddChange
  <2>5. CASE HasChange(change.amount) /\ Clash(change, fundings)
    BY <1>1, <2>4, <2>5, RowsCaught
  <2>6. CASE ~(HasChange(change.amount) /\ Clash(change, fundings))
    <3>1. /\ fundings' = IF HasChange(change.amount) THEN fundings \cup {change} ELSE fundings
          /\ marking' = rows /\ spends' = (IF rows = {} THEN Tail(spends) ELSE spends) /\ pc' = pc
      BY <2>4, <2>6
    <3>2. s \in Spendings /\ spends' \in Seq(Spendings)
      BY <2>1, <2>4, <3>1 DEF RowTypes
    <3>3. s.hash \in Hashes /\ s.amount \in Nat /\ s.cur \in Currencies
          /\ \E t \in Transfers : s.hash = t.hash /\ t.inputs = <<>> /\ t.from = s.from
      BY <1>1, <2>4, <3>2, SpendingFacts
    <3>4. rows \subseteq fundings /\ \A r \in rows : r.to = s.from /\ r.cur = s.cur /\ r.spent = None
      BY <2>2 DEF Unspent
    <3>5. Total(rows) \in Nat
      <4>1. rows \subseteq Rows /\ IsFiniteSet(rows)
        BY <3>4, FS_Subset DEF RowTypes
      <4> QED BY <4>1, TotalIsNat
    <3>6. HasChange(change.amount) => change \in Rows
      <4> SUFFICES ASSUME HasChange(change.amount) PROVE change \in Rows
        OBVIOUS
      <4>1. change = [hash |-> s.hash, idx |-> 0, type |-> "virtual", to |-> s.from,
                      amount |-> Total(rows) - s.amount, cur |-> s.cur, spent |-> None]
        BY <2>3 DEF Change
      <4>2. Total(rows) - s.amount \in Nat \ {0}
        BY <3>3, <3>5, <4>1 DEF HasChange
      <4>3. s.from \in {t.from : t \in Transfers}
        BY <3>3
      <4>4. s.cur \in {t.cur : t \in Transfers} \cup {FeeCurrency}
        BY <3>3 DEF Currencies
      <4> QED BY <3>3, <4>1, <4>2, <4>3, <4>4 DEF Rows
    <3>7. change.spent = None
      BY <2>3 DEF Change
    <3>8. IsFiniteSet(fundings') /\ fundings' \subseteq Rows /\ fundings \subseteq fundings'
          /\ \A r \in fundings' : r \in fundings \/ r.spent = None
      BY <3>1, <3>6, <3>7, FS_AddElement DEF RowTypes
    <3>9. marking' # {} => spends' = spends
      BY <3>1
    <3> QED BY <1>1, <2>1, <2>4, <3>1, <3>2, <3>4, <3>8, <3>9 DEF RowTypes
  <2> QED BY <2>5, <2>6
<1>6. CASE MarkRow
  <2>1. PICK s : s = Head(spends)
    OBVIOUS
  <2>2. PICK r \in marking :
          /\ fundings' = MarkSpent(fundings, {r}, s.hash) /\ marking' = marking \ {r}
          /\ spends' = IF marking = {r} THEN Tail(spends) ELSE spends
    BY <1>6, <2>1 DEF MarkRow
  <2>3. pc' = pc /\ pc = "spend" /\ spends # <<>> /\ s.kind # "output"
        /\ r.to = s.from /\ r \in fundings
    BY <1>6, <2>1, <2>2 DEF MarkRow, RowTypes
  <2>4. s \in Spendings /\ spends' \in Seq(Spendings)
    BY <2>1, <2>2, <2>3 DEF RowTypes
  <2>5. s.hash \in Hashes /\ \E t \in Transfers : s.hash = t.hash /\ t.inputs = <<>> /\ t.from = s.from
    BY <1>1, <2>3, <2>4, SpendingFacts
  <2>6. /\ fundings' \subseteq Rows /\ IsFiniteSet(fundings')
        /\ \A q \in fundings' : \/ q \in fundings \ {r}
                                \/ q.to = r.to /\ q.spent = s.hash
    <3>1. PICK which, hash : which = {r} /\ hash = s.hash
      OBVIOUS
    <3>2. which \subseteq fundings /\ hash \in Hashes
      BY <2>3, <2>5, <3>1
    <3>3. fundings \subseteq Rows /\ IsFiniteSet(fundings)
      BY DEF RowTypes
    <3> QED BY <2>2, <3>1, <3>2, <3>3, MarkingTypes
  <2>7. \A q \in fundings' : q.spent # None => SpentBy(q)
    BY <2>3, <2>5, <2>6 DEF RowTypes, SpentBy
  <2>8. marking' \subseteq fundings'
    BY <2>2 DEF MarkSpent, RowTypes
  <2>9. marking' # {} => spends' = spends
    BY <2>2
  <2> QED BY <1>1, <2>2, <2>3, <2>4, <2>6, <2>7, <2>8, <2>9 DEF RowTypes
<1>7. CASE SyncHeight
  BY <1>1, <1>7 DEF SyncHeight, RowTypes
<1>8. CASE DatabaseError \/ Crash \/ EmitBlock
  BY <1>1, <1>8, RowsForgotten, RowsCaught DEF DatabaseError, Crash, EmitBlock
<1>9. CASE UNCHANGED <<fundings, spends, marking>> /\ (spends # <<>> => pc' = pc)
  BY <1>1, <1>9 DEF RowTypes
<1> QED
  BY <1>2, <1>3, <1>4, <1>5, <1>6, <1>7, <1>8, <1>9
  DEF Next, Environment, ProcessBlock, Broadcast, RecordPayout, RecordDistribution, FetchBlock,
      PopBlock, BuildFundings, FilterWithdrawals, JoinWithdrawals, UpdateStatus, Poll, vars, RowTypes

TypeInv == distributions \subseteq chain.gas /\ PlaceTypes /\ RowTypes

LEMMA TypesAlways == Spec => [](BaseInv /\ TypeInv)
<1>1. Init => TypeInv
  <2> SUFFICES ASSUME Init PROVE TypeInv
    OBVIOUS
  <2>1. chain \in Chains
    BY DEF Init
  <2>2. distributions \subseteq chain.gas
    BY DEF Init
  <2>3. PlaceTypes
    BY BoundsAssumption DEF Init, PlaceTypes
  <2>4. RowTypes
    BY FS_EmptySet DEF Init, RowTypes
  <2> QED BY <2>2, <2>3, <2>4 DEF TypeInv
<1>2. BaseInv /\ TypeInv /\ RecordedInv' /\ [Next]_vars => TypeInv'
  BY PlaceTypesStep, RowTypesStep DEF TypeInv, RecordedInv
<1> QED BY <1>1, <1>2, BaseAlways, RecordedAlways, PTL DEF Spec

\* The state keeps its types on every chain.
THEOREM ProcessingTypes == Spec => []TypeOK
<1>1. BaseInv /\ TypeInv => TypeOK
  <2> SUFFICES ASSUME BaseInv, TypeInv PROVE TypeOK
    OBVIOUS
  <2>1. Len(chain.blocks) \in Nat /\ synced \in Nat /\ next \in Nat /\ Len(parsed) \in Nat
        /\ DOMAIN chain.blocks = 1 .. Len(chain.blocks)
    BY BlocksOfChain DEF BaseInv, RetryInv, Work, PositionInv
  <2>2. synced \in 0 .. Len(chain.blocks) /\ next \in 1 .. Len(chain.blocks) + 1
        /\ swallowed \subseteq DOMAIN chain.blocks
    <3>1. next >= 1
      BY <2>1 DEF BaseInv, PositionInv, IsParse
    <3>2. next <= Len(chain.blocks) + 1
      BY <2>1 DEF BaseInv, PositionInv, NextToFetch
    <3> QED BY <2>1, <3>1, <3>2 DEF BaseInv, PositionInv
  <2>3. /\ sent \in [Withdrawals -> Nat] /\ recorded \in [Withdrawals -> SUBSET Nat]
        /\ doubt \subseteq Withdrawals
    <3>1. \A w \in Withdrawals : sent[w] \in Nat /\ recorded[w] \in SUBSET Nat
      BY DEF BaseInv, RetryInv, PayoutRow
    <3> QED BY <3>1 DEF BaseInv, RetryInv
  <2>4. payouts \in [Withdrawals -> [status : {"inqueue", "transfered", "success"},
                                     hash : Hashes \cup {None}, idx : Nat, retries : Nat]]
    <3> HIDE DEF Hashes
    <3>1. ASSUME NEW w \in Withdrawals
          PROVE payouts[w] \in [status : {"inqueue", "transfered", "success"},
                                hash : Hashes \cup {None}, idx : Nat, retries : Nat]
      <4>1. PayoutRow(w)
        BY DEF BaseInv, RetryInv
      <4>2. ASSUME NEW k \in recorded[w], IsAttempt(w, k, payouts[w])
            PROVE  payouts[w].hash \in Hashes
        <5>1. k \in 1 .. Len(chain.attempts[w])
          BY <4>1, AttemptFacts DEF BaseInv, PositionInv, PayoutRow
        <5> QED BY <4>2, <5>1, AttemptFacts DEF BaseInv, PositionInv, IsAttempt
      <4> QED BY <4>1, <4>2 DEF PayoutRow
    <3> QED BY <3>1 DEF BaseInv, RetryInv
  <2>5. fundings \subseteq Rows /\ marking \subseteq Rows
    BY DEF TypeInv, RowTypes
  <2> QED BY <2>2, <2>3, <2>4, <2>5 DEF TypeOK, TypeInv, PlaceTypes
<1> QED BY <1>1, TypesAlways, PTL

----------------------------------------------------------------------------
(* The ledger *)

\* Nothing has gone wrong so far: each block was processed once.
Quiet == swallowed = {} /\ unpaid = {} /\ crashes = 0

\* The hash is of a transaction up to a height.
Seen(hash, h) == \E k \in 1 .. h : \E t \in TransfersOf(chain.blocks[k]) : t.hash = hash

\* Fundings, spendings and settled withdrawals are of blocks that were processed.
RowHeight == IF pc \in {"idle", "build"} THEN next - 1 ELSE next
PayoutHeight == IF pc \in {"spend", "emit"} THEN next ELSE next - 1
SeenInv ==
    /\ \A r \in fundings : Seen(r.hash, RowHeight)
    /\ \A w \in Withdrawals : payouts[w].status = "success" => Seen(payouts[w].hash, PayoutHeight)
    /\ \A k \in DOMAIN spends : Seen(spends[k].hash, next)

\* What the rows hold that are not about to be marked.
Free(rows, marks, a, cur) == Total(Unspent(rows, a, cur) \ marks)

\* What the spendings are to take from an address, two at most.
Due(ss, k, a, cur) ==
    IF k \in DOMAIN ss /\ ss[k].from = a /\ ss[k].cur = cur THEN ss[k].amount ELSE 0
Owed(ss, a, cur) == Due(ss, 1, a, cur) + Due(ss, 2, a, cur)
ToSpend == IF marking = {} THEN spends ELSE Tail(spends)

\* The transfers of a block that are still to be subtracted.
ToSubtract == IF pc = "add" THEN DOMAIN block ELSE leaving

\* The books are within their bounds up to a height: what was not spent and what was sent
\* make up the deposits, and top-ups at most.  In a block they are but for what comes in,
\* what goes out and what is owed.
Within(c, h, a, cur, free) ==
    LET books == free + Debit(c, Upto(c, h), a, cur) IN
    AllOk(c, h, a) =>
        Deposited(c, Upto(c, h), a, cur) <= books /\ books <= Credit(c, Upto(c, h), a, cur)
WithinBut(c, h, a, cur, free, ins, outs, owed) ==
    LET books == free + Debit(c, Upto(c, h), a, cur) + Deposited(c, {h} \X ins, a, cur)
                 - Debit(c, {h} \X outs, a, cur) - owed IN
    AllOk(c, h, a) =>
        Deposited(c, Upto(c, h), a, cur) <= books /\ books <= Credit(c, Upto(c, h), a, cur)

Balance(a, cur) ==
    IF pc \in {"idle", "build"}
    THEN Within(chain, next - 1, a, cur, Free(fundings, marking, a, cur))
    ELSE WithinBut(chain, next, a, cur, Free(fundings, marking, a, cur), adding, ToSubtract,
                 Owed(ToSpend, a, cur))
BalanceInv == \A a \in Holders(chain), cur \in Supported : Balance(a, cur)

AddingInv ==
    /\ \A i \in adding : block[i].ok /\ block[i].hash \notin chain.gas
    /\ Len(spends) <= 2

LedgerInv ==
    /\ crashes \in Nat
    /\ Quiet => SeenInv /\ AddingInv /\ BalanceInv

\* The places of the blocks up to a height.
LEMMA PlacesUpto ==
    ASSUME chain \in Chains, NEW h \in 0 .. Len(chain.blocks)
    PROVE  /\ IsFiniteSet(Upto(chain, h))
           /\ \A p \in Upto(chain, h) :
                 /\ p[1] \in 1 .. h /\ p[2] \in DOMAIN chain.blocks[p[1]]
                 /\ p = <<p[1], p[2]>> /\ IsTransfer(At(chain, p))
<1>1. Len(chain.blocks) \in Nat /\ DOMAIN chain.blocks = 1 .. Len(chain.blocks)
  BY BlocksOfChain
<1>2. ASSUME NEW k \in 1 .. h
      PROVE  /\ IsFiniteSet({k} \X DOMAIN chain.blocks[k])
             /\ \A i \in DOMAIN chain.blocks[k] : IsTransfer(chain.blocks[k][i])
  <2>1. k \in DOMAIN chain.blocks
    BY <1>1
  <2>2. /\ chain.blocks[k] \in Seq(TransfersOf(chain.blocks[k]))
        /\ \A i \in DOMAIN chain.blocks[k] : IsTransfer(chain.blocks[k][i])
    BY <2>1, TransferFacts
  <2>3. DOMAIN chain.blocks[k] = 1 .. Len(chain.blocks[k]) /\ Len(chain.blocks[k]) \in Nat
    BY <2>2
  <2>4. IsFiniteSet(DOMAIN chain.blocks[k])
    BY <2>3, FS_Interval
  <2>5. IsFiniteSet({k})
    BY FS_Singleton
  <2> QED BY <2>2, <2>4, <2>5, FS_Product
<1>3. PICK g : g = [k \in 1 .. h |-> {k} \X DOMAIN chain.blocks[k]]
  OBVIOUS
<1>4. IsFiniteSet({g[k] : k \in DOMAIN g})
  <2>1. DOMAIN g = 1 .. h /\ g = [k \in DOMAIN g |-> g[k]]
    BY <1>3
  <2>2. IsFiniteSet(DOMAIN g)
    BY <1>1, <2>1, FS_Interval
  <2> QED BY <2>1, <2>2, ImageFinite
<1>5. {g[k] : k \in DOMAIN g} = {{k} \X DOMAIN chain.blocks[k] : k \in 1 .. h}
  BY <1>3
<1>6. IsFiniteSet(Upto(chain, h))
  BY <1>2, <1>4, <1>5, FS_UNION DEF Upto
<1>7. ASSUME NEW p \in Upto(chain, h)
      PROVE  /\ p[1] \in 1 .. h /\ p[2] \in DOMAIN chain.blocks[p[1]]
             /\ p = <<p[1], p[2]>> /\ IsTransfer(At(chain, p))
  <2>1. PICK k \in 1 .. h : p \in {k} \X DOMAIN chain.blocks[k]
    BY DEF Upto
  <2>2. p[1] = k /\ p[2] \in DOMAIN chain.blocks[k] /\ p = <<p[1], p[2]>>
    BY <2>1
  <2> QED BY <1>2, <2>2 DEF At
<1> QED BY <1>6, <1>7

LEMMA UptoNext ==
    ASSUME chain \in Chains, NEW h \in 1 .. Len(chain.blocks)
    PROVE  /\ Upto(chain, h) = Upto(chain, h - 1) \cup ({h} \X DOMAIN chain.blocks[h])
           /\ Upto(chain, h - 1) \cap ({h} \X DOMAIN chain.blocks[h]) = {}
           /\ Upto(chain, h) \subseteq Upto(chain, Len(chain.blocks))
<1>1. Len(chain.blocks) \in Nat
  BY BlocksOfChain
<1>2. 1 .. h = (1 .. h - 1) \cup {h} /\ 1 .. h \subseteq 1 .. Len(chain.blocks)
  BY <1>1
<1> QED BY <1>2 DEF Upto

Places == SUBSET Upto(chain, Len(chain.blocks))

LEMMA PlacesAmounts ==
    ASSUME chain \in Chains, NEW P \in Places, NEW a, NEW cur
    PROVE  /\ IsAmounts([p \in P |-> CreditOf(At(chain, p), a, cur)])
           /\ IsAmounts([p \in P |-> DepositOf(chain, At(chain, p), a, cur)])
           /\ IsAmounts([p \in P |-> DebitOf(At(chain, p), a, cur)])
           /\ Credit(chain, P, a, cur) \in Nat /\ Deposited(chain, P, a, cur) \in Nat
           /\ Debit(chain, P, a, cur) \in Nat
<1>1. Len(chain.blocks) \in 0 .. Len(chain.blocks)
  BY BlocksOfChain
<1>2. IsFiniteSet(P) /\ \A p \in P : IsTransfer(At(chain, p))
  <2>1. P \subseteq Upto(chain, Len(chain.blocks))
    BY DEF Places
  <2>2. /\ IsFiniteSet(Upto(chain, Len(chain.blocks)))
        /\ \A p \in Upto(chain, Len(chain.blocks)) : IsTransfer(At(chain, p))
    BY <1>1, PlacesUpto
  <2> QED BY <2>1, <2>2, FS_Subset
<1>3. IsAmounts([p \in P |-> CreditOf(At(chain, p), a, cur)])
  BY <1>2 DEF IsAmounts, CreditOf, IsTransfer
<1>4. IsAmounts([p \in P |-> DebitOf(At(chain, p), a, cur)])
  <2>1. \A p \in P : DebitOf(At(chain, p), a, cur) \in Nat
    BY <1>2 DEF DebitOf, IsTransfer
  <2> QED BY <1>2, <2>1 DEF IsAmounts
<1>5. IsAmounts([p \in P |-> DepositOf(chain, At(chain, p), a, cur)])
  <2>1. \A p \in P : DepositOf(chain, At(chain, p), a, cur) \in Nat
    BY <1>2 DEF DepositOf, CreditOf, IsTransfer
  <2> QED BY <1>2, <2>1 DEF IsAmounts
<1> QED BY <1>3, <1>4, <1>5, SumIsNat DEF Credit, Deposited, Debit

LEMMA CreditSplit ==
    ASSUME chain \in Chains, NEW P \in Places, NEW Q \in SUBSET P, NEW a, NEW cur
    PROVE  Credit(chain, P, a, cur) = Credit(chain, Q, a, cur) + Credit(chain, P \ Q, a, cur)
<1>1. PICK f : f = [p \in P |-> CreditOf(At(chain, p), a, cur)]
  OBVIOUS
<1>2. PICK g, h : g = [p \in Q |-> f[p]] /\ h = [p \in P \ Q |-> f[p]]
  OBVIOUS
<1>3. IsAmounts(f)
  BY <1>1, PlacesAmounts
<1>4. SumOf(f) = SumOf(g) + SumOf(h)
  <2>1. DOMAIN f = P
    BY <1>1
  <2> QED BY <1>2, <1>3, <2>1, SumSplit
<1>5. /\ g = [p \in Q |-> CreditOf(At(chain, p), a, cur)]
      /\ h = [p \in P \ Q |-> CreditOf(At(chain, p), a, cur)]
  BY <1>1, <1>2
<1> QED BY <1>1, <1>4, <1>5 DEF Credit

LEMMA DepositedSplit ==
    ASSUME chain \in Chains, NEW P \in Places, NEW Q \in SUBSET P, NEW a, NEW cur
    PROVE  Deposited(chain, P, a, cur) = Deposited(chain, Q, a, cur) + Deposited(chain, P \ Q, a, cur)
<1>1. PICK f : f = [p \in P |-> DepositOf(chain, At(chain, p), a, cur)]
  OBVIOUS
<1>2. PICK g, h : g = [p \in Q |-> f[p]] /\ h = [p \in P \ Q |-> f[p]]
  OBVIOUS
<1>3. IsAmounts(f)
  BY <1>1, PlacesAmounts
<1>4. SumOf(f) = SumOf(g) + SumOf(h)
  <2>1. DOMAIN f = P
    BY <1>1
  <2> QED BY <1>2, <1>3, <2>1, SumSplit
<1>5. /\ g = [p \in Q |-> DepositOf(chain, At(chain, p), a, cur)]
      /\ h = [p \in P \ Q |-> DepositOf(chain, At(chain, p), a, cur)]
  BY <1>1, <1>2
<1> QED BY <1>1, <1>4, <1>5 DEF Deposited

LEMMA DebitSplit ==
    ASSUME chain \in Chains, NEW P \in Places, NEW Q \in SUBSET P, NEW a, NEW cur
    PROVE  Debit(chain, P, a, cur) = Debit(chain, Q, a, cur) + Debit(chain, P \ Q, a, cur)
<1>1. PICK f : f = [p \in P |-> DebitOf(At(chain, p), a, cur)]
  OBVIOUS
<1>2. PICK g, h : g = [p \in Q |-> f[p]] /\ h = [p \in P \ Q |-> f[p]]
  OBVIOUS
<1>3. IsAmounts(f)
  BY <1>1, PlacesAmounts
<1>4. SumOf(f) = SumOf(g) + SumOf(h)
  <2>1. DOMAIN f = P
    BY <1>1
  <2> QED BY <1>2, <1>3, <2>1, SumSplit
<1>5. /\ g = [p \in Q |-> DebitOf(At(chain, p), a, cur)]
      /\ h = [p \in P \ Q |-> DebitOf(At(chain, p), a, cur)]
  BY <1>1, <1>2
<1> QED BY <1>1, <1>4, <1>5 DEF Debit

\* One place; places where nothing is moved.
LEMMA DepositedOne ==
    ASSUME chain \in Chains, NEW p, {p} \in Places, NEW a, NEW cur
    PROVE  Deposited(chain, {p}, a, cur) = DepositOf(chain, At(chain, p), a, cur)
<1>1. PICK f : f = [q \in {p} |-> DepositOf(chain, At(chain, q), a, cur)]
  OBVIOUS
<1>2. IsAmounts(f)
  BY <1>1, PlacesAmounts
<1>3. DOMAIN f = {p} /\ f[p] = DepositOf(chain, At(chain, p), a, cur)
  BY <1>1
<1>4. SumOf(f) = f[p]
  BY <1>2, <1>3, SumOfOne DEF IsAmounts
<1> QED BY <1>1, <1>3, <1>4 DEF Deposited

LEMMA DebitOne ==
    ASSUME chain \in Chains, NEW p, {p} \in Places, NEW a, NEW cur
    PROVE  Debit(chain, {p}, a, cur) = DebitOf(At(chain, p), a, cur)
<1>1. PICK f : f = [q \in {p} |-> DebitOf(At(chain, q), a, cur)]
  OBVIOUS
<1>2. IsAmounts(f)
  BY <1>1, PlacesAmounts
<1>3. DOMAIN f = {p} /\ f[p] = DebitOf(At(chain, p), a, cur)
  BY <1>1
<1>4. SumOf(f) = f[p]
  BY <1>2, <1>3, SumOfOne DEF IsAmounts
<1> QED BY <1>1, <1>3, <1>4 DEF Debit

LEMMA NothingMoved ==
    ASSUME NEW P, NEW a, NEW cur
    PROVE  /\ (\A p \in P : DepositOf(chain, At(chain, p), a, cur) = 0) => Deposited(chain, P, a, cur) = 0
           /\ (\A p \in P : DebitOf(At(chain, p), a, cur) = 0) => Debit(chain, P, a, cur) = 0
<1>1. PICK f, g : /\ f = [p \in P |-> DepositOf(chain, At(chain, p), a, cur)]
                  /\ g = [p \in P |-> DebitOf(At(chain, p), a, cur)]
  OBVIOUS
<1>2. ASSUME \A p \in P : DepositOf(chain, At(chain, p), a, cur) = 0
      PROVE  SumOf(f) = 0
  <2>1. \A p \in DOMAIN f : f[p] = 0
    BY <1>1, <1>2
  <2> QED BY <2>1, SumOfZeros
<1>3. ASSUME \A p \in P : DebitOf(At(chain, p), a, cur) = 0
      PROVE  SumOf(g) = 0
  <2>1. \A p \in DOMAIN g : g[p] = 0
    BY <1>1, <1>3
  <2> QED BY <2>1, SumOfZeros
<1> QED BY <1>1, <1>2, <1>3 DEF Deposited, Debit

\* What is deposited is part of what is received.
LEMMA DepositedIsPart ==
    ASSUME chain \in Chains, NEW P \in Places, NEW a, NEW cur
    PROVE  Deposited(chain, P, a, cur) <= Credit(chain, P, a, cur)
<1>1. PICK Q : Q = {p \in P : At(chain, p).hash \notin chain.gas}
  OBVIOUS
<1>2. Q \in SUBSET P /\ Q \in Places /\ P \ Q \in Places
  BY <1>1 DEF Places
<1>3. Deposited(chain, P \ Q, a, cur) = 0
  <2>1. \A p \in P \ Q : DepositOf(chain, At(chain, p), a, cur) = 0
    BY <1>1 DEF DepositOf
  <2> QED BY <2>1, NothingMoved
<1>4. Deposited(chain, Q, a, cur) = Credit(chain, Q, a, cur)
  <2>1. [p \in Q |-> DepositOf(chain, At(chain, p), a, cur)] = [p \in Q |-> CreditOf(At(chain, p), a, cur)]
    BY <1>1 DEF DepositOf
  <2> QED BY <2>1 DEF Deposited, Credit
<1>5. /\ Deposited(chain, P, a, cur) = Deposited(chain, Q, a, cur) + Deposited(chain, P \ Q, a, cur)
      /\ Credit(chain, P, a, cur) = Credit(chain, Q, a, cur) + Credit(chain, P \ Q, a, cur)
  BY <1>2, CreditSplit, DepositedSplit
<1>6. Credit(chain, Q, a, cur) \in Nat /\ Credit(chain, P \ Q, a, cur) \in Nat
  BY <1>2, PlacesAmounts
<1> QED BY <1>3, <1>4, <1>5, <1>6

\* A row more.
LEMMA TotalAdd ==
    ASSUME NEW rows, rows \subseteq Rows, IsFiniteSet(rows), NEW r \in Rows, r \notin rows
    PROVE  Total(rows \cup {r}) = Total(rows) + r.amount
<1>1. PICK all : all = rows \cup {r}
  OBVIOUS
<1>2. all \subseteq Rows /\ IsFiniteSet(all)
  BY <1>1, FS_AddElement
<1>3. PICK f, g : f = [q \in all |-> q.amount] /\ g = [q \in all \ {r} |-> f[q]]
  OBVIOUS
<1>4. IsAmounts(f)
  BY <1>2, <1>3, TotalIsNat
<1>5. SumOf(f) = SumOf(g) + f[r]
  <2>1. DOMAIN f = all /\ r \in DOMAIN f
    BY <1>1, <1>3
  <2> QED BY <1>3, <1>4, <2>1, SumWithout
<1>6. f[r] = r.amount /\ g = [q \in rows |-> q.amount]
  BY <1>1, <1>3
<1> QED BY <1>1, <1>3, <1>5, <1>6 DEF Total

LEMMA FreeAdd ==
    ASSUME NEW rows, rows \subseteq Rows, IsFiniteSet(rows), NEW r \in Rows, r \notin rows,
           r.spent = None, NEW marks, r \notin marks, NEW a, NEW cur
    PROVE  Free(rows \cup {r}, marks, a, cur) =
              Free(rows, marks, a, cur) + IF r.to = a /\ r.cur = cur THEN r.amount ELSE 0
<1>1. PICK old, new : /\ old = Unspent(rows, a, cur) \ marks
                      /\ new = Unspent(rows \cup {r}, a, cur) \ marks
  OBVIOUS
<1>2. old \subseteq rows /\ r \notin old
  BY <1>1 DEF Unspent
<1>3. IsFiniteSet(old) /\ old \subseteq Rows
  BY <1>2, FS_Subset
<1>4. CASE r.to = a /\ r.cur = cur
  <2>1. new = old \cup {r}
    BY <1>1, <1>4 DEF Unspent
  <2> QED BY <1>1, <1>2, <1>3, <1>4, <2>1, TotalAdd DEF Free
<1>5. CASE ~(r.to = a /\ r.cur = cur)
  <2>1. new = old
    BY <1>1, <1>5 DEF Unspent
  <2>2. Total(old) \in Nat
    BY <1>3, TotalIsNat
  <2> QED BY <1>1, <1>5, <2>1, <2>2 DEF Free
<1> QED BY <1>4, <1>5

\* Marking a row that was about to be marked.
LEMMA FreeMark ==
    ASSUME NEW rows, rows \subseteq Rows, NEW marks, marks \subseteq rows, NEW r \in marks,
           NEW hash, hash # None, NEW a, NEW cur
    PROVE  Free(MarkSpent(rows, {r}, hash), marks \ {r}, a, cur) = Free(rows, marks, a, cur)
<1>1. [r EXCEPT !.spent = hash].spent = hash
  BY DEF Rows
<1>2. Unspent(MarkSpent(rows, {r}, hash), a, cur) = Unspent(rows \ {r}, a, cur)
  BY <1>1 DEF Unspent, MarkSpent
<1>3. Unspent(rows \ {r}, a, cur) \ (marks \ {r}) = Unspent(rows, a, cur) \ marks
  BY DEF Unspent
<1> QED BY <1>2, <1>3 DEF Free

\* While nothing goes wrong the block under way is the first one behind the synced height.
LEMMA QuietPosition ==
    ASSUME BaseInv, Quiet
    PROVE  synced = IF pc = "emit" THEN next ELSE next - 1
<1>1. Len(chain.blocks) \in Nat /\ next <= Len(chain.blocks) + 1 /\ Len(parsed) \in Nat
  BY BlocksOfChain DEF BaseInv, RetryInv, Work, PositionInv, NextToFetch
<1>2. \A h \in 1 .. Len(chain.blocks) : ~(synced < h /\ h < next)
  BY DEF BaseInv, PositionInv, Quiet
<1>3. synced + 1 >= next
  <2> SUFFICES ASSUME synced + 1 < next PROVE FALSE
    BY DEF BaseInv, PositionInv
  <2>1. synced + 1 \in 1 .. Len(chain.blocks)
    BY <1>1 DEF BaseInv, PositionInv
  <2> QED BY <1>2, <2>1 DEF BaseInv, PositionInv
<1> QED BY <1>3 DEF BaseInv, PositionInv

\* A step that leaves everything quiet swallows nothing and is no crash.
LEMMA QuietStep ==
    ASSUME crashes \in Nat, [Next]_vars
    PROVE  /\ crashes' \in Nat
           /\ Quiet' => Quiet /\ ~Swallow /\ ~Catch /\ ~Crash /\ ~DatabaseError
<1> USE DEF external, locals, bounds
<1>1. swallowed \subseteq swallowed' /\ unpaid \subseteq unpaid'
  BY DEF Next, Environment, ProcessBlock, Broadcast, RecordPayout, RecordDistribution, FetchBlock,
    PopBlock, BuildFundings, AddFunding, FilterWithdrawals, JoinWithdrawals, ProcessWithdrawal,
    SpendOutput, AddChange, MarkRow, UpdateStatus, SyncHeight, EmitBlock, Poll, DatabaseError,
    Crash, vars, Swallow, Catch, LeaveFee
<1>2. crashes' = IF Crash THEN crashes + 1 ELSE crashes
  BY DEF Next, Environment, ProcessBlock, Broadcast, RecordPayout, RecordDistribution, FetchBlock,
    PopBlock, BuildFundings, AddFunding, FilterWithdrawals, JoinWithdrawals, ProcessWithdrawal,
    SpendOutput, AddChange, MarkRow, UpdateStatus, SyncHeight, EmitBlock, Poll, DatabaseError,
    Crash, vars, Swallow, Catch, LeaveFee
<1>3. Swallow => swallowed' # {}
  BY DEF Swallow
<1>4. LeaveFee => unpaid' # {}
  BY DEF LeaveFee
<1>5. Catch => Swallow \/ LeaveFee
  BY DEF Catch
<1>6. DatabaseError => Catch
  BY DEF DatabaseError
<1>7. Crash => crashes' # 0
  BY <1>2
<1> QED BY <1>1, <1>2, <1>3, <1>4, <1>5, <1>6, <1>7 DEF Quiet

LEMMA SeenKept ==
    ASSUME SeenInv, chain' = chain, next \in Nat, next' \in Nat,
           RowHeight <= RowHeight', PayoutHeight <= PayoutHeight',
           \A r \in fundings' : Seen(r.hash, RowHeight') \/ \E q \in fundings : q.hash = r.hash,
           \A w \in Withdrawals : payouts'[w].status = "success" =>
               \/ payouts[w].status = "success" /\ payouts'[w].hash = payouts[w].hash
               \/ Seen(payouts'[w].hash, PayoutHeight'),
           \A k \in DOMAIN spends' : Seen(spends'[k].hash, next')
    PROVE  SeenInv'
<1>1. RowHeight \in Int /\ PayoutHeight \in Int /\ RowHeight' \in Int /\ PayoutHeight' \in Int
  BY DEF RowHeight, PayoutHeight
<1>2. \A x : /\ Seen(x, RowHeight) => Seen(x, RowHeight')
             /\ Seen(x, PayoutHeight) => Seen(x, PayoutHeight')
  BY <1>1 DEF Seen
<1>3. \A x, h : Seen(x, h)' <=> Seen(x, h)
  BY DEF Seen
<1>4. Withdrawals' = Withdrawals
  BY DEF Withdrawals
<1>5. \A r \in fundings' : Seen(r.hash, RowHeight')
  BY <1>2 DEF SeenInv
<1>6. \A w \in Withdrawals : payouts'[w].status = "success" => Seen(payouts'[w].hash, PayoutHeight')
  BY <1>2 DEF SeenInv
<1> HIDE DEF RowHeight, PayoutHeight
<1> QED BY <1>3, <1>4, <1>5, <1>6 DEF SeenInv

\* Sequences put together from one element or two.
LEMMA TwoTogether ==
    ASSUME NEW x, NEW y, NEW c, c = <<x>> \o <<y>>
    PROVE  Len(c) = 2 /\ DOMAIN c = {1, 2} /\ c[1] = x /\ c[2] = y
<1>1. <<x>> \in Seq({x, y}) /\ <<y>> \in Seq({x, y}) /\ Len(<<x>>) = 1 /\ Len(<<y>>) = 1
  OBVIOUS
<1>2. c \in Seq({x, y}) /\ Len(c) = 2
  BY <1>1
<1>3. c[1] = x /\ c[2] = y
  BY <1>1
<1>4. DOMAIN c = 1 .. 2
  BY <1>2
<1> QED BY <1>2, <1>3, <1>4

LEMMA OneTogether ==
    ASSUME NEW x, NEW c, c = <<x>> \o <<>>
    PROVE  Len(c) = 1 /\ DOMAIN c = {1} /\ c[1] = x
<1>1. <<x>> \in Seq({x}) /\ <<>> \in Seq({x}) /\ Len(<<x>>) = 1 /\ Len(<<>>) = 0
  OBVIOUS
<1>2. c \in Seq({x}) /\ Len(c) = 1 /\ c[1] = x
  BY <1>1
<1>3. DOMAIN c = 1 .. 1
  BY <1>2
<1> QED BY <1>2, <1>3

LEMMA MarkedHashes ==
    ASSUME NEW rows, rows \subseteq Rows, NEW which, which \subseteq rows, NEW hash
    PROVE  \A r \in MarkSpent(rows, which, hash) : \E q \in rows : q.hash = r.hash
<1>1. \A q \in which : [q EXCEPT !.spent = hash].hash = q.hash
  BY DEF Rows
<1> QED BY <1>1 DEF MarkSpent

LEMMA SeenStep ==
    ASSUME BaseInv, TypeInv, SeenInv, Quiet, [Next]_vars, ~Swallow, ~Catch, ~Crash, ~DatabaseError, next' \in Nat
    PROVE  SeenInv'
<1> USE DEF external, locals, bounds
<1>1. chain' = chain /\ next \in Nat /\ chain \in Chains
  BY ChainKept DEF BaseInv, PositionInv
<1>2. \A i \in DOMAIN block : Seen(block[i].hash, next)
  <2> SUFFICES ASSUME NEW i \in DOMAIN block PROVE Seen(block[i].hash, next)
    OBVIOUS
  <2>1. /\ chain.blocks[next][i] \in TransfersOf(chain.blocks[next]) /\ next \in DOMAIN chain.blocks
        /\ block[i].hash = chain.blocks[next][i].hash
    BY BlockFacts DEF IsParsed, Alike
  <2>2. next \in 1 .. next
    BY <1>1, <2>1, BlocksOfChain
  <2> QED BY <2>1, <2>2 DEF Seen
<1>3. spends \in Seq(Spendings) /\ (spends # <<>> => pc = "spend")
  BY DEF TypeInv, RowTypes
<1>4. \A k \in DOMAIN spends : Seen(spends[k].hash, next)
  BY DEF SeenInv
<1>5. spends # <<>> => /\ Seen(Head(spends).hash, next)
                      /\ \A k \in DOMAIN Tail(spends) : Seen(Tail(spends)[k].hash, next)
  <2> HIDE DEF Spendings
  <2> SUFFICES ASSUME spends # <<>>
               PROVE  /\ Seen(Head(spends).hash, next)
                      /\ \A k \in DOMAIN Tail(spends) : Seen(Tail(spends)[k].hash, next)
    OBVIOUS
  <2>1. Len(spends) \in Nat /\ DOMAIN spends = 1 .. Len(spends) /\ Len(spends) >= 1
    BY <1>3
  <2>2. Head(spends) = spends[1] /\ 1 \in DOMAIN spends
    BY <1>3, <2>1
  <2>3. \A k \in DOMAIN Tail(spends) : k + 1 \in DOMAIN spends /\ Tail(spends)[k] = spends[k + 1]
    BY <1>3, <2>1
  <2> QED BY <1>4, <2>2, <2>3
<1>6. UNCHANGED <<payouts, pc, next>> => PayoutHeight <= PayoutHeight' /\ RowHeight <= RowHeight'
  BY <1>1 DEF PayoutHeight, RowHeight
<1>7. CASE AddFunding
  <2>1. PICK i \in adding :
          /\ fundings' = fundings \cup {Deposit(block[i])}
          /\ UNCHANGED <<next, pc, spends, payouts>>
    BY <1>7 DEF AddFunding
  <2>2. pc = "add" /\ Deposit(block[i]).hash = block[i].hash /\ i \in DOMAIN block
    BY <1>7 DEF AddFunding, Deposit, TypeInv, PlaceTypes
  <2>3. RowHeight' = next
    BY <2>1, <2>2 DEF RowHeight
  <2>4. \A r \in fundings' : Seen(r.hash, RowHeight') \/ \E q \in fundings : q.hash = r.hash
    BY <1>2, <2>1, <2>2, <2>3
  <2> QED BY <1>1, <1>4, <1>6, <2>1, <2>4, SeenKept
<1>8. CASE ProcessWithdrawal
  <2>1. PICK i \in leaving : spends' = SpendsOf(block[i])
    BY <1>8 DEF ProcessWithdrawal
  <2>2. UNCHANGED <<fundings, payouts, pc, next>>
    BY <1>8 DEF ProcessWithdrawal
  <2>3. i \in DOMAIN block
    BY DEF TypeInv, PlaceTypes
  <2>4. \A k \in DOMAIN spends' : spends'[k].hash = block[i].hash
    <3>1. PICK u : u = block[i]
      OBVIOUS
    <3>2. CASE u.inputs # <<>>
      BY <2>1, <3>1, <3>2 DEF SpendsOf, Output
    <3>3. CASE u.inputs = <<>>
      <4> DEFINE v1 == Virtual(u, u.cur, u.amount + u.fee)
                 v2 == Virtual(u, u.cur, u.amount)
                 v3 == TokenFee(u)
      <4>2. v1.hash = u.hash /\ v2.hash = u.hash /\ v3.hash = u.hash
        BY DEF Virtual, TokenFee
      <4>3. spends' \in {<<v1>>, <<>>, <<v2>> \o <<v3>>, <<v2>> \o <<>>}
        BY <2>1, <3>1, <3>3 DEF SpendsOf
      <4> HIDE DEF v1, v2, v3
      <4>4. \A k \in DOMAIN spends' : spends'[k] \in {v1, v2, v3}
        BY <4>3, OneTogether, TwoTogether
      <4> QED BY <3>1, <4>2, <4>4
    <3> QED BY <3>2, <3>3
  <2>5. \A k \in DOMAIN spends' : Seen(spends'[k].hash, next')
    BY <1>2, <2>2, <2>3, <2>4
  <2> QED BY <1>1, <1>6, <2>2, <2>5, SeenKept
<1>9. CASE SpendOutput
  <2>1. /\ spends # <<>> /\ spends' = Tail(spends) /\ UNCHANGED <<payouts, pc, next>>
        /\ fundings' = MarkSpent(fundings, OutputRows(Head(spends)), Head(spends).hash)
    BY <1>9 DEF SpendOutput
  <2>2. OutputRows(Head(spends)) \subseteq fundings
    BY DEF OutputRows
  <2>3. \A r \in fundings' : \E q \in fundings : q.hash = r.hash
    BY <2>1, <2>2, MarkedHashes DEF TypeInv, RowTypes
  <2> QED BY <1>1, <1>5, <1>6, <2>1, <2>3, SeenKept
<1>10. CASE AddChange
  <2>1. PICK s, change : s = Head(spends)
            /\ change = Change(s, Total(Unspent(fundings, s.from, s.cur)) - s.amount)
    OBVIOUS
  <2>2. /\ pc = "spend" /\ spends # <<>> /\ spends' \in {spends, Tail(spends)}
        /\ fundings' \subseteq fundings \cup {change} /\ UNCHANGED <<payouts, pc, next>>
    BY <1>10, <2>1 DEF AddChange
  <2>3. change.hash = s.hash /\ RowHeight' = next
    BY <2>1, <2>2 DEF Change, RowHeight
  <2>4. \A r \in fundings' : Seen(r.hash, RowHeight') \/ \E q \in fundings : q.hash = r.hash
    BY <1>5, <2>1, <2>2, <2>3
  <2>5. \A k \in DOMAIN spends' : Seen(spends'[k].hash, next')
    BY <1>4, <1>5, <2>2
  <2> QED BY <1>1, <1>6, <2>2, <2>4, <2>5, SeenKept
<1>11. CASE MarkRow
  <2>1. PICK r \in marking : /\ fundings' = MarkSpent(fundings, {r}, Head(spends).hash)
                             /\ spends' = IF marking = {r} THEN Tail(spends) ELSE spends
    BY <1>11 DEF MarkRow
  <2>2. UNCHANGED <<payouts, pc, next>> /\ spends # <<>> /\ {r} \subseteq fundings
    BY <1>11 DEF MarkRow, TypeInv, RowTypes
  <2>3. \A q \in fundings' : \E o \in fundings : o.hash = q.hash
    BY <2>1, <2>2, MarkedHashes DEF TypeInv, RowTypes
  <2>4. \A k \in DOMAIN spends' : Seen(spends'[k].hash, next')
    BY <1>4, <1>5, <2>1, <2>2
  <2> QED BY <1>1, <1>6, <2>2, <2>3, <2>4, SeenKept
<1>12. CASE UpdateStatus
  <2>1. PICK i \in settling :
          /\ i \in DOMAIN block /\ (payoutOf[i] = None => payouts' = payouts)
          /\ payoutOf[i] # None =>
                /\ payouts'[payoutOf[i]] = Settled(payouts[payoutOf[i]], block[i])
                /\ \A v \in Withdrawals \ {payoutOf[i]} : payouts'[v] = payouts[v]
    BY <1>12, Settling DEF BaseInv
  <2>2. pc = "spend" /\ UNCHANGED <<fundings, pc, next, spends>>
    BY <1>12 DEF UpdateStatus
  <2>3. PayoutHeight' = next /\ PayoutHeight = next /\ RowHeight' = RowHeight
    BY <2>2 DEF PayoutHeight, RowHeight
  <2>4. ASSUME NEW w \in Withdrawals, payouts'[w].status = "success"
        PROVE  \/ payouts[w].status = "success" /\ payouts'[w].hash = payouts[w].hash
               \/ Seen(payouts'[w].hash, PayoutHeight')
    <3>1. CASE payouts'[w] = payouts[w]
      BY <2>4, <3>1
    <3>2. CASE payouts'[w] # payouts[w]
      <4>1. PICK row, t : row = Settled(payouts[w], t) /\ t = block[i]
        OBVIOUS
      <4>2. payouts'[w] = row /\ row.status = "success"
        BY <2>1, <2>4, <3>2, <4>1
      <4>3. PayoutRow(w)
        BY DEF BaseInv, RetryInv
      <4>4. /\ MinerStatus(t) =>
                  /\ row.hash = payouts[w].hash
                  /\ row = payouts[w] \/ payouts[w].hash = t.hash
            /\ ~MinerStatus(t) => row.status = "inqueue"
        BY <4>1, <4>3, SettledRow
      <4>5. payouts'[w].hash = block[i].hash
        BY <3>2, <4>1, <4>2, <4>4
      <4> QED BY <1>2, <2>1, <2>3, <4>5
    <3> QED BY <3>1, <3>2
  <2>5. RowHeight <= RowHeight' /\ PayoutHeight <= PayoutHeight'
    BY <1>1, <2>2 DEF RowHeight, PayoutHeight
  <2> QED BY <1>1, <1>4, <2>2, <2>4, <2>5, SeenKept
<1>13. ASSUME NEW w \in Withdrawals, RecordPayout(w) PROVE SeenInv'
  <2>1. PICK k \in Nat : payouts' =
          [payouts EXCEPT ![w].status = "transfered",
                          ![w].hash = chain.attempts[w][k].hash,
                          ![w].idx = chain.attempts[w][k].idx]
    <3>1. sent[w] \in Nat
      BY DEF BaseInv, RetryInv, PayoutRow
    <3>2. 1 .. sent[w] \subseteq Nat
      BY <3>1
    <3> QED BY <1>13, <3>2 DEF RecordPayout
  <2>2. UNCHANGED <<fundings, pc, next, spends>>
    BY <1>13 DEF RecordPayout
  <2>3. payouts = [v \in Withdrawals |-> payouts[v]]
        /\ payouts[w] = [status |-> payouts[w].status, hash |-> payouts[w].hash,
                         idx |-> payouts[w].idx, retries |-> payouts[w].retries]
    BY DEF BaseInv, RetryInv, PayoutRow
  <2>4. payouts'[w].status = "transfered" /\ \A v \in Withdrawals \ {w} : payouts'[v] = payouts[v]
    BY <2>1, <2>3
  <2>5. RowHeight <= RowHeight' /\ PayoutHeight <= PayoutHeight'
    BY <1>1, <2>2 DEF RowHeight, PayoutHeight
  <2> QED BY <1>1, <1>4, <2>2, <2>4, <2>5, SeenKept
<1>14. CASE PopBlock \/ BuildFundings \/ FilterWithdrawals \/ JoinWithdrawals \/ SyncHeight
  <2>1. UNCHANGED <<fundings, payouts, next, spends>>
    BY <1>14 DEF PopBlock, BuildFundings, FilterWithdrawals, JoinWithdrawals, SyncHeight
  <2>2. <<pc, pc'>> \in {<<"idle", "build">>, <<"build", "add">>, <<"add", "join">>,
                         <<"join", "spend">>, <<"spend", "emit">>}
    BY <1>14 DEF PopBlock, BuildFundings, FilterWithdrawals, JoinWithdrawals, SyncHeight
  <2>3. RowHeight <= RowHeight' /\ PayoutHeight <= PayoutHeight'
    BY <1>1, <2>1, <2>2 DEF RowHeight, PayoutHeight
  <2> QED BY <1>1, <1>4, <2>1, <2>3, SeenKept
<1>15. CASE EmitBlock \/ Poll
  <2>1. /\ UNCHANGED <<fundings, payouts>> /\ spends' = <<>> /\ pc' = "idle"
        /\ \/ pc = "emit" /\ next' = next + 1
           \/ pc = "idle" /\ next' = synced + 1
    BY <1>3, <1>15 DEF EmitBlock, Poll, Forget
  <2>2. next' = IF pc = "emit" THEN next + 1 ELSE next
    BY <1>1, <2>1, QuietPosition
  <2>3. RowHeight <= RowHeight' /\ PayoutHeight <= PayoutHeight'
    BY <1>1, <2>1, <2>2 DEF RowHeight, PayoutHeight
  <2> QED BY <1>1, <2>1, <2>3, SeenKept
<1>16. CASE UNCHANGED <<fundings, payouts, pc, next, spends>>
  BY <1>1, <1>4, <1>6, <1>16, SeenKept
<1> QED
  BY <1>7, <1>8, <1>9, <1>10, <1>11, <1>12, <1>13, <1>14, <1>15, <1>16
  DEF Next, Environment, ProcessBlock, Broadcast, RecordDistribution, FetchBlock, vars

\* What the ledger is about: an account currency whose receipts are read, top-ups that are
\* recorded in time, and nobody who sends what he does not have.
Accounts == ReceiptRead /\ RecordedFirst /\ \A c \in Chains : InputFree(c) /\ Covered(c)

\* The transfers of the block under way, by their places on the chain.
LEMMA BlockPlaces ==
    ASSUME BaseInv, pc # "idle"
    PROVE  /\ next \in 1 .. Len(chain.blocks) /\ DOMAIN block = DOMAIN chain.blocks[next]
           /\ {next} \X DOMAIN block \in Places
           /\ Upto(chain, next) \in Places /\ Upto(chain, next - 1) \in Places
           /\ \A i \in DOMAIN block :
                 /\ {<<next, i>>} \in Places
                 /\ Alike(block[i], At(chain, <<next, i>>)) /\ IsTransfer(block[i])
<1>1. IsParse(chain, blind, next, block) /\ chain \in Chains
  BY DEF BaseInv, PositionInv
<1>2. next \in 1 .. Len(chain.blocks) /\ DOMAIN block = DOMAIN chain.blocks[next]
  BY <1>1, BlocksOfChain DEF IsParse
<1>3. /\ Upto(chain, next) = Upto(chain, next - 1) \cup ({next} \X DOMAIN block)
      /\ Upto(chain, next) \subseteq Upto(chain, Len(chain.blocks))
  BY <1>1, <1>2, UptoNext
<1>4. {next} \X DOMAIN block \in Places /\ Upto(chain, next) \in Places
      /\ Upto(chain, next - 1) \in Places
  BY <1>3 DEF Places
<1>5. ASSUME NEW i \in DOMAIN block
      PROVE  /\ {<<next, i>>} \in Places
             /\ Alike(block[i], At(chain, <<next, i>>)) /\ IsTransfer(block[i])
  <2>1. {<<next, i>>} \in Places
    BY <1>4 DEF Places
  <2>2. At(chain, <<next, i>>) = chain.blocks[next][i]
    BY DEF At
  <2> QED BY <2>1, <2>2, BlockFacts DEF IsParsed
<1> QED BY <1>2, <1>4, <1>5

\* No transfer of the block under way was seen before.
LEMMA BlockIsNew ==
    ASSUME BaseInv, pc # "idle", NEW i \in DOMAIN block
    PROVE  ~Seen(block[i].hash, next - 1)
<1> SUFFICES ASSUME Seen(block[i].hash, next - 1) PROVE FALSE
  OBVIOUS
<1>1. /\ next \in DOMAIN chain.blocks /\ block[i].hash = chain.blocks[next][i].hash
      /\ chain.blocks[next][i] \in ToSet(chain.blocks[next])
  BY BlockFacts DEF IsParsed, Alike, TransfersOf
<1>2. chain \in Chains /\ next \in 1 .. Len(chain.blocks) /\ DOMAIN chain.blocks = 1 .. Len(chain.blocks)
  BY BlockPlaces, BlocksOfChain DEF BaseInv, PositionInv
<1>3. PICK k \in 1 .. next - 1 : \E t \in ToSet(chain.blocks[k]) : t.hash = block[i].hash
  BY DEF Seen, TransfersOf
<1>4. k \in DOMAIN chain.blocks /\ k # next
  BY <1>2, <1>3
<1> QED BY <1>1, <1>2, <1>3, <1>4, ChainsAssumption

\* So a deposit of it is not recorded yet.
LEMMA DepositsOfBlock ==
    ASSUME BaseInv, RecordedInv, SeenInv, Accounts, pc = "build", NEW i \in DOMAIN block
    PROVE  IsDeposit(block[i]) <=>
              /\ block[i].to # None /\ block[i].cur \in Supported /\ block[i].amount > 0
              /\ block[i].ok /\ block[i].hash \notin chain.gas
<1>1. ~FundingExists(block[i].hash, block[i].idx)
  BY BlockIsNew DEF FundingExists, SeenInv, RowHeight
<1>2. block[i].hash \in distributions <=> block[i].hash \in chain.gas
  BY DEF RecordedInv, IsRecorded, Accounts
<1>3. MinerStatus(block[i]) <=> block[i].ok
  BY DEF MinerStatus, Accounts
<1> QED BY <1>1, <1>2, <1>3 DEF IsDeposit

LEMMA NoInputs ==
    ASSUME BaseInv, Accounts
    PROVE  /\ \A i \in DOMAIN block : block[i].inputs = <<>>
           /\ \A s \in Spendings : s.kind # "output" /\ s.amount \in Nat /\ s.hash # None
<1>1. chain \in Chains /\ InputFree(chain)
  BY DEF Accounts, BaseInv, PositionInv
<1>2. \A t \in Transfers : t.inputs = <<>> /\ t.hash # None
  <2> SUFFICES ASSUME NEW t \in Transfers PROVE t.inputs = <<>> /\ t.hash # None
    OBVIOUS
  <2>1. PICK h \in DOMAIN chain.blocks : t \in TransfersOf(chain.blocks[h])
    BY DEF Transfers
  <2>2. /\ chain.blocks[h] \in Seq(TransfersOf(chain.blocks[h]))
        /\ \A j \in DOMAIN chain.blocks[h] : IsTransfer(chain.blocks[h][j])
    BY <1>1, TransferFacts
  <2>3. PICK j \in DOMAIN chain.blocks[h] : t = chain.blocks[h][j]
    BY <2>1 DEF TransfersOf, ToSet
  <2>4. h \in 1 .. Len(chain.blocks)
    BY <1>1, BlocksOfChain
  <2>5. <<h, j>> \in Upto(chain, Len(chain.blocks)) /\ At(chain, <<h, j>>) = t
    BY <2>3, <2>4 DEF Upto, At
  <2>6. t.inputs = <<>>
    BY <1>1, <2>5 DEF InputFree
  <2> QED BY <2>2, <2>3, <2>6 DEF IsTransfer
<1>3. ASSUME NEW i \in DOMAIN block PROVE block[i].inputs = <<>>
  <2>1. PICK t \in Transfers : IsParsed(block[i], t, blind)
    BY BlockFacts
  <2> QED BY <1>2, <2>1 DEF IsParsed
<1>4. ASSUME NEW s \in Spendings PROVE s.kind # "output" /\ s.amount \in Nat /\ s.hash # None
  <2>1. (s.kind = "output" =>
              \E t \in Transfers : \E o \in ToSet(t.inputs) : s = Output(t, o))
        /\ (s.kind # "output" => s.amount \in Nat /\ \E t \in Transfers : s.hash = t.hash)
    BY <1>1, SpendingFacts
  <2>2. s.kind # "output"
    BY <1>2, <2>1 DEF ToSet
  <2> QED BY <1>2, <2>1, <2>2
<1> QED BY <1>3, <1>4

\* Each transfer that leaves one of our addresses is processed as a withdrawal.
LEMMA WithdrawalsOfBlock ==
    ASSUME BaseInv, TypeInv, SeenInv, Accounts, pc = "add", NEW i \in DOMAIN block
    PROVE  IsWithdrawal(block[i]) <=> block[i].from # None
<1>1. block[i].inputs = <<>> /\ block[i].hash # None
  BY NoInputs, BlockFacts DEF IsParsed, IsTransfer
<1>2. \A w \in PayoutsOf(block[i]) : payouts[w].status = "transfered"
  <2> SUFFICES ASSUME NEW w \in Withdrawals, payouts[w].hash = block[i].hash
               PROVE payouts[w].status = "transfered"
    BY DEF PayoutsOf
  <2>1. payouts[w].status # "inqueue"
    BY <1>1 DEF BaseInv, RetryInv, PayoutRow
  <2>2. payouts[w].status # "success"
    BY BlockIsNew DEF SeenInv, PayoutHeight
  <2> QED BY <2>1, <2>2 DEF BaseInv, RetryInv, PayoutRow
<1> QED BY <1>1, <1>2 DEF IsWithdrawal

\* The spendings of a withdrawal take what the transfer takes.
LEMMA SpendingsOwe ==
    ASSUME NEW u, IsTransfer(u), u.inputs = <<>>, ReceiptRead, NEW a, NEW cur
    PROVE  Len(SpendsOf(u)) <= 2 /\ Owed(SpendsOf(u), a, cur) = DebitOf(u, a, cur)
<1>1. u.amount \in Nat /\ u.fee \in Nat /\ u.amount + u.fee \in Nat /\ (~HasFee(u) => u.amount = 0)
  BY DEF IsTransfer, HasFee
<1> DEFINE v1 == Virtual(u, u.cur, u.amount + u.fee)
           v2 == Virtual(u, u.cur, u.amount)
           v3 == TokenFee(u)
<1>2. /\ v1.from = u.from /\ v1.cur = u.cur /\ v1.amount = u.amount + u.fee
      /\ v2.from = u.from /\ v2.cur = u.cur /\ v2.amount = u.amount
      /\ v3.from = u.from /\ v3.cur = FeeCurrency /\ v3.amount = u.fee
  BY DEF Virtual, TokenFee
<1>3. SpendsOf(u) = IF u.cur = FeeCurrency THEN IF HasFee(u) THEN <<v1>> ELSE <<>>
                    ELSE <<v2>> \o IF HasFee(u) /\ u.fee > 0 THEN <<v3>> ELSE <<>>
  BY DEF SpendsOf
<1> HIDE DEF v1, v2, v3
<1>4. CASE u.cur = FeeCurrency /\ HasFee(u)
  <2>1. SpendsOf(u) = <<v1>>
    BY <1>3, <1>4
  <2>2. Len(<<v1>>) = 1 /\ DOMAIN <<v1>> = {1} /\ <<v1>>[1] = v1
    OBVIOUS
  <2>3. Owed(<<v1>>, a, cur) = IF u.from = a /\ u.cur = cur THEN u.amount + u.fee ELSE 0
    BY <1>1, <1>2, <2>2 DEF Owed, Due
  <2> QED BY <1>1, <1>4, <2>1, <2>2, <2>3 DEF DebitOf
<1>5. CASE u.cur = FeeCurrency /\ ~HasFee(u)
  <2>1. SpendsOf(u) = <<>> /\ Len(<<>>) = 0 /\ DOMAIN <<>> = {}
    BY <1>3, <1>5
  <2>2. Owed(<<>>, a, cur) = 0
    BY <2>1 DEF Owed, Due
  <2> QED BY <1>1, <1>5, <2>1, <2>2 DEF DebitOf
<1>6. CASE u.cur # FeeCurrency /\ HasFee(u) /\ u.fee > 0
  <2>1. PICK c : c = SpendsOf(u)
    OBVIOUS
  <2>2. c = <<v2>> \o <<v3>>
    BY <1>3, <1>6, <2>1
  <2>3. Len(c) = 2 /\ DOMAIN c = {1, 2} /\ c[1] = v2 /\ c[2] = v3
    BY <2>2, TwoTogether
  <2>4. Owed(c, a, cur) = (IF u.from = a /\ u.cur = cur THEN u.amount ELSE 0)
                          + (IF u.from = a /\ FeeCurrency = cur THEN u.fee ELSE 0)
    BY <1>2, <2>3 DEF Owed, Due
  <2> QED BY <1>6, <2>1, <2>3, <2>4 DEF DebitOf
<1>7. CASE u.cur # FeeCurrency /\ ~(HasFee(u) /\ u.fee > 0)
  <2>1. PICK c : c = SpendsOf(u)
    OBVIOUS
  <2>2. c = <<v2>> \o <<>>
    BY <1>3, <1>7, <2>1
  <2>3. Len(c) = 1 /\ DOMAIN c = {1} /\ c[1] = v2
    BY <2>2, OneTogether
  <2>4. Owed(c, a, cur) = IF u.from = a /\ u.cur = cur THEN u.amount ELSE 0
    BY <1>1, <1>2, <2>3 DEF Owed, Due
  <2> QED BY <1>1, <1>7, <2>1, <2>3, <2>4 DEF DebitOf
<1> QED BY <1>4, <1>5, <1>6, <1>7

\* The first spending leaves the others.
LEMMA OwedRest ==
    ASSUME NEW ss \in Seq(Spendings), ss # <<>>, Len(ss) <= 2, NEW a, NEW cur,
           \A s \in Spendings : s.amount \in Nat
    PROVE  /\ Tail(ss) \in Seq(Spendings) /\ Len(Tail(ss)) <= 2 /\ Head(ss) \in Spendings
           /\ Owed(ss, a, cur) \in Nat /\ Owed(Tail(ss), a, cur) \in Nat
           /\ Owed(ss, a, cur) =
                (IF Head(ss).from = a /\ Head(ss).cur = cur THEN Head(ss).amount ELSE 0)
                + Owed(Tail(ss), a, cur)
<1> HIDE DEF Spendings
<1>1. Len(ss) \in {1, 2} /\ DOMAIN ss = 1 .. Len(ss) /\ Head(ss) = ss[1]
  <2>1. PICK n \in Nat : n = Len(ss)
    OBVIOUS
  <2>2. n # 0 /\ n <= 2
    BY <2>1
  <2>3. n \in {1, 2}
    BY <2>2
  <2>4. DOMAIN ss = 1 .. Len(ss) /\ Head(ss) = ss[1]
    OBVIOUS
  <2> QED BY <2>1, <2>3, <2>4
<1>2. /\ Tail(ss) \in Seq(Spendings) /\ Len(Tail(ss)) = Len(ss) - 1
      /\ DOMAIN Tail(ss) = 1 .. Len(ss) - 1 /\ (Len(ss) = 2 => Tail(ss)[1] = ss[2])
  <2>1. Tail(ss) \in Seq(Spendings) /\ Len(Tail(ss)) = Len(ss) - 1
    OBVIOUS
  <2>2. DOMAIN Tail(ss) = 1 .. Len(Tail(ss))
    BY <2>1
  <2>3. Len(ss) = 2 => Tail(ss)[1] = ss[2]
    OBVIOUS
  <2> QED BY <2>1, <2>2, <2>3
<1>3. \A k \in DOMAIN ss : ss[k] \in Spendings
  OBVIOUS
<1>4. Due(ss, 1, a, cur) = IF Head(ss).from = a /\ Head(ss).cur = cur THEN Head(ss).amount ELSE 0
  BY <1>1 DEF Due
<1>5. Due(Tail(ss), 2, a, cur) = 0 /\ Due(Tail(ss), 1, a, cur) = Due(ss, 2, a, cur)
  <2>1. 2 \notin DOMAIN Tail(ss) /\ (1 \in DOMAIN Tail(ss) <=> 2 \in DOMAIN ss)
    BY <1>1, <1>2
  <2>2. 1 \in DOMAIN Tail(ss) => Tail(ss)[1] = ss[2]
    BY <1>1, <1>2
  <2> QED BY <2>1, <2>2 DEF Due
<1>6. Due(ss, 1, a, cur) \in Nat /\ Due(ss, 2, a, cur) \in Nat
  BY <1>3 DEF Due
<1> QED BY <1>1, <1>2, <1>3, <1>4, <1>5, <1>6 DEF Owed

LEMMA AddingStep ==
    ASSUME BaseInv, TypeInv, RecordedInv, SeenInv, AddingInv, Accounts, [Next]_vars
    PROVE  AddingInv'
<1> USE DEF external, locals, bounds
<1>1. chain' = chain
  BY ChainKept
<1>2. CASE BuildFundings
  <2>1. /\ pc = "build" /\ UNCHANGED <<block, spends>>
        /\ adding' = {i \in DOMAIN block : IsDeposit(block[i])}
    BY <1>2 DEF BuildFundings
  <2>2. \A i \in adding' : block'[i].ok /\ block'[i].hash \notin chain'.gas
    BY <1>1, <2>1, DepositsOfBlock
  <2> QED BY <2>1, <2>2 DEF AddingInv
<1>3. CASE ProcessWithdrawal
  <2>1. PICK i \in leaving : spends' = SpendsOf(block[i])
    BY <1>3 DEF ProcessWithdrawal
  <2>2. i \in DOMAIN block
    BY DEF TypeInv, PlaceTypes
  <2>3. Len(SpendsOf(block[i])) <= 2
    BY <2>2, NoInputs, BlockFacts, SpendingsOwe DEF Accounts, IsParsed
  <2>4. UNCHANGED <<block, adding>>
    BY <1>3 DEF ProcessWithdrawal
  <2> QED BY <1>1, <2>1, <2>3, <2>4 DEF AddingInv
<1>4. spends \in Seq(Spendings) /\ Len(<<>>) = 0
  BY DEF TypeInv, RowTypes
<1>5. spends # <<>> => Len(Tail(spends)) <= 2
  <2> HIDE DEF Spendings
  <2> QED BY <1>4 DEF AddingInv
<1>6. CASE SpendOutput \/ MarkRow
  <2>1. UNCHANGED <<block, adding>> /\ spends # <<>> /\ spends' \in {spends, Tail(spends)}
    BY <1>6 DEF SpendOutput, MarkRow, TypeInv, RowTypes
  <2> QED BY <1>1, <1>5, <2>1 DEF AddingInv
<1>7. CASE AddChange \/ AddFunding \/ DatabaseError \/ Crash \/ EmitBlock
  <2>1. \/ adding' = {} /\ spends' = <<>>
        \/ UNCHANGED block /\ adding' \subseteq adding /\ spends' = spends
        \/ UNCHANGED <<block, adding>> /\ spends # <<>> /\ spends' = Tail(spends)
    <3>1. Catch => \/ adding' = {} /\ spends' = <<>>
                   \/ UNCHANGED <<block, adding>> /\ spends # <<>> /\ spends' = Tail(spends)
      BY DEF Catch, Swallow, Forget, LeaveFee, PayingFee
    <3>2. Swallow => adding' = {} /\ spends' = <<>>
      BY DEF Swallow, Forget
    <3>3. CASE AddChange
      BY <3>1, <3>3 DEF AddChange
    <3>4. CASE AddFunding
      BY <3>2, <3>4 DEF AddFunding
    <3>5. CASE DatabaseError \/ Crash \/ EmitBlock
      BY <3>1, <3>5 DEF DatabaseError, Crash, EmitBlock, Forget
    <3> QED BY <1>7, <3>3, <3>4, <3>5
  <2> QED BY <1>1, <1>4, <1>5, <2>1 DEF AddingInv
<1>8. CASE PopBlock
  BY <1>1, <1>8 DEF PopBlock, AddingInv, TypeInv, PlaceTypes
<1>9. CASE UNCHANGED <<block, adding, spends>>
  BY <1>1, <1>9 DEF AddingInv
<1> QED
  BY <1>2, <1>3, <1>6, <1>7, <1>8, <1>9
  DEF Next, Environment, ProcessBlock, Broadcast, RecordPayout, RecordDistribution, FetchBlock,
      FilterWithdrawals, JoinWithdrawals, UpdateStatus, SyncHeight, Poll, vars

LEMMA FreeIsNat ==
    ASSUME TypeInv, NEW marks, NEW a, NEW cur
    PROVE  Free(fundings, marks, a, cur) \in Nat
<1>1. PICK rows : rows = Unspent(fundings, a, cur) \ marks
  OBVIOUS
<1>2. rows \subseteq Rows /\ IsFiniteSet(rows)
  <2>1. fundings \subseteq Rows /\ IsFiniteSet(fundings)
    BY DEF TypeInv, RowTypes
  <2>2. rows \subseteq fundings
    BY <1>1 DEF Unspent
  <2> QED BY <2>1, <2>2, FS_Subset
<1> QED BY <1>1, <1>2, TotalIsNat DEF Free

\* What the sums of the block under way have to do with those up to it.
LEMMA BlockSums ==
    ASSUME BaseInv, pc # "idle", NEW a, NEW cur
    PROVE  /\ Credit(chain, Upto(chain, next), a, cur) =
                 Credit(chain, Upto(chain, next - 1), a, cur)
                 + Credit(chain, {next} \X DOMAIN block, a, cur)
           /\ Deposited(chain, Upto(chain, next), a, cur) =
                 Deposited(chain, Upto(chain, next - 1), a, cur)
                 + Deposited(chain, {next} \X DOMAIN block, a, cur)
           /\ Deposited(chain, {next} \X DOMAIN block, a, cur)
                 <= Credit(chain, {next} \X DOMAIN block, a, cur)
           /\ Credit(chain, {next} \X DOMAIN block, a, cur) \in Nat
           /\ Debit(chain, Upto(chain, next), a, cur) =
                 Debit(chain, Upto(chain, next - 1), a, cur)
                 + Debit(chain, {next} \X DOMAIN block, a, cur)
           /\ AllOk(chain, next, a) => AllOk(chain, next - 1, a)
<1>1. chain \in Chains
  BY DEF BaseInv, PositionInv
<1>2. /\ next \in 1 .. Len(chain.blocks) /\ DOMAIN block = DOMAIN chain.blocks[next]
      /\ Upto(chain, next) \in Places
  BY BlockPlaces
<1>3. PICK P, Q : P = Upto(chain, next) /\ Q = Upto(chain, next - 1)
  OBVIOUS
<1>4. P = Q \cup ({next} \X DOMAIN block) /\ Q \cap ({next} \X DOMAIN block) = {}
  BY <1>1, <1>2, <1>3, UptoNext
<1>5. Q \in SUBSET P /\ P \ Q = {next} \X DOMAIN block /\ P \in Places
  BY <1>2, <1>3, <1>4
<1>6. /\ Credit(chain, P, a, cur) = Credit(chain, Q, a, cur) + Credit(chain, P \ Q, a, cur)
      /\ Deposited(chain, P, a, cur) = Deposited(chain, Q, a, cur) + Deposited(chain, P \ Q, a, cur)
      /\ Debit(chain, P, a, cur) = Debit(chain, Q, a, cur) + Debit(chain, P \ Q, a, cur)
  BY <1>1, <1>5, CreditSplit, DepositedSplit, DebitSplit
<1>8. /\ Deposited(chain, P \ Q, a, cur) <= Credit(chain, P \ Q, a, cur)
      /\ Credit(chain, P \ Q, a, cur) \in Nat
  <2>1. PICK R : R = P \ Q
    OBVIOUS
  <2>2. R \in Places
    BY <1>2, <1>5, <2>1, BlockPlaces
  <2> QED BY <1>1, <2>1, <2>2, DepositedIsPart, PlacesAmounts
<1>7. AllOk(chain, next, a) => AllOk(chain, next - 1, a)
  BY <1>3, <1>4 DEF AllOk
<1> QED BY <1>3, <1>5, <1>6, <1>7, <1>8

\* A part of the block under way.
LEMMA PartSums ==
    ASSUME BaseInv, pc # "idle", NEW X \in SUBSET DOMAIN block, NEW a, NEW cur
    PROVE  /\ {next} \X X \in Places
           /\ Deposited(chain, {next} \X X, a, cur) \in Nat /\ Debit(chain, {next} \X X, a, cur) \in Nat
           /\ \A i \in X :
                 /\ Deposited(chain, {next} \X X, a, cur) =
                       Deposited(chain, {next} \X (X \ {i}), a, cur) + DepositOf(chain, block[i], a, cur)
                 /\ Debit(chain, {next} \X X, a, cur) =
                       Debit(chain, {next} \X (X \ {i}), a, cur) + DebitOf(block[i], a, cur)
           /\ X = {} => Deposited(chain, {next} \X X, a, cur) = 0 /\ Debit(chain, {next} \X X, a, cur) = 0
<1>1. chain \in Chains
  BY DEF BaseInv, PositionInv
<1>2. {next} \X DOMAIN block \in Places
      /\ \A i \in DOMAIN block : /\ {<<next, i>>} \in Places
                                 /\ Alike(block[i], At(chain, <<next, i>>))
  BY BlockPlaces
<1>3. {next} \X X \in Places
  BY <1>2 DEF Places
<1>4. ASSUME NEW i \in X
      PROVE  /\ Deposited(chain, {next} \X X, a, cur) =
                   Deposited(chain, {next} \X (X \ {i}), a, cur) + DepositOf(chain, block[i], a, cur)
             /\ Debit(chain, {next} \X X, a, cur) =
                   Debit(chain, {next} \X (X \ {i}), a, cur) + DebitOf(block[i], a, cur)
  <2>1. PICK P, Q, p : P = {next} \X X /\ Q = {next} \X (X \ {i}) /\ p = <<next, i>>
    OBVIOUS
  <2>2. Q \in SUBSET P /\ P \ Q = {p}
    BY <2>1
  <2>3. P \in Places /\ {p} \in Places
    BY <1>2, <1>3, <2>1
  <2>4. /\ Deposited(chain, P, a, cur) = Deposited(chain, Q, a, cur) + Deposited(chain, {p}, a, cur)
        /\ Debit(chain, P, a, cur) = Debit(chain, Q, a, cur) + Debit(chain, {p}, a, cur)
    BY <1>1, <2>2, <2>3, DepositedSplit, DebitSplit
  <2>5. /\ Deposited(chain, {p}, a, cur) = DepositOf(chain, At(chain, p), a, cur)
        /\ Debit(chain, {p}, a, cur) = DebitOf(At(chain, p), a, cur)
    BY <1>1, <2>3, DepositedOne, DebitOne
  <2>6. Alike(block[i], At(chain, p))
    BY <1>2, <2>1
  <2>7. /\ DepositOf(chain, At(chain, p), a, cur) = DepositOf(chain, block[i], a, cur)
        /\ DebitOf(At(chain, p), a, cur) = DebitOf(block[i], a, cur)
    BY <2>6 DEF DepositOf, CreditOf, DebitOf, HasFee, Alike
  <2> QED BY <2>1, <2>4, <2>5, <2>7
<1>5. ASSUME X = {}
      PROVE  Deposited(chain, {next} \X X, a, cur) = 0 /\ Debit(chain, {next} \X X, a, cur) = 0
  <2>1. {next} \X X = {}
    BY <1>5
  <2> QED BY <2>1, NothingMoved
<1> QED BY <1>1, <1>3, <1>4, <1>5, PlacesAmounts

\* The rest of the block moves nothing of the address.
LEMMA RestSums ==
    ASSUME BaseInv, pc # "idle", NEW X \in SUBSET DOMAIN block, NEW a, NEW cur
    PROVE  /\ (\A i \in DOMAIN block \ X : DepositOf(chain, block[i], a, cur) = 0) =>
                 Deposited(chain, {next} \X DOMAIN block, a, cur) = Deposited(chain, {next} \X X, a, cur)
           /\ (\A i \in DOMAIN block \ X : DebitOf(block[i], a, cur) = 0) =>
                 Debit(chain, {next} \X DOMAIN block, a, cur) = Debit(chain, {next} \X X, a, cur)
<1>1. chain \in Chains
  BY DEF BaseInv, PositionInv
<1>2. PICK P, Q, R : P = {next} \X DOMAIN block /\ Q = {next} \X X /\ R = {next} \X (DOMAIN block \ X)
  OBVIOUS
<1>3. Q \in SUBSET P /\ P \ Q = R /\ P \in Places
  BY <1>2, BlockPlaces
<1>4. /\ Deposited(chain, P, a, cur) = Deposited(chain, Q, a, cur) + Deposited(chain, R, a, cur)
      /\ Debit(chain, P, a, cur) = Debit(chain, Q, a, cur) + Debit(chain, R, a, cur)
  BY <1>1, <1>3, DepositedSplit, DebitSplit
<1>5. Deposited(chain, Q, a, cur) \in Nat /\ Debit(chain, Q, a, cur) \in Nat
  BY <1>2, PartSums
<1>6. \A p \in R : \E i \in DOMAIN block \ X : p = <<next, i>>
  BY <1>2
<1>7. ASSUME NEW p \in R
      PROVE  \E i \in DOMAIN block \ X :
                /\ DepositOf(chain, At(chain, p), a, cur) = DepositOf(chain, block[i], a, cur)
                /\ DebitOf(At(chain, p), a, cur) = DebitOf(block[i], a, cur)
  <2>1. PICK i \in DOMAIN block \ X : p = <<next, i>>
    BY <1>6
  <2>2. Alike(block[i], At(chain, p))
    BY <2>1, BlockPlaces
  <2> QED BY <2>2 DEF DepositOf, CreditOf, DebitOf, HasFee, Alike
<1>8. ASSUME \A i \in DOMAIN block \ X : DepositOf(chain, block[i], a, cur) = 0
      PROVE  Deposited(chain, R, a, cur) = 0
  BY <1>7, <1>8, NothingMoved
<1>9. ASSUME \A i \in DOMAIN block \ X : DebitOf(block[i], a, cur) = 0
      PROVE  Debit(chain, R, a, cur) = 0
  BY <1>7, <1>9, NothingMoved
<1> QED BY <1>2, <1>4, <1>5, <1>8, <1>9

\* The parts of the balance are numbers; nothing is owed when nothing is left to spend.
LEMMA Numbers ==
    ASSUME BaseInv, TypeInv, AddingInv, Accounts, NEW a, NEW cur
    PROVE  /\ Free(fundings, marking, a, cur) \in Nat
           /\ Owed(<<>>, a, cur) = 0
           /\ marking # {} => spends # <<>>
           /\ spends \in Seq(Spendings) /\ (spends # <<>> => pc = "spend")
           /\ pc # "spend" => spends = <<>> /\ marking = {} /\ ToSpend = <<>>
           /\ pc # "idle" =>
                 /\ Credit(chain, Upto(chain, next), a, cur) \in Nat
                 /\ Debit(chain, Upto(chain, next), a, cur) \in Nat
                 /\ Credit(chain, Upto(chain, next - 1), a, cur) \in Nat
                 /\ Debit(chain, Upto(chain, next - 1), a, cur) \in Nat
                 /\ Deposited(chain, Upto(chain, next), a, cur) \in Nat
                 /\ Deposited(chain, Upto(chain, next - 1), a, cur) \in Nat
<1>1. Free(fundings, marking, a, cur) \in Nat
  BY FreeIsNat
<1>2. Owed(<<>>, a, cur) = 0
  BY DEF Owed, Due
<1>3. /\ marking # {} => spends # <<>>
      /\ spends \in Seq(Spendings) /\ (spends # <<>> => pc = "spend")
  BY DEF TypeInv, RowTypes
<1>4. pc # "spend" => spends = <<>> /\ marking = {} /\ ToSpend = <<>>
  BY <1>3 DEF ToSpend
<1>5. ASSUME pc # "idle"
      PROVE  /\ Credit(chain, Upto(chain, next), a, cur) \in Nat
             /\ Debit(chain, Upto(chain, next), a, cur) \in Nat
             /\ Credit(chain, Upto(chain, next - 1), a, cur) \in Nat
             /\ Debit(chain, Upto(chain, next - 1), a, cur) \in Nat
             /\ Deposited(chain, Upto(chain, next), a, cur) \in Nat
             /\ Deposited(chain, Upto(chain, next - 1), a, cur) \in Nat
  <2>1. Upto(chain, next) \in Places /\ Upto(chain, next - 1) \in Places /\ chain \in Chains
    BY <1>5, BlockPlaces DEF BaseInv, PositionInv
  <2>2. PICK P, Q : P = Upto(chain, next) /\ Q = Upto(chain, next - 1)
    OBVIOUS
  <2> QED BY <2>1, <2>2, PlacesAmounts
<1> QED BY <1>1, <1>2, <1>3, <1>4, <1>5

\* The deposits to be added are what the block brings.
LEMMA BalanceBuild ==
    ASSUME BaseInv, TypeInv, RecordedInv, SeenInv, AddingInv, Accounts, BuildFundings,
           NEW a \in Holders(chain), NEW cur \in Supported, Balance(a, cur)
    PROVE  Balance(a, cur)'
<1>1. /\ pc = "build" /\ pc' = "add" /\ UNCHANGED <<chain, next, block, fundings, marking, spends>>
      /\ adding' = {i \in DOMAIN block : IsDeposit(block[i])}
  BY DEF BuildFundings, external
<1>2. PICK X : X = {i \in DOMAIN block : IsDeposit(block[i])}
  OBVIOUS
<1>3. a # None /\ X \in SUBSET DOMAIN block
  <2>1. a # None
    BY DEF Holders
  <2>2. X \in SUBSET DOMAIN block
    BY <1>2
  <2> QED BY <2>1, <2>2
<1>4. \A i \in DOMAIN block \ X : DepositOf(chain, block[i], a, cur) = 0
  <2> SUFFICES ASSUME NEW i \in DOMAIN block, ~IsDeposit(block[i])
               PROVE  DepositOf(chain, block[i], a, cur) = 0
    BY <1>2
  <2>1. block[i].amount \in Nat
    BY BlockFacts DEF IsParsed, IsTransfer
  <2> QED BY <1>1, <1>3, <2>1, DepositsOfBlock DEF DepositOf, CreditOf
<1>5. Deposited(chain, {next} \X DOMAIN block, a, cur) = Deposited(chain, {next} \X X, a, cur)
  BY <1>1, <1>3, <1>4, RestSums
<1>6. Deposited(chain, {next} \X X, a, cur) \in Nat /\ Debit(chain, {next} \X DOMAIN block, a, cur) \in Nat
  BY <1>1, <1>3, PartSums
<1>7. Within(chain, next - 1, a, cur, Free(fundings, marking, a, cur))
  BY <1>1 DEF Balance
<1>8. WithinBut(chain, next, a, cur, Free(fundings, marking, a, cur), X, DOMAIN block, 0)
  <2>1. pc # "idle"
    BY <1>1
  <2>2. /\ Credit(chain, Upto(chain, next), a, cur) =
              Credit(chain, Upto(chain, next - 1), a, cur) + Credit(chain, {next} \X DOMAIN block, a, cur)
        /\ Deposited(chain, Upto(chain, next), a, cur) =
              Deposited(chain, Upto(chain, next - 1), a, cur) + Deposited(chain, {next} \X DOMAIN block, a, cur)
        /\ Deposited(chain, {next} \X DOMAIN block, a, cur)
              <= Credit(chain, {next} \X DOMAIN block, a, cur)
        /\ Credit(chain, {next} \X DOMAIN block, a, cur) \in Nat
        /\ Debit(chain, Upto(chain, next), a, cur) =
              Debit(chain, Upto(chain, next - 1), a, cur) + Debit(chain, {next} \X DOMAIN block, a, cur)
        /\ AllOk(chain, next, a) => AllOk(chain, next - 1, a)
    BY <2>1, BlockSums
  <2> SUFFICES
        ASSUME AllOk(chain, next, a)
        PROVE  LET books == Free(fundings, marking, a, cur) + Debit(chain, Upto(chain, next), a, cur)
                            + Deposited(chain, {next} \X X, a, cur)
                            - Debit(chain, {next} \X DOMAIN block, a, cur) - 0
               IN /\ Deposited(chain, Upto(chain, next), a, cur) <= books
                  /\ books <= Credit(chain, Upto(chain, next), a, cur)
    BY DEF WithinBut
  <2>3. LET books == Free(fundings, marking, a, cur) + Debit(chain, Upto(chain, next - 1), a, cur)
        IN /\ Deposited(chain, Upto(chain, next - 1), a, cur) <= books
           /\ books <= Credit(chain, Upto(chain, next - 1), a, cur)
    BY <1>7, <2>2 DEF Within
  <2>4. /\ Free(fundings, marking, a, cur) \in Nat
        /\ Debit(chain, Upto(chain, next - 1), a, cur) \in Nat
        /\ Credit(chain, Upto(chain, next - 1), a, cur) \in Nat
        /\ Deposited(chain, Upto(chain, next - 1), a, cur) \in Nat
    BY <2>1, Numbers
  <2> QED BY <1>5, <1>6, <2>2, <2>3, <2>4
<1>9. Owed(ToSpend', a, cur) = 0 /\ ToSubtract' = DOMAIN block
  BY <1>1, Numbers DEF ToSpend, ToSubtract
<1> QED BY <1>1, <1>2, <1>8, <1>9 DEF Balance

\* One deposit is added.
LEMMA BalanceAdd ==
    ASSUME BaseInv, TypeInv, TypeInv', AddingInv, Accounts, AddFunding, ~Swallow,
           NEW a \in Holders(chain), NEW cur \in Supported, Balance(a, cur)
    PROVE  Balance(a, cur)'
<1>1. PICK i \in adding :
        /\ ~Clash(Deposit(block[i]), fundings)
        /\ fundings' = fundings \cup {Deposit(block[i])} /\ adding' = adding \ {i}
        /\ UNCHANGED <<chain, next, pc, block, leaving, spends, marking>>
  BY DEF AddFunding, external
<1>2. pc = "add"
  BY DEF AddFunding
<1>3. PICK r : r = Deposit(block[i])
  OBVIOUS
<1>4. r.to = block[i].to /\ r.cur = block[i].cur /\ r.amount = block[i].amount /\ r.spent = None
  BY <1>3 DEF Deposit
<1>5. r \notin fundings
  BY <1>1, <1>3 DEF Clash
<1>6. r \in Rows /\ fundings \subseteq Rows /\ IsFiniteSet(fundings)
  <2>1. Rows' = Rows
    BY <1>1 DEF Rows, Hashes, Transfers, Withdrawals
  <2> HIDE DEF Rows
  <2> QED BY <1>1, <1>3, <2>1 DEF TypeInv, RowTypes
<1>7. marking = {}
  BY <1>2, Numbers
<1>8. Free(fundings', marking, a, cur) =
        Free(fundings, marking, a, cur) + IF r.to = a /\ r.cur = cur THEN r.amount ELSE 0
  <2>1. r \notin marking /\ fundings' = fundings \cup {r}
    BY <1>1, <1>3, <1>7
  <2>2. Free(fundings \cup {r}, marking, a, cur) =
          Free(fundings, marking, a, cur) + IF r.to = a /\ r.cur = cur THEN r.amount ELSE 0
    BY <1>4, <1>5, <1>6, <2>1, FreeAdd
  <2> QED BY <2>1, <2>2
<1>9. /\ Deposited(chain, {next} \X adding, a, cur) =
            Deposited(chain, {next} \X (adding \ {i}), a, cur) + DepositOf(chain, block[i], a, cur)
      /\ Deposited(chain, {next} \X (adding \ {i}), a, cur) \in Nat
      /\ Debit(chain, {next} \X DOMAIN block, a, cur) \in Nat
  <2>1. adding \in SUBSET DOMAIN block /\ adding \ {i} \in SUBSET DOMAIN block
    BY DEF TypeInv, PlaceTypes
  <2> QED BY <1>2, <2>1, PartSums
<1>10. DepositOf(chain, block[i], a, cur) = IF r.to = a /\ r.cur = cur THEN r.amount ELSE 0
  BY <1>4 DEF DepositOf, CreditOf, AddingInv
<1>11. r.amount \in Nat
  <2>1. i \in DOMAIN block
    BY DEF TypeInv, PlaceTypes
  <2> QED BY <1>4, <2>1, BlockFacts DEF IsParsed, IsTransfer
<1>12. WithinBut(chain, next, a, cur, Free(fundings, marking, a, cur), adding, DOMAIN block, 0)
  BY <1>2, Numbers DEF Balance, ToSubtract
<1>13. WithinBut(chain, next, a, cur, Free(fundings', marking, a, cur), adding \ {i}, DOMAIN block, 0)
  <2>1. /\ Free(fundings, marking, a, cur) \in Nat
        /\ Debit(chain, Upto(chain, next), a, cur) \in Nat
        /\ Credit(chain, Upto(chain, next), a, cur) \in Nat
        /\ Deposited(chain, Upto(chain, next), a, cur) \in Nat
    BY <1>2, Numbers
  <2>2. Free(fundings', marking, a, cur) + Deposited(chain, {next} \X (adding \ {i}), a, cur)
        = Free(fundings, marking, a, cur) + Deposited(chain, {next} \X adding, a, cur)
    BY <1>8, <1>9, <1>10, <1>11, <2>1
  <2>3. Free(fundings', marking, a, cur) \in Nat /\ Deposited(chain, {next} \X adding, a, cur) \in Nat
    BY <1>8, <1>9, <1>10, <1>11, <2>1
  <2> QED BY <1>9, <1>12, <2>1, <2>2, <2>3 DEF WithinBut
<1>14. ToSubtract' = DOMAIN block /\ Owed(ToSpend', a, cur) = 0
  BY <1>1, <1>2, Numbers DEF ToSpend, ToSubtract
<1> QED BY <1>1, <1>2, <1>13, <1>14 DEF Balance

\* The withdrawals to be processed are what the block takes.
LEMMA BalanceFilter ==
    ASSUME BaseInv, TypeInv, SeenInv, AddingInv, Accounts, FilterWithdrawals,
           NEW a \in Holders(chain), NEW cur \in Supported, Balance(a, cur)
    PROVE  Balance(a, cur)'
<1>1. /\ pc = "add" /\ pc' = "join" /\ adding = {}
      /\ UNCHANGED <<chain, next, block, fundings, marking, spends, adding>>
      /\ leaving' = {i \in DOMAIN block : IsWithdrawal(block[i])}
  BY DEF FilterWithdrawals, external
<1>2. PICK X : X = {i \in DOMAIN block : IsWithdrawal(block[i])}
  OBVIOUS
<1>3. a # None /\ X \in SUBSET DOMAIN block
  <2>1. a # None
    BY DEF Holders
  <2>2. X \in SUBSET DOMAIN block
    BY <1>2
  <2> QED BY <2>1, <2>2
<1>4. \A i \in DOMAIN block \ X : DebitOf(block[i], a, cur) = 0
  BY <1>1, <1>2, <1>3, WithdrawalsOfBlock DEF DebitOf
<1>5. Debit(chain, {next} \X DOMAIN block, a, cur) = Debit(chain, {next} \X X, a, cur)
  BY <1>1, <1>3, <1>4, RestSums
<1>6. Balance(a, cur) = WithinBut(chain, next, a, cur, Free(fundings, marking, a, cur), adding,
                                DOMAIN block, Owed(ToSpend, a, cur))
  BY <1>1 DEF Balance, ToSubtract
<1>7. WithinBut(chain, next, a, cur, Free(fundings, marking, a, cur), adding, X, Owed(ToSpend, a, cur))
  BY <1>5, <1>6 DEF WithinBut
<1>8. ToSubtract' = X /\ ToSpend' = ToSpend
  BY <1>1, <1>2 DEF ToSpend, ToSubtract
<1> QED BY <1>1, <1>7, <1>8 DEF Balance

\* A withdrawal to be subtracted becomes spendings.
LEMMA BalanceProcess ==
    ASSUME BaseInv, TypeInv, AddingInv, Accounts, ProcessWithdrawal,
           NEW a \in Holders(chain), NEW cur \in Supported, Balance(a, cur)
    PROVE  Balance(a, cur)'
<1>1. PICK i \in leaving :
        /\ pc = "spend" /\ marking = {} /\ spends = <<>>
        /\ spends' = SpendsOf(block[i]) /\ leaving' = leaving \ {i}
        /\ UNCHANGED <<chain, next, pc, block, fundings, marking, adding>>
  BY DEF ProcessWithdrawal, external
<1>2. leaving \in SUBSET DOMAIN block /\ leaving \ {i} \in SUBSET DOMAIN block
      /\ adding \in SUBSET DOMAIN block /\ i \in DOMAIN block
  BY DEF TypeInv, PlaceTypes
<1>3. /\ Debit(chain, {next} \X leaving, a, cur) =
            Debit(chain, {next} \X (leaving \ {i}), a, cur) + DebitOf(block[i], a, cur)
      /\ Debit(chain, {next} \X (leaving \ {i}), a, cur) \in Nat
      /\ Deposited(chain, {next} \X adding, a, cur) \in Nat
  BY <1>1, <1>2, PartSums
<1>4. Owed(spends', a, cur) = DebitOf(block[i], a, cur)
  BY <1>1, <1>2, NoInputs, BlockFacts, SpendingsOwe DEF Accounts, IsParsed
<1>5. DebitOf(block[i], a, cur) \in Nat
  BY <1>2, BlockFacts DEF DebitOf, IsParsed, IsTransfer
<1>6. Owed(ToSpend, a, cur) = 0 /\ ToSpend' = spends'
  BY <1>1, Numbers DEF ToSpend
<1>7. WithinBut(chain, next, a, cur, Free(fundings, marking, a, cur), adding, leaving, 0)
  BY <1>1, <1>6 DEF Balance, ToSubtract
<1>8. WithinBut(chain, next, a, cur, Free(fundings, marking, a, cur), adding, leaving \ {i},
              Owed(spends', a, cur))
  BY <1>1, <1>3, <1>4, <1>5, <1>7, Numbers DEF WithinBut
<1> QED BY <1>1, <1>6, <1>8 DEF Balance, ToSubtract

\* The change of a spending is what it leaves: nobody sends what he does not have.
LEMMA BalanceChange ==
    ASSUME BaseInv, TypeInv, TypeInv', AddingInv, Accounts, AddChange, ~Catch,
           NEW a \in Holders(chain), NEW cur \in Supported, Balance(a, cur)
    PROVE  Balance(a, cur)'
<1>1. PICK s, rows : s = Head(spends) /\ rows = Unspent(fundings, s.from, s.cur)
  OBVIOUS
<1>2. PICK change : change = Change(s, Total(rows) - s.amount)
  OBVIOUS
<1>3. /\ pc = "spend" /\ marking = {} /\ spends # <<>>
      /\ UNCHANGED <<chain, next, pc, block, adding, leaving>>
      /\ ~(HasChange(change.amount) /\ Clash(change, fundings))
      /\ fundings' = IF HasChange(change.amount) THEN fundings \cup {change} ELSE fundings
      /\ marking' = rows
      /\ spends' = IF rows = {} THEN Tail(spends) ELSE spends
  BY <1>1, <1>2 DEF AddChange, external
<1>4. /\ change.to = s.from /\ change.cur = s.cur /\ change.spent = None
      /\ change.amount = Total(rows) - s.amount
  BY <1>2 DEF Change
<1>5. /\ s \in Spendings /\ s.amount \in Nat /\ Owed(spends, a, cur) \in Nat
      /\ Owed(Tail(spends), a, cur) \in Nat
      /\ Owed(spends, a, cur) =
           (IF s.from = a /\ s.cur = cur THEN s.amount ELSE 0) + Owed(Tail(spends), a, cur)
  <2>1. spends \in Seq(Spendings) /\ Len(spends) <= 2
    BY Numbers DEF AddingInv
  <2>2. \A q \in Spendings : q.amount \in Nat
    BY NoInputs
  <2> HIDE DEF Spendings
  <2> QED BY <1>1, <1>3, <2>1, <2>2, OwedRest
<1>6. ToSpend = spends /\ ToSpend' = Tail(spends)
  BY <1>3 DEF ToSpend
<1>7. fundings \subseteq Rows /\ IsFiniteSet(fundings) /\ rows \subseteq fundings
  BY <1>1 DEF TypeInv, RowTypes, Unspent
<1>8. HasChange(change.amount) => change \in Rows /\ change \notin fundings
  <2>1. Rows' = Rows
    BY <1>3 DEF Rows, Hashes, Transfers, Withdrawals
  <2> HIDE DEF Rows
  <2> QED BY <1>3, <2>1 DEF TypeInv, RowTypes, Clash
<1>9. Free(fundings', rows, a, cur) = Free(fundings, rows, a, cur)
        + IF HasChange(change.amount) /\ s.from = a /\ s.cur = cur THEN change.amount ELSE 0
  <2>1. CASE HasChange(change.amount)
    <3>1. change \notin rows /\ fundings' = fundings \cup {change}
      BY <1>3, <1>7, <1>8, <2>1
    <3>2. Free(fundings \cup {change}, rows, a, cur) = Free(fundings, rows, a, cur)
            + IF change.to = a /\ change.cur = cur THEN change.amount ELSE 0
      <4>1. PICK r : r = change
        OBVIOUS
      <4>2. r \in Rows /\ r \notin fundings /\ r.spent = None /\ r \notin rows
        BY <1>4, <1>8, <2>1, <3>1, <4>1
      <4>3. fundings \subseteq Rows /\ IsFiniteSet(fundings)
        BY <1>7
      <4> HIDE DEF Rows
      <4>4. Free(fundings \cup {r}, rows, a, cur) = Free(fundings, rows, a, cur)
              + IF r.to = a /\ r.cur = cur THEN r.amount ELSE 0
        BY <4>2, <4>3, FreeAdd
      <4> QED BY <4>1, <4>4
    <3> QED BY <1>4, <2>1, <3>1, <3>2
  <2>2. CASE ~HasChange(change.amount)
    BY <1>3, <2>2, FreeIsNat
  <2> QED BY <2>1, <2>2
<1>10. pc # "idle" /\ adding = {} /\ adding \in SUBSET DOMAIN block /\ leaving \in SUBSET DOMAIN block
  BY <1>3 DEF TypeInv, PlaceTypes
<1>11. /\ Deposited(chain, {next} \X adding, a, cur) = 0
       /\ Debit(chain, {next} \X leaving, a, cur) \in Nat
  BY <1>10, PartSums
<1>12. WithinBut(chain, next, a, cur, Free(fundings, {}, a, cur), adding, leaving, Owed(spends, a, cur))
  BY <1>3, <1>6 DEF Balance, ToSubtract
<1>13. WithinBut(chain, next, a, cur, Free(fundings', rows, a, cur), adding, leaving,
               Owed(Tail(spends), a, cur))
  <2>1. CASE s.from = a /\ s.cur = cur
    <3>1. Free(fundings, rows, a, cur) = 0 /\ Free(fundings, {}, a, cur) = Total(rows)
      <4>1. Unspent(fundings, a, cur) \ rows = {} /\ Unspent(fundings, a, cur) \ {} = rows
        BY <1>1, <2>1
      <4>2. Total({}) = 0
        BY SumOfNothing DEF Total
      <4> QED BY <4>1, <4>2 DEF Free
    <3>2. Total(rows) \in Nat
      BY <3>1, FreeIsNat
    <3>3. AllOk(chain, next, a) =>
            Debit(chain, Upto(chain, next), a, cur) <= Credit(chain, Upto(chain, next), a, cur)
      <4>1. next \in DOMAIN chain.blocks /\ chain \in Chains
        BY <1>10, BlockPlaces, BlocksOfChain DEF BaseInv, PositionInv
      <4> QED BY <4>1 DEF Accounts, Covered
    <3>4. PICK free : free = Free(fundings', rows, a, cur)
      OBVIOUS
    <3>5. \/ free = Total(rows) - s.amount
          \/ free = 0 /\ Total(rows) <= s.amount
      <4> HIDE DEF Spendings
      <4>1. HasChange(change.amount) <=> Total(rows) - s.amount > 0
        BY <1>4 DEF HasChange
      <4>2. free = IF HasChange(change.amount) THEN Total(rows) - s.amount ELSE 0
        BY <1>4, <1>5, <1>9, <2>1, <3>1, <3>2, <3>4
      <4> QED BY <1>5, <3>2, <4>1, <4>2
    <3>6. Owed(spends, a, cur) = s.amount + Owed(Tail(spends), a, cur)
      BY <1>5, <2>1
    <3>7. PICK C, P, D, X, O, n : /\ C = Credit(chain, Upto(chain, next), a, cur)
                                  /\ P = Deposited(chain, Upto(chain, next), a, cur)
                                  /\ D = Debit(chain, Upto(chain, next), a, cur)
                                  /\ X = Debit(chain, {next} \X leaving, a, cur)
                                  /\ O = Owed(Tail(spends), a, cur) /\ n = Total(rows)
      OBVIOUS
    <3>8. /\ C \in Nat /\ P \in Nat /\ D \in Nat /\ X \in Nat /\ O \in Nat /\ n \in Nat
          /\ s.amount \in Nat
      BY <1>5, <1>10, <1>11, <3>2, <3>7, Numbers
    <3>9. AllOk(chain, next, a) => P <= n + D + 0 - X - (s.amount + O) /\ n + D + 0 - X - (s.amount + O) <= C
      BY <1>11, <1>12, <3>1, <3>6, <3>7 DEF WithinBut
    <3>10. AllOk(chain, next, a) => P <= free + D + 0 - X - O /\ free + D + 0 - X - O <= C
      <4>1. AllOk(chain, next, a) => D <= C
        BY <3>3, <3>7
      <4> HIDE DEF Spendings
      <4> QED BY <3>5, <3>7, <3>8, <3>9, <4>1
    <3> QED BY <1>11, <3>4, <3>7, <3>10 DEF WithinBut
  <2>2. CASE ~(s.from = a /\ s.cur = cur)
    <3>1. Free(fundings, rows, a, cur) = Free(fundings, {}, a, cur)
      <4>1. Unspent(fundings, a, cur) \ rows = Unspent(fundings, a, cur) \ {}
        BY <1>1, <2>2 DEF Unspent
      <4> QED BY <4>1 DEF Free
    <3>2. Free(fundings', rows, a, cur) = Free(fundings, {}, a, cur)
      BY <1>9, <2>2, <3>1, FreeIsNat
    <3> QED BY <1>5, <1>12, <2>2, <3>2 DEF WithinBut
  <2> QED BY <2>1, <2>2
<1> QED BY <1>3, <1>6, <1>13 DEF Balance, ToSubtract

\* A row is marked that was counted as spent already.
LEMMA BalanceMark ==
    ASSUME BaseInv, TypeInv, Accounts, MarkRow,
           NEW a \in Holders(chain), NEW cur \in Supported, Balance(a, cur)
    PROVE  Balance(a, cur)'
<1>1. PICK hash : hash = Head(spends).hash
  OBVIOUS
<1>2. PICK r \in marking :
        /\ fundings' = MarkSpent(fundings, {r}, hash) /\ marking' = marking \ {r}
        /\ spends' = IF marking = {r} THEN Tail(spends) ELSE spends
  BY <1>1 DEF MarkRow
<1>3. pc = "spend" /\ UNCHANGED <<chain, next, pc, block, adding, leaving>>
  BY DEF MarkRow, external
<1>4. hash # None
  <2>1. spends \in Seq(Spendings) /\ spends # <<>>
    BY <1>2 DEF TypeInv, RowTypes
  <2>2. \A s \in Spendings : s.hash # None
    BY NoInputs
  <2> HIDE DEF Spendings
  <2> QED BY <1>1, <2>1, <2>2
<1>5. Free(MarkSpent(fundings, {r}, hash), marking \ {r}, a, cur) = Free(fundings, marking, a, cur)
  <2>1. fundings \subseteq Rows /\ marking \subseteq fundings
    BY DEF TypeInv, RowTypes
  <2> QED BY <1>4, <2>1, FreeMark
<1>6. Free(fundings', marking', a, cur) = Free(fundings, marking, a, cur)
  BY <1>2, <1>5
<1>7. ToSpend' = ToSpend
  BY <1>2 DEF ToSpend
<1> QED BY <1>3, <1>6, <1>7 DEF Balance, ToSubtract

LEMMA BalanceStep ==
    ASSUME BaseInv, TypeInv, TypeInv', RecordedInv, SeenInv, AddingInv, BalanceInv, Accounts, Quiet,
           [Next]_vars, ~Swallow, ~Catch, ~Crash, ~DatabaseError
    PROVE  BalanceInv'
<1> USE DEF external, locals, bounds
<1>1. chain' = chain
  BY ChainKept
<1> SUFFICES ASSUME NEW a \in Holders(chain), NEW cur \in Supported
             PROVE  Balance(a, cur)'
  BY <1>1 DEF BalanceInv
<1>2. Balance(a, cur)
  BY DEF BalanceInv
<1>3. CASE /\ UNCHANGED <<next, fundings, marking, spends, adding, leaving, block>>
           /\ \/ pc' = pc
              \/ pc \in {"join", "spend"} /\ pc' \in {"spend", "emit"}
              \/ pc = "idle" /\ pc' = "build"
  <2>1. ToSpend' = ToSpend
    BY <1>3 DEF ToSpend
  <2> QED BY <1>1, <1>2, <1>3, <2>1 DEF Balance, ToSubtract
<1>4. CASE PopBlock
  <2>1. pc = "idle" /\ pc' = "build" /\ UNCHANGED <<next, fundings, marking>>
    BY <1>4 DEF PopBlock
  <2> QED BY <1>1, <1>2, <2>1 DEF Balance
<1>5. CASE SpendOutput
  <2>1. spends \in Seq(Spendings) /\ spends # <<>> /\ Head(spends).kind = "output"
    BY <1>5, Numbers DEF SpendOutput
  <2>2. \A s \in Spendings : s.kind # "output"
    BY NoInputs
  <2> HIDE DEF Spendings
  <2> QED BY <2>1, <2>2
<1>6. CASE EmitBlock \/ Poll
  <2>1. /\ UNCHANGED fundings /\ pc' = "idle"
        /\ \/ pc = "emit" /\ next' = next + 1 /\ marking' = {}
           \/ pc = "idle" /\ next' = synced + 1 /\ marking' = marking
    BY <1>6 DEF EmitBlock, Poll, Forget
  <2>2. next \in Nat
    BY DEF BaseInv, PositionInv
  <2>3. CASE pc = "emit"
    <3>1. adding = {} /\ leaving = {} /\ marking = {} /\ Owed(ToSpend, a, cur) = 0
      BY <2>3, Numbers DEF TypeInv, PlaceTypes
    <3>2. /\ Deposited(chain, {next} \X {}, a, cur) = 0 /\ Debit(chain, {next} \X {}, a, cur) = 0
      BY <2>3, PartSums
    <3>3. WithinBut(chain, next, a, cur, Free(fundings, {}, a, cur), {}, {}, 0)
      BY <1>2, <2>3, <3>1 DEF Balance, ToSubtract
    <3>4. Free(fundings, {}, a, cur) \in Nat
      BY FreeIsNat
    <3>5. Within(chain, next, a, cur, Free(fundings, {}, a, cur))
      BY <2>3, <3>2, <3>3, <3>4, Numbers DEF Within, WithinBut
    <3>6. next' - 1 = next /\ marking' = {}
      BY <2>1, <2>2, <2>3
    <3> QED BY <1>1, <2>1, <3>5, <3>6 DEF Balance
  <2>4. CASE pc = "idle"
    <3>1. next' = next /\ marking' = marking
      BY <2>1, <2>2, <2>4, QuietPosition
    <3> QED BY <1>1, <1>2, <2>1, <2>4, <3>1 DEF Balance
  <2> QED BY <2>1, <2>3, <2>4
<1>7. CASE Environment \/ FetchBlock \/ JoinWithdrawals \/ UpdateStatus \/ SyncHeight \/ UNCHANGED vars
  BY <1>3, <1>7
  DEF Environment, Broadcast, RecordPayout, RecordDistribution, FetchBlock, JoinWithdrawals,
      UpdateStatus, SyncHeight, vars
<1> QED
  BY <1>2, <1>4, <1>5, <1>6, <1>7, BalanceBuild, BalanceAdd, BalanceFilter, BalanceProcess,
     BalanceChange, BalanceMark
  DEF Next, ProcessBlock

LEMMA BalanceInit == Init => SeenInv /\ AddingInv /\ BalanceInv
<1> SUFFICES ASSUME Init PROVE SeenInv /\ AddingInv /\ BalanceInv
  OBVIOUS
<1>1. /\ fundings = {} /\ marking = {} /\ spends = <<>> /\ adding = {} /\ next = 1 /\ pc = "idle"
      /\ \A w \in Withdrawals : payouts[w].status # "success"
  BY DEF Init
<1>2. Len(<<>>) = 0 /\ DOMAIN <<>> = {}
  OBVIOUS
<1>3. SeenInv /\ AddingInv
  BY <1>1, <1>2 DEF SeenInv, AddingInv
<1>4. ASSUME NEW a, NEW cur PROVE Balance(a, cur)
  <2>1. Free({}, {}, a, cur) = 0
    <3>1. Unspent({}, a, cur) \ {} = {} /\ Total({}) = 0
      BY SumOfNothing DEF Unspent, Total
    <3> QED BY <3>1 DEF Free
  <2>2. Upto(chain, 0) = {}
    BY DEF Upto
  <2>3. /\ Deposited(chain, {}, a, cur) = 0 /\ Debit(chain, {}, a, cur) = 0
        /\ Credit(chain, {}, a, cur) \in Nat
    <3>1. chain \in Chains /\ {} \in Places
      BY DEF Init, Places
    <3> QED BY <3>1, NothingMoved, PlacesAmounts
  <2>4. Within(chain, 0, a, cur, Free({}, {}, a, cur))
    BY <2>1, <2>2, <2>3 DEF Within
  <2>5. next - 1 = 0
    BY <1>1
  <2> QED BY <1>1, <2>4, <2>5 DEF Balance
<1> QED BY <1>3, <1>4 DEF BalanceInv

\* On every chain of an account currency where nobody sends what he does not have, top-ups
\* counted, the fundings left of each address are between its deposits and all that it
\* received, minus what it sent and paid.
THEOREM LedgerHolds == ASSUME Accounts PROVE Spec => []Ledger
<1>1. Init => LedgerInv
  BY BalanceInit DEF LedgerInv, Init
<1>2. /\ BaseInv /\ TypeInv /\ RecordedInv /\ LedgerInv /\ [Next]_vars /\ (BaseInv /\ TypeInv)'
      => LedgerInv'
  <2> SUFFICES ASSUME BaseInv, TypeInv, RecordedInv, LedgerInv, [Next]_vars, BaseInv', TypeInv'
               PROVE  LedgerInv'
    OBVIOUS
  <2>1. crashes' \in Nat /\ (Quiet' => Quiet /\ ~Swallow /\ ~Catch /\ ~Crash /\ ~DatabaseError)
    BY QuietStep DEF LedgerInv
  <2>2. ASSUME Quiet' PROVE SeenInv' /\ AddingInv' /\ BalanceInv'
    <3>1. SeenInv /\ AddingInv /\ BalanceInv /\ Quiet /\ ~Swallow /\ ~Catch /\ ~Crash /\ ~DatabaseError
      BY <2>1, <2>2 DEF LedgerInv
    <3>2. next' \in Nat
      BY DEF BaseInv, PositionInv
    <3> QED BY <3>1, <3>2, SeenStep, AddingStep, BalanceStep
  <2> QED BY <2>1, <2>2 DEF LedgerInv
<1>3. BaseInv /\ TypeInv /\ LedgerInv => Ledger
  <2> SUFFICES ASSUME BaseInv, TypeInv, LedgerInv, pc = "idle", next = synced + 1, Quiet,
                      NEW a \in Holders(chain), NEW cur \in Supported, AllOk(chain, synced, a)
               PROVE  /\ Deposited(chain, Upto(chain, synced), a, cur)
                           <= Total(Unspent(fundings, a, cur)) + Debit(chain, Upto(chain, synced), a, cur)
                      /\ Total(Unspent(fundings, a, cur)) + Debit(chain, Upto(chain, synced), a, cur)
                           <= Credit(chain, Upto(chain, synced), a, cur)
    BY DEF Ledger, Quiet
  <2>1. marking = {} /\ synced \in Nat /\ synced <= Len(chain.blocks) /\ chain \in Chains
    BY DEF TypeInv, RowTypes, BaseInv, PositionInv
  <2>2. Within(chain, next - 1, a, cur, Free(fundings, {}, a, cur)) /\ next - 1 = synced
    BY <2>1 DEF LedgerInv, BalanceInv, Balance
  <2>3. Free(fundings, {}, a, cur) = Total(Unspent(fundings, a, cur))
    <3>1. Unspent(fundings, a, cur) \ {} = Unspent(fundings, a, cur)
      OBVIOUS
    <3> QED BY <3>1 DEF Free
  <2> QED BY <2>2, <2>3 DEF Within
<1> QED BY <1>1, <1>2, <1>3, TypesAlways, RecordedAlways, PTL DEF Spec

----------------------------------------------------------------------------
(* The outputs of a UTXO currency *)

\* What the marking of outputs rests on: a chain has no inputs, or its outputs are apart and
\* no block is left behind, or no block is left out because its withdrawal was settled.
Outputs ==
    \A c \in Chains : InputFree(c) \/ (OutputsApart(c) /\ (MaxErrors = 0 \/ NoPayouts(c)))

Claims(t, r) == [hash |-> r.hash, idx |-> r.idx] \in ToSet(t.inputs)
PaidFor(hash) == \E w \in Withdrawals : payouts[w].status = "success" /\ payouts[w].hash = hash
Everywhere == Upto(chain, Len(chain.blocks))

\* Each row is an output of the chain that one of our addresses has received.
OriginInv ==
    \A r \in fundings : /\ r.type = "funding" /\ r.to # None
                        /\ \E p \in Everywhere : /\ r.hash = At(chain, p).hash
                                                 /\ r.idx = At(chain, p).idx
                                                 /\ r.cur = At(chain, p).cur

\* A deposit of the block is recorded or about to be, not both.
DueInv ==
    /\ \A i \in adding : \A r \in fundings : ~(r.hash = block[i].hash /\ r.idx = block[i].idx)
    /\ pc = "add" => \A i \in DOMAIN block \ adding : ~IsDeposit(block[i])
    /\ pc \in {"join", "spend", "emit"} => \A i \in DOMAIN block : ~IsDeposit(block[i])

\* The outputs named by the withdrawals that were processed are spent or about to be.
MarkedInv ==
    pc \in {"join", "spend", "emit"} =>
        \A i \in DOMAIN block \ leaving : \A r \in fundings :
            block[i].hash \notin blind /\ Claims(block[i], r) =>
                \/ r.spent = block[i].hash
                \/ \E k \in DOMAIN spends :
                      /\ spends[k].output = [hash |-> r.hash, idx |-> r.idx]
                      /\ spends[k].hash = block[i].hash /\ spends[k].cur = r.cur

PastInv ==
    \A h \in (1 .. synced) \ swallowed : \A t \in TransfersOf(chain.blocks[h]) : \A r \in fundings :
        t.hash \notin blind /\ Claims(t, r) => r.spent = t.hash

\* A settled withdrawal is of a block that has spent its outputs and has no deposit to add.
PaidInv ==
    \A p \in Everywhere :
        At(chain, p).inputs # <<>> /\ PaidFor(At(chain, p).hash) =>
            /\ p[1] <= next /\ (adding # {} => p[1] # next)
            /\ \A u \in TransfersOf(chain.blocks[p[1]]) : ~IsDeposit(u)
            /\ At(chain, p).hash \notin blind =>
                  \A r \in fundings : Claims(At(chain, p), r) => r.spent = At(chain, p).hash

OutInv ==
    /\ errors \in Nat
    /\ ~InputFree(chain) =>
          /\ OriginInv /\ DueInv /\ MarkedInv /\ PastInv
          /\ MaxErrors = 0 => swallowed = {} /\ PaidInv

\* Where a transfer is.
LEMMA TransferAt ==
    ASSUME chain \in Chains, NEW h \in DOMAIN chain.blocks
    PROVE  /\ \A i \in DOMAIN chain.blocks[h] :
                 /\ <<h, i>> \in Everywhere /\ At(chain, <<h, i>>) = chain.blocks[h][i]
                 /\ <<h, i>>[1] = h
           /\ \A t \in TransfersOf(chain.blocks[h]) :
                 \E i \in DOMAIN chain.blocks[h] : t = chain.blocks[h][i]
<1>1. h \in 1 .. Len(chain.blocks)
  BY BlocksOfChain
<1>2. \A i \in DOMAIN chain.blocks[h] : <<h, i>> \in Everywhere
  BY <1>1 DEF Everywhere, Upto
<1>3. \A t \in TransfersOf(chain.blocks[h]) : \E i \in DOMAIN chain.blocks[h] : t = chain.blocks[h][i]
  BY DEF TransfersOf, ToSet
<1> QED BY <1>2, <1>3 DEF At

LEMMA PlaceOf ==
    ASSUME chain \in Chains, NEW t \in Transfers
    PROVE  \E p \in Everywhere : At(chain, p) = t
<1>1. PICK h \in DOMAIN chain.blocks : t \in TransfersOf(chain.blocks[h])
  BY DEF Transfers
<1>2. PICK i \in DOMAIN chain.blocks[h] : t = chain.blocks[h][i]
  BY <1>1, TransferAt
<1> QED BY <1>2, TransferAt

\* A transfer of the block under way.
LEMMA BlockAt ==
    ASSUME BaseInv, NEW i \in DOMAIN block
    PROVE  /\ <<next, i>> \in Everywhere /\ <<next, i>>[1] = next
           /\ Alike(block[i], At(chain, <<next, i>>)) /\ block[i].hash # None
           /\ block[i].inputs # <<>> \/ block[i].hash \notin blind =>
                 block[i].inputs = At(chain, <<next, i>>).inputs
<1>1. /\ next \in DOMAIN chain.blocks /\ i \in DOMAIN chain.blocks[next]
      /\ IsParsed(block[i], chain.blocks[next][i], blind) /\ chain \in Chains
  BY BlockFacts DEF BaseInv, PositionInv
<1>2. /\ <<next, i>> \in Everywhere /\ At(chain, <<next, i>>) = chain.blocks[next][i]
  BY <1>1, TransferAt
<1> QED BY <1>1, <1>2 DEF IsParsed, Alike, IsTransfer

\* Nothing is spent virtually.
LEMMA OnlyOutputs ==
    ASSUME BaseInv, TypeInv, OutputsApart(chain)
    PROVE  /\ \A t \in Transfers : t.from = None
           /\ spends \in Seq(Spendings)
           /\ spends # <<>> => Head(spends).kind = "output"
           /\ marking = {} /\ ~AddChange /\ ~MarkRow /\ ~PayingFee
<1>1. chain \in Chains
  BY DEF BaseInv, PositionInv
<1>2. \A t \in Transfers : t.from = None
  BY <1>1, PlaceOf DEF OutputsApart, Everywhere
<1>3. \A s \in Spendings : s.kind = "output"
  BY <1>2 DEF Spendings, VirtualsOf, OutputsOf, Output
<1>4. spends \in Seq(Spendings)
  BY DEF TypeInv, RowTypes
<1>5. spends # <<>> => Head(spends).kind = "output"
  <2> HIDE DEF Spendings
  <2> QED BY <1>3, <1>4
<1>6. marking = {}
  BY <1>5 DEF TypeInv, RowTypes
<1> QED BY <1>2, <1>4, <1>5, <1>6 DEF AddChange, MarkRow, PayingFee

\* A row of the new state is one of the old, or one that has just been spent, or new.
LEMMA RowsStep ==
    ASSUME BaseInv, TypeInv, OutputsApart(chain), [Next]_vars
    PROVE  \A r \in fundings' :
              \/ r \in fundings
              \/ /\ SpendOutput
                 /\ \E q \in OutputRows(Head(spends)) :
                       /\ r.hash = q.hash /\ r.idx = q.idx /\ r.cur = q.cur /\ r.to = q.to
                       /\ r.type = q.type /\ r.spent = Head(spends).hash
              \/ /\ AddFunding
                 /\ \E i \in adding : /\ r = Deposit(block[i]) /\ r \notin fundings
                                      /\ adding' = adding \ {i}
<1> USE DEF external, locals, bounds
<1>1. CASE AddFunding
  BY <1>1 DEF AddFunding
<1>2. CASE SpendOutput
  <2>1. PICK which, hash : which = OutputRows(Head(spends)) /\ hash = Head(spends).hash
    OBVIOUS
  <2>2. fundings' = MarkSpent(fundings, which, hash) /\ spends # <<>> /\ Head(spends).kind = "output"
    BY <1>2, <2>1 DEF SpendOutput
  <2>3. fundings \subseteq Rows /\ IsFiniteSet(fundings) /\ which \subseteq fundings
    BY <2>1 DEF TypeInv, RowTypes, OutputRows
  <2>4. hash \in Hashes
    <3>1. spends \in Seq(Spendings) /\ chain \in Chains
      BY OnlyOutputs DEF BaseInv, PositionInv
    <3>2. Head(spends) \in Spendings
      <4> HIDE DEF Spendings
      <4> QED BY <2>2, <3>1
    <3> QED BY <2>1, <3>1, <3>2, SpendingFacts
  <2>5. \A r \in fundings' :
           \/ r \in fundings
           \/ \E q \in which : /\ r.hash = q.hash /\ r.idx = q.idx /\ r.to = q.to
                               /\ r.cur = q.cur /\ r.type = q.type /\ r.spent = hash
    BY <2>2, <2>3, <2>4, MarkingTypes
  <2> QED BY <1>2, <2>1, <2>5
<1>3. CASE UNCHANGED fundings
  BY <1>3
<1> QED
  BY <1>1, <1>2, <1>3, OnlyOutputs
  DEF Next, Environment, ProcessBlock, Broadcast, RecordPayout, RecordDistribution, FetchBlock,
      PopBlock, BuildFundings, FilterWithdrawals, JoinWithdrawals, ProcessWithdrawal, UpdateStatus,
      SyncHeight, EmitBlock, Poll, DatabaseError, Crash, vars

\* What is recorded stays recorded.
LEMMA DepositsSettle ==
    ASSUME BaseInv, TypeInv, OutputsApart(chain), [Next]_vars
    PROVE  \A u : IsDeposit(u)' => IsDeposit(u)
<1> USE DEF external, locals, bounds
<1>1. distributions \subseteq distributions'
  BY DEF Next, Environment, ProcessBlock, Broadcast, RecordPayout, RecordDistribution, FetchBlock,
      PopBlock, BuildFundings, AddFunding, FilterWithdrawals, JoinWithdrawals, ProcessWithdrawal,
      SpendOutput, AddChange, MarkRow, UpdateStatus, SyncHeight, EmitBlock, Poll, DatabaseError,
      Crash, vars
<1>2. \A r \in fundings : \E q \in fundings' : q.hash = r.hash /\ q.idx = r.idx /\ q.type = r.type
  <2>1. CASE SpendOutput
    <3>1. PICK which, hash : which = OutputRows(Head(spends)) /\ hash = Head(spends).hash
      OBVIOUS
    <3>2. \A r \in fundings \cup which : IsRow(r)
      BY <3>1 DEF TypeInv, RowTypes, Rows, IsRow, OutputRows
    <3>3. fundings' = MarkSpent(fundings, which, hash)
      BY <2>1, <3>1 DEF SpendOutput
    <3> QED BY <3>2, <3>3, MarkingKeeps
  <2>2. CASE fundings \subseteq fundings'
    BY <2>2
  <2> QED
    BY <2>1, <2>2, OnlyOutputs
    DEF Next, Environment, ProcessBlock, Broadcast, RecordPayout, RecordDistribution, FetchBlock,
        PopBlock, BuildFundings, AddFunding, FilterWithdrawals, JoinWithdrawals, ProcessWithdrawal,
        UpdateStatus, SyncHeight, EmitBlock, Poll, DatabaseError, Crash, vars
<1>3. \A hash, idx : FundingExists(hash, idx) => FundingExists(hash, idx)'
  BY <1>2 DEF FundingExists
<1> QED BY <1>1, <1>3 DEF IsDeposit, MinerStatus

LEMMA OriginStep ==
    ASSUME BaseInv, TypeInv, OutputsApart(chain), OriginInv, [Next]_vars
    PROVE  OriginInv'
<1>1. chain' = chain /\ Everywhere' = Everywhere
  BY ChainKept DEF Everywhere
<1> SUFFICES ASSUME NEW r \in fundings'
             PROVE  /\ r.type = "funding" /\ r.to # None
                    /\ \E p \in Everywhere : /\ r.hash = At(chain, p).hash
                                             /\ r.idx = At(chain, p).idx
                                             /\ r.cur = At(chain, p).cur
  BY <1>1 DEF OriginInv
<1>2. CASE r \in fundings
  BY <1>2 DEF OriginInv
<1>3. CASE SpendOutput /\ \E q \in OutputRows(Head(spends)) :
              /\ r.hash = q.hash /\ r.idx = q.idx /\ r.cur = q.cur /\ r.to = q.to
              /\ r.type = q.type /\ r.spent = Head(spends).hash
  <2>1. PICK q \in fundings : /\ r.hash = q.hash /\ r.idx = q.idx /\ r.cur = q.cur /\ r.to = q.to
                              /\ r.type = q.type
    BY <1>3 DEF OutputRows
  <2> QED BY <2>1 DEF OriginInv
<1>4. CASE \E i \in adding : r = Deposit(block[i])
  <2>1. PICK i \in adding : r = Deposit(block[i])
    BY <1>4
  <2>2. i \in DOMAIN block /\ block[i].to # None
    BY DEF TypeInv, PlaceTypes
  <2>3. /\ r.type = "funding" /\ r.to = block[i].to /\ r.hash = block[i].hash
        /\ r.idx = block[i].idx /\ r.cur = block[i].cur
    BY <2>1 DEF Deposit
  <2> QED BY <2>2, <2>3, BlockAt DEF Alike
<1> QED BY <1>2, <1>3, <1>4, RowsStep

\* Two transfers of the block that are the same output are one.
LEMMA OutputsOfBlock ==
    ASSUME BaseInv, OutputsApart(chain), NEW i \in DOMAIN block, NEW j \in DOMAIN block,
           block[i].hash = block[j].hash, block[i].idx = block[j].idx
    PROVE  i = j
<1>1. PICK p \in Everywhere : p = <<next, i>> /\ Alike(block[i], At(chain, p))
  BY BlockAt
<1>2. PICK q \in Everywhere : q = <<next, j>> /\ Alike(block[j], At(chain, q))
  BY BlockAt
<1>3. At(chain, p).hash = At(chain, q).hash /\ At(chain, p).idx = At(chain, q).idx
  BY <1>1, <1>2 DEF Alike
<1>4. p = q
  BY <1>3 DEF OutputsApart, Everywhere
<1> QED BY <1>1, <1>2, <1>4

LEMMA DueStep ==
    ASSUME BaseInv, TypeInv, OutputsApart(chain), OriginInv, DueInv, [Next]_vars
    PROVE  DueInv'
<1> USE DEF external, locals, bounds
<1>1. CASE BuildFundings
  <2>1. /\ pc' = "add" /\ UNCHANGED <<block, fundings, distributions>>
        /\ adding' = {i \in DOMAIN block : IsDeposit(block[i])}
    BY <1>1 DEF BuildFundings
  <2>2. \A i \in adding' : \A r \in fundings' : ~(r.hash = block'[i].hash /\ r.idx = block'[i].idx)
    BY <2>1 DEF IsDeposit, FundingExists, OriginInv
  <2>3. \A i \in DOMAIN block' \ adding' : ~IsDeposit(block[i])'
    BY <2>1, DepositsSettle
  <2> QED BY <2>1, <2>2, <2>3 DEF DueInv
<1>2. CASE AddFunding /\ ~Swallow
  <2>1. PICK i \in adding : /\ fundings' = fundings \cup {Deposit(block[i])}
                            /\ adding' = adding \ {i} /\ UNCHANGED <<pc, block>>
    BY <1>2 DEF AddFunding
  <2>2. PICK r : r = Deposit(block[i])
    OBVIOUS
  <2>3. r.hash = block[i].hash /\ r.idx = block[i].idx /\ r.type = "funding" /\ pc = "add"
    BY <1>2, <2>2 DEF Deposit, AddFunding
  <2>4. adding \subseteq DOMAIN block
    BY DEF TypeInv, PlaceTypes
  <2>5. ASSUME NEW j \in adding', NEW q \in fundings',
               q.hash = block[j].hash, q.idx = block[j].idx
        PROVE  FALSE
    <3>1. j \in adding /\ j # i /\ i \in DOMAIN block /\ j \in DOMAIN block
      BY <2>1, <2>4, <2>5
    <3>2. CASE q \in fundings
      BY <2>5, <3>1, <3>2 DEF DueInv
    <3>3. CASE q = r
      BY <2>3, <2>5, <3>1, <3>3, OutputsOfBlock
    <3> QED BY <2>1, <2>2, <3>2, <3>3
  <2>6. ASSUME NEW j \in DOMAIN block \ adding' PROVE ~IsDeposit(block[j])'
    <3>1. CASE j = i
      <4>1. FundingExists(block[j].hash, block[j].idx)'
        BY <2>1, <2>2, <2>3, <3>1 DEF FundingExists
      <4> QED BY <2>1, <4>1 DEF IsDeposit
    <3>2. CASE j # i
      <4>1. ~IsDeposit(block[j])
        BY <2>1, <2>3, <2>6, <3>2 DEF DueInv
      <4> QED BY <2>1, <4>1, DepositsSettle
    <3> QED BY <3>1, <3>2
  <2> QED BY <2>1, <2>3, <2>5, <2>6 DEF DueInv
<1>3. CASE FilterWithdrawals
  <2>1. pc = "add" /\ adding = {} /\ pc' = "join" /\ UNCHANGED <<block, adding>>
    BY <1>3 DEF FilterWithdrawals
  <2>2. \A i \in DOMAIN block : ~IsDeposit(block[i])
    BY <2>1 DEF DueInv
  <2>3. \A i \in DOMAIN block' : ~IsDeposit(block[i])'
    BY <2>1, <2>2, DepositsSettle
  <2> QED BY <2>1, <2>3 DEF DueInv
<1>4. ASSUME Forget PROVE DueInv'
  BY <1>4 DEF Forget, DueInv
<1>5. CASE PopBlock
  BY <1>5 DEF PopBlock, DueInv, TypeInv, PlaceTypes
<1>6. ASSUME UNCHANGED <<block, adding>>,
             pc' = pc \/ (pc \in {"join", "spend"} /\ pc' \in {"spend", "emit"}),
             pc = "add" => UNCHANGED fundings
      PROVE  DueInv'
  <2>1. \A i \in adding' : \A r \in fundings' : ~(r.hash = block'[i].hash /\ r.idx = block'[i].idx)
    <3>1. pc # "add" => adding = {}
      BY DEF TypeInv, PlaceTypes
    <3> QED BY <1>6, <3>1 DEF DueInv
  <2>2. \A u : ~IsDeposit(u) => ~IsDeposit(u)'
    BY DepositsSettle
  <2>3. pc' = "add" => \A i \in DOMAIN block' \ adding' : ~IsDeposit(block[i])'
    BY <1>6, <2>2 DEF DueInv
  <2>4. pc' \in {"join", "spend", "emit"} => \A i \in DOMAIN block' : ~IsDeposit(block[i])'
    BY <1>6, <2>2 DEF DueInv
  <2> QED BY <2>1, <2>3, <2>4 DEF DueInv
<1>7. CASE Environment \/ FetchBlock \/ Poll \/ UNCHANGED vars
  BY <1>6, <1>7 DEF Environment, Broadcast, RecordPayout, RecordDistribution, FetchBlock, Poll, vars
<1>8. CASE JoinWithdrawals \/ ProcessWithdrawal \/ SpendOutput \/ UpdateStatus \/ SyncHeight
  BY <1>6, <1>8 DEF JoinWithdrawals, ProcessWithdrawal, SpendOutput, UpdateStatus, SyncHeight
<1>9. CASE Crash \/ DatabaseError \/ EmitBlock \/ Swallow
  BY <1>4, <1>9, OnlyOutputs DEF Crash, DatabaseError, EmitBlock, Swallow, Catch
<1> QED
  BY <1>1, <1>2, <1>3, <1>5, <1>7, <1>8, <1>9, OnlyOutputs DEF Next, ProcessBlock

\* A withdrawal that is passed over, being settled, has spent its outputs.
LEMMA PaidClaim ==
    ASSUME BaseInv, TypeInv, OutputsApart(chain), (MaxErrors = 0 /\ PaidInv) \/ NoPayouts(chain),
           NEW i \in DOMAIN block, block[i].hash \notin blind, PaidFor(block[i].hash),
           NEW r \in fundings, Claims(block[i], r)
    PROVE  r.spent = block[i].hash
<1>1. PICK p \in Everywhere : /\ Alike(block[i], At(chain, p))
                              /\ block[i].inputs = At(chain, p).inputs
  BY BlockAt
<1>2. At(chain, p).inputs # <<>> /\ Claims(At(chain, p), r) /\ At(chain, p).hash = block[i].hash
  BY <1>1 DEF Claims, ToSet, Alike
<1>3. CASE PaidInv
  BY <1>2, <1>3 DEF PaidInv
<1>4. CASE NoPayouts(chain)
  <2>1. PICK w \in Withdrawals : payouts[w].status = "success" /\ payouts[w].hash = block[i].hash
    BY DEF PaidFor
  <2>2. PICK k \in recorded[w] : IsAttempt(w, k, payouts[w])
    BY <2>1 DEF BaseInv, RetryInv, PayoutRow
  <2>3. k \in 1 .. Len(chain.attempts[w])
    <3>1. sent[w] \in Nat /\ sent[w] <= Len(chain.attempts[w]) /\ k \in 1 .. sent[w]
      BY DEF BaseInv, RetryInv, PayoutRow
    <3>2. Len(chain.attempts[w]) \in Nat
      BY AttemptFacts DEF BaseInv, PositionInv
    <3> QED BY <3>1, <3>2
  <2>4. k \in DOMAIN chain.attempts[w] /\ w \in DOMAIN chain.attempts
    <3>1. chain.attempts[w] \in Seq(ToSet(chain.attempts[w]))
      BY AttemptFacts DEF BaseInv, PositionInv
    <3> QED BY <2>3, <3>1 DEF Withdrawals
  <2>5. chain.attempts[w][k].hash = At(chain, p).hash
    BY <1>2, <2>1, <2>2 DEF IsAttempt
  <2> QED BY <1>2, <1>4, <2>4, <2>5 DEF NoPayouts, Everywhere, BaseInv, PositionInv
<1> QED BY <1>3, <1>4

\* An output of the chain is named by the transaction that has spent it alone.
LEMMA SpentByOne ==
    ASSUME BaseInv, TypeInv, OutputsApart(chain), OriginInv, NEW p \in Everywhere,
           NEW r \in fundings, Claims(At(chain, p), r), r.spent # None
    PROVE  r.spent = At(chain, p).hash
<1>1. PICK t \in Transfers : /\ t.hash = r.spent
                             /\ \/ [hash |-> r.hash, idx |-> r.idx] \in ToSet(t.inputs)
                                \/ t.inputs = <<>> /\ t.from = r.to
  BY DEF TypeInv, RowTypes, SpentBy
<1>2. t.from = None /\ r.to # None
  BY OnlyOutputs DEF OriginInv
<1>3. PICK q \in Everywhere : At(chain, q) = t
  BY PlaceOf DEF BaseInv, PositionInv
<1>4. PICK o : o = [hash |-> r.hash, idx |-> r.idx]
  OBVIOUS
<1>5. o \in ToSet(At(chain, p).inputs) /\ o \in ToSet(At(chain, q).inputs)
  BY <1>1, <1>2, <1>3, <1>4 DEF Claims
<1>6. At(chain, q).hash = At(chain, p).hash
  BY <1>5 DEF OutputsApart, Everywhere
<1> QED BY <1>1, <1>3, <1>6

\* A row and the one it was before the step.
LEMMA ClaimKept ==
    ASSUME NEW t, NEW r, NEW q, r.hash = q.hash, r.idx = q.idx
    PROVE  Claims(t, r) <=> Claims(t, q)
BY DEF Claims

LEMMA MarkedStep ==
    ASSUME BaseInv, TypeInv, OutputsApart(chain), (MaxErrors = 0 /\ PaidInv) \/ NoPayouts(chain),
           OriginInv, MarkedInv, [Next]_vars
    PROVE  MarkedInv'
<1> USE DEF external, locals, bounds
<1>1. CASE FilterWithdrawals
  <2>1. /\ pc = "add" /\ UNCHANGED <<chain, block, blind, fundings>>
        /\ leaving' = {i \in DOMAIN block : IsWithdrawal(block[i])}
    BY <1>1 DEF FilterWithdrawals
  <2>2. ASSUME NEW i \in DOMAIN block, ~IsWithdrawal(block[i]), NEW r \in fundings,
               block[i].hash \notin blind, Claims(block[i], r)
        PROVE  r.spent = block[i].hash
    <3>1. block[i].inputs # <<>>
      BY <2>2 DEF Claims, ToSet
    <3>2. PICK w \in Withdrawals : payouts[w].hash = block[i].hash /\ payouts[w].status # "transfered"
      BY <2>2, <3>1 DEF IsWithdrawal, PayoutsOf
    <3>3. payouts[w].status = "success"
      BY <3>2, BlockAt DEF BaseInv, RetryInv, PayoutRow
    <3> QED BY <2>2, <3>2, <3>3, PaidClaim DEF PaidFor
  <2> QED BY <2>1, <2>2 DEF MarkedInv
<1>2. CASE ProcessWithdrawal
  <2>1. PICK i \in leaving : spends' = SpendsOf(block[i]) /\ leaving' = leaving \ {i}
    BY <1>2 DEF ProcessWithdrawal
  <2>2. pc = "spend" /\ spends = <<>> /\ UNCHANGED <<chain, block, blind, fundings, pc>>
    BY <1>2 DEF ProcessWithdrawal
  <2>3. ASSUME NEW j \in DOMAIN block \ leaving', NEW r \in fundings,
               block[j].hash \notin blind, Claims(block[j], r)
        PROVE  \/ r.spent = block[j].hash
               \/ \E k \in DOMAIN spends' : /\ spends'[k].output = [hash |-> r.hash, idx |-> r.idx]
                                            /\ spends'[k].hash = block[j].hash
                                            /\ spends'[k].cur = r.cur
    <3>1. CASE j \notin leaving
      BY <2>2, <2>3, <3>1 DEF MarkedInv
    <3>2. CASE j = i
      <4>1. PICK p \in Everywhere : /\ Alike(block[i], At(chain, p))
                                    /\ block[i].inputs = At(chain, p).inputs
        BY <2>3, <3>2, BlockAt
      <4>2. PICK o : o = [hash |-> r.hash, idx |-> r.idx]
        OBVIOUS
      <4>3. o \in ToSet(block[i].inputs) /\ o \in ToSet(At(chain, p).inputs)
        BY <2>3, <3>2, <4>1, <4>2 DEF Claims
      <4>4. r.cur = block[i].cur
        <5>1. PICK q \in Everywhere : /\ r.hash = At(chain, q).hash /\ r.idx = At(chain, q).idx
                                      /\ r.cur = At(chain, q).cur
          BY DEF OriginInv
        <5>2. o = [hash |-> At(chain, q).hash, idx |-> At(chain, q).idx]
          BY <4>2, <5>1
        <5>3. At(chain, q).cur = At(chain, p).cur
          BY <4>3, <5>2 DEF OutputsApart, Everywhere
        <5> QED BY <4>1, <5>1, <5>3 DEF Alike
      <4>5. PICK k \in DOMAIN block[i].inputs : o = block[i].inputs[k]
        BY <4>3 DEF ToSet
      <4>6. SpendsOf(block[i]) = [l \in DOMAIN block[i].inputs |-> Output(block[i], block[i].inputs[l])]
        BY <4>3 DEF SpendsOf, ToSet
      <4>7. k \in DOMAIN spends' /\ spends'[k] = Output(block[i], o)
        BY <2>1, <4>5, <4>6
      <4>8. spends'[k].output = o /\ spends'[k].hash = block[i].hash /\ spends'[k].cur = block[i].cur
        BY <4>7 DEF Output
      <4> QED BY <3>2, <4>2, <4>4, <4>7, <4>8
    <3> QED BY <2>1, <2>3, <3>1, <3>2
  <2> QED BY <2>2, <2>3 DEF MarkedInv
<1>3. CASE SpendOutput
  <2>1. PICK s : s = Head(spends)
    OBVIOUS
  <2>2. /\ pc = "spend" /\ spends # <<>> /\ spends' = Tail(spends)
        /\ UNCHANGED <<chain, block, leaving, blind, pc>>
        /\ fundings' = MarkSpent(fundings, OutputRows(s), s.hash)
    BY <1>3, <2>1 DEF SpendOutput
  <2>3. /\ \A k \in DOMAIN spends : k # 1 => k - 1 \in DOMAIN Tail(spends) /\ Tail(spends)[k - 1] = spends[k]
        /\ spends[1] = s
    <3>1. spends \in Seq(Spendings)
      BY OnlyOutputs
    <3> HIDE DEF Spendings
    <3> QED BY <2>1, <2>2, <3>1
  <2>4. ASSUME NEW j \in DOMAIN block \ leaving, NEW r \in fundings',
               block[j].hash \notin blind, Claims(block[j], r)
        PROVE  \/ r.spent = block[j].hash
               \/ \E k \in DOMAIN spends' : /\ spends'[k].output = [hash |-> r.hash, idx |-> r.idx]
                                            /\ spends'[k].hash = block[j].hash
                                            /\ spends'[k].cur = r.cur
    <3>1. PICK p \in Everywhere : /\ Alike(block[j], At(chain, p))
                                  /\ block[j].inputs = At(chain, p).inputs
      BY <2>4, BlockAt
    <3>2. PICK q \in fundings :
            /\ r.hash = q.hash /\ r.idx = q.idx /\ r.cur = q.cur
            /\ r = q \/ (q \in OutputRows(s) /\ r.spent = s.hash)
      BY <1>3, <2>1, RowsStep DEF OutputRows, AddFunding, SpendOutput
    <3>3. Claims(block[j], q) /\ Claims(At(chain, p), q)
      BY <2>4, <3>1, <3>2, ClaimKept DEF Claims
    <3>4. CASE q.spent # None
      <4>1. q.spent = block[j].hash
        BY <3>1, <3>3, <3>4, SpentByOne DEF Alike
      <4>2. q \notin OutputRows(s)
        BY <3>4 DEF OutputRows
      <4> QED BY <3>2, <4>1, <4>2
    <3>5. CASE q.spent = None
      <4>1. block[j].hash # None
        BY BlockAt
      <4>2. PICK k \in DOMAIN spends : /\ spends[k].output = [hash |-> q.hash, idx |-> q.idx]
                                       /\ spends[k].hash = block[j].hash /\ spends[k].cur = q.cur
        BY <2>2, <2>4, <3>3, <3>5, <4>1 DEF MarkedInv
      <4>3. CASE k = 1
        <5>1. s.output = [hash |-> q.hash, idx |-> q.idx] /\ s.cur = q.cur /\ s.hash = block[j].hash
          BY <2>3, <4>2, <4>3
        <5>2. q \in OutputRows(s)
          BY <3>5, <5>1 DEF OutputRows
        <5>3. CASE r = q
          <6>1. q \notin fundings \ OutputRows(s)
            BY <5>2
          <6>2. PICK z \in OutputRows(s) : q = [z EXCEPT !.spent = s.hash]
            BY <2>2, <5>3, <6>1 DEF MarkSpent
          <6>3. z \in Rows
            BY <6>2 DEF OutputRows, TypeInv, RowTypes
          <6>4. q.spent = s.hash
            BY <6>2, <6>3 DEF Rows
          <6> QED BY <3>5, <4>1, <5>1, <6>4
        <5> QED BY <3>2, <5>1, <5>3
      <4>4. CASE k # 1
        <5>1. k - 1 \in DOMAIN spends' /\ spends'[k - 1] = spends[k]
          BY <2>2, <2>3, <4>4
        <5> QED BY <3>2, <4>2, <5>1
      <4> QED BY <4>3, <4>4
    <3> QED BY <3>4, <3>5
  <2> QED BY <2>2, <2>4 DEF MarkedInv
<1>4. CASE UNCHANGED <<chain, block, leaving, fundings, spends>> /\ blind \subseteq blind'
           /\ (pc' = pc \/ pc \in {"join", "spend"})
  BY <1>4 DEF MarkedInv
<1>5. CASE pc' \notin {"join", "spend", "emit"}
  BY <1>5 DEF MarkedInv
<1>6. CASE Environment \/ FetchBlock \/ Poll \/ UNCHANGED vars
  BY <1>4, <1>5, <1>6
  DEF Environment, Broadcast, RecordPayout, RecordDistribution, FetchBlock, Poll, vars
<1>7. CASE JoinWithdrawals \/ UpdateStatus \/ SyncHeight
  BY <1>4, <1>7 DEF JoinWithdrawals, UpdateStatus, SyncHeight
<1>8. CASE PopBlock \/ BuildFundings \/ AddFunding \/ EmitBlock \/ DatabaseError \/ Crash
  BY <1>5, <1>8, OnlyOutputs
  DEF PopBlock, BuildFundings, AddFunding, EmitBlock, DatabaseError, Crash, Swallow, Catch, Forget
<1> QED
  BY <1>1, <1>2, <1>3, <1>6, <1>7, <1>8, OnlyOutputs DEF Next, ProcessBlock

\* What a row that is claimed after the step was before it.
LEMMA ClaimsStep ==
    ASSUME BaseInv, TypeInv, OutputsApart(chain), [Next]_vars,
           NEW r \in fundings', NEW p \in Everywhere, Claims(At(chain, p), r)
    PROVE  \/ \E q \in fundings : Claims(At(chain, p), q) /\ (q.spent # None => r.spent = q.spent)
           \/ AddFunding /\ next <= p[1] /\ adding # {}
<1>1. CASE r \in fundings
  BY <1>1
<1>2. CASE \E q \in OutputRows(Head(spends)) : r.hash = q.hash /\ r.idx = q.idx
  <2>1. PICK q \in OutputRows(Head(spends)) : r.hash = q.hash /\ r.idx = q.idx
    BY <1>2
  <2>2. q \in fundings /\ q.spent = None /\ Claims(At(chain, p), q)
    BY <2>1, ClaimKept DEF OutputRows
  <2> QED BY <2>2
<1>3. CASE AddFunding /\ \E i \in adding : r = Deposit(block[i])
  <2>1. PICK i \in adding : r = Deposit(block[i])
    BY <1>3
  <2>2. i \in DOMAIN block /\ r.hash = block[i].hash /\ r.idx = block[i].idx
    BY <2>1 DEF TypeInv, PlaceTypes, Deposit
  <2>3. PICK q \in Everywhere : q[1] = next /\ Alike(block[i], At(chain, q))
    BY <2>2, BlockAt
  <2>4. PICK o : o = [hash |-> r.hash, idx |-> r.idx]
    OBVIOUS
  <2>5. o = [hash |-> At(chain, q).hash, idx |-> At(chain, q).idx] /\ o \in ToSet(At(chain, p).inputs)
    BY <2>2, <2>3, <2>4 DEF Alike, Claims
  <2>6. q[1] <= p[1]
    BY <2>5 DEF OutputsApart, Everywhere
  <2> QED BY <1>3, <2>3, <2>6
<1> QED BY <1>1, <1>2, <1>3, RowsStep

\* When the block is processed, the outputs that it names are spent.
LEMMA BlockSpent ==
    ASSUME BaseInv, MarkedInv, pc = "spend", leaving = {}, spends = <<>>,
           NEW p \in Everywhere, p[1] = next, At(chain, p).hash \notin blind,
           NEW r \in fundings, Claims(At(chain, p), r)
    PROVE  r.spent = At(chain, p).hash
<1>1. /\ chain \in Chains /\ next \in 1 .. Len(chain.blocks)
      /\ DOMAIN block = DOMAIN chain.blocks[next]
  BY BlockPlaces DEF BaseInv, PositionInv
<1>2. p = <<next, p[2]>> /\ p[2] \in DOMAIN block
  <2>1. PICK k \in 1 .. Len(chain.blocks) : p \in {k} \X DOMAIN chain.blocks[k]
    BY DEF Everywhere, Upto
  <2> QED BY <1>1, <2>1
<1>3. PICK i \in DOMAIN block : p = <<next, i>>
  BY <1>2
<1>4. Alike(block[i], At(chain, p)) /\ block[i].hash \notin blind /\ block[i].inputs = At(chain, p).inputs
  BY <1>3, BlockAt DEF Alike
<1>5. Claims(block[i], r) /\ block[i].hash = At(chain, p).hash
  BY <1>4 DEF Claims, Alike
<1>6. DOMAIN spends = {} /\ i \in DOMAIN block \ leaving
  OBVIOUS
<1> QED BY <1>4, <1>5, <1>6 DEF MarkedInv

LEMMA PastStep ==
    ASSUME BaseInv, TypeInv, OutputsApart(chain), MarkedInv, PastInv, [Next]_vars
    PROVE  PastInv'
<1> USE DEF external, locals, bounds
<1>1. chain' = chain /\ chain \in Chains /\ swallowed \subseteq swallowed' /\ blind \subseteq blind'
  BY ChainKept
  DEF BaseInv, PositionInv, Next, Environment, ProcessBlock, Broadcast, RecordPayout,
      RecordDistribution, FetchBlock, PopBlock, BuildFundings, AddFunding, FilterWithdrawals,
      JoinWithdrawals, ProcessWithdrawal, SpendOutput, AddChange, MarkRow, UpdateStatus, SyncHeight,
      EmitBlock, Poll, DatabaseError, Crash, vars, Swallow, Catch, LeaveFee
<1>2. synced' = synced \/ (SyncHeight /\ synced' = next)
  BY DEF Next, Environment, ProcessBlock, Broadcast, RecordPayout, RecordDistribution, FetchBlock,
      PopBlock, BuildFundings, AddFunding, FilterWithdrawals, JoinWithdrawals, ProcessWithdrawal,
      SpendOutput, AddChange, MarkRow, UpdateStatus, SyncHeight, EmitBlock, Poll, DatabaseError,
      Crash, vars
<1>3. synced \in Nat /\ next \in Nat /\ synced <= Len(chain.blocks) /\ Len(chain.blocks) \in Nat
      /\ DOMAIN chain.blocks = 1 .. Len(chain.blocks)
  BY <1>1, BlocksOfChain DEF BaseInv, PositionInv
<1>4. ASSUME NEW h \in (1 .. synced') \ swallowed', NEW t \in TransfersOf(chain.blocks[h]),
             NEW r \in fundings', t.hash \notin blind', Claims(t, r)
      PROVE  r.spent = t.hash
  <2>1. h \in DOMAIN chain.blocks
    <3>1. SyncHeight => next <= Len(chain.blocks)
      BY BlockPlaces DEF SyncHeight
    <3> QED BY <1>2, <1>3, <3>1
  <2>2. PICK p \in Everywhere : p[1] = h /\ At(chain, p) = t
    <3>1. PICK i \in DOMAIN chain.blocks[h] : t = chain.blocks[h][i]
      BY <1>1, <1>4, <2>1, TransferAt
    <3>2. /\ <<h, i>> \in Everywhere /\ At(chain, <<h, i>>) = chain.blocks[h][i]
          /\ <<h, i>>[1] = h
      BY <1>1, <2>1, TransferAt
    <3> QED BY <3>1, <3>2
  <2>3. t.hash # None
    <3>1. \A i \in DOMAIN chain.blocks[h] : chain.blocks[h][i].hash # None
      BY <1>1, <2>1, TransferFacts DEF IsTransfer
    <3> QED BY <1>1, <2>1, <3>1, TransferAt
  <2>4. CASE h \in 1 .. synced
    <3>1. ~(AddFunding /\ next <= p[1])
      BY <1>3, <2>2, <2>4 DEF AddFunding, BaseInv, PositionInv
    <3>2. PICK q \in fundings : Claims(t, q) /\ (q.spent # None => r.spent = q.spent)
      BY <1>4, <2>2, <3>1, ClaimsStep
    <3>3. q.spent = t.hash
      BY <1>1, <1>4, <2>4, <3>2 DEF PastInv
    <3> QED BY <2>3, <3>2, <3>3
  <2>5. CASE h \notin 1 .. synced
    <3>1. SyncHeight /\ synced' = next /\ h > synced
      BY <1>2, <1>3, <2>5
    <3>2. /\ pc = "spend" /\ leaving = {} /\ spends = <<>>
          /\ UNCHANGED <<fundings, swallowed, blind>>
      BY <3>1 DEF SyncHeight
    <3>3. h = next
      <4>1. h <= next /\ (h < next => h \in swallowed)
        BY <1>3, <2>1, <3>1 DEF BaseInv, PositionInv
      <4> QED BY <1>1, <1>3, <3>1, <4>1
    <3> QED BY <1>4, <2>2, <3>2, <3>3, BlockSpent
  <2> QED BY <2>4, <2>5
<1> QED BY <1>1, <1>4 DEF PastInv

\* While nothing is swallowed the worker never goes back behind a block it has settled.
LEMMA Forward ==
    ASSUME BaseInv, TypeInv, [Next]_vars, swallowed = {}
    PROVE  next <= next'
<1> USE DEF external, locals, bounds
<1>1. synced + 1 >= next /\ next \in Nat
  <2>1. next \in Nat /\ synced \in Nat /\ Len(chain.blocks) \in Nat /\ Len(parsed) \in Nat
    BY BlocksOfChain DEF BaseInv, RetryInv, Work, PositionInv
  <2>2. next <= Len(chain.blocks) + 1
    BY <2>1 DEF BaseInv, PositionInv, NextToFetch
  <2>3. \A h \in 1 .. Len(chain.blocks) : ~(synced < h /\ h < next)
    BY DEF BaseInv, PositionInv
  <2> SUFFICES ASSUME synced + 1 < next PROVE FALSE
    BY <2>1
  <2>4. synced + 1 \in 1 .. Len(chain.blocks)
    BY <2>1, <2>2
  <2> QED BY <2>1, <2>3, <2>4
<1>2. next' \in {next, next + 1, synced + 1}
  BY DEF Next, Environment, ProcessBlock, Broadcast, RecordPayout, RecordDistribution, FetchBlock,
      PopBlock, BuildFundings, AddFunding, FilterWithdrawals, JoinWithdrawals, ProcessWithdrawal,
      SpendOutput, AddChange, MarkRow, UpdateStatus, SyncHeight, EmitBlock, Poll, DatabaseError,
      Crash, vars, Swallow, Catch, LeaveFee
<1> QED BY <1>1, <1>2 DEF BaseInv, PositionInv

\* Without database errors no block is left behind.
LEMMA NothingSwallowed ==
    ASSUME BaseInv, TypeInv, OutputsApart(chain), DueInv, MaxErrors = 0, errors \in Nat, [Next]_vars
    PROVE  swallowed' = swallowed
<1> USE DEF external, locals, bounds
<1>1. ASSUME AddFunding PROVE swallowed' = swallowed
  <2>1. PICK i \in adding : Clash(Deposit(block[i]), fundings) \/ swallowed' = swallowed
    BY <1>1 DEF AddFunding
  <2>2. ~Clash(Deposit(block[i]), fundings)
    BY DEF Clash, Deposit, DueInv
  <2> QED BY <2>1, <2>2
<1>2. ~DatabaseError
  BY DEF DatabaseError
<1> QED
  BY <1>1, <1>2, OnlyOutputs
  DEF Next, Environment, ProcessBlock, Broadcast, RecordPayout, RecordDistribution, FetchBlock,
      PopBlock, BuildFundings, FilterWithdrawals, JoinWithdrawals, ProcessWithdrawal,
      SpendOutput, UpdateStatus, SyncHeight, EmitBlock, Poll, Crash, vars

\* Which withdrawals a step settles.
LEMMA PaidForStep ==
    ASSUME BaseInv, TypeInv, [Next]_vars, NEW hash, PaidFor(hash)'
    PROVE  \/ PaidFor(hash)
           \/ UpdateStatus /\ \E i \in DOMAIN block : block[i].hash = hash
<1> USE DEF external, locals, bounds
<1>1. chain' = chain /\ Withdrawals' = Withdrawals
  BY ChainKept DEF Withdrawals
<1>2. CASE UpdateStatus
  <2>1. PICK i \in settling :
          /\ i \in DOMAIN block /\ (payoutOf[i] = None => payouts' = payouts)
          /\ payoutOf[i] # None =>
                /\ payouts'[payoutOf[i]] = Settled(payouts[payoutOf[i]], block[i])
                /\ \A v \in Withdrawals \ {payoutOf[i]} : payouts'[v] = payouts[v]
    BY <1>2, Settling DEF BaseInv
  <2>2. PICK w \in Withdrawals : payouts'[w].status = "success" /\ payouts'[w].hash = hash
    BY <1>1 DEF PaidFor
  <2>3. CASE payouts'[w] = payouts[w]
    BY <2>2, <2>3 DEF PaidFor
  <2>4. CASE payouts'[w] # payouts[w]
    <3>1. PICK row, t : row = Settled(payouts[w], t) /\ t = block[i]
      OBVIOUS
    <3>2. payouts'[w] = row
      BY <2>1, <2>4, <3>1
    <3>3. PayoutRow(w)
      BY DEF BaseInv, RetryInv
    <3>4. /\ MinerStatus(t) =>
                /\ row.hash = payouts[w].hash
                /\ row = payouts[w] \/ payouts[w].hash = t.hash
          /\ ~MinerStatus(t) => row.status = "inqueue"
      BY <3>1, <3>3, SettledRow
    <3> QED BY <1>2, <2>1, <2>2, <2>4, <3>1, <3>2, <3>4
  <2> QED BY <2>3, <2>4
<1>3. ASSUME NEW w \in Withdrawals, RecordPayout(w) PROVE PaidFor(hash)
  <2>1. PICK k \in Nat : payouts' =
          [payouts EXCEPT ![w].status = "transfered",
                          ![w].hash = chain.attempts[w][k].hash,
                          ![w].idx = chain.attempts[w][k].idx]
    <3>1. sent[w] \in Nat
      BY DEF BaseInv, RetryInv, PayoutRow
    <3>2. 1 .. sent[w] \subseteq Nat
      BY <3>1
    <3> QED BY <1>3, <3>2 DEF RecordPayout
  <2>2. payouts = [v \in Withdrawals |-> payouts[v]]
        /\ payouts[w] = [status |-> payouts[w].status, hash |-> payouts[w].hash,
                         idx |-> payouts[w].idx, retries |-> payouts[w].retries]
    BY DEF BaseInv, RetryInv, PayoutRow
  <2>3. payouts'[w].status = "transfered" /\ \A v \in Withdrawals \ {w} : payouts'[v] = payouts[v]
    BY <2>1, <2>2
  <2>4. PICK v \in Withdrawals : payouts'[v].status = "success" /\ payouts'[v].hash = hash
    BY <1>1 DEF PaidFor
  <2>5. v # w
    BY <2>3, <2>4
  <2> QED BY <2>3, <2>4, <2>5 DEF PaidFor
<1>4. CASE UNCHANGED payouts
  BY <1>1, <1>4 DEF PaidFor
<1> QED
  BY <1>2, <1>3, <1>4
  DEF Next, Environment, ProcessBlock, Broadcast, RecordDistribution, FetchBlock,
      PopBlock, BuildFundings, AddFunding, FilterWithdrawals, JoinWithdrawals, ProcessWithdrawal,
      SpendOutput, AddChange, MarkRow, SyncHeight, EmitBlock, Poll, DatabaseError, Crash, vars

LEMMA PaidStep ==
    ASSUME BaseInv, TypeInv, OutputsApart(chain), OriginInv, DueInv, MarkedInv, PaidInv,
           swallowed = {}, [Next]_vars
    PROVE  PaidInv'
<1> USE DEF external, locals, bounds
<1>1. chain' = chain /\ chain \in Chains /\ Everywhere' = Everywhere /\ next <= next'
      /\ next \in Nat /\ next' \in Int
  <2>1. chain' = chain /\ chain \in Chains /\ next \in Nat /\ synced \in Nat
    BY ChainKept DEF BaseInv, PositionInv
  <2>2. next' \in {next, next + 1, synced + 1}
    BY DEF Next, Environment, ProcessBlock, Broadcast, RecordPayout, RecordDistribution, FetchBlock,
      PopBlock, BuildFundings, AddFunding, FilterWithdrawals, JoinWithdrawals, ProcessWithdrawal,
      SpendOutput, AddChange, MarkRow, UpdateStatus, SyncHeight, EmitBlock, Poll, DatabaseError,
      Crash, vars, Swallow, Catch, LeaveFee
  <2> QED BY <2>1, <2>2, Forward DEF Everywhere
<1>2. blind \subseteq blind'
  BY DEF Next, Environment, ProcessBlock, Broadcast, RecordPayout, RecordDistribution, FetchBlock,
      PopBlock, BuildFundings, AddFunding, FilterWithdrawals, JoinWithdrawals, ProcessWithdrawal,
      SpendOutput, AddChange, MarkRow, UpdateStatus, SyncHeight, EmitBlock, Poll, DatabaseError,
      Crash, vars, Swallow, Catch, LeaveFee
<1>3. adding' # {} => next' = next
  BY DEF Next, Environment, ProcessBlock, Broadcast, RecordPayout, RecordDistribution, FetchBlock,
      PopBlock, BuildFundings, AddFunding, FilterWithdrawals, JoinWithdrawals, ProcessWithdrawal,
      SpendOutput, AddChange, MarkRow, UpdateStatus, SyncHeight, EmitBlock, Poll, DatabaseError,
      Crash, vars, Swallow, Catch, LeaveFee, Forget, TypeInv, PlaceTypes
<1>4. adding' # {} => adding # {} \/ \E i \in DOMAIN block : IsDeposit(block[i])
  BY DEF Next, Environment, ProcessBlock, Broadcast, RecordPayout, RecordDistribution, FetchBlock,
      PopBlock, BuildFundings, AddFunding, FilterWithdrawals, JoinWithdrawals, ProcessWithdrawal,
      SpendOutput, AddChange, MarkRow, UpdateStatus, SyncHeight, EmitBlock, Poll, DatabaseError,
      Crash, vars, Swallow, Catch, LeaveFee, Forget
<1>5. ASSUME NEW i \in DOMAIN block
      PROVE  \E u \in TransfersOf(chain.blocks[next]) : Alike(block[i], u)
  BY BlockFacts DEF IsParsed
<1>6. \A u, v : Alike(u, v) => (IsDeposit(u) <=> IsDeposit(v))
  BY DEF Alike, IsDeposit, MinerStatus
<1> DEFINE Good(p) == /\ p[1] <= next' /\ (adding' # {} => p[1] # next')
                      /\ \A u \in TransfersOf(chain.blocks[p[1]]) : ~IsDeposit(u)'
                      /\ At(chain, p).hash \notin blind' =>
                            \A r \in fundings' : Claims(At(chain, p), r) => r.spent = At(chain, p).hash
<1>7. ASSUME NEW p \in Everywhere, At(chain, p).inputs # <<>>, PaidFor(At(chain, p).hash)'
      PROVE  Good(p)
  <2>1. p[1] \in DOMAIN chain.blocks /\ p[1] \in Nat /\ At(chain, p).hash # None
        /\ At(chain, p) \in TransfersOf(chain.blocks[p[1]])
    <3>1. PICK k \in 1 .. Len(chain.blocks) : p \in {k} \X DOMAIN chain.blocks[k]
      BY DEF Everywhere, Upto
    <3>2. k \in DOMAIN chain.blocks /\ p[1] = k /\ p[2] \in DOMAIN chain.blocks[k]
      BY <1>1, <3>1, BlocksOfChain
    <3>3. /\ IsTransfer(chain.blocks[k][p[2]])
          /\ chain.blocks[k][p[2]] \in TransfersOf(chain.blocks[k])
      BY <1>1, <3>2, TransferFacts
    <3> QED BY <3>1, <3>2, <3>3 DEF At, IsTransfer
  <2>2. CASE PaidFor(At(chain, p).hash)
    <3>1. /\ p[1] <= next /\ (adding # {} => p[1] # next)
          /\ \A u \in TransfersOf(chain.blocks[p[1]]) : ~IsDeposit(u)
          /\ At(chain, p).hash \notin blind =>
                \A r \in fundings : Claims(At(chain, p), r) => r.spent = At(chain, p).hash
      BY <1>7, <2>2 DEF PaidInv
    <3>2. p[1] <= next'
      BY <1>1, <2>1, <3>1
    <3>3. adding' # {} => p[1] # next'
      BY <1>3, <1>4, <1>5, <1>6, <3>1
    <3>4. \A u \in TransfersOf(chain.blocks[p[1]]) : ~IsDeposit(u)'
      BY <3>1, DepositsSettle
    <3>5. ASSUME NEW r \in fundings', At(chain, p).hash \notin blind', Claims(At(chain, p), r)
          PROVE  r.spent = At(chain, p).hash
      <4>1. ~(next <= p[1] /\ adding # {})
        BY <1>1, <2>1, <3>1
      <4>2. PICK q \in fundings : Claims(At(chain, p), q) /\ (q.spent # None => r.spent = q.spent)
        BY <3>5, <4>1, ClaimsStep
      <4> QED BY <1>2, <2>1, <3>1, <3>5, <4>2
    <3> QED BY <3>2, <3>3, <3>4, <3>5
  <2>3. CASE ~PaidFor(At(chain, p).hash)
    <3>1. PICK i \in DOMAIN block : UpdateStatus /\ block[i].hash = At(chain, p).hash
      <4>1. PICK hash : hash = At(chain, p).hash
        OBVIOUS
      <4>2. PaidFor(hash)' /\ ~PaidFor(hash)
        BY <1>1, <1>7, <2>3, <4>1 DEF PaidFor, Withdrawals
      <4> QED BY <4>1, <4>2, PaidForStep
    <3>2. /\ pc = "spend" /\ leaving = {} /\ spends = <<>> /\ adding = {}
          /\ UNCHANGED <<next, adding, blind, fundings>>
      BY <3>1 DEF UpdateStatus, TypeInv, PlaceTypes
    <3>3. PICK u \in TransfersOf(chain.blocks[next]) : Alike(block[i], u)
      BY <1>5
    <3>4. p[1] = next
      <4>1. next \in DOMAIN chain.blocks
        BY BlockFacts
      <4>2. u.hash = At(chain, p).hash
        BY <3>1, <3>3 DEF Alike
      <4> QED BY <1>1, <2>1, <3>3, <4>1, <4>2, ChainsAssumption DEF TransfersOf
    <3>5. \A v \in TransfersOf(chain.blocks[next]) : ~IsDeposit(v)
      <4> SUFFICES ASSUME NEW v \in TransfersOf(chain.blocks[next]) PROVE ~IsDeposit(v)
        OBVIOUS
      <4>1. PICK j \in DOMAIN chain.blocks[next] : v = chain.blocks[next][j]
        BY <1>1, <2>1, <3>4, TransferAt
      <4>2. j \in DOMAIN block
        BY <3>2, BlockPlaces
      <4>3. Alike(block[j], v) /\ ~IsDeposit(block[j])
        BY <3>2, <4>1, <4>2, BlockFacts DEF IsParsed, DueInv
      <4> QED BY <1>6, <4>3
    <3>6. \A v \in TransfersOf(chain.blocks[p[1]]) : ~IsDeposit(v)'
      BY <3>4, <3>5, DepositsSettle
    <3>7. At(chain, p).hash \notin blind =>
            \A r \in fundings : Claims(At(chain, p), r) => r.spent = At(chain, p).hash
      BY <3>2, <3>4, BlockSpent
    <3> QED BY <1>1, <3>2, <3>4, <3>6, <3>7
  <2> QED BY <2>2, <2>3
<1> QED BY <1>1, <1>7 DEF PaidInv

LEMMA OutStep ==
    ASSUME BaseInv, TypeInv, Outputs, OutInv, [Next]_vars
    PROVE  OutInv'
<1>1. chain' = chain /\ chain \in Chains
  BY ChainKept DEF BaseInv, PositionInv
<1>2. errors' \in Nat
  <2>1. errors' \in {errors, errors + 1}
    BY DEF Next, Environment, ProcessBlock, Broadcast, RecordPayout, RecordDistribution,
        FetchBlock, PopBlock, BuildFundings, AddFunding, FilterWithdrawals, JoinWithdrawals,
        ProcessWithdrawal, SpendOutput, AddChange, MarkRow, UpdateStatus, SyncHeight, EmitBlock, Poll,
        DatabaseError, Crash, vars, bounds, locals, external
  <2> QED BY <2>1 DEF OutInv
<1>3. ASSUME ~InputFree(chain)
      PROVE  OriginInv' /\ DueInv' /\ MarkedInv' /\ PastInv'
             /\ (MaxErrors = 0 => swallowed' = {} /\ PaidInv')
  <2>1. OutputsApart(chain) /\ (MaxErrors = 0 \/ NoPayouts(chain))
    BY <1>1, <1>3 DEF Outputs
  <2>2. OriginInv /\ DueInv /\ MarkedInv /\ PastInv /\ (MaxErrors = 0 => swallowed = {} /\ PaidInv)
        /\ errors \in Nat
    BY <1>3 DEF OutInv
  <2> QED BY <2>1, <2>2, OriginStep, DueStep, MarkedStep, PastStep, NothingSwallowed, PaidStep
<1> QED BY <1>1, <1>2, <1>3 DEF OutInv

LEMMA OutInit == Init => OutInv
<1> SUFFICES ASSUME Init PROVE OutInv
  OBVIOUS
<1>1. /\ fundings = {} /\ adding = {} /\ pc = "idle" /\ synced = 0 /\ swallowed = {} /\ errors = 0
      /\ \A w \in Withdrawals : payouts[w].status # "success"
  BY DEF Init
<1>2. OriginInv /\ DueInv /\ MarkedInv /\ PastInv
  BY <1>1 DEF OriginInv, DueInv, MarkedInv, PastInv
<1>3. PaidInv
  BY <1>1 DEF PaidInv, PaidFor
<1> QED BY <1>1, <1>2, <1>3 DEF OutInv

\* Each output that a processed transaction of a UTXO currency names is marked as spent by
\* it, whatever crashes; a funding is marked by a transaction that names it or comes from
\* its address, on every chain (parseTransaction, spend, spendVirtually).
THEOREM OutputsAreSpent == ASSUME Outputs PROVE Spec => []OutputsSpent
<1>1. BaseInv /\ TypeInv /\ OutInv => OutputsSpent
  <2> SUFFICES ASSUME BaseInv, TypeInv, OutInv, NEW r \in fundings
               PROVE  /\ \A h \in (1 .. synced) \ swallowed : \A t \in TransfersOf(chain.blocks[h]) :
                            t.hash \notin blind /\ Claims(t, r) => r.spent = t.hash
                      /\ r.spent # None => SpentBy(r)
    BY DEF OutputsSpent, SpentBy, Claims
  <2>1. r.spent # None => SpentBy(r)
    BY DEF TypeInv, RowTypes
  <2>2. ASSUME ~InputFree(chain),
               NEW h \in (1 .. synced) \ swallowed, NEW t \in TransfersOf(chain.blocks[h]),
               t.hash \notin blind, Claims(t, r)
        PROVE  r.spent = t.hash
    BY <2>2 DEF OutInv, PastInv
  <2>3. ASSUME InputFree(chain),
               NEW h \in (1 .. synced) \ swallowed, NEW t \in TransfersOf(chain.blocks[h])
        PROVE  ~Claims(t, r)
    <3>1. chain \in Chains /\ h \in DOMAIN chain.blocks
      <4>1. chain \in Chains /\ synced <= Len(chain.blocks) /\ synced \in Nat
        BY DEF BaseInv, PositionInv
      <4> QED BY <4>1, BlocksOfChain
    <3>2. PICK i \in DOMAIN chain.blocks[h] : t = chain.blocks[h][i]
      BY <3>1, TransferAt
    <3>3. <<h, i>> \in Everywhere /\ At(chain, <<h, i>>) = t
      BY <3>1, <3>2, TransferAt
    <3>4. t.inputs = <<>>
      BY <2>3, <3>3 DEF InputFree, Everywhere
    <3> QED BY <3>4 DEF Claims, ToSet
  <2> QED BY <2>1, <2>2, <2>3
<1> QED BY <1>1, OutInit, OutStep, TypesAlways, PTL DEF Spec
=============================================================================
