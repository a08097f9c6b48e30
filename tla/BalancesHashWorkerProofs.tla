---------------------- MODULE BalancesHashWorkerProofs ----------------------
(***************************************************************************)
(* Theorems about BalancesHashWorker, for every set of blocks and any      *)
(* number of crashes and of stops of the broker.                           *)
(***************************************************************************)
EXTENDS BalancesHashWorker, TLAPS

\* The state of the worker always has its type: the channel is open only while the
\* worker and the broker it was opened on are running.
THEOREM WorkerTypeCorrect == Spec => []TypeOK
<1>1. Init => TypeOK
  <2> SUFFICES ASSUME Init PROVE TypeOK
    OBVIOUS
  <2>1. /\ up \in BOOLEAN /\ channel \in BOOLEAN /\ timer \in BOOLEAN /\ broker \in BOOLEAN
        /\ channel => up /\ broker
    BY Zenon DEF Init
  <2>2. /\ due \subseteq Blocks /\ docs \in [Blocks -> Statuses \cup {"none"}]
        /\ writes \subseteq [block : Blocks, status : Statuses]
        /\ todo \in [Replays -> SUBSET Blocks] /\ marked \in [Replays -> Blocks \cup {None}]
        /\ handed \in [Blocks -> Nat] /\ lost \subseteq Blocks
        /\ crashes \in Nat /\ stops \in Nat
    BY DEF Init, Statuses
  <2> QED BY <2>1, <2>2 DEF TypeOK
<1>2. TypeOK /\ [Next]_vars => TypeOK'
  <2> SUFFICES ASSUME TypeOK, [Next]_vars PROVE TypeOK'
    OBVIOUS
  <2> USE DEF TypeOK, network, bounds
  <2>a. ASSUME NEW b \in Blocks, Handle(b)
        PROVE  /\ handed' \in [Blocks -> Nat]
               /\ writes' \subseteq [block : Blocks, status : Statuses]
    BY <2>a DEF Handle, Statuses
  <2>1. ASSUME NEW b \in Blocks, Announce(b) PROVE TypeOK'
    BY <2>1, <2>a DEF Announce
  <2>2. ASSUME NEW w \in writes, Write(w) PROVE TypeOK'
    BY <2>2 DEF Write
  <2>3. ASSUME NEW r \in Replays, ReadErrors(r) PROVE TypeOK'
    BY <2>3 DEF ReadErrors, ErrorDocs
  <2>4. ASSUME NEW r \in Replays, MarkSuccess(r) PROVE TypeOK'
    BY <2>4 DEF MarkSuccess, Statuses
  <2>5. ASSUME NEW r \in Replays, EmitAgain(r) PROVE TypeOK'
    <3>1. PICK b \in Blocks : b = marked[r]
      BY <2>5 DEF EmitAgain
    <3> QED BY <2>5, <2>a, <3>1 DEF EmitAgain
  <2>6. CASE StopBroker
    <3>1. /\ up' \in BOOLEAN /\ channel' \in BOOLEAN /\ timer' \in BOOLEAN
          /\ broker' \in BOOLEAN /\ (channel => up /\ broker)'
      BY <2>6, Zenon DEF StopBroker
    <3>2. stops' \in Nat
      BY <2>6 DEF StopBroker
    <3> QED BY <2>6, <3>1, <3>2 DEF StopBroker
  <2>7. CASE StartBroker
    BY <2>7 DEF StartBroker
  <2>8. CASE Reconnect
    BY <2>8 DEF Reconnect
  <2>9. CASE Crash
    <3>1. /\ up' \in BOOLEAN /\ channel' \in BOOLEAN /\ timer' \in BOOLEAN
          /\ broker' \in BOOLEAN /\ (channel => up /\ broker)'
      BY <2>9, Zenon DEF Crash
    <3>2. crashes' \in Nat /\ todo' \in [Replays -> SUBSET Blocks]
          /\ marked' \in [Replays -> Blocks \cup {None}] /\ lost' \subseteq Blocks
          /\ writes' = {} /\ UNCHANGED <<due, docs, handed, stops>>
      BY <2>9 DEF Crash
    <3> QED BY <3>1, <3>2
  <2>10. CASE Start
    BY <2>10 DEF Start
  <2>11. CASE UNCHANGED vars
    BY <2>11 DEF vars
  <2> QED BY <2>1, <2>2, <2>3, <2>4, <2>5, <2>6, <2>7, <2>8, <2>9, <2>10, <2>11
          DEF Next, Replay
<1> QED BY <1>1, <1>2, PTL DEF Spec

----------------------------------------------------------------------------
(* Every announced block is accounted for *)

SuccessUnderWay(b) == [block |-> b, status |-> "success"] \in writes

\* A success is written only for a block that was handed over.
AccountInv ==
    /\ EveryBlockAccounted
    /\ \A b \in Blocks : SuccessUnderWay(b) => handed[b] > 0

\* What the handler leaves behind: the block was handed over or its error is under way.
LEMMA HandleAccounts ==
    ASSUME TypeOK, NEW b \in Blocks, Handle(b)
    PROVE  /\ handed'[b] > 0 \/ ErrorUnderWay(b)'
           /\ SuccessUnderWay(b)' => handed'[b] > 0 \/ SuccessUnderWay(b)
           /\ \A c \in Blocks : handed[c] > 0 => handed'[c] > 0
           /\ \A c \in Blocks : ErrorUnderWay(c) => ErrorUnderWay(c)'
           /\ \A c \in Blocks : c # b => (SuccessUnderWay(c)' <=> SuccessUnderWay(c))
           /\ \A c \in Blocks : c # b => (ErrorUnderWay(c)' <=> ErrorUnderWay(c))
           /\ \A c \in Blocks : c # b => handed'[c] = handed[c]
<1>1. \A c \in Blocks : handed[c] \in Nat
  BY DEF TypeOK
<1>2. handed' = IF channel THEN [handed EXCEPT ![b] = @ + 1] ELSE handed
  BY DEF Handle
<1>3. writes' = writes \cup {[block |-> b, status |-> IF channel THEN "success" ELSE "error"]}
  BY DEF Handle
<1>4. \A c \in Blocks : handed'[c] = IF channel /\ c = b THEN handed[c] + 1 ELSE handed[c]
  BY <1>2 DEF TypeOK
<1>5. \A c \in Blocks : (handed[c] > 0 => handed'[c] > 0) /\ (c # b => handed'[c] = handed[c])
  BY <1>1, <1>4
<1>6. channel => handed'[b] > 0
  BY <1>1, <1>4
<1>7. /\ SuccessUnderWay(b)' => channel \/ SuccessUnderWay(b)
      /\ ~channel => ErrorUnderWay(b)'
  BY <1>3 DEF SuccessUnderWay, ErrorUnderWay
<1>8. \A c \in Blocks : /\ ErrorUnderWay(c) => ErrorUnderWay(c)'
                        /\ c # b => (SuccessUnderWay(c)' <=> SuccessUnderWay(c))
                        /\ c # b => (ErrorUnderWay(c)' <=> ErrorUnderWay(c))
  BY <1>3 DEF SuccessUnderWay, ErrorUnderWay
<1>9. SuccessUnderWay(b)' => handed'[b] > 0 \/ SuccessUnderWay(b)
  BY <1>6, <1>7
<1> QED BY <1>5, <1>6, <1>7, <1>8, <1>9

\* An announced block is handed over or on the way to be: only a crash in one of two
\* windows loses it, and then it is in lost.
THEOREM NothingElseLost == Spec => []EveryBlockAccounted
<1>1. Init => AccountInv
  BY DEF Init, AccountInv, EveryBlockAccounted, SuccessUnderWay
<1>2. TypeOK /\ AccountInv /\ [Next]_vars => AccountInv'
  <2> SUFFICES ASSUME TypeOK, AccountInv, [Next]_vars PROVE AccountInv'
    OBVIOUS
  <2> USE DEF network, bounds
  <2>a. \A b \in Blocks : handed[b] \in Nat
    BY DEF TypeOK
  <2>1. ASSUME NEW b \in Blocks, Announce(b) PROVE AccountInv'
    <3>1. Handle(b) /\ UNCHANGED <<docs, marked, lost>> /\ due' = due \ {b}
      BY <2>1 DEF Announce
    <3>2. \A c \in Blocks : SuccessUnderWay(c)' => handed'[c] > 0
      BY <3>1, HandleAccounts DEF AccountInv
    <3>3. EveryBlockAccounted'
      BY <3>1, HandleAccounts DEF AccountInv, EveryBlockAccounted, IsMarked
    <3> QED BY <3>2, <3>3 DEF AccountInv
  <2>2. ASSUME NEW w \in writes, Write(w) PROVE AccountInv'
    <3>1. /\ w \in [block : Blocks, status : Statuses]
          /\ UNCHANGED <<due, marked, handed, lost>>
          /\ docs' = [docs EXCEPT ![w.block] = w.status] /\ writes' = writes \ {w}
      BY <2>2 DEF Write, TypeOK
    <3>2. \A c \in Blocks : SuccessUnderWay(c)' => handed'[c] > 0
      BY <3>1 DEF AccountInv, SuccessUnderWay
    <3>3. ASSUME NEW c \in Blocks \ due
          PROVE  handed'[c] > 0 \/ docs'[c] = "error" \/ ErrorUnderWay(c)' \/ IsMarked(c)' \/ c \in lost'
      <4>1. CASE w = [block |-> c, status |-> "success"]
        BY <3>1, <4>1 DEF AccountInv, SuccessUnderWay
      <4>2. CASE w = [block |-> c, status |-> "error"]
        BY <3>1, <4>2 DEF TypeOK
      <4>3. CASE w.block # c
        <5>1. docs'[c] = docs[c] /\ (ErrorUnderWay(c)' <=> ErrorUnderWay(c))
          BY <3>1, <4>3 DEF TypeOK, ErrorUnderWay
        <5> QED BY <3>1, <5>1 DEF AccountInv, EveryBlockAccounted, IsMarked
      <4> QED BY <3>1, <4>1, <4>2, <4>3 DEF Statuses
    <3> QED BY <3>1, <3>2, <3>3 DEF AccountInv, EveryBlockAccounted
  <2>3. ASSUME NEW r \in Replays, ReadErrors(r) PROVE AccountInv'
    BY <2>3 DEF ReadErrors, AccountInv, EveryBlockAccounted, SuccessUnderWay, ErrorUnderWay,
                IsMarked
  <2>4. ASSUME NEW r \in Replays, MarkSuccess(r) PROVE AccountInv'
    <3>1. PICK b \in todo[r] : /\ docs' = [docs EXCEPT ![b] = "success"]
                               /\ marked' = [marked EXCEPT ![r] = b]
      BY <2>4 DEF MarkSuccess
    <3>2. marked[r] = None /\ UNCHANGED <<due, writes, handed, lost>>
      BY <2>4 DEF MarkSuccess
    <3>3. \A c \in Blocks : c = b \/ docs'[c] = docs[c]
      BY <3>1 DEF TypeOK
    <3>4. IsMarked(b)' /\ \A c \in Blocks : IsMarked(c) => IsMarked(c)'
      BY <3>1, <3>2, NoneAssumption DEF TypeOK, IsMarked
    <3> QED BY <3>2, <3>3, <3>4
            DEF AccountInv, EveryBlockAccounted, SuccessUnderWay, ErrorUnderWay
  <2>5. ASSUME NEW r \in Replays, EmitAgain(r) PROVE AccountInv'
    <3>a. PICK b \in Blocks : b = marked[r]
      BY <2>5 DEF EmitAgain, TypeOK
    <3>1. /\ Handle(b) /\ UNCHANGED <<due, docs, lost>>
          /\ marked' = [marked EXCEPT ![r] = None]
      BY <2>5, <3>a DEF EmitAgain
    <3>2. \A c \in Blocks : IsMarked(c) => IsMarked(c)' \/ c = b
      BY <3>1, <3>a DEF TypeOK, IsMarked
    <3>3. \A c \in Blocks : SuccessUnderWay(c)' => handed'[c] > 0
      BY <3>1, HandleAccounts DEF AccountInv
    <3>4. EveryBlockAccounted'
      BY <3>1, <3>2, HandleAccounts DEF AccountInv, EveryBlockAccounted
    <3> QED BY <3>3, <3>4 DEF AccountInv
  <2>6. CASE Crash
    BY <2>6 DEF Crash, AccountInv, EveryBlockAccounted, SuccessUnderWay
  <2>7. ASSUME UNCHANGED <<due, docs, writes, marked, handed, lost>> PROVE AccountInv'
    BY <2>7 DEF AccountInv, EveryBlockAccounted, SuccessUnderWay, ErrorUnderWay, IsMarked
  <2> QED BY <2>1, <2>2, <2>3, <2>4, <2>5, <2>6, <2>7
          DEF Next, Replay, StopBroker, StartBroker, Reconnect, Start, vars
<1>3. AccountInv => EveryBlockAccounted
  BY DEF AccountInv
<1> QED BY <1>1, <1>2, <1>3, WorkerTypeCorrect, PTL DEF Spec

----------------------------------------------------------------------------
(* No block is handed over twice *)

Waiting(b) == \E r \in Replays : b \in todo[r]

\* Where a block is: not announced, its error under way, stored, being read,
\* marked, or handed over; one replay at a time keeps these apart.
OnceInv ==
    /\ HandedOnce
    /\ \A b \in due :
        /\ handed[b] = 0 /\ docs[b] = "none"
        /\ ~ErrorUnderWay(b) /\ ~SuccessUnderWay(b) /\ ~IsMarked(b) /\ ~Waiting(b)
    /\ \A b \in Blocks : handed[b] > 0 =>
        docs[b] # "error" /\ ~ErrorUnderWay(b) /\ ~IsMarked(b) /\ ~Waiting(b)
    /\ \A b \in Blocks : SuccessUnderWay(b) => handed[b] > 0
    /\ \A b \in Blocks : ErrorUnderWay(b) => docs[b] # "error" /\ ~IsMarked(b) /\ ~Waiting(b)
    /\ \A b \in Blocks : IsMarked(b) => docs[b] # "error" /\ ~Waiting(b)
    /\ \A b \in Blocks : Waiting(b) => docs[b] = "error"

\* The exchange is told of every block at most once, however often the worker
\* crashes and the broker stops, as long as one reproduceBalancesHash runs at a time.
THEOREM NeverHandedTwice ==
    ASSUME \A r, s \in Replays : r = s
    PROVE  Spec => []HandedOnce
<1>1. Init => OnceInv
  <2> SUFFICES ASSUME Init PROVE OnceInv
    OBVIOUS
  <2>1. \A b \in Blocks : /\ handed[b] = 0 /\ docs[b] = "none" /\ ~ErrorUnderWay(b)
                          /\ ~SuccessUnderWay(b) /\ ~IsMarked(b) /\ ~Waiting(b)
    BY NoneAssumption DEF Init, ErrorUnderWay, SuccessUnderWay, IsMarked, Waiting
  <2> QED BY <2>1 DEF OnceInv, HandedOnce, Init
<1>2. TypeOK /\ OnceInv /\ [Next]_vars => OnceInv'
  <2> SUFFICES ASSUME TypeOK, OnceInv, [Next]_vars PROVE OnceInv'
    OBVIOUS
  <2> USE DEF network, bounds
  <2>a. \A b \in Blocks : handed[b] \in Nat
    BY DEF TypeOK
  <2>b. ASSUME NEW b \in Blocks, Handle(b)
        PROVE  /\ handed'[b] = IF channel THEN handed[b] + 1 ELSE handed[b]
               /\ channel => (ErrorUnderWay(b)' <=> ErrorUnderWay(b))
               /\ ~channel => (SuccessUnderWay(b)' <=> SuccessUnderWay(b))
    <3>1. writes' = writes \cup {[block |-> b, status |-> IF channel THEN "success" ELSE "error"]}
      BY <2>b DEF Handle
    <3>2. handed' = IF channel THEN [handed EXCEPT ![b] = @ + 1] ELSE handed
      BY <2>b DEF Handle
    <3> QED BY <3>1, <3>2 DEF ErrorUnderWay, SuccessUnderWay, TypeOK
  <2>c. \A b \in Blocks : handed[b] <= 1
    BY DEF OnceInv, HandedOnce
  <2>1. ASSUME NEW b \in Blocks, Announce(b) PROVE OnceInv'
    <3>1. /\ Handle(b) /\ UNCHANGED <<docs, todo, marked>> /\ due' = due \ {b} /\ b \in due
      BY <2>1 DEF Announce
    <3>2. /\ handed[b] = 0 /\ docs[b] = "none" /\ ~IsMarked(b) /\ ~Waiting(b)
          /\ ~ErrorUnderWay(b) /\ ~SuccessUnderWay(b)
      BY <3>1 DEF OnceInv
    <3>3. \A c \in Blocks : (IsMarked(c)' <=> IsMarked(c)) /\ (Waiting(c)' <=> Waiting(c))
      BY <3>1 DEF IsMarked, Waiting
    <3>4. \A c \in Blocks : c # b =>
            /\ SuccessUnderWay(c)' <=> SuccessUnderWay(c)
            /\ ErrorUnderWay(c)' <=> ErrorUnderWay(c)
            /\ handed'[c] = handed[c]
      BY <3>1, HandleAccounts
    <3>5. /\ handed'[b] <= 1
          /\ handed'[b] > 0 => ~ErrorUnderWay(b)'
          /\ SuccessUnderWay(b)' => handed'[b] > 0
      BY <3>1, <3>2, <2>b
    <3>6. \A c \in due' : c \in Blocks /\ c # b /\ c \in due
      BY <3>1 DEF TypeOK
    <3> QED BY <3>1, <3>2, <3>3, <3>4, <3>5, <3>6 DEF OnceInv, HandedOnce
  <2>2. ASSUME NEW w \in writes, Write(w) PROVE OnceInv'
    <3>1. /\ w \in [block : Blocks, status : Statuses]
          /\ UNCHANGED <<due, marked, todo, handed>>
          /\ docs' = [docs EXCEPT ![w.block] = w.status] /\ writes' = writes \ {w}
      BY <2>2 DEF Write, TypeOK
    <3>2. \A c \in Blocks : (IsMarked(c)' <=> IsMarked(c)) /\ (Waiting(c)' <=> Waiting(c))
      BY <3>1 DEF IsMarked, Waiting
    <3>3. \A c \in Blocks : c # w.block =>
            /\ SuccessUnderWay(c)' <=> SuccessUnderWay(c)
            /\ ErrorUnderWay(c)' <=> ErrorUnderWay(c)
            /\ docs'[c] = docs[c]
      BY <3>1 DEF SuccessUnderWay, ErrorUnderWay, TypeOK
    <3>4. w.block \in Blocks /\ docs'[w.block] = w.status
      BY <3>1 DEF TypeOK
    <3>5. \A c \in Blocks : /\ SuccessUnderWay(c)' => SuccessUnderWay(c)
                            /\ ErrorUnderWay(c)' => ErrorUnderWay(c)
      BY <3>1 DEF SuccessUnderWay, ErrorUnderWay
    <3>6. w.status = "success" \/ w.status = "error"
      BY <3>1 DEF Statuses
    <3>7. CASE w.status = "success"
      <4>1. SuccessUnderWay(w.block) /\ handed[w.block] > 0
        <5>1. w = [block |-> w.block, status |-> "success"]
          BY <3>1, <3>7
        <5> QED BY <5>1, <3>4 DEF SuccessUnderWay, OnceInv
      <4>2. w.block \notin due /\ ~IsMarked(w.block) /\ ~Waiting(w.block)
        BY <4>1, <3>4 DEF OnceInv
      <4> QED BY <3>1, <3>2, <3>3, <3>4, <3>5, <3>7, <4>1, <4>2 DEF OnceInv, HandedOnce, TypeOK
    <3>8. CASE w.status = "error"
      <4>a. w = [block |-> w.block, status |-> "error"]
        BY <3>1, <3>8
      <4>1. ErrorUnderWay(w.block) /\ ~ErrorUnderWay(w.block)'
        BY <4>a, <3>1 DEF ErrorUnderWay
      <4>2. /\ w.block \notin due /\ ~IsMarked(w.block) /\ ~Waiting(w.block)
            /\ ~(handed[w.block] > 0)
        BY <4>1, <3>4 DEF OnceInv
      <4> QED BY <3>1, <3>2, <3>3, <3>4, <3>5, <3>8, <4>1, <4>2 DEF OnceInv, HandedOnce, TypeOK
    <3> QED BY <3>6, <3>7, <3>8
  <2>3. ASSUME NEW r \in Replays, ReadErrors(r) PROVE OnceInv'
    <3>1. UNCHANGED <<due, docs, writes, marked, handed>> /\ marked[r] = None
      BY <2>3 DEF ReadErrors
    <3>2. \A c \in Blocks : Waiting(c)' => docs[c] = "error"
      BY <2>3 DEF ReadErrors, ErrorDocs, Waiting, TypeOK, OnceInv
    <3>3. \A c \in Blocks : ~IsMarked(c)
      BY <3>1, NoneAssumption DEF IsMarked
    <3>4. \A c \in Blocks : /\ IsMarked(c)' <=> IsMarked(c)
                            /\ ErrorUnderWay(c)' <=> ErrorUnderWay(c)
                            /\ SuccessUnderWay(c)' <=> SuccessUnderWay(c)
      BY <3>1 DEF IsMarked, ErrorUnderWay, SuccessUnderWay
    <3>5. \A c \in due : c \in Blocks
      BY DEF TypeOK
    <3> QED BY <3>1, <3>2, <3>3, <3>4, <3>5 DEF OnceInv, HandedOnce
  <2>4. ASSUME NEW r \in Replays, MarkSuccess(r) PROVE OnceInv'
    <3>1. PICK b \in todo[r] : /\ docs' = [docs EXCEPT ![b] = "success"]
                               /\ marked' = [marked EXCEPT ![r] = b]
                               /\ todo' = [todo EXCEPT ![r] = @ \ {b}]
      BY <2>4 DEF MarkSuccess
    <3>2. UNCHANGED <<due, writes, handed>> /\ b \in Blocks /\ Waiting(b)
      BY <2>4 DEF MarkSuccess, TypeOK, Waiting
    <3>3. docs[b] = "error" /\ b \notin due /\ ~(handed[b] > 0) /\ ~ErrorUnderWay(b)
      BY <3>2 DEF OnceInv
    <3>4. docs'[b] = "success" /\ \A c \in Blocks : c # b => docs'[c] = docs[c]
      BY <3>1, <3>2 DEF TypeOK
    <3>5. /\ \A c \in Blocks : Waiting(c)' => Waiting(c) /\ c # b
          /\ \A c \in Blocks : IsMarked(c)' => c = b
      BY <3>1 DEF TypeOK, Waiting, IsMarked
    <3>6. \A c \in Blocks : /\ ErrorUnderWay(c)' <=> ErrorUnderWay(c)
                            /\ SuccessUnderWay(c)' <=> SuccessUnderWay(c)
      BY <3>2 DEF ErrorUnderWay, SuccessUnderWay
    <3>7. \A c \in due : c \in Blocks
      BY DEF TypeOK
    <3> QED BY <3>2, <3>3, <3>4, <3>5, <3>6, <3>7 DEF OnceInv, HandedOnce
  <2>5. ASSUME NEW r \in Replays, EmitAgain(r) PROVE OnceInv'
    <3>a. PICK b \in Blocks : b = marked[r]
      BY <2>5 DEF EmitAgain, TypeOK
    <3>1. /\ Handle(b) /\ UNCHANGED <<due, docs, todo>>
          /\ marked' = [marked EXCEPT ![r] = None]
      BY <2>5, <3>a DEF EmitAgain
    <3>2. IsMarked(b)
      BY <3>a DEF IsMarked
    <3>3. /\ b \notin due /\ docs[b] # "error" /\ ~Waiting(b) /\ ~(handed[b] > 0)
          /\ ~ErrorUnderWay(b)
      BY <3>1, <3>2 DEF OnceInv
    <3>4. \A c \in Blocks : ~IsMarked(c)' /\ (Waiting(c)' <=> Waiting(c))
      BY <3>1, NoneAssumption DEF IsMarked, Waiting, TypeOK
    <3>5. \A c \in Blocks : c # b =>
            /\ SuccessUnderWay(c)' <=> SuccessUnderWay(c)
            /\ ErrorUnderWay(c)' <=> ErrorUnderWay(c)
            /\ handed'[c] = handed[c]
      BY <3>1, HandleAccounts
    <3>6. /\ handed'[b] <= 1
          /\ handed'[b] > 0 => ~ErrorUnderWay(b)'
          /\ SuccessUnderWay(b)' => handed'[b] > 0
      <4>1. handed[b] = 0 /\ ~SuccessUnderWay(b)
        BY <3>1, <3>3, <2>a DEF OnceInv
      <4> QED BY <3>1, <3>3, <4>1, <2>b
    <3>7. \A c \in due : c \in Blocks /\ c # b
      BY <3>3 DEF TypeOK
    <3>8. \A c \in Blocks :
            /\ handed'[c] <= 1
            /\ SuccessUnderWay(c)' => handed'[c] > 0
            /\ handed'[c] > 0 => docs[c] # "error" /\ ~ErrorUnderWay(c)' /\ ~Waiting(c)
            /\ ErrorUnderWay(c)' => docs[c] # "error" /\ ~Waiting(c)
            /\ Waiting(c) => docs[c] = "error"
      <4> TAKE c \in Blocks
      <4>1. CASE c = b
        BY <4>1, <3>3, <3>6, <3>1
      <4>2. CASE c # b
        BY <4>2, <3>5, <2>c DEF OnceInv
      <4> QED BY <4>1, <4>2
    <3>9. \A c \in due : /\ handed'[c] = 0 /\ docs[c] = "none" /\ ~Waiting(c)
                        /\ ~ErrorUnderWay(c)' /\ ~SuccessUnderWay(c)'
      BY <3>5, <3>7 DEF OnceInv
    <3> QED BY <3>1, <3>4, <3>7, <3>8, <3>9 DEF OnceInv, HandedOnce
  <2>6. CASE Crash
    <3>1. /\ UNCHANGED <<due, docs, handed>>
          /\ \A c \in Blocks : /\ ~ErrorUnderWay(c)' /\ ~SuccessUnderWay(c)'
                               /\ ~IsMarked(c)' /\ ~Waiting(c)'
      BY <2>6, NoneAssumption DEF Crash, ErrorUnderWay, SuccessUnderWay, IsMarked, Waiting
    <3>2. \A c \in due : c \in Blocks
      BY DEF TypeOK
    <3> QED BY <3>1, <3>2 DEF OnceInv, HandedOnce
  <2>7. ASSUME UNCHANGED <<due, docs, writes, todo, marked, handed>> PROVE OnceInv'
    BY <2>7 DEF OnceInv, HandedOnce, SuccessUnderWay, ErrorUnderWay, IsMarked, Waiting
  <2> QED BY <2>1, <2>2, <2>3, <2>4, <2>5, <2>6, <2>7
          DEF Next, Replay, StopBroker, StartBroker, Reconnect, Start, vars
<1>3. OnceInv => HandedOnce
  BY DEF OnceInv
<1> QED BY <1>1, <1>2, <1>3, WorkerTypeCorrect, PTL DEF Spec
=============================================================================
