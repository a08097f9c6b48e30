-------------------------- MODULE NodeClientProofs --------------------------
(***************************************************************************)
(* What a call does to its node, for every limit of attempts and every set *)
(* of methods: TypeOK and GivesUpAtLimit of NodeClient.                    *)
(***************************************************************************)
EXTENDS NodeClient, FiniteSetTheorems, TLAPS

\* The calls that wait inside their try have not failed yet, all others up to the
\* current one have: with those that wait, the failures are as many as the attempts.
Counting ==
    LET Tried == failed + Cardinality(guards) IN
    method.retry = "counted" =>
        /\ pc \in {"request", "sync"} => Tried >= attempt \/ Tried >= MaxAttempt
        /\ pc = "delay" => attempt < MaxAttempt /\ Tried >= attempt + 1
        /\ result \in {"thrown", "fallback"} => failed >= MaxAttempt + 1

\* Only getAssetInfoById calls itself inside its try: the others fail once with each
\* attempt.
Plain ==
    method.answer # "found" =>
        /\ guards = {}
        /\ method.retry = "counted" =>
              /\ attempt <= MaxAttempt
              /\ pc \in {"request", "sync"} => failed = attempt
              /\ pc = "delay" => failed = attempt + 1
              /\ failed <= MaxAttempt + 1

\* A method that never retries has failed only when it is done.
Never ==
    method.retry = "never" =>
        /\ pc # "delay" /\ failed <= 1
        /\ pc # "done" => failed = 0

Open == pc # "done" => result = "none"

\* The calls that wait are callers of the current one.
Callers == \A g \in guards : g < attempt

IInv == TypeOK /\ Counting /\ Plain /\ Never /\ Open /\ Callers

LEMMA InitIInv == Init => IInv
<1> SUFFICES ASSUME Init PROVE IInv
  OBVIOUS
<1>1. Cardinality({}) = 0
  BY FS_EmptySet
<1> QED BY <1>1, BoundsAssumption, MethodsAssumption
  DEF Init, IInv, TypeOK, Counting, Plain, Never, Open, Callers

\* A call waits or not; one more that waits counts for one.
LEMMA GuardsFinite ==
    ASSUME TypeOK
    PROVE  /\ Cardinality(guards) \in Nat
           /\ guards = {} => Cardinality(guards) = 0
           /\ \A g \in guards : Cardinality(guards \ {g}) = Cardinality(guards) - 1
           /\ \A g \in Nat : g \notin guards => Cardinality(guards \cup {g}) = Cardinality(guards) + 1
<1>1. IsFiniteSet(0 .. MaxAttempt - 1)
  BY FS_Interval, BoundsAssumption
<1>2. IsFiniteSet(guards)
  BY <1>1, FS_Subset DEF TypeOK
<1> QED BY <1>2, FS_CardinalityType, FS_EmptySet, FS_RemoveElement, FS_AddElement

\* A failed request is the last one, or is followed by a delay of its own attempt or of
\* one that waits.
LEMMA FailIInv ==
    ASSUME IInv, pc \in {"request", "sync"}, Fail
    PROVE  IInv'
<1> USE BoundsAssumption, MethodsAssumption
<1>1. /\ failed' = Incremented(failed, MaxAttempt + 2)
      /\ UNCHANGED <<method, node, changes>>
      /\ method.retry \in {"counted", "restarted", "never"}
      /\ method.answer = "found" => method.retry = "counted"
      /\ method.end \in {"throw", "fallback"}
  BY DEF Fail, IInv, TypeOK
<1>2. /\ Cardinality(guards) \in Nat
      /\ guards = {} => Cardinality(guards) = 0
      /\ \A g \in guards : Cardinality(guards \ {g}) = Cardinality(guards) - 1
  BY GuardsFinite DEF IInv
<1>3. CASE Wait
  <2>1. guards' = guards /\ attempt' = attempt /\ result' = result /\ pc' = "delay" /\ ~LastAttempt
    BY <1>3 DEF Wait
  <2>2. TypeOK' /\ Callers'
    BY <1>1, <2>1 DEF IInv, TypeOK, Callers, Incremented
  <2>3. Cardinality(guards') = Cardinality(guards)
    BY <2>1
  <2>4. Counting'
    BY <1>1, <1>2, <2>1, <2>3 DEF IInv, TypeOK, Counting, Open, Incremented, LastAttempt
  <2>5. Plain' /\ Never' /\ Open'
    BY <1>1, <2>1 DEF IInv, TypeOK, Plain, Never, Open, Incremented, LastAttempt
  <2> QED BY <2>2, <2>4, <2>5 DEF IInv
<1>4. CASE CaughtBelow
  <2>1. PICK g \in guards : /\ Innermost(g) /\ attempt' = g /\ guards' = guards \ {g}
                            /\ pc' = "delay" /\ result' = result /\ LastAttempt
    BY <1>4 DEF CaughtBelow
  <2>2. method.answer = "found" /\ method.retry = "counted"
    BY <1>1, <2>1 DEF IInv, Plain
  <2>3. g \in 0 .. MaxAttempt - 1 /\ attempt >= MaxAttempt
    BY <2>1, <2>2 DEF IInv, TypeOK, LastAttempt
  <2>4. TypeOK' /\ Callers'
    BY <1>1, <2>1, <2>3 DEF IInv, TypeOK, Callers, Innermost, Incremented
  <2>5. Cardinality(guards') = Cardinality(guards) - 1
    BY <1>2, <2>1
  <2>6. Counting'
    BY <1>1, <1>2, <2>1, <2>2, <2>3, <2>5 DEF IInv, TypeOK, Counting, Open, Incremented
  <2>7. Plain' /\ Never' /\ Open'
    BY <1>1, <2>1, <2>2 DEF IInv, Plain, Never, Open
  <2> QED BY <2>4, <2>6, <2>7 DEF IInv
<1>5. CASE GiveUp
  <2>1. /\ guards' = {} /\ guards = {} /\ attempt' = attempt /\ pc' = "done" /\ LastAttempt
        /\ result' \in {"thrown", "fallback"}
    BY <1>5 DEF GiveUp
  <2>2. TypeOK' /\ Callers'
    BY <1>1, <2>1 DEF IInv, TypeOK, Callers, Incremented
  <2>3. Counting'
    BY <1>1, <1>2, <2>1 DEF IInv, TypeOK, Counting, Open, Incremented, LastAttempt
  <2>4. Plain' /\ Never' /\ Open'
    BY <1>1, <2>1 DEF IInv, TypeOK, Plain, Never, Open, Incremented, LastAttempt
  <2> QED BY <2>2, <2>3, <2>4 DEF IInv
<1> QED BY <1>3, <1>4, <1>5 DEF Fail

LEMMA ReturnIInv ==
    ASSUME IInv, NEW r \in {"value", "nothing"}, Return(r)
    PROVE  IInv'
  BY BoundsAssumption DEF IInv, TypeOK, Counting, Plain, Never, Open, Callers, Return

\* A call made inside the try: one attempt more, and one more that waits.
LEMMA AskAgainIInv ==
    ASSUME IInv, AskAgain
    PROVE  IInv'
<1> USE BoundsAssumption, MethodsAssumption
<1>1. /\ attempt' = Incremented(attempt, MaxAttempt + 1) /\ guards' = guards \cup Guarded(attempt)
      /\ UNCHANGED <<method, pc, failed, result, node, changes>>
      /\ pc = "request" /\ method.answer = "found" /\ method.retry = "counted"
  BY DEF AskAgain, IInv, TypeOK
<1>2. attempt \notin guards /\ attempt \in Nat
  BY DEF IInv, Callers, TypeOK
<1>3. /\ Cardinality(guards) \in Nat
      /\ Cardinality(guards \cup {attempt}) = Cardinality(guards) + 1
  BY <1>2, GuardsFinite DEF IInv
<1>4. attempt < MaxAttempt => Guarded(attempt) = {attempt}
  BY <1>2 DEF Guarded
<1>5. attempt >= MaxAttempt => Guarded(attempt) = {}
  BY <1>2 DEF Guarded
<1>6. Guarded(attempt) \subseteq 0 .. MaxAttempt - 1 /\ Guarded(attempt) \subseteq {attempt}
  BY DEF Guarded
<1>7. TypeOK'
  <2>1. guards' \subseteq 0 .. MaxAttempt - 1
    BY <1>1, <1>6 DEF IInv, TypeOK
  <2>2. attempt' \in 0 .. MaxAttempt + 1
    BY <1>1, <1>2 DEF IInv, TypeOK, Incremented
  <2> HIDE BoundsAssumption, MethodsAssumption
  <2> QED BY <1>1, <2>1, <2>2 DEF IInv, TypeOK
<1>10. Callers'
  <2> SUFFICES ASSUME NEW h \in guards' PROVE h < attempt'
    BY DEF Callers
  <2>1. h \in guards \/ (h = attempt /\ attempt < MaxAttempt)
    BY <1>1, <1>2, <1>6
  <2>2. h \in guards => h < attempt /\ h \in Nat
    BY DEF IInv, Callers, TypeOK
  <2>3. attempt' >= attempt /\ attempt' \in Nat /\ (attempt < MaxAttempt => attempt' = attempt + 1)
    BY <1>1, <1>2 DEF Incremented
  <2> QED BY <1>2, <2>1, <2>2, <2>3
<1>8. Counting'
  <2>1. CASE attempt < MaxAttempt
    <3>1. Cardinality(guards') = Cardinality(guards) + 1
      BY <1>1, <1>3, <1>4, <2>1
    <3> QED BY <1>1, <1>3, <2>1, <3>1 DEF IInv, TypeOK, Counting, Open, Incremented
  <2>2. CASE attempt >= MaxAttempt
    <3>1. guards' = guards
      BY <1>1, <1>5, <2>2
    <3>2. Cardinality(guards') = Cardinality(guards)
      BY <3>1
    <3> QED BY <1>1, <1>3, <2>2, <3>2 DEF IInv, TypeOK, Counting, Open, Incremented
  <2> QED BY <2>1, <2>2 DEF IInv, TypeOK
<1>9. Plain' /\ Never' /\ Open'
  BY <1>1 DEF IInv, Plain, Never, Open
<1> QED BY <1>7, <1>8, <1>9, <1>10 DEF IInv

LEMMA RetryIInv ==
    ASSUME IInv, Retry
    PROVE  IInv'
<1> USE BoundsAssumption, MethodsAssumption
<1>1. /\ pc = "delay" /\ pc' = "request" /\ attempt' = NextAttempt
      /\ UNCHANGED <<method, guards, failed, result, node, changes>>
      /\ method.retry \in {"counted", "restarted", "never"}
      /\ method.answer = "found" => method.retry = "counted"
  BY DEF Retry, IInv, TypeOK
<1>2. Cardinality(guards) \in Nat /\ Cardinality(guards') = Cardinality(guards)
  BY <1>1, GuardsFinite DEF IInv
<1>3. TypeOK' /\ Callers'
  BY <1>1 DEF IInv, TypeOK, Plain, Callers, NextAttempt, Incremented
<1>4. Counting'
  BY <1>1, <1>2 DEF IInv, TypeOK, Counting, Open, NextAttempt, Incremented
<1>5. Plain' /\ Never' /\ Open'
  BY <1>1 DEF IInv, TypeOK, Counting, Plain, Never, Open, NextAttempt, Incremented
<1> QED BY <1>3, <1>4, <1>5 DEF IInv

LEMMA NextIInv == IInv /\ [Next]_vars => IInv'
<1> SUFFICES ASSUME IInv, [Next]_vars PROVE IInv'
  OBVIOUS
<1> USE BoundsAssumption
<1>1. CASE Answer
  BY <1>1, ReturnIInv DEF Answer
<1>2. CASE AnswerNothing
  BY <1>2, ReturnIInv DEF AnswerNothing
<1>3. CASE AskSyncing
  BY <1>3 DEF AskSyncing, call, IInv, TypeOK, Counting, Plain, Never, Open, Callers
<1>4. CASE AskAgain
  BY <1>4, AskAgainIInv
<1>5. CASE EmptyReceipt
  BY <1>5, FailIInv DEF EmptyReceipt
<1>6. CASE Syncing
  BY <1>6, ReturnIInv DEF Syncing
<1>7. CASE NoAnswer
  BY <1>7, FailIInv DEF NoAnswer
<1>8. CASE Retry
  BY <1>8, RetryIInv
<1>9. CASE Change
  BY <1>9 DEF Change, call, IInv, TypeOK, Counting, Plain, Never, Open, Callers
<1>10. CASE UNCHANGED vars
  BY <1>10 DEF vars, IInv, TypeOK, Counting, Plain, Never, Open, Callers
<1> QED BY <1>1, <1>2, <1>3, <1>4, <1>5, <1>6, <1>7, <1>8, <1>9, <1>10 DEF Next, Step

LEMMA Always == Spec => []IInv
  BY InitIInv, NextIInv, PTL DEF Spec

\* The types hold for every limit and every set of methods.
THEOREM TypeCorrect == Spec => []TypeOK
<1>1. IInv => TypeOK
  BY DEF IInv
<1> QED BY <1>1, Always, PTL

\* For every limit of attempts, a broadcast is sent at most once; a counted call does not
\* give up before its limit, and none but getAssetInfoById fails more often (broadcast,
\* getTransactionReceipt and the others).
THEOREM LimitHolds == Spec => []GivesUpAtLimit
<1>1. IInv => GivesUpAtLimit
  BY DEF IInv, Counting, Plain, Never, GivesUpAtLimit
<1> QED BY <1>1, Always, PTL
=============================================================================
