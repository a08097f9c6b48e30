------------------------ MODULE BlockPipelineProofs ------------------------
(***************************************************************************)
(* Theorems about BlockPipeline, for every chain height, every number of   *)
(* confirmations, every set of calls and both flavours of validateBlock.   *)
(***************************************************************************)
EXTENDS BlockPipeline, TLAPS

----------------------------------------------------------------------------
(* Inductive invariants *)

\* Everything on the way from fetchRange to the database is confirmed.
ConfirmedInv ==
    /\ \A h \in Queued : h <= ConfirmedHeight
    /\ \A c \in Calls : fetch[c].st = "run" =>
        fetch[c].next <= fetch[c].to /\ fetch[c].to <= ConfirmedHeight
    /\ \A c \in Calls : proc[c].st \in {"apply", "sync", "emit"} =>
        proc[c].block <= ConfirmedHeight
    /\ \A h \in Heights : applied[h] > 0 => h <= ConfirmedHeight

Busy(c) == proc[c].st \in {"apply", "sync", "emit"}

\* The lowest height that processRange has not popped yet.
Front(c) == IF Busy(c) THEN proc[c].from + 1 ELSE proc[c].from

\* The lowest height that fetchRange has not pushed yet.
Fetched(c) == IF fetch[c].st = "run" THEN fetch[c].next ELSE proc[c].to + 1

\* Every height of the monitored range below n was written or has failed.
CoveredBelow(n) ==
    \A h \in Heights : base < h /\ h < n => applied[h] > 0 \/ h \in failed

\* One Promise.all at a time.
OneCall ==
    /\ \A c \in Calls : ~Idle(c) => pc = "all" /\ call = c
    /\ pc = "all" => call \in Calls
    /\ pc = "height" => doc = synced

\* The queue is the interval between the consumer and the producer, in order.
QueueInterval ==
    /\ \A h \in Queued : pc = "all" /\ proc[call].st # "idle"
    /\ \A c \in Calls :
        /\ proc[c].st = "idle" => fetch[c].st = "idle"
        /\ proc[c].st # "idle" =>
            /\ \A h \in Heights :
                nextBlocks[h] = IF Front(c) <= h /\ h < Fetched(c) THEN 1 ELSE 0
            /\ Front(c) <= Fetched(c)
            /\ fetch[c].st = "run" => fetch[c].next <= fetch[c].to /\ fetch[c].to = proc[c].to
            /\ proc[c].st = "pop" => Front(c) < Fetched(c) /\ proc[c].from <= proc[c].to

\* What processRange has behind it, and how far the database is.
Progress ==
    /\ latest >= 1
    /\ base = NoDoc <=> synced = NoDoc
    /\ base # Genesis /\ synced # Genesis /\ base <= synced
    /\ \A c \in Calls : proc[c].st # "idle" =>
        /\ base # NoDoc /\ base < proc[c].from
        /\ CoveredBelow(proc[c].from)
        /\ proc[c].st # "emit" => synced < proc[c].from
        /\ Busy(c) => proc[c].block = proc[c].from /\ proc[c].from <= proc[c].to
        /\ proc[c].st = "sync" => applied[proc[c].block] > 0
        /\ proc[c].st = "emit" => synced = proc[c].block /\ emitted[proc[c].block] = 0
    /\ \A h \in Heights : emitted[h] > 0 => h <= synced
    /\ OnlySwallowedSkipped
    /\ AnnouncedOnce

SequentialInv == OneCall /\ QueueInterval /\ Progress

----------------------------------------------------------------------------
(* Type correctness *)

\* What is one above a height is in the range of the next fields.
LEMMA HeightSuccessor == \A h \in Heights : h + 1 \in 0 .. MaxHeight + 1 /\ 0 \in Heights
  BY MaxHeightAssumption DEF Heights

\* The state of the pipeline always has its type: in particular no coroutine, and
\* none left behind by a rejected Promise.all, ever holds a height the chain
\* does not have.
THEOREM TypeCorrect == Spec => []TypeOK
<1> USE MinConfAssumption, MaxHeightAssumption, CallsAssumption DEF TypeOK
<1>1. Init => TypeOK
  <2> SUFFICES ASSUME Init PROVE TypeOK
    OBVIOUS
  <2>1. latest \in Heights /\ synced \in Docs /\ base \in Docs /\ doc \in Docs
    BY SyncAssumption DEF Init, NeedsBootstrap, Heights, Docs
  <2>2. FetchIdle \in FetchStates /\ ProcIdle \in ProcStates
    BY DEF FetchIdle, ProcIdle, FetchStates, ProcStates, Heights
  <2> QED BY <2>1, <2>2 DEF Init
<1>2. TypeOK /\ [Next]_vars => TypeOK'
  <2> SUFFICES ASSUME TypeOK, [Next]_vars PROVE TypeOK'
    OBVIOUS
  <2> USE DEF control, coroutines, history
  <2>a. FetchIdle \in FetchStates /\ ProcIdle \in ProcStates /\ NoDoc \in Docs
    BY DEF FetchIdle, ProcIdle, FetchStates, ProcStates, Heights, Docs
  <2>b. ASSUME NEW c \in Calls
        PROVE  /\ proc[c].block \in Heights
               /\ NextRange(proc[c]) \in ProcStates
               /\ applied[proc[c].block] + 1 \in Nat
               /\ emitted[proc[c].block] + 1 \in Nat
    <3>1. proc[c].block \in Heights /\ proc[c].to \in Heights
      BY DEF ProcStates
    <3>2. proc[c].block + 1 \in 0 .. MaxHeight + 1 /\ 0 \in Heights
      BY <3>1, HeightSuccessor, Zenon
    <3>3. applied[proc[c].block] \in Nat /\ emitted[proc[c].block] \in Nat
      BY <3>1
    <3>4. applied[proc[c].block] + 1 \in Nat /\ emitted[proc[c].block] + 1 \in Nat
      BY <3>3
    <3> QED BY <3>1, <3>2, <3>4 DEF NextRange, ProcStates
  <2>1. CASE ChainGrows
    <3>1. latest' \in Heights
      BY <2>1 DEF ChainGrows, Heights
    <3> QED BY <2>1, <3>1 DEF ChainGrows
  <2>2. CASE GetSynced
    BY <2>2 DEF GetSynced
  <2>3. CASE CompareHeights
    <3> DEFINE current == CurrentHeight(doc)
    <3>1. BootstrapHeight \in Docs
      BY DEF BootstrapHeight, Docs, Heights, Genesis
    <3>2. current \in Int /\ current >= -1
      BY DEF CurrentHeight, BootstrapHeight, Docs, Heights, Genesis
    <3>3. synced' \in Docs /\ base' \in Docs
      BY <2>3, <3>1 DEF CompareHeights
    <3>4. ASSUME current < ConfirmedHeight
          PROVE  FirstHeight(current) \in 0 .. MaxHeight + 1 /\ ConfirmedHeight \in Heights
      <4> HIDE DEF current
      <4> QED BY <3>2, <3>4 DEF FirstHeight, ConfirmedHeight, Heights
    <3>5. /\ pc' \in {"get", "height", "all"} /\ call' \in Calls \cup {None}
          /\ replay' \in [Calls -> BOOLEAN]
      BY <2>3 DEF CompareHeights
    <3>6. fetch' \in [Calls -> FetchStates]
      <4>1. current < ConfirmedHeight =>
              [st |-> "run", next |-> FirstHeight(current), to |-> ConfirmedHeight] \in FetchStates
        BY <3>4 DEF FetchStates
      <4> QED BY <2>3, <4>1 DEF CompareHeights
    <3>7. proc' \in [Calls -> ProcStates]
      <4>1. current < ConfirmedHeight =>
              [st |-> "check", from |-> FirstHeight(current), to |-> ConfirmedHeight,
               block |-> 0] \in ProcStates
        BY <3>4 DEF ProcStates, Heights
      <4> QED BY <2>3, <4>1 DEF CompareHeights
    <3> QED BY <2>3, <2>a, <3>3, <3>5, <3>6, <3>7 DEF CompareHeights
  <2>4. CASE PollThrows
    BY <2>4, <2>a DEF PollThrows
  <2>5. CASE AllResolve
    BY <2>5 DEF AllResolve
  <2>6. ASSUME NEW c \in Calls, ReplayEnds(c) \/ ReplayThrows(c)
        PROVE TypeOK'
    BY <2>6 DEF ReplayEnds, ReplayThrows, Rejects
  <2>7. ASSUME NEW c \in Calls, FetchBlock(c)
        PROVE TypeOK'
    <3>a. fetch[c].next \in 0 .. MaxHeight + 1 /\ fetch[c].to \in 0 .. MaxHeight
      BY DEF FetchStates, Heights
    <3>b. fetch[c].next < fetch[c].to => fetch[c].next + 1 \in 0 .. MaxHeight + 1
      BY <3>a
    <3>1. fetch[c].next < fetch[c].to => [fetch[c] EXCEPT !.next = @ + 1] \in FetchStates
      BY <3>b DEF FetchStates
    <3>c. fetch[c].next \in Heights => nextBlocks[fetch[c].next] + 1 \in Nat
      OBVIOUS
    <3>2. nextBlocks' \in [Heights -> Nat]
      BY <2>7, <3>c DEF FetchBlock
    <3> QED BY <2>7, <2>a, <3>1, <3>2 DEF FetchBlock
  <2>8. ASSUME NEW c \in Calls, FetchThrows(c)
        PROVE TypeOK'
    BY <2>8, <2>a DEF FetchThrows, Rejects
  <2>9. ASSUME NEW c \in Calls, RangeDone(c) \/ PopNothing(c)
        PROVE TypeOK'
    BY <2>9, <2>a DEF RangeDone, PopNothing, Rejects
  <2>10. ASSUME NEW c \in Calls, ShouldProcess(c)
         PROVE TypeOK'
    <3>1. [proc[c] EXCEPT !.st = "pop"] \in ProcStates
      BY DEF ProcStates
    <3> QED BY <2>10, <3>1 DEF ShouldProcess
  <2>11. ASSUME NEW c \in Calls, PopBlock(c)
         PROVE TypeOK'
    <3>1. PICK h \in Heights : /\ IsHead(h)
                               /\ nextBlocks' = [nextBlocks EXCEPT ![h] = @ - 1]
                               /\ proc' = [proc EXCEPT ![c].st = "apply", ![c].block = h]
      BY <2>11 DEF PopBlock
    <3>2. nextBlocks' \in [Heights -> Nat]
      BY <3>1 DEF IsHead, Queued
    <3>3. [proc[c] EXCEPT !.st = "apply", !.block = h] \in ProcStates
      BY DEF ProcStates
    <3>4. proc' \in [Calls -> ProcStates]
      BY <3>1, <3>3
    <3> QED BY <2>11, <3>2, <3>4 DEF PopBlock
  <2>12. ASSUME NEW c \in Calls, ApplyBlock(c)
         PROVE TypeOK'
    <3>1. [proc[c] EXCEPT !.st = "sync"] \in ProcStates
      BY DEF ProcStates
    <3> QED BY <2>12, <2>b, <3>1 DEF ApplyBlock
  <2>13. ASSUME NEW c \in Calls, SyncBlock(c)
         PROVE TypeOK'
    <3>1. [proc[c] EXCEPT !.st = "emit"] \in ProcStates /\ SyncedHeight(proc[c]) \in Docs
      BY DEF ProcStates, SyncedHeight, Docs
    <3> QED BY <2>13, <3>1 DEF SyncBlock
  <2>14. ASSUME NEW c \in Calls, EmitBlock(c)
         PROVE TypeOK'
    BY <2>14, <2>b DEF EmitBlock
  <2>15. ASSUME NEW c \in Calls, ProcessThrows(c)
         PROVE TypeOK'
    BY <2>15, <2>b DEF ProcessThrows
  <2>16. CASE Crash
    BY <2>16, <2>a DEF Crash
  <2>17. CASE UNCHANGED vars
    BY <2>17 DEF vars
  <2> QED
    BY <2>1, <2>2, <2>3, <2>4, <2>5, <2>6, <2>7, <2>8, <2>9, <2>10, <2>11, <2>12, <2>13,
       <2>14, <2>15, <2>16, <2>17
    DEF Next, MonitorNetwork, ProcessRange, Failures
<1> QED BY <1>1, <1>2, PTL DEF Spec

----------------------------------------------------------------------------
(* No unconfirmed block is processed *)

\* Every step keeps what is queued, fetched and processed at or below the confirmed height.
LEMMA ConfirmedStep ==
    ASSUME TypeOK, TypeOK', ConfirmedInv, [Next]_vars
    PROVE  ConfirmedInv'
<1> USE MinConfAssumption, MaxHeightAssumption DEF ConfirmedInv,
        control, coroutines, history
<1>a. ConfirmedHeight \in Int /\ ConfirmedHeight' \in Int
  BY DEF ConfirmedHeight, TypeOK, Heights
<1>b. Heights \subseteq Int
  BY DEF Heights
<1>1. CASE ChainGrows
  <2>1. ConfirmedHeight' = ConfirmedHeight + 1
    BY <1>1 DEF ChainGrows, ConfirmedHeight, TypeOK, Heights
  <2>2. UNCHANGED <<nextBlocks, fetch, proc, applied>> /\ Queued' = Queued
    BY <1>1 DEF ChainGrows, Queued
  <2>3. \A x \in Int : x <= ConfirmedHeight => x <= ConfirmedHeight'
    BY <1>a, <2>1
  <2>4. \A c \in Calls : fetch[c].to \in Int /\ proc[c].block \in Int
    BY <1>b DEF TypeOK, FetchStates, ProcStates
  <2>5. Queued \subseteq Int
    BY <1>b DEF Queued
  <2> QED BY <2>2, <2>3, <2>4, <2>5, <1>b
<1>2. ASSUME latest' = latest PROVE ConfirmedHeight' = ConfirmedHeight
  BY <1>2 DEF ConfirmedHeight
<1>3. ASSUME UNCHANGED <<latest, nextBlocks, fetch, proc, applied>> PROVE ConfirmedInv'
  BY <1>2, <1>3 DEF Queued
<1>4. CASE CompareHeights
  <2>1. UNCHANGED <<latest, nextBlocks, applied>>
    BY <1>4 DEF CompareHeights
  <2>2. CASE UNCHANGED <<fetch, proc>>
    BY <2>1, <2>2, <1>3
  <2>3. ASSUME NEW c \in Calls, CurrentHeight(doc) < ConfirmedHeight,
               fetch' = [fetch EXCEPT ![c] = [st |-> "run",
                   next |-> FirstHeight(CurrentHeight(doc)), to |-> ConfirmedHeight]],
               proc' = [proc EXCEPT ![c] = [st |-> "check",
                   from |-> FirstHeight(CurrentHeight(doc)), to |-> ConfirmedHeight,
                   block |-> 0]]
        PROVE  ConfirmedInv'
    <3>1. CurrentHeight(doc) \in Int
      BY DEF CurrentHeight, BootstrapHeight, TypeOK, Docs, Heights, NoDoc, Genesis
    <3>2. FirstHeight(CurrentHeight(doc)) <= ConfirmedHeight
      BY <2>3, <3>1, <1>a DEF FirstHeight
    <3>3. ConfirmedHeight <= ConfirmedHeight
      BY <1>a
    <3>4. \A d \in Calls : fetch'[d].st = "run" =>
              fetch'[d].next <= fetch'[d].to /\ fetch'[d].to <= ConfirmedHeight
      BY <2>3, <3>2, <3>3 DEF TypeOK
    <3>5. \A d \in Calls : proc'[d].st \in {"apply", "sync", "emit"} =>
              proc'[d].block <= ConfirmedHeight
      BY <2>3 DEF TypeOK
    <3> QED BY <2>1, <3>4, <3>5, <1>2 DEF Queued
  <2> QED BY <1>4, <2>2, <2>3 DEF CompareHeights
<1>5. ASSUME NEW c \in Calls, FetchBlock(c) PROVE ConfirmedInv'
  <2>1. fetch[c].next <= fetch[c].to /\ fetch[c].to <= ConfirmedHeight
    BY <1>5 DEF FetchBlock
  <2>2. fetch[c].next \in Int /\ fetch[c].to \in Int
    <3>1. fetch[c].next \in 0 .. MaxHeight + 1 /\ fetch[c].to \in Heights
      BY DEF TypeOK, FetchStates
    <3>2. 0 .. MaxHeight + 1 \subseteq Int
      OBVIOUS
    <3> QED BY <3>1, <3>2, <1>b
  <2>3. Queued' \subseteq Queued \cup {fetch[c].next}
    BY <1>5 DEF FetchBlock, Queued, TypeOK
  <2>4. \A h \in Queued' : h <= ConfirmedHeight
    BY <2>1, <2>2, <2>3, <1>a
  <2>5. fetch[c].next < fetch[c].to => fetch[c].next + 1 <= fetch[c].to
    BY <2>2
  <2>6. \A d \in Calls : fetch'[d].st = "run" =>
            fetch'[d].next <= fetch'[d].to /\ fetch'[d].to <= ConfirmedHeight
    BY <1>5, <2>1, <2>5 DEF FetchBlock, TypeOK, FetchStates, FetchIdle
  <2> QED BY <1>5, <1>2, <2>4, <2>6 DEF FetchBlock
<1>6. ASSUME NEW c \in Calls, FetchThrows(c) PROVE ConfirmedInv'
  BY <1>6, <1>2 DEF FetchThrows, TypeOK, FetchIdle, Queued
<1>7. ASSUME NEW c \in Calls, ShouldProcess(c) \/ RangeDone(c) \/ PopNothing(c)
      PROVE  ConfirmedInv'
  <2>1. UNCHANGED <<latest, nextBlocks, fetch, applied>>
    BY <1>7 DEF ShouldProcess, RangeDone, PopNothing
  <2>2. \/ proc' = [proc EXCEPT ![c] = ProcIdle]
        \/ proc' = [proc EXCEPT ![c].st = "pop"]
    BY <1>7 DEF ShouldProcess, RangeDone, PopNothing
  <2>3. \A d \in Calls : proc'[d].st \in {"apply", "sync", "emit"} => proc'[d] = proc[d]
    BY <2>2 DEF TypeOK, ProcStates, ProcIdle
  <2> QED BY <2>1, <2>3, <1>2 DEF Queued
<1>8. ASSUME NEW c \in Calls, PopBlock(c) PROVE ConfirmedInv'
  <2>1. PICK h \in Heights : /\ IsHead(h)
                             /\ nextBlocks' = [nextBlocks EXCEPT ![h] = @ - 1]
                             /\ proc' = [proc EXCEPT ![c].st = "apply", ![c].block = h]
    BY <1>8 DEF PopBlock
  <2>2. h <= ConfirmedHeight
    BY <2>1 DEF IsHead
  <2>3. Queued' \subseteq Queued
    BY <2>1 DEF Queued, IsHead, TypeOK
  <2>4. \A d \in Calls : proc'[d].st \in {"apply", "sync", "emit"} =>
            proc'[d].block <= ConfirmedHeight
    BY <2>1, <2>2 DEF TypeOK, ProcStates
  <2> QED BY <1>8, <1>2, <2>3, <2>4 DEF PopBlock
<1>9. ASSUME NEW c \in Calls, ApplyBlock(c) PROVE ConfirmedInv'
  <2>1. \A d \in Calls : proc'[d].st \in {"apply", "sync", "emit"} =>
            proc'[d].block <= ConfirmedHeight
    BY <1>9 DEF ApplyBlock, TypeOK, ProcStates
  <2>2. \A h \in Heights : applied'[h] > 0 => h <= ConfirmedHeight
    BY <1>9 DEF ApplyBlock, TypeOK
  <2> QED BY <1>9, <1>2, <2>1, <2>2 DEF ApplyBlock, Queued
<1>10. ASSUME NEW c \in Calls, SyncBlock(c) PROVE ConfirmedInv'
  BY <1>10, <1>2 DEF SyncBlock, TypeOK, ProcStates, Queued
<1>11. ASSUME NEW c \in Calls, EmitBlock(c) \/ ProcessThrows(c) PROVE ConfirmedInv'
  BY <1>11, <1>2 DEF EmitBlock, ProcessThrows, NextRange, TypeOK, Queued
<1>12. CASE Crash
  BY <1>12, <1>2 DEF Crash, FetchIdle, ProcIdle, Queued
<1> QED
  BY <1>1, <1>3, <1>4, <1>5, <1>6, <1>7, <1>8, <1>9, <1>10, <1>11, <1>12
  DEF Next, MonitorNetwork, ProcessRange, Failures, GetSynced, PollThrows, AllResolve,
      ReplayEnds, ReplayThrows, vars

\* So it holds in every reachable state.
LEMMA ConfirmedAlways == Spec => []ConfirmedInv
<1>1. Init => ConfirmedInv
  BY DEF Init, ConfirmedInv, Queued, FetchIdle, ProcIdle
<1>2. TypeOK /\ TypeOK' /\ ConfirmedInv /\ [Next]_vars => ConfirmedInv'
  BY ConfirmedStep
<1> QED BY <1>1, <1>2, TypeCorrect, PTL DEF Spec

\* No block is processed before it has its confirmations, whatever coroutines a
\* rejected Promise.all leaves behind and however often the process restarts.
THEOREM OnlyConfirmedProcessed == Spec => []OnlyConfirmed
<1>1. ConfirmedInv => OnlyConfirmed
  BY DEF ConfirmedInv, OnlyConfirmed, ConfirmedHeight
<1> QED BY <1>1, ConfirmedAlways, PTL

----------------------------------------------------------------------------
(* Without a rejected Promise.all, blocks are processed one by one, in order *)

\* The fields of fetchRange and processRange are heights or one above.
LEMMA FieldTypes ==
    ASSUME TypeOK, NEW c \in Calls
    PROVE  /\ fetch[c].next \in Int /\ fetch[c].to \in Int
           /\ proc[c].from \in Int /\ proc[c].from >= 0
           /\ proc[c].to \in Heights /\ proc[c].to \in Int
           /\ proc[c].block \in Heights /\ proc[c].block \in Int
           /\ proc[c].st \in {"idle", "check", "pop", "apply", "sync", "emit"}
           /\ fetch[c].st \in {"idle", "run"}
<1>1. /\ fetch[c].next \in 0 .. MaxHeight + 1 /\ fetch[c].to \in Heights
      /\ fetch[c].st \in {"idle", "run"}
  BY DEF TypeOK, FetchStates
<1>2. /\ proc[c].from \in 0 .. MaxHeight + 1 /\ proc[c].to \in Heights
      /\ proc[c].block \in Heights
      /\ proc[c].st \in {"idle", "check", "pop", "apply", "sync", "emit"}
  BY DEF TypeOK, ProcStates
<1>3. \A h \in Heights : h \in Int
  BY DEF Heights
<1>4. \A h \in 0 .. MaxHeight + 1 : h \in Int /\ h >= 0
  BY MaxHeightAssumption
<1> QED BY <1>1, <1>2, <1>3, <1>4

\* processRange never finds the queue empty between the peek and the pop.
LEMMA PopFindsBlock ==
    ASSUME TypeOK, SequentialInv, NEW c \in Calls
    PROVE  ~PopNothing(c)
<1> SUFFICES ASSUME PopNothing(c) PROVE FALSE
  OBVIOUS
<1>1. proc[c].st = "pop" /\ Queued = {}
  BY DEF PopNothing
<1>2. Front(c) = proc[c].from /\ Front(c) < Fetched(c) /\ proc[c].from <= proc[c].to
  BY <1>1 DEF SequentialInv, QueueInterval, Front, Busy
<1>3. proc[c].from \in Heights
  BY <1>2, FieldTypes, MaxHeightAssumption DEF Heights
<1>4. nextBlocks[proc[c].from] = 1
  BY <1>1, <1>2, <1>3, FieldTypes DEF SequentialInv, QueueInterval
<1> QED BY <1>1, <1>3, <1>4 DEF Queued

\* Only the awaited call has coroutines.
LEMMA OneCallStep ==
    ASSUME TypeOK, SequentialInv, ~CallCanReject, [Next]_vars
    PROVE  OneCall'
<1> USE CallsAssumption DEF SequentialInv, OneCall, Idle, control, coroutines, history
<1>1. ASSUME NEW c \in Calls, ReplayEnds(c) \/ FetchBlock(c) PROVE OneCall'
  <2>1. pc = "all" /\ call = c
    BY <1>1 DEF ReplayEnds, FetchBlock, FetchIdle
  <2> QED BY <1>1, <2>1 DEF ReplayEnds, FetchBlock, TypeOK
<1>2. ASSUME NEW c \in Calls PROVE ~PopNothing(c)
  BY PopFindsBlock
<1>3. ASSUME NEW c \in Calls, ProcessRange(c) \/ ProcessThrows(c) PROVE OneCall'
  <2>1. pc = "all" /\ call = c
    BY <1>3 DEF ProcessRange, ShouldProcess, RangeDone, PopBlock, PopNothing, ApplyBlock,
                SyncBlock, EmitBlock, ProcessThrows, ProcIdle
  <2>2. UNCHANGED <<pc, doc, call, replay, fetch>>
        /\ \A d \in Calls : d # c => proc'[d] = proc[d]
    BY <1>3, <1>2 DEF ProcessRange, ShouldProcess, RangeDone, PopBlock, ApplyBlock,
                SyncBlock, EmitBlock, ProcessThrows, TypeOK
  <2> QED BY <2>1, <2>2
<1>4. CASE CompareHeights
  <2>1. pc # "all" /\ \A c \in Calls : Idle(c)
    BY <1>4 DEF CompareHeights
  <2> QED BY <1>4, <2>1 DEF CompareHeights, TypeOK
<1>5. CASE AllResolve
  <2>1. \A c \in Calls : Idle(c)
    BY <1>5 DEF AllResolve
  <2> QED BY <1>5, <2>1 DEF AllResolve
<1>6. CASE Crash
  BY <1>6 DEF Crash
<1>7. CASE ChainGrows \/ UNCHANGED vars
  BY <1>7 DEF ChainGrows, vars
<1>8. CASE GetSynced \/ PollThrows
  BY <1>8 DEF GetSynced, PollThrows
<1> QED
  BY <1>1, <1>3, <1>4, <1>5, <1>6, <1>7, <1>8
  DEF Next, MonitorNetwork, Failures, ReplayThrows, FetchThrows

\* The queue stays the interval between the two coroutines.
LEMMA QueueStep ==
    ASSUME TypeOK, TypeOK', SequentialInv, ~CallCanReject, [Next]_vars
    PROVE  QueueInterval'
<1> USE MaxHeightAssumption DEF control, coroutines, history
<1> USE DEF SequentialInv
<1>a. Heights \subseteq Int
  BY DEF Heights
<1>b. ASSUME NEW c \in Calls, ~Idle(c) PROVE pc = "all" /\ call = c
  BY <1>b DEF OneCall
<1>c. ASSUME UNCHANGED <<pc, call, nextBlocks, fetch, proc>> PROVE QueueInterval'
  BY <1>c DEF QueueInterval, Queued, Front, Fetched, Busy
<1>1. ASSUME NEW c \in Calls, FetchBlock(c) PROVE QueueInterval'
  <2>1. fetch[c].st = "run" /\ pc = "all" /\ call = c
    BY <1>1, <1>b DEF FetchBlock, Idle, FetchIdle
  <2>2. proc[c].st # "idle"
    BY <2>1 DEF QueueInterval
  <2>3. /\ fetch[c].next <= fetch[c].to /\ fetch[c].to = proc[c].to
        /\ Fetched(c) = fetch[c].next /\ Front(c) <= fetch[c].next
    BY <2>1, <2>2 DEF QueueInterval, Fetched
  <2>4. Front(c) \in Int /\ Front(c)' = Front(c) /\ proc' = proc
    BY <1>1, FieldTypes DEF Front, Busy, FetchBlock
  <2>5. /\ nextBlocks' = [nextBlocks EXCEPT ![fetch[c].next] = @ + 1]
        /\ fetch' = [fetch EXCEPT ![c] = IF fetch[c].next < fetch[c].to
                          THEN [fetch[c] EXCEPT !.next = @ + 1] ELSE FetchIdle]
        /\ UNCHANGED <<pc, call>>
    BY <1>1 DEF FetchBlock
  <2>6. Fetched(c)' = fetch[c].next + 1
    BY <2>3, <2>4, <2>5, FieldTypes DEF Fetched, FetchIdle, TypeOK, FetchStates
  <2>7. ASSUME NEW h \in Heights
        PROVE  nextBlocks'[h] = IF Front(c) <= h /\ h < fetch[c].next + 1 THEN 1 ELSE 0
    <3>1. nextBlocks[h] = IF Front(c) <= h /\ h < fetch[c].next THEN 1 ELSE 0
      BY <2>2, <2>3 DEF QueueInterval
    <3>2. nextBlocks'[h] = IF h = fetch[c].next THEN nextBlocks[h] + 1 ELSE nextBlocks[h]
      BY <2>5 DEF TypeOK
    <3> QED BY <3>1, <3>2, <2>3, <2>4, <1>a, FieldTypes
  <2>8. fetch'[c].st = "run" => fetch'[c].next <= fetch'[c].to /\ fetch'[c].to = proc'[c].to
    BY <2>3, <2>4, <2>5, FieldTypes DEF FetchIdle, TypeOK, FetchStates
  <2>9. \A d \in Calls : d # c => fetch'[d] = fetch[d] /\ proc[d].st = "idle"
    BY <2>1, <2>5, <1>b DEF Idle, ProcIdle, TypeOK
  <2>10. Front(c)' <= Fetched(c)' /\ (proc'[c].st = "pop" => Front(c)' < Fetched(c)')
    BY <2>3, <2>4, <2>6, FieldTypes
  <2>11. \A h \in Queued' : pc' = "all" /\ proc'[call'].st # "idle"
    BY <2>1, <2>2, <2>4, <2>5
  <2>12. proc'[c].st = "pop" => proc'[c].from <= proc'[c].to
    BY <2>4 DEF QueueInterval
  <2>13. \A d \in Calls : d # c => proc'[d].st = "idle" /\ fetch'[d].st = "idle"
    BY <2>4, <2>9 DEF QueueInterval
  <2> QED BY <2>2, <2>4, <2>6, <2>7, <2>8, <2>10, <2>11, <2>12, <2>13 DEF QueueInterval
<1>2. ASSUME NEW c \in Calls, ShouldProcess(c) PROVE QueueInterval'
  <2>1. proc[c].st = "check" /\ proc[c].from <= proc[c].to /\ pc = "all" /\ call = c
    BY <1>2, <1>b DEF ShouldProcess, Idle, ProcIdle
  <2>2. PICK h \in Heights : nextBlocks[h] > 0
    BY <1>2 DEF ShouldProcess, IsHead, Queued
  <2>3. Front(c) = proc[c].from /\ Front(c) <= h /\ h < Fetched(c)
    BY <2>1, <2>2 DEF QueueInterval, Front, Busy
  <2>4. Fetched(c) \in Int
    BY FieldTypes DEF Fetched
  <2>5. Front(c) < Fetched(c)
    BY <2>3, <2>4, <1>a, FieldTypes
  <2>6. proc' = [proc EXCEPT ![c].st = "pop"] /\ UNCHANGED <<pc, call, nextBlocks, fetch>>
    BY <1>2 DEF ShouldProcess
  <2>7. \A d \in Calls : Front(d)' = Front(d) /\ Fetched(d)' = Fetched(d)
    BY <2>1, <2>6 DEF Front, Busy, Fetched, TypeOK, ProcStates
  <2>8. /\ proc'[c].st = "pop" /\ proc'[c].from = proc[c].from /\ proc'[c].to = proc[c].to
        /\ \A d \in Calls : d # c => proc'[d] = proc[d]
    BY <2>6 DEF TypeOK, ProcStates
  <2> QED BY <2>1, <2>5, <2>6, <2>7, <2>8 DEF QueueInterval, Queued
<1>3. ASSUME NEW c \in Calls, RangeDone(c) PROVE QueueInterval'
  <2>1. proc[c].st = "check" /\ proc[c].from > proc[c].to /\ pc = "all" /\ call = c
    BY <1>3, <1>b DEF RangeDone, Idle, ProcIdle
  <2>2. Front(c) = proc[c].from /\ Front(c) <= Fetched(c)
    BY <2>1 DEF QueueInterval, Front, Busy
  <2>3. fetch[c].st = "idle"
    <3>1. fetch[c].st = "run" => fetch[c].next <= proc[c].to /\ Fetched(c) = fetch[c].next
      BY <2>1 DEF QueueInterval, Fetched
    <3> QED BY <2>1, <2>2, <3>1, FieldTypes
  <2>4. Fetched(c) = proc[c].to + 1
    BY <2>3 DEF Fetched
  <2>5. \A h \in Heights : nextBlocks[h] = 0
    <3>1. \A h \in Heights : ~(Front(c) <= h /\ h < Fetched(c))
      BY <2>1, <2>2, <2>4, <1>a, FieldTypes
    <3> QED BY <2>1, <3>1 DEF QueueInterval
  <2>6. proc' = [proc EXCEPT ![c] = ProcIdle] /\ UNCHANGED <<pc, call, nextBlocks, fetch>>
    BY <1>3 DEF RangeDone
  <2>7. Queued' = {}
    BY <2>5, <2>6 DEF Queued
  <2>8. proc'[c].st = "idle" /\ \A d \in Calls : d # c => proc'[d] = proc[d]
    BY <2>6 DEF TypeOK, ProcIdle
  <2>9. \A d \in Calls : d # c => proc[d].st = "idle"
    BY <2>1, <1>b DEF Idle, ProcIdle
  <2>10. \A d \in Calls : proc'[d].st = "idle" /\ fetch'[d].st = "idle"
    BY <2>3, <2>6, <2>8, <2>9 DEF QueueInterval
  <2> QED BY <2>7, <2>10 DEF QueueInterval
<1>4. ASSUME NEW c \in Calls, PopBlock(c) PROVE QueueInterval'
  <2>1. proc[c].st = "pop" /\ pc = "all" /\ call = c
    BY <1>4, <1>b DEF PopBlock, Idle, ProcIdle
  <2>2. PICK h \in Heights : /\ IsHead(h)
                             /\ nextBlocks' = [nextBlocks EXCEPT ![h] = @ - 1]
                             /\ proc' = [proc EXCEPT ![c].st = "apply", ![c].block = h]
    BY <1>4 DEF PopBlock
  <2>3. /\ Front(c) = proc[c].from /\ Front(c) < Fetched(c) /\ proc[c].from <= proc[c].to
        /\ \A k \in Heights :
             nextBlocks[k] = IF Front(c) <= k /\ k < Fetched(c) THEN 1 ELSE 0
    BY <2>1 DEF QueueInterval, Front, Busy
  <2>4. proc[c].from \in Heights
    BY <2>3, FieldTypes DEF Heights
  <2>5. nextBlocks[proc[c].from] = 1
    BY <2>3, <2>4, FieldTypes
  <2>6. h = proc[c].from
    <3>1. h <= proc[c].from
      BY <2>2, <2>4, <2>5 DEF IsHead, Queued
    <3>2. Front(c) <= h
      BY <2>2, <2>3 DEF IsHead, Queued
    <3> QED BY <3>1, <3>2, <2>3, <1>a, FieldTypes
  <2>7. /\ proc'[c].st = "apply" /\ proc'[c].from = proc[c].from /\ proc'[c].to = proc[c].to
        /\ \A d \in Calls : d # c => proc'[d] = proc[d]
        /\ UNCHANGED <<pc, call, fetch>>
    BY <1>4, <2>2 DEF PopBlock, TypeOK, ProcStates
  <2>8. Front(c)' = proc[c].from + 1 /\ Fetched(c)' = Fetched(c) /\ Fetched(c) \in Int
    BY <2>7, FieldTypes DEF Front, Busy, Fetched
  <2>9. \A k \in Heights :
            nextBlocks'[k] = IF Front(c)' <= k /\ k < Fetched(c)' THEN 1 ELSE 0
    <3>1. \A k \in Heights :
             nextBlocks'[k] = IF k = proc[c].from THEN 0 ELSE nextBlocks[k]
      BY <2>2, <2>5, <2>6 DEF TypeOK
    <3> QED BY <3>1, <2>3, <2>8, <1>a, FieldTypes
  <2>10. Front(c)' <= Fetched(c)'
    BY <2>3, <2>8, FieldTypes
  <2>11. \A d \in Calls : d # c => proc[d].st = "idle"
    BY <2>1, <1>b DEF Idle, ProcIdle
  <2>12. fetch[c].st = "run" => fetch[c].next <= fetch[c].to /\ fetch[c].to = proc[c].to
    BY <2>1 DEF QueueInterval
  <2>13. \A d \in Calls : d # c => proc'[d].st = "idle" /\ fetch'[d].st = "idle"
    BY <2>7, <2>11 DEF QueueInterval
  <2>14. \A k \in Queued' : pc' = "all" /\ proc'[call'].st # "idle"
    BY <2>1, <2>7
  <2> QED BY <2>7, <2>9, <2>10, <2>12, <2>13, <2>14 DEF QueueInterval
<1>5. ASSUME NEW c \in Calls, ApplyBlock(c) \/ SyncBlock(c) PROVE QueueInterval'
  <2>1. /\ Busy(c) /\ Busy(c)' /\ proc'[c].from = proc[c].from /\ proc'[c].to = proc[c].to
        /\ proc[c].st # "idle" /\ proc'[c].st \in {"sync", "emit"}
        /\ \A d \in Calls : d # c => proc'[d] = proc[d]
        /\ UNCHANGED <<pc, call, fetch, nextBlocks>>
    BY <1>5 DEF ApplyBlock, SyncBlock, Busy, TypeOK, ProcStates
  <2>2. \A d \in Calls : Front(d)' = Front(d) /\ Fetched(d)' = Fetched(d)
    BY <2>1 DEF Front, Busy, Fetched
  <2>3. Queued' = Queued /\ \A d \in Calls : proc'[d].st = "idle" <=> proc[d].st = "idle"
    BY <2>1 DEF Queued
  <2>4. \A h \in Queued' : pc' = "all" /\ proc'[call'].st # "idle"
    BY <1>5, <1>b, <2>1, <2>3 DEF QueueInterval, Idle, ProcIdle
  <2>5. \A d \in Calls : proc'[d].st = "pop" => proc'[d] = proc[d]
    BY <2>1
  <2>6. \A d \in Calls : proc'[d].to = proc[d].to
    BY <2>1
  <2> QED BY <2>1, <2>2, <2>3, <2>4, <2>5, <2>6 DEF QueueInterval
<1>6. ASSUME NEW c \in Calls, EmitBlock(c) \/ ProcessThrows(c) PROVE QueueInterval'
  <2>1. Busy(c) /\ proc[c].block = proc[c].from
    BY <1>6 DEF EmitBlock, ProcessThrows, Busy, Progress
  <2>2. /\ proc'[c].st = "check" /\ proc'[c].from = proc[c].from + 1
        /\ proc'[c].to = proc[c].to
        /\ \A d \in Calls : d # c => proc'[d] = proc[d]
        /\ UNCHANGED <<pc, call, fetch, nextBlocks>>
    BY <1>6, <2>1 DEF EmitBlock, ProcessThrows, NextRange, TypeOK
  <2>3. \A d \in Calls : Front(d)' = Front(d) /\ Fetched(d)' = Fetched(d)
    BY <2>1, <2>2 DEF Front, Busy, Fetched
  <2>4. Queued' = Queued /\ \A d \in Calls : proc'[d].st = "idle" <=> proc[d].st = "idle"
    BY <2>1, <2>2 DEF Queued, Busy
  <2>5. \A h \in Queued' : pc' = "all" /\ proc'[call'].st # "idle"
    BY <1>b, <2>1, <2>2, <2>4 DEF QueueInterval, Idle, ProcIdle, Busy
  <2>6. \A d \in Calls : proc'[d].st = "pop" => proc'[d] = proc[d]
    BY <2>2
  <2>7. \A d \in Calls : proc'[d].to = proc[d].to
    BY <2>2
  <2> QED BY <2>2, <2>3, <2>4, <2>5, <2>6, <2>7 DEF QueueInterval
<1>7. CASE CompareHeights
  <2>1. pc = "height" /\ UNCHANGED <<nextBlocks, latest>>
    BY <1>7 DEF CompareHeights
  <2>2. Queued = {} /\ Queued' = {}
    BY <2>1 DEF QueueInterval, Queued
  <2>3. CASE UNCHANGED <<fetch, proc>>
    BY <2>2, <2>3, <2>1, <1>b DEF QueueInterval, Idle, ProcIdle
  <2>4. ASSUME NEW c \in Calls, CurrentHeight(doc) < ConfirmedHeight,
               fetch' = [fetch EXCEPT ![c] = [st |-> "run",
                   next |-> FirstHeight(CurrentHeight(doc)), to |-> ConfirmedHeight]],
               proc' = [proc EXCEPT ![c] = [st |-> "check",
                   from |-> FirstHeight(CurrentHeight(doc)), to |-> ConfirmedHeight,
                   block |-> 0]]
        PROVE  QueueInterval'
    <3> DEFINE from == FirstHeight(CurrentHeight(doc))
    <3>1. from \in Int /\ ConfirmedHeight \in Int /\ from <= ConfirmedHeight
      <4>1. CurrentHeight(doc) \in Int /\ ConfirmedHeight \in Int
        BY MinConfAssumption DEF CurrentHeight, BootstrapHeight, TypeOK, Docs,
           Heights, NoDoc, Genesis, ConfirmedHeight
      <4> QED BY <2>4, <4>1 DEF FirstHeight
    <3> HIDE DEF from
    <3>2. /\ fetch'[c].st = "run" /\ fetch'[c].next = from /\ fetch'[c].to = ConfirmedHeight
          /\ proc'[c].st = "check" /\ proc'[c].from = from /\ proc'[c].to = ConfirmedHeight
          /\ \A d \in Calls : d # c => fetch'[d] = fetch[d] /\ proc'[d] = proc[d]
      BY <2>4 DEF TypeOK, from
    <3>3. \A d \in Calls : proc[d].st = "idle" /\ fetch[d].st = "idle"
      BY <2>1, <1>b DEF Idle, ProcIdle, FetchIdle
    <3>4. Front(c)' = from /\ Fetched(c)' = from
      BY <3>2 DEF Front, Busy, Fetched
    <3>5. \A h \in Heights : nextBlocks'[h] = 0
      BY <2>1, <2>2 DEF Queued, TypeOK
    <3>6. \A h \in Heights : ~(from <= h /\ h < from)
      BY <3>1, <1>a
    <3>7. from <= from
      BY <3>1
    <3> QED BY <3>1, <3>2, <3>3, <3>4, <3>5, <3>6, <3>7, <2>2 DEF QueueInterval
  <2> QED BY <1>7, <2>3, <2>4 DEF CompareHeights
<1>8. CASE AllResolve
  <2>1. Queued = {}
    BY <1>8 DEF AllResolve, Idle, ProcIdle, QueueInterval
  <2>2. UNCHANGED <<nextBlocks, fetch, proc>>
    BY <1>8 DEF AllResolve
  <2>3. \A d \in Calls : proc[d].st = "idle" /\ fetch[d].st = "idle"
    BY <1>8, <1>b DEF AllResolve, Idle, ProcIdle, FetchIdle
  <2> QED BY <2>1, <2>2, <2>3 DEF QueueInterval, Queued
<1>9. CASE Crash
  BY <1>9 DEF Crash, QueueInterval, Queued, FetchIdle, ProcIdle
<1>10. CASE GetSynced \/ PollThrows
  <2>1. Queued = {} /\ UNCHANGED <<nextBlocks, fetch, proc>>
    BY <1>10 DEF GetSynced, PollThrows, QueueInterval
  <2>2. \A d \in Calls : proc[d].st = "idle" /\ fetch[d].st = "idle"
    BY <1>10, <1>b DEF GetSynced, PollThrows, Idle, ProcIdle, FetchIdle
  <2> QED BY <2>1, <2>2 DEF QueueInterval, Queued
<1>11. ASSUME NEW c \in Calls PROVE ~PopNothing(c)
  BY PopFindsBlock
<1>12. ASSUME NEW c \in Calls, ReplayEnds(c) PROVE QueueInterval'
  BY <1>12, <1>c DEF ReplayEnds
<1>13. CASE ChainGrows \/ UNCHANGED vars
  BY <1>13, <1>c DEF ChainGrows, vars
<1> QED
  BY <1>1, <1>2, <1>3, <1>4, <1>5, <1>6, <1>7, <1>8, <1>9, <1>10, <1>11, <1>12, <1>13
  DEF Next, MonitorNetwork, ProcessRange, Failures, ReplayThrows, FetchThrows

\* The database and the announcements keep up with the consumer.
LEMMA ProgressStep ==
    ASSUME TypeOK, TypeOK', SequentialInv, ~CallCanReject, [Next]_vars
    PROVE  Progress'
<1> USE DEF control, coroutines, history
<1> USE DEF SequentialInv
<1>a. \A h \in Heights : h \in Int /\ h >= 0 /\ applied[h] \in Nat /\ emitted[h] \in Nat
  <2>1. \A h \in Heights : h \in Int /\ h >= 0
    BY MaxHeightAssumption DEF Heights
  <2>2. applied \in [Heights -> Nat] /\ emitted \in [Heights -> Nat]
    BY DEF TypeOK
  <2> QED BY <2>1, <2>2
<1>b. ASSUME NEW c \in Calls, ~Idle(c) PROVE pc = "all" /\ call = c
  BY <1>b DEF OneCall
<1>c. synced \in Int /\ base \in Int
  BY MaxHeightAssumption DEF TypeOK, Docs, Heights, NoDoc, Genesis
<1>d. ASSUME NEW c \in Calls, proc[c].st # "idle"
      PROVE  \A d \in Calls : d # c => proc[d].st = "idle"
  BY <1>b, <1>d DEF Idle, ProcIdle
<1>1. ASSUME UNCHANGED <<latest, synced, proc, base, applied, emitted, failed>> PROVE Progress'
  BY <1>1 DEF Progress, CoveredBelow, Busy, OnlySwallowedSkipped, AnnouncedOnce
<1>2. CASE ChainGrows
  BY <1>2 DEF ChainGrows, Progress, CoveredBelow, Busy, OnlySwallowedSkipped, AnnouncedOnce,
              TypeOK, Heights
<1>3. ASSUME NEW c \in Calls, ShouldProcess(c) PROVE Progress'
  <2>1. proc[c].st = "check" /\ proc[c].from <= proc[c].to
    BY <1>3 DEF ShouldProcess
  <2>2. /\ UNCHANGED <<latest, synced, base, applied, emitted, failed>>
        /\ proc'[c].st = "pop" /\ proc'[c].from = proc[c].from
        /\ \A d \in Calls : d # c => proc'[d] = proc[d]
    BY <1>3 DEF ShouldProcess, TypeOK, ProcStates
  <2> QED BY <2>1, <2>2 DEF Progress, CoveredBelow, Busy, OnlySwallowedSkipped, AnnouncedOnce
<1>4. ASSUME NEW c \in Calls, RangeDone(c) PROVE Progress'
  <2>1. /\ UNCHANGED <<latest, synced, base, applied, emitted, failed>>
        /\ proc'[c].st = "idle"
        /\ \A d \in Calls : d # c => proc'[d] = proc[d]
    BY <1>4 DEF RangeDone, TypeOK, ProcIdle
  <2> QED BY <2>1 DEF Progress, CoveredBelow, Busy, OnlySwallowedSkipped, AnnouncedOnce
<1>5. ASSUME NEW c \in Calls, PopBlock(c) PROVE Progress'
  <2>1. proc[c].st = "pop"
    BY <1>5 DEF PopBlock
  <2>2. PICK h \in Heights : /\ IsHead(h)
                             /\ proc' = [proc EXCEPT ![c].st = "apply", ![c].block = h]
    BY <1>5 DEF PopBlock
  <2>3. /\ Front(c) = proc[c].from /\ Front(c) < Fetched(c) /\ proc[c].from <= proc[c].to
        /\ \A k \in Heights :
             nextBlocks[k] = IF Front(c) <= k /\ k < Fetched(c) THEN 1 ELSE 0
    BY <2>1 DEF QueueInterval, Front, Busy
  <2>4. proc[c].from \in Heights
    BY <2>3, FieldTypes, MaxHeightAssumption DEF Heights
  <2>5. proc[c].from \in Queued
    BY <2>3, <2>4, FieldTypes DEF Queued
  <2>6. h = proc[c].from
    BY <2>2, <2>3, <2>5, <1>a, FieldTypes DEF IsHead, Queued
  <2>7. /\ UNCHANGED <<latest, synced, base, applied, emitted, failed>>
        /\ proc'[c].st = "apply" /\ proc'[c].from = proc[c].from /\ proc'[c].block = h
        /\ proc'[c].to = proc[c].to
        /\ \A d \in Calls : d # c => proc'[d] = proc[d]
    BY <1>5, <2>2 DEF PopBlock, TypeOK, ProcStates
  <2> QED BY <2>1, <2>3, <2>6, <2>7
          DEF Progress, CoveredBelow, Busy, OnlySwallowedSkipped, AnnouncedOnce
<1>6. ASSUME NEW c \in Calls, ApplyBlock(c) PROVE Progress'
  <2>1. proc[c].st = "apply" /\ proc[c].block \in Heights
    BY <1>6, FieldTypes DEF ApplyBlock
  <2>2. /\ UNCHANGED <<latest, synced, base, emitted, failed>>
        /\ proc'[c].st = "sync" /\ proc'[c].from = proc[c].from
        /\ proc'[c].block = proc[c].block /\ proc'[c].to = proc[c].to
        /\ \A d \in Calls : d # c => proc'[d] = proc[d]
    BY <1>6 DEF ApplyBlock, TypeOK, ProcStates
  <2>3. applied' = [applied EXCEPT ![proc[c].block] = @ + 1]
    BY <1>6 DEF ApplyBlock
  <2>4. applied'[proc[c].block] > 0 /\ \A h \in Heights : applied[h] > 0 => applied'[h] > 0
    BY <2>1, <2>3, <1>a DEF TypeOK
  <2>5. \A d \in Calls : d # c => proc[d].st = "idle"
    BY <2>1, <1>d
  <2>6. OnlySwallowedSkipped'
    BY <2>2, <2>4 DEF Progress, OnlySwallowedSkipped
  <2>7. CoveredBelow(proc[c].from)'
    BY <2>1, <2>2, <2>4 DEF Progress, CoveredBelow
  <2> QED BY <2>1, <2>2, <2>4, <2>5, <2>6, <2>7 DEF Progress, Busy, AnnouncedOnce
<1>7. ASSUME NEW c \in Calls, SyncBlock(c) PROVE Progress'
  <2>1. proc[c].st = "sync" /\ proc[c].block \in Heights
    BY <1>7, FieldTypes DEF SyncBlock
  <2>2. /\ proc[c].block = proc[c].from /\ base # NoDoc /\ base < proc[c].from
        /\ synced < proc[c].from /\ applied[proc[c].block] > 0 /\ CoveredBelow(proc[c].from)
        /\ proc[c].from <= proc[c].to
    BY <2>1 DEF Progress, Busy
  <2>3. /\ UNCHANGED <<latest, base, applied, emitted, failed>>
        /\ synced' = proc[c].block
        /\ proc'[c].st = "emit" /\ proc'[c].from = proc[c].from
        /\ proc'[c].block = proc[c].block /\ proc'[c].to = proc[c].to
        /\ \A d \in Calls : d # c => proc'[d] = proc[d]
    BY <1>7 DEF SyncBlock, SyncedHeight, TypeOK, ProcStates
  <2>4. \A d \in Calls : d # c => proc[d].st = "idle"
    BY <2>1, <1>d
  <2>5. synced' # NoDoc /\ synced' # Genesis /\ base <= synced' /\ synced < synced'
    BY <2>1, <2>2, <2>3, <1>a, <1>c DEF NoDoc, Genesis
  <2>6. OnlySwallowedSkipped'
    <3>1. \A h \in Heights : h <= proc[c].from => h < proc[c].from \/ h = proc[c].block
      BY <2>1, <2>2, <1>a, FieldTypes
    <3> QED BY <3>1, <2>2, <2>3 DEF OnlySwallowedSkipped, CoveredBelow
  <2>7. emitted[proc[c].block] = 0 /\ \A h \in Heights : emitted[h] > 0 => h <= synced'
    <3>1. \A h \in Heights : emitted[h] > 0 => h <= synced
      BY DEF Progress
    <3>2. \A h \in Heights : h <= synced => h <= synced'
      BY <2>1, <2>3, <2>5, <1>a, <1>c
    <3>3. ~(proc[c].block <= synced)
      BY <2>1, <2>2, <1>a, <1>c
    <3> QED BY <3>1, <3>2, <3>3, <2>1, <1>a
  <2>8. CoveredBelow(proc[c].from)'
    BY <2>2, <2>3 DEF CoveredBelow
  <2> QED BY <2>1, <2>2, <2>3, <2>4, <2>5, <2>6, <2>7, <2>8 DEF Progress, Busy, AnnouncedOnce
<1>8. ASSUME NEW c \in Calls, EmitBlock(c) PROVE Progress'
  <2>1. proc[c].st = "emit" /\ proc[c].block \in Heights
    BY <1>8, FieldTypes DEF EmitBlock
  <2>2. /\ proc[c].block = proc[c].from /\ base # NoDoc /\ base < proc[c].from
        /\ synced = proc[c].block /\ emitted[proc[c].block] = 0
    BY <2>1 DEF Progress, Busy
  <2>3. /\ UNCHANGED <<latest, base, synced, applied, failed>>
        /\ proc'[c].st = "check" /\ proc'[c].from = proc[c].from + 1
        /\ \A d \in Calls : d # c => proc'[d] = proc[d]
    BY <1>8, <2>2 DEF EmitBlock, NextRange, TypeOK
  <2>4. \A h \in Heights : emitted'[h] = IF h = proc[c].block THEN 1 ELSE emitted[h]
    BY <1>8, <2>2 DEF EmitBlock, TypeOK
  <2>5. \A d \in Calls : d # c => proc[d].st = "idle"
    BY <2>1, <1>d
  <2>6. CoveredBelow(proc[c].from)'
    <3>1. \A h \in Heights : h < proc[c].from + 1 => h <= synced
      BY <2>2, <1>a, FieldTypes
    <3> QED BY <3>1, <2>2, <2>3 DEF Progress, OnlySwallowedSkipped, CoveredBelow
  <2>7. base < proc[c].from + 1 /\ synced < proc[c].from + 1
    BY <2>2, <1>c, FieldTypes
  <2>8. (\A h \in Heights : emitted'[h] > 0 => h <= synced) /\ AnnouncedOnce'
    BY <2>1, <2>2, <2>4, <1>a DEF Progress, AnnouncedOnce
  <2> QED BY <2>2, <2>3, <2>5, <2>6, <2>7, <2>8 DEF Progress, Busy, OnlySwallowedSkipped
<1>9. ASSUME NEW c \in Calls, ProcessThrows(c) PROVE Progress'
  <2>1. proc[c].st \in {"apply", "sync"} /\ proc[c].block \in Heights
    BY <1>9, FieldTypes DEF ProcessThrows
  <2>2. /\ proc[c].block = proc[c].from /\ base # NoDoc /\ base < proc[c].from
        /\ synced < proc[c].from /\ CoveredBelow(proc[c].from)
    BY <2>1 DEF Progress, Busy
  <2>3. /\ UNCHANGED <<latest, base, synced, applied, emitted>>
        /\ failed' = failed \cup {proc[c].block}
        /\ proc'[c].st = "check" /\ proc'[c].from = proc[c].from + 1
        /\ \A d \in Calls : d # c => proc'[d] = proc[d]
    BY <1>9, <2>2 DEF ProcessThrows, NextRange, TypeOK
  <2>4. \A d \in Calls : d # c => proc[d].st = "idle"
    BY <2>1, <1>d
  <2>5. CoveredBelow(proc[c].from)'
    <3>1. \A h \in Heights : h < proc[c].from + 1 => h < proc[c].from \/ h = proc[c].block
      BY <2>2, <1>a, FieldTypes
    <3> QED BY <3>1, <2>2, <2>3 DEF CoveredBelow
  <2>6. base < proc[c].from + 1 /\ synced < proc[c].from + 1
    BY <2>2, <1>c, FieldTypes
  <2>7. OnlySwallowedSkipped'
    BY <2>3 DEF Progress, OnlySwallowedSkipped
  <2> QED BY <2>2, <2>3, <2>4, <2>5, <2>6, <2>7 DEF Progress, Busy, AnnouncedOnce
<1>10. CASE CompareHeights
  <2>1. doc = synced /\ pc = "height" /\ UNCHANGED <<latest, applied, emitted, failed>>
    BY <1>10 DEF CompareHeights, OneCall
  <2>2. \A c \in Calls : proc[c].st = "idle"
    BY <2>1, <1>b DEF Idle, ProcIdle
  <2>3. latest \in Int /\ latest >= 1 /\ ConfirmedHeight \in Int
    BY MinConfAssumption, MaxHeightAssumption DEF Progress, TypeOK, Heights, ConfirmedHeight
  <2>4. CASE synced = NoDoc
    <3>1. synced' = latest - 1 /\ base' = latest - 1
      BY <1>10, <2>1, <2>4 DEF CompareHeights, NeedsBootstrap, BootstrapHeight, Progress
    <3>2. ~(CurrentHeight(doc) < ConfirmedHeight)
      BY <2>1, <2>3, <2>4, MinConfAssumption
      DEF CurrentHeight, BootstrapHeight, ConfirmedHeight
    <3>3. proc' = proc
      BY <1>10, <3>2 DEF CompareHeights
    <3>4. \A h \in Heights : emitted[h] = 0
      BY <2>4, <1>a DEF Progress, NoDoc
    <3>5. synced' # NoDoc /\ synced' # Genesis /\ base' <= synced'
      BY <3>1, <2>3 DEF NoDoc, Genesis
    <3>6. OnlySwallowedSkipped'
      <4>1. \A h \in Heights : ~(latest - 1 < h /\ h <= latest - 1)
        BY <2>3, <1>a
      <4> QED BY <3>1, <4>1 DEF OnlySwallowedSkipped
    <3> QED BY <2>1, <2>2, <3>1, <3>3, <3>4, <3>5, <3>6 DEF Progress, AnnouncedOnce
  <2>5. CASE synced # NoDoc
    <3>1. synced' = synced /\ base' = base /\ base # NoDoc
      BY <1>10, <2>1, <2>5 DEF CompareHeights, NeedsBootstrap, Progress
    <3>2. CASE proc' = proc
      BY <2>1, <2>2, <3>1, <3>2 DEF Progress, OnlySwallowedSkipped, AnnouncedOnce
    <3>3. ASSUME NEW c \in Calls,
                 proc' = [proc EXCEPT ![c] = [st |-> "check",
                   from |-> FirstHeight(CurrentHeight(doc)), to |-> ConfirmedHeight,
                   block |-> 0]]
          PROVE  Progress'
      <4>1. /\ proc'[c].st = "check" /\ proc'[c].from = synced + 1
            /\ \A d \in Calls : d # c => proc'[d] = proc[d]
        BY <2>1, <2>5, <3>3 DEF FirstHeight, CurrentHeight, TypeOK
      <4>2. base < synced + 1 /\ synced < synced + 1
        BY <1>c DEF Progress
      <4>3. CoveredBelow(synced + 1)'
        <5>1. \A h \in Heights : h < synced + 1 => h <= synced
          BY <1>a, <1>c
        <5> QED BY <5>1, <2>1, <3>1 DEF CoveredBelow, Progress, OnlySwallowedSkipped
      <4> QED BY <2>1, <2>2, <3>1, <4>1, <4>2, <4>3
              DEF Progress, Busy, OnlySwallowedSkipped, AnnouncedOnce
    <3> QED BY <1>10, <3>2, <3>3 DEF CompareHeights
  <2> QED BY <2>4, <2>5
<1>11. CASE Crash
  <2>1. \A c \in Calls : proc'[c].st = "idle"
    BY <1>11 DEF Crash, ProcIdle
  <2> QED BY <1>11, <2>1 DEF Crash, Progress, OnlySwallowedSkipped, AnnouncedOnce
<1>12. ASSUME NEW c \in Calls PROVE ~PopNothing(c)
  BY PopFindsBlock
<1> QED
  BY <1>1, <1>2, <1>3, <1>4, <1>5, <1>6, <1>7, <1>8, <1>9, <1>10, <1>11, <1>12
  DEF Next, MonitorNetwork, ProcessRange, Failures, GetSynced, PollThrows, AllResolve,
      ReplayEnds, ReplayThrows, FetchBlock, FetchThrows, vars

\* The first state has no coroutines and an empty queue.
LEMMA SequentialInit ==
    ASSUME TypeOK, Init, Genesis \notin InitialSync
    PROVE  SequentialInv
<1>1. /\ \A h \in Heights : nextBlocks[h] = 0 /\ applied[h] = 0 /\ emitted[h] = 0
      /\ \A c \in Calls : Idle(c) /\ fetch[c].st = "idle" /\ proc[c].st = "idle"
  BY DEF Init, Idle, FetchIdle, ProcIdle
<1>2. OneCall /\ QueueInterval
  BY <1>1 DEF Init, OneCall, QueueInterval, Queued
<1>3. latest \in Int /\ latest >= 1
  BY MaxHeightAssumption DEF Init
<1>4. base = synced /\ synced # Genesis /\ base \in Int
  BY MaxHeightAssumption
  DEF Init, NeedsBootstrap, TypeOK, Docs, Heights, NoDoc, Genesis
<1>5. OnlySwallowedSkipped
  <2>1. \A h \in Heights : ~(base < h /\ h <= base)
    BY <1>4, MaxHeightAssumption DEF Heights
  <2> QED BY <1>4, <2>1 DEF OnlySwallowedSkipped
<1>6. base <= synced
  BY <1>4
<1> QED
  BY <1>1, <1>2, <1>3, <1>4, <1>5, <1>6 DEF SequentialInv, Progress, AnnouncedOnce

\* As long as no Promise.all rejects, one fetchRange feeds one processRange
\* through a gapless queue, through crashes and swallowed exceptions.
THEOREM Sequential ==
    ASSUME ~CallCanReject, Genesis \notin InitialSync
    PROVE  Spec => []SequentialInv
<1>1. TypeOK /\ Init => SequentialInv
  BY SequentialInit
<1>2. TypeOK /\ TypeOK' /\ SequentialInv /\ [Next]_vars => SequentialInv'
  BY OneCallStep, QueueStep, ProgressStep DEF SequentialInv
<1> QED BY <1>1, <1>2, TypeCorrect, PTL DEF Spec

\* Then no block is announced to the worker twice, whatever crashes ...
THEOREM AnnouncedAtMostOnce ==
    ASSUME ~CallCanReject, Genesis \notin InitialSync
    PROVE  Spec => []AnnouncedOnce
<1>1. SequentialInv => AnnouncedOnce
  BY DEF SequentialInv, Progress
<1> QED BY <1>1, Sequential, PTL

\* ... every block at or below the synced height was written, unless its own
\* exception was swallowed ...
THEOREM NothingElseSkipped ==
    ASSUME ~CallCanReject, Genesis \notin InitialSync
    PROVE  Spec => []OnlySwallowedSkipped
<1>1. SequentialInv => OnlySwallowedSkipped
  BY DEF SequentialInv, Progress
<1> QED BY <1>1, Sequential, PTL

\* ... processRange processes the block it validated ...
THEOREM ValidatedIsProcessed ==
    ASSUME ~CallCanReject, Genesis \notin InitialSync
    PROVE  Spec => []ProcessesValidated
<1>1. TypeOK /\ SequentialInv => ProcessesValidated
  <2> SUFFICES ASSUME TypeOK, SequentialInv, NEW c \in Calls,
                      proc[c].st \in {"apply", "sync", "emit"}
               PROVE  ValidateBlock(proc[c].block, proc[c].from, proc[c].to)
    BY DEF ProcessesValidated
  <2>1. proc[c].block = proc[c].from /\ proc[c].from <= proc[c].to
    BY DEF SequentialInv, Progress, Busy
  <2> QED BY <2>1, FieldTypes DEF ValidateBlock
<1> QED BY <1>1, TypeCorrect, Sequential, PTL

\* ... and the synced height never moves back.
THEOREM SyncedNeverMovesBack ==
    ASSUME ~CallCanReject, Genesis \notin InitialSync
    PROVE  Spec => SyncedMonotone
<1>1. TypeOK /\ TypeOK' /\ SequentialInv /\ [Next]_vars => [synced' >= synced]_synced
  <2> SUFFICES ASSUME TypeOK, TypeOK', SequentialInv, [Next]_vars, synced' # synced
               PROVE  synced' >= synced
    OBVIOUS
  <2> USE DEF control, coroutines, history
  <2>1. synced \in Int /\ synced' \in Int /\ synced >= NoDoc /\ synced' >= NoDoc
    <3>1. \A d \in Docs : d \in Int /\ d >= NoDoc
      BY MaxHeightAssumption DEF Docs, Heights, NoDoc, Genesis
    <3> QED BY <3>1 DEF TypeOK
  <2>2. CASE CompareHeights
    <3>1. doc = synced
      BY <2>2 DEF CompareHeights, SequentialInv, OneCall
    <3>2. synced = NoDoc
      BY <2>2, <3>1 DEF CompareHeights, NeedsBootstrap, SequentialInv, Progress
    <3> QED BY <2>1, <3>2
  <2>3. ASSUME NEW c \in Calls, SyncBlock(c) PROVE synced' >= synced
    <3>1. synced' = proc[c].block /\ proc[c].block = proc[c].from /\ synced < proc[c].from
      BY <2>3 DEF SyncBlock, SyncedHeight, SequentialInv, Progress, Busy
    <3> QED BY <2>1, <3>1
  <2> QED
    BY <2>2, <2>3
    DEF Next, MonitorNetwork, ProcessRange, Failures, vars, ChainGrows, GetSynced, PollThrows,
        AllResolve, ReplayEnds, ReplayThrows, FetchBlock, FetchThrows, ShouldProcess, RangeDone,
        PopBlock, PopNothing, ApplyBlock, EmitBlock, ProcessThrows, Crash
<1> QED BY <1>1, TypeCorrect, Sequential, PTL DEF Spec, SyncedMonotone

\* The writes of a block that is not passed yet and not about to be passed are all
\* followed by a failure.
AboutToSync(h) == \E c \in Calls : proc[c].st = "sync" /\ proc[c].block = h
WritesCounted ==
    \A h \in Heights :
        /\ applied[h] <= 1 + crashes + errors
        /\ synced < h /\ ~AboutToSync(h) => applied[h] <= crashes + errors

\* ... and every further write of a block is the consequence of a restart or of a
\* swallowed exception of its own.
THEOREM WrittenAgainOnlyAfterFailure ==
    ASSUME ~CallCanReject, Genesis \notin InitialSync
    PROVE  Spec => []ReplayedOnlyAfterFailure
<1>1. Init => WritesCounted
  BY DEF Init, WritesCounted
<1>2. TypeOK /\ TypeOK' /\ SequentialInv /\ WritesCounted /\ [Next]_vars => WritesCounted'
  <2> SUFFICES ASSUME TypeOK, TypeOK', SequentialInv, WritesCounted, [Next]_vars
               PROVE  WritesCounted'
    OBVIOUS
  <2> USE DEF control, coroutines, history
  <2>a. /\ \A h \in Heights : h \in Int /\ applied[h] \in Nat
        /\ crashes \in Nat /\ errors \in Nat /\ synced \in Int /\ synced' \in Int
    <3>1. \A h \in Heights : h \in Int
      BY DEF Heights
    <3>2. \A h \in Heights : applied[h] \in Nat
      BY DEF TypeOK
    <3>3. \A d \in Docs : d \in Int
      BY DEF Docs, Heights, NoDoc, Genesis
    <3> QED BY <3>1, <3>2, <3>3 DEF TypeOK
  <2>b. ASSUME NEW c \in Calls, proc[c].st # "idle"
        PROVE  \A d \in Calls : d # c => proc[d].st = "idle"
    BY <2>b DEF SequentialInv, OneCall, Idle, ProcIdle
  <2>1. ASSUME UNCHANGED <<applied, crashes, errors>>, synced <= synced',
               \A h \in Heights : AboutToSync(h) => AboutToSync(h)' \/ h <= synced'
        PROVE  WritesCounted'
    BY <2>1, <2>a DEF WritesCounted
  <2>2. ASSUME NEW c \in Calls,
               ShouldProcess(c) \/ RangeDone(c) \/ PopBlock(c) \/ EmitBlock(c)
        PROVE  WritesCounted'
    <3>1. UNCHANGED <<applied, crashes, errors, synced>>
      BY <2>2 DEF ShouldProcess, RangeDone, PopBlock, EmitBlock
    <3>2. proc[c].st # "sync" /\ \A d \in Calls : d # c => proc'[d] = proc[d]
      BY <2>2 DEF ShouldProcess, RangeDone, PopBlock, EmitBlock, TypeOK
    <3>3. \A h \in Heights : AboutToSync(h) => AboutToSync(h)'
      BY <3>2 DEF AboutToSync
    <3> QED BY <2>1, <2>a, <3>1, <3>3
  <2>3. ASSUME NEW c \in Calls, ApplyBlock(c) PROVE WritesCounted'
    <3>1. proc[c].st = "apply" /\ proc[c].block \in Heights
      BY <2>3, FieldTypes DEF ApplyBlock
    <3>2. synced < proc[c].block
      BY <3>1 DEF SequentialInv, Progress, Busy
    <3>3. \A h \in Heights : ~AboutToSync(h)
      BY <2>b, <3>1 DEF AboutToSync
    <3>4. /\ UNCHANGED <<synced, crashes, errors>>
          /\ applied' = [applied EXCEPT ![proc[c].block] = @ + 1]
          /\ proc'[c].st = "sync" /\ proc'[c].block = proc[c].block
      BY <2>3 DEF ApplyBlock, TypeOK, ProcStates
    <3>5. AboutToSync(proc[c].block)'
      BY <3>4 DEF AboutToSync
    <3>6. \A h \in Heights : h # proc[c].block => applied'[h] = applied[h]
      BY <3>4 DEF TypeOK
    <3>7. applied'[proc[c].block] = applied[proc[c].block] + 1
      BY <3>1, <3>4 DEF TypeOK
    <3>8. applied[proc[c].block] <= crashes + errors
      BY <3>1, <3>2, <3>3 DEF WritesCounted
    <3>9. \A h \in Heights : synced < h => applied[h] <= crashes + errors
      BY <3>3 DEF WritesCounted
    <3>10. ASSUME NEW h \in Heights
           PROVE  /\ applied'[h] <= 1 + crashes + errors
                  /\ synced < h /\ h # proc[c].block => applied'[h] <= crashes + errors
      BY <3>1, <3>6, <3>7, <3>8, <3>9, <2>a DEF WritesCounted
    <3> QED BY <3>4, <3>5, <3>10 DEF WritesCounted
  <2>4. ASSUME NEW c \in Calls, SyncBlock(c) PROVE WritesCounted'
    <3>1. proc[c].st = "sync" /\ UNCHANGED <<applied, crashes, errors>>
          /\ synced' = proc[c].block
      BY <2>4 DEF SyncBlock, SyncedHeight
    <3>2. synced < proc[c].block
      BY <3>1 DEF SequentialInv, Progress, Busy
    <3>3. \A h \in Heights : AboutToSync(h) => h <= synced'
      BY <2>a, <2>b, <3>1 DEF AboutToSync
    <3> QED BY <2>1, <2>a, <3>1, <3>2, <3>3
  <2>5. ASSUME NEW c \in Calls, ProcessThrows(c) PROVE WritesCounted'
    <3>1. UNCHANGED <<applied, crashes, synced>> /\ errors' = errors + 1
      BY <2>5 DEF ProcessThrows
    <3> QED BY <2>a, <3>1 DEF WritesCounted
  <2>6. CASE Crash
    <3>1. UNCHANGED <<applied, errors, synced>> /\ crashes' = crashes + 1
      BY <2>6 DEF Crash
    <3> QED BY <2>a, <3>1 DEF WritesCounted
  <2>7. CASE PollThrows
    <3>1. UNCHANGED <<applied, crashes, synced>> /\ errors' = errors + 1
      BY <2>7 DEF PollThrows
    <3> QED BY <2>a, <3>1 DEF WritesCounted
  <2>8. CASE CompareHeights
    <3>1. UNCHANGED <<applied, crashes, errors>> /\ pc = "height" /\ doc = synced
      BY <2>8 DEF CompareHeights, SequentialInv, OneCall
    <3>2. \A h \in Heights : ~AboutToSync(h)
      BY <3>1 DEF AboutToSync, SequentialInv, OneCall, Idle, ProcIdle
    <3>3. synced <= synced'
      <4>1. latest \in Int /\ latest >= 1
        BY MaxHeightAssumption DEF TypeOK, Heights, SequentialInv, Progress
      <4>2. synced = NoDoc \/ ~NeedsBootstrap(synced)
        BY DEF SequentialInv, Progress, NeedsBootstrap
      <4> QED BY <2>8, <2>a, <3>1, <4>1, <4>2 DEF CompareHeights, BootstrapHeight, NoDoc
    <3> QED BY <2>1, <3>1, <3>2, <3>3
  <2>9. ASSUME UNCHANGED <<applied, crashes, errors, synced, proc>> PROVE WritesCounted'
    BY <2>9 DEF WritesCounted, AboutToSync
  <2>10. ASSUME NEW c \in Calls PROVE ~PopNothing(c)
    BY PopFindsBlock
  <2> QED
    BY <2>2, <2>3, <2>4, <2>5, <2>6, <2>7, <2>8, <2>9, <2>10
    DEF Next, MonitorNetwork, ProcessRange, Failures, GetSynced, AllResolve, ChainGrows,
        ReplayEnds, ReplayThrows, FetchBlock, FetchThrows, vars
<1>3. WritesCounted => ReplayedOnlyAfterFailure
  BY DEF WritesCounted, ReplayedOnlyAfterFailure
<1> QED BY <1>1, <1>2, <1>3, TypeCorrect, Sequential, PTL DEF Spec

----------------------------------------------------------------------------
(* The pipeline implements BlockFeed *)

\* What processRange has left behind without passing it has failed.
GapFailed ==
    \A c \in Calls : proc[c].st # "idle" =>
        \A h \in Heights : synced < h /\ h < proc[c].from => h \in failed

\* What lies between the synced height and the range being processed has failed.
LEMMA GapInvariant ==
    ASSUME ~CallCanReject, Genesis \notin InitialSync
    PROVE  Spec => []GapFailed
<1>1. Init => GapFailed
  BY DEF Init, GapFailed, ProcIdle
<1>2. TypeOK /\ TypeOK' /\ SequentialInv /\ GapFailed /\ [Next]_vars => GapFailed'
  <2> SUFFICES ASSUME TypeOK, TypeOK', SequentialInv, GapFailed, [Next]_vars PROVE GapFailed'
    OBVIOUS
  <2> USE DEF control, coroutines, history
  <2>a. (\A h \in Heights : h \in Int) /\ synced \in Int
    BY MaxHeightAssumption DEF Heights, TypeOK, Docs, NoDoc, Genesis
  <2>b. ASSUME NEW c \in Calls, proc[c].st # "idle"
        PROVE  \A d \in Calls : d # c => proc[d].st = "idle"
    BY <2>b DEF SequentialInv, OneCall, Idle, ProcIdle
  <2>1. ASSUME UNCHANGED <<synced, failed>>,
               \A d \in Calls : proc'[d].st = "idle" \/
                   (proc[d].st # "idle" /\ proc'[d].from = proc[d].from)
        PROVE  GapFailed'
    BY <2>1 DEF GapFailed
  <2>2. ASSUME NEW c \in Calls, ShouldProcess(c) \/ RangeDone(c) \/ PopBlock(c) \/ ApplyBlock(c)
        PROVE  GapFailed'
    <3>1. proc[c].st # "idle" /\ UNCHANGED <<synced, failed>>
      BY <2>2 DEF ShouldProcess, RangeDone, PopBlock, ApplyBlock
    <3>2. /\ proc'[c].st = "idle" \/ proc'[c].from = proc[c].from
          /\ \A d \in Calls : d # c => proc'[d] = proc[d]
      BY <2>2 DEF ShouldProcess, RangeDone, PopBlock, ApplyBlock, TypeOK, ProcStates, ProcIdle
    <3> QED BY <2>1, <3>1, <3>2
  <2>3. ASSUME NEW c \in Calls, SyncBlock(c) PROVE GapFailed'
    <3>1. /\ synced' = proc[c].block /\ failed' = failed
          /\ proc[c].st = "sync" /\ proc[c].block = proc[c].from
      BY <2>3 DEF SyncBlock, SyncedHeight, SequentialInv, Progress, Busy
    <3>2. proc'[c].from = proc[c].from /\ \A d \in Calls : d # c => proc'[d] = proc[d]
      BY <2>3 DEF SyncBlock, TypeOK, ProcStates
    <3>3. \A h \in Heights : ~(synced' < h /\ h < proc'[c].from)
      BY <3>1, <3>2, <2>a, FieldTypes
    <3>4. \A d \in Calls : d # c => proc'[d].st = "idle"
      BY <3>1, <3>2, <2>b
    <3> QED BY <3>3, <3>4 DEF GapFailed
  <2>4. ASSUME NEW c \in Calls, EmitBlock(c) PROVE GapFailed'
    <3>1. /\ proc[c].st = "emit" /\ proc[c].block = proc[c].from /\ synced = proc[c].block
          /\ UNCHANGED <<synced, failed>>
      BY <2>4 DEF EmitBlock, SequentialInv, Progress, Busy
    <3>2. proc'[c].from = proc[c].from + 1 /\ \A d \in Calls : d # c => proc'[d] = proc[d]
      BY <2>4, <3>1 DEF EmitBlock, NextRange, TypeOK
    <3>3. \A h \in Heights : ~(synced' < h /\ h < proc'[c].from)
      BY <3>1, <3>2, <2>a, FieldTypes
    <3>4. \A d \in Calls : d # c => proc'[d].st = "idle"
      BY <3>1, <3>2, <2>b
    <3> QED BY <3>3, <3>4 DEF GapFailed
  <2>5. ASSUME NEW c \in Calls, ProcessThrows(c) PROVE GapFailed'
    <3>1. /\ proc[c].st # "idle" /\ proc[c].block = proc[c].from
          /\ synced' = synced /\ failed' = failed \cup {proc[c].block}
      BY <2>5 DEF ProcessThrows, SequentialInv, Progress, Busy
    <3>2. proc'[c].from = proc[c].from + 1 /\ \A d \in Calls : d # c => proc'[d] = proc[d]
      BY <2>5, <3>1 DEF ProcessThrows, NextRange, TypeOK
    <3>3. \A h \in Heights : h < proc[c].from + 1 => h < proc[c].from \/ h = proc[c].block
      BY <3>1, <2>a, FieldTypes
    <3>4. \A h \in Heights : synced' < h /\ h < proc'[c].from => h \in failed'
      BY <3>1, <3>2, <3>3 DEF GapFailed
    <3>5. \A d \in Calls : d # c => proc'[d].st = "idle"
      BY <3>1, <3>2, <2>b
    <3> QED BY <3>4, <3>5 DEF GapFailed
  <2>6. CASE CompareHeights
    <3>1. doc = synced /\ failed' = failed
      BY <2>6 DEF CompareHeights, SequentialInv, OneCall
    <3>2. \A c \in Calls : proc[c].st = "idle"
      BY <2>6 DEF CompareHeights, SequentialInv, OneCall, Idle, ProcIdle
    <3>3. CASE proc' = proc
      BY <3>2, <3>3 DEF GapFailed
    <3>4. ASSUME NEW c \in Calls, CurrentHeight(doc) < ConfirmedHeight,
                 proc' = [proc EXCEPT ![c] = [st |-> "check",
                   from |-> FirstHeight(CurrentHeight(doc)), to |-> ConfirmedHeight,
                   block |-> 0]]
          PROVE  GapFailed'
      <4>1. latest \in Int /\ ConfirmedHeight \in Int
        BY MinConfAssumption, MaxHeightAssumption DEF TypeOK, Heights, ConfirmedHeight
      <4>a. CurrentHeight(doc) < ConfirmedHeight
        BY <3>4
      <4>2. synced # NoDoc
        <5>1. ASSUME synced = NoDoc PROVE ~(CurrentHeight(doc) < ConfirmedHeight)
          BY <3>1, <4>1, <5>1, MinConfAssumption
          DEF CurrentHeight, BootstrapHeight, ConfirmedHeight
        <5> QED BY <4>a, <5>1
      <4>3. synced' = synced
        BY <2>6, <3>1, <4>2 DEF CompareHeights, NeedsBootstrap, SequentialInv, Progress
      <4>4. /\ proc'[c].from = synced + 1
            /\ \A d \in Calls : d # c => proc'[d] = proc[d]
        BY <3>1, <3>4, <4>2 DEF FirstHeight, CurrentHeight, TypeOK
      <4>5. \A h \in Heights : ~(synced' < h /\ h < proc'[c].from)
        BY <4>3, <4>4, <2>a
      <4> QED BY <3>2, <4>4, <4>5 DEF GapFailed
    <3> QED BY <2>6, <3>3, <3>4 DEF CompareHeights
  <2>7. CASE Crash
    BY <2>7 DEF Crash, GapFailed, ProcIdle
  <2>8. ASSUME NEW c \in Calls PROVE ~PopNothing(c)
    BY PopFindsBlock
  <2>9. ASSUME UNCHANGED <<synced, failed, proc>> PROVE GapFailed'
    BY <2>9 DEF GapFailed
  <2> QED
    BY <2>2, <2>3, <2>4, <2>5, <2>6, <2>7, <2>8, <2>9
    DEF Next, MonitorNetwork, ProcessRange, Failures, vars, ChainGrows, GetSynced, PollThrows,
        AllResolve, ReplayEnds, ReplayThrows, FetchBlock, FetchThrows
<1> QED BY <1>1, <1>2, TypeCorrect, Sequential, PTL DEF Spec

FeedSkipped == {h \in failed : base < h /\ h <= synced}
FeedAnnounced == {h \in Heights : emitted[h] > 0}

\* The first state of the pipeline is one of the feed.
LEMMA FeedInit ==
    ASSUME Init, Genesis \notin InitialSync
    PROVE  Feed!Init
<1>1. synced \in {NoDoc} \cup 0 .. MaxHeight /\ synced < latest /\ latest \in 1 .. MaxHeight
  BY SyncAssumption DEF Init
<1>2. latest \in Nat /\ synced \in {NoDoc} \cup 0 .. latest - 1
  BY <1>1, MaxHeightAssumption
<1>3. base = synced
  <2>1. synced # Genesis
    BY <1>1 DEF Genesis, NoDoc
  <2> QED BY <2>1 DEF Init, NeedsBootstrap
<1>4. FeedSkipped = {} /\ FeedAnnounced = {}
  BY DEF Init, FeedSkipped, FeedAnnounced
<1> QED BY <1>2, <1>3, <1>4 DEF Feed!Init, FeedSkipped, FeedAnnounced

\* One step for each disjunct of Next: it is a step of the feed, or leaves it alone.
LEMMA FeedStep ==
    ASSUME TypeOK, TypeOK', SequentialInv, ConfirmedInv, GapFailed, ~CallCanReject, [Next]_vars
    PROVE  [Feed!Next]_Feed!vars
<1> USE DEF control, coroutines, history
<1>a. \A h \in Heights : h \in Int /\ h >= 0 /\ emitted[h] \in Nat
  <2>1. emitted \in [Heights -> Nat]
    BY DEF TypeOK
  <2> QED BY <2>1, MaxHeightAssumption DEF Heights
<1>b. synced \in Int /\ base \in Int /\ latest \in Nat /\ failed \subseteq Heights
  <2>1. synced \in Docs /\ base \in Docs /\ latest \in Heights /\ failed \subseteq Heights
    BY DEF TypeOK
  <2> QED BY <2>1, MaxHeightAssumption DEF Docs, Heights, NoDoc, Genesis
<1>1. ASSUME UNCHANGED <<latest, base, synced, failed, emitted>> PROVE UNCHANGED Feed!vars
  BY <1>1 DEF Feed!vars
<1>2. CASE ChainGrows
  BY <1>2 DEF ChainGrows, Feed!Next, Feed!Grow
<1>3. CASE CompareHeights
  <2>1. doc = synced /\ UNCHANGED <<latest, failed, emitted>> /\ synced # Genesis
    BY <1>3 DEF CompareHeights, SequentialInv, OneCall, Progress
  <2>2. CASE synced = NoDoc
    <3>1. base = NoDoc /\ synced' = latest - 1 /\ base' = latest - 1
      BY <1>3, <2>1, <2>2
      DEF CompareHeights, NeedsBootstrap, BootstrapHeight, SequentialInv, Progress
    <3>2. FeedSkipped = {}
      BY <2>2, <3>1, <1>a, <1>b DEF FeedSkipped
    <3>3. FeedSkipped' = {}
      BY <3>1, <2>1, <1>a, <1>b DEF FeedSkipped
    <3> QED BY <2>1, <2>2, <3>1, <3>2, <3>3 DEF Feed!Next, Feed!Begin, FeedSkipped
  <2>3. CASE synced # NoDoc
    <3>1. synced' = synced /\ base' = base
      BY <1>3, <2>1, <2>3 DEF CompareHeights, NeedsBootstrap
    <3> QED BY <2>1, <3>1, <1>1
  <2> QED BY <2>2, <2>3
<1>4. ASSUME NEW c \in Calls, SyncBlock(c) PROVE Feed!Next
  <2> DEFINE h == proc[c].block
  <2>1. /\ proc[c].st = "sync" /\ h \in Heights
        /\ UNCHANGED <<latest, base, failed, emitted>> /\ synced' = h
    BY <1>4, FieldTypes DEF SyncBlock, SyncedHeight
  <2>2. h = proc[c].from /\ base # NoDoc /\ base <= synced /\ synced < h /\ synced # NoDoc
    BY <2>1 DEF SequentialInv, Progress, Busy
  <2>3. h <= latest - MinConf
    BY <2>1 DEF ConfirmedInv, ConfirmedHeight
  <2>4. \A k \in synced + 1 .. h - 1 : k \in failed
    <3> SUFFICES ASSUME NEW k \in synced + 1 .. h - 1 PROVE k \in failed
      OBVIOUS
    <3>1. k \in Int /\ synced < k /\ k < h
      BY <2>1, <1>a, <1>b
    <3>2. k \in Heights
      <4>1. synced >= 0
        BY <2>2 DEF TypeOK, Docs, Heights, SequentialInv, Progress
      <4>2. h <= MaxHeight
        BY <2>1 DEF Heights
      <4> QED BY <3>1, <4>1, <4>2, <1>a, <1>b, <2>1, MaxHeightAssumption DEF Heights
    <3> QED BY <3>1, <3>2, <2>1, <2>2 DEF GapFailed
  <2>5. FeedSkipped' = {k \in failed : base < k /\ k <= h}
    BY <2>1 DEF FeedSkipped
  <2> HIDE DEF h
  <2>6. CASE h \in failed
    <3>1. FeedSkipped' = FeedSkipped \cup synced + 1 .. h
      BY <2>1, <2>2, <2>4, <2>5, <2>6, <1>a, <1>b DEF FeedSkipped
    <3> QED BY <2>1, <2>2, <2>3, <3>1, <1>a, <1>b, MinConfAssumption
            DEF Feed!Next, Feed!Pass, FeedSkipped
  <2>7. CASE h \notin failed
    <3>1. FeedSkipped' = FeedSkipped \cup synced + 1 .. h - 1
      BY <2>1, <2>2, <2>4, <2>5, <2>7, <1>a, <1>b DEF FeedSkipped
    <3> QED BY <2>1, <2>2, <2>3, <3>1, <1>a, <1>b, MinConfAssumption
            DEF Feed!Next, Feed!Pass, FeedSkipped
  <2> QED BY <2>6, <2>7
<1>5. ASSUME NEW c \in Calls, EmitBlock(c) PROVE Feed!Next
  <2>1. /\ proc[c].st = "emit" /\ proc[c].block \in Heights
        /\ UNCHANGED <<latest, base, synced, failed>>
        /\ emitted' = [emitted EXCEPT ![proc[c].block] = @ + 1]
    BY <1>5, FieldTypes DEF EmitBlock
  <2>2. /\ synced = proc[c].block /\ synced # NoDoc /\ base < synced
        /\ emitted[proc[c].block] = 0
    BY <2>1 DEF SequentialInv, Progress, Busy
  <2>3. synced \notin FeedAnnounced /\ FeedAnnounced' = FeedAnnounced \cup {synced}
    BY <2>1, <2>2, <1>a DEF FeedAnnounced, TypeOK
  <2> QED BY <2>1, <2>2, <2>3 DEF Feed!Next, Feed!Announce, FeedAnnounced
<1>6. ASSUME NEW c \in Calls, ProcessThrows(c) PROVE UNCHANGED Feed!vars
  <2>1. /\ UNCHANGED <<latest, base, synced, emitted>>
        /\ failed' = failed \cup {proc[c].block} /\ proc[c].block \in Heights
    BY <1>6, FieldTypes DEF ProcessThrows
  <2>2. synced < proc[c].block
    BY <1>6 DEF ProcessThrows, SequentialInv, Progress, Busy
  <2>3. FeedSkipped' = FeedSkipped
    BY <2>1, <2>2, <1>a, <1>b DEF FeedSkipped
  <2> QED BY <2>1, <2>3 DEF Feed!vars, FeedSkipped
<1> QED
  BY <1>1, <1>2, <1>3, <1>4, <1>5, <1>6
  DEF Next, MonitorNetwork, ProcessRange, Failures, vars, GetSynced, PollThrows,
      AllResolve, ReplayEnds, ReplayThrows, FetchBlock, FetchThrows, ShouldProcess, RangeDone,
      PopBlock, PopNothing, ApplyBlock, Crash

\* The monitor keeps the promise of BlockFeed: confirmed blocks in ascending order,
\* only failed ones left out, each announced at most once and in its turn.
THEOREM PipelineImplementsFeed ==
    ASSUME ~CallCanReject, Genesis \notin InitialSync
    PROVE  Spec => ImplementsFeed
<1>1. Init => Feed!Init
  BY FeedInit
<1>2. TypeOK /\ TypeOK' /\ SequentialInv /\ ConfirmedInv /\ GapFailed /\ [Next]_vars
        => [Feed!Next]_Feed!vars
  BY FeedStep
<1> QED BY <1>1, <1>2, TypeCorrect, Sequential, ConfirmedAlways, GapInvariant, PTL
        DEF Spec, ImplementsFeed, Feed!Spec
=============================================================================
