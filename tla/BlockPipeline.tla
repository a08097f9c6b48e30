--------------------------- MODULE BlockPipeline ---------------------------
(***************************************************************************)
(* The block pipeline of one worker process (src/src/lib/monitor.js):      *)
(* monitorNetwork polls the node, compares the stored height with the      *)
(* confirmed height and starts three coroutines under one Promise.all:     *)
(* reproduceBalancesHash, fetchRange (producer of nextBlocks) and          *)
(* processRange (its consumer).  When one of the three rejects, the        *)
(* Promise.all rejects at once and monitorNetwork starts over, but the     *)
(* other two coroutines keep running on the same nextBlocks queue.  Each   *)
(* Promise.all is a member of Calls, so such leftovers are visible here.   *)
(*                                                                         *)
(* processBlock is three steps: the writes to the fundings and withdrawals *)
(* (detailed in module BlockProcessing), the write of the synced height,   *)
(* and the "block" event.  isRunning is taken to be TRUE throughout: the   *)
(* catch block clears and sets it again within one turn of the event loop, *)
(* and shutdown (index.js) fails at its first statement.                   *)
(***************************************************************************)
EXTENDS Integers

CONSTANTS
    MinConf,        \* minimumConfirmation
    MaxHeight,      \* bound: the chain stops growing at this height
    Calls,          \* identities of the Promise.all groups
    None,           \* no call
    Strict,         \* TRUE for the validateBlock of btc and trx
    CallCanReject,  \* may fetchRange or reproduceBalancesHash throw?
    InitialSync,    \* the heights syncblocks may hold when the system starts
    MaxCrashes,     \* bound on process restarts
    MaxErrors       \* bound on swallowed exceptions

Genesis == -1  \* a stored height that monitorNetwork treats like no document
NoDoc == -2    \* syncBlockRepository.get found no document

ASSUME MinConfAssumption == MinConf \in Nat \ {0}
ASSUME MaxHeightAssumption == MaxHeight \in Nat
ASSUME CallsAssumption == None \notin Calls
ASSUME FlavourAssumption == Strict \in BOOLEAN /\ CallCanReject \in BOOLEAN
ASSUME SyncAssumption == InitialSync \subseteq {NoDoc, Genesis} \cup (0 .. MaxHeight)
ASSUME BoundsAssumption == MaxCrashes \in Nat /\ MaxErrors \in Nat

VARIABLES
    latest,     \* height of the chain, as getLatestBlockHeight returns it
    synced,     \* stored: the height field of the syncblocks document
    pc,         \* where monitorNetwork is: "get", "height" or "all"
    doc,        \* the syncedBlock it read
    call,       \* the Promise.all it awaits
    nextBlocks, \* how many copies of each block the priority queue holds
    replay,     \* is the call's reproduceBalancesHash still running?
    fetch,      \* the call's fetchRange
    proc,       \* the call's processRange
    crashes, errors,
    \* observability
    base,       \* the height monitoring started from
    applied,    \* how often the writes of each block were done
    emitted,    \* how often the "block" event of each block was emitted
    failed      \* the blocks whose exception processBlock swallowed

control == <<pc, doc, call>>
coroutines == <<replay, fetch, proc>>
history == <<base, applied, emitted, failed>>
vars == <<latest, synced, control, nextBlocks, coroutines, crashes, errors, history>>

Heights == 0 .. MaxHeight
Docs == {NoDoc, Genesis} \cup Heights

FetchIdle == [st |-> "idle", next |-> 0, to |-> 0]
ProcIdle == [st |-> "idle", from |-> 0, to |-> 0, block |-> 0]

FetchStates == [st : {"idle", "run"}, next : 0 .. MaxHeight + 1, to : Heights]
ProcStates ==
    [st : {"idle", "check", "pop", "apply", "sync", "emit"},
     from : 0 .. MaxHeight + 1, to : Heights, block : Heights]

TypeOK ==
    /\ latest \in Heights
    /\ synced \in Docs
    /\ pc \in {"get", "height", "all"}
    /\ doc \in Docs
    /\ call \in Calls \cup {None}
    /\ nextBlocks \in [Heights -> Nat]
    /\ replay \in [Calls -> BOOLEAN]
    /\ fetch \in [Calls -> FetchStates]
    /\ proc \in [Calls -> ProcStates]
    /\ crashes \in Nat
    /\ errors \in Nat
    /\ base \in Docs
    /\ applied \in [Heights -> Nat]
    /\ emitted \in [Heights -> Nat]
    /\ failed \subseteq Heights

----------------------------------------------------------------------------
(* Operators of the code *)

\* monitorNetwork: with no document, or height -1, the height is initialised.
NeedsBootstrap(d) == d \in {NoDoc, Genesis}

\* The height written then: latestHeight - 1.
BootstrapHeight == latest - 1

\* syncBlockRepository.update returns the document as it was before the write
\* (no "new" option), so a stored -1 is still -1 here; without a document it
\* returns null and monitorNetwork falls back to latestHeight - 1.
CurrentHeight(d) == IF d = NoDoc THEN BootstrapHeight ELSE d

\* Slip: the confirmations are not subtracted.
UnconfirmedHeight == latest
\* Slip: the confirmations are added.
FutureHeight == latest + MinConf
ConfirmedHeight == latest - MinConf

\* Slip: the range starts with the synced height again.
FirstAgain(current) == current
FirstHeight(current) == current + 1

\* nextBlocks.peek() may return this height: no queued block is lower.
Queued == {h \in Heights : nextBlocks[h] > 0}
\* Slip: the queue is ordered the other way round.
IsTail(h) == h \in Queued /\ \A k \in Queued : k <= h
IsHead(h) == h \in Queued /\ \A k \in Queued : h <= k

\* Slip: the comparison is off by one.
ValidateBeyond(h, from, to) == h > from /\ h <= to
ValidateBlock(h, from, to) ==
    /\ IF Strict THEN h = from ELSE h >= from
    /\ h <= to

\* Slip: the end of the range is stored, not the block.
SyncedRangeEnd(p) == p.to
SyncedHeight(p) == p.block

Idle(c) == ~replay[c] /\ fetch[c] = FetchIdle /\ proc[c] = ProcIdle

----------------------------------------------------------------------------
Init ==
    /\ latest \in 1 .. MaxHeight
    /\ synced \in {s \in InitialSync : s < latest}
    /\ pc = "get" /\ doc = NoDoc /\ call = None
    /\ nextBlocks = [h \in Heights |-> 0]
    /\ replay = [c \in Calls |-> FALSE]
    /\ fetch = [c \in Calls |-> FetchIdle]
    /\ proc = [c \in Calls |-> ProcIdle]
    /\ crashes = 0 /\ errors = 0
    /\ base = IF NeedsBootstrap(synced) THEN NoDoc ELSE synced
    /\ applied = [h \in Heights |-> 0]
    /\ emitted = [h \in Heights |-> 0]
    /\ failed = {}

ChainGrows ==
    /\ latest < MaxHeight
    /\ latest' = latest + 1
    /\ UNCHANGED <<synced, control, nextBlocks, coroutines, crashes, errors, history>>

\* const syncedBlock = await syncBlockRepository.get(...)
GetSynced ==
    /\ pc = "get"
    /\ pc' = "height" /\ doc' = synced
    /\ UNCHANGED <<latest, synced, call, nextBlocks, coroutines, crashes, errors, history>>

\* The rest of monitorNetwork once the node has answered: initialise the height
\* if there is none, then either start a Promise.all or sleep until the next poll.
CompareHeights ==
    /\ pc = "height"
    /\ synced' = IF NeedsBootstrap(doc) THEN BootstrapHeight ELSE synced
    /\ base' = IF NeedsBootstrap(doc) /\ base = NoDoc THEN BootstrapHeight ELSE base
    /\ LET current == CurrentHeight(doc)
           from == FirstHeight(current)
       IN \/ /\ current < ConfirmedHeight
             /\ \E c \in Calls :
                  /\ Idle(c)
                  /\ call' = c
                  /\ replay' = [replay EXCEPT ![c] = TRUE]
                  /\ fetch' = [fetch EXCEPT ![c] =
                        [st |-> "run", next |-> from, to |-> ConfirmedHeight]]
                  /\ proc' = [proc EXCEPT ![c] =
                        [st |-> "check", from |-> from, to |-> ConfirmedHeight, block |-> 0]]
             /\ pc' = "all"
          \/ /\ ~(current < ConfirmedHeight)
             /\ pc' = "get"
             /\ UNCHANGED <<call, coroutines>>
    /\ doc' = NoDoc
    /\ UNCHANGED <<latest, nextBlocks, crashes, errors, applied, emitted, failed>>

\* The node or the database does not answer: catch, stop(), start(), poll again.
PollThrows ==
    /\ pc = "height" /\ errors < MaxErrors
    /\ pc' = "get" /\ doc' = NoDoc /\ errors' = errors + 1
    /\ UNCHANGED <<latest, synced, call, nextBlocks, coroutines, crashes, history>>

\* Promise.all resolves when its three coroutines are done.
AllResolve ==
    /\ pc = "all" /\ Idle(call)
    /\ pc' = "get" /\ call' = None
    /\ UNCHANGED <<latest, synced, doc, nextBlocks, coroutines, crashes, errors, history>>

\* Promise.all(c) rejects.  The one monitorNetwork awaits takes it to its catch
\* block, where stop() returns at once (canStop is TRUE) and start() polls again;
\* a rejection of a call nobody awaits any more has no effect.  The coroutines of
\* c that are left keep running.  The bound: one call stays free for the next poll.
Rejects(c) ==
    /\ \E d \in Calls : d # c /\ Idle(d)
    /\ IF call = c
       THEN pc' = "get" /\ call' = None
       ELSE UNCHANGED <<pc, call>>

ReplayEnds(c) ==
    /\ replay[c]
    /\ replay' = [replay EXCEPT ![c] = FALSE]
    /\ UNCHANGED <<latest, synced, control, nextBlocks, fetch, proc, crashes, errors, history>>

ReplayThrows(c) ==
    /\ CallCanReject /\ replay[c]
    /\ Rejects(c)
    /\ replay' = [replay EXCEPT ![c] = FALSE]
    /\ UNCHANGED <<latest, synced, doc, nextBlocks, fetch, proc, crashes, errors, history>>

\* fetchRange: the block is read from the node, parsed and pushed.
FetchBlock(c) ==
    LET f == fetch[c] IN
    /\ f.st = "run"
    /\ nextBlocks' = [nextBlocks EXCEPT ![f.next] = @ + 1]
    /\ fetch' = [fetch EXCEPT ![c] =
          IF f.next < f.to THEN [f EXCEPT !.next = @ + 1] ELSE FetchIdle]
    /\ UNCHANGED <<latest, synced, control, replay, proc, crashes, errors, history>>

FetchThrows(c) ==
    /\ CallCanReject /\ fetch[c].st = "run"
    /\ Rejects(c)
    /\ fetch' = [fetch EXCEPT ![c] = FetchIdle]
    /\ UNCHANGED <<latest, synced, doc, nextBlocks, replay, proc, crashes, errors, history>>

\* shouldProcessNextBlock returns true: the head of the queue is in the range.
ShouldProcess(c) ==
    /\ proc[c].st = "check" /\ proc[c].from <= proc[c].to
    /\ \E h \in Heights : IsHead(h) /\ ValidateBlock(h, proc[c].from, proc[c].to)
    /\ proc' = [proc EXCEPT ![c].st = "pop"]
    /\ UNCHANGED <<latest, synced, control, nextBlocks, replay, fetch, crashes, errors, history>>

\* shouldProcessNextBlock returns false: the range is done.
RangeDone(c) ==
    /\ proc[c].st = "check" /\ proc[c].from > proc[c].to
    /\ proc' = [proc EXCEPT ![c] = ProcIdle]
    /\ UNCHANGED <<latest, synced, control, nextBlocks, replay, fetch, crashes, errors, history>>

\* nextBlocks.pop() takes the head as it is now, not the one that was peeked.
PopBlock(c) ==
    /\ proc[c].st = "pop"
    /\ \E h \in Heights :
        /\ IsHead(h)
        /\ nextBlocks' = [nextBlocks EXCEPT ![h] = @ - 1]
        /\ proc' = [proc EXCEPT ![c].st = "apply", ![c].block = h]
    /\ UNCHANGED <<latest, synced, control, replay, fetch, crashes, errors, history>>

\* Another processRange emptied the queue after the peek: pop() returns undefined
\* and processBlock throws outside its try block.
PopNothing(c) ==
    /\ proc[c].st = "pop" /\ Queued = {}
    /\ Rejects(c)
    /\ proc' = [proc EXCEPT ![c] = ProcIdle]
    /\ UNCHANGED <<latest, synced, doc, nextBlocks, replay, fetch, crashes, errors, history>>

\* processBlock: all writes to fundings and withdrawals.
ApplyBlock(c) ==
    /\ proc[c].st = "apply"
    /\ applied' = [applied EXCEPT ![proc[c].block] = @ + 1]
    /\ proc' = [proc EXCEPT ![c].st = "sync"]
    /\ UNCHANGED <<latest, synced, control, nextBlocks, replay, fetch, crashes, errors,
                   base, emitted, failed>>

\* processBlock: syncBlockRepository.update({service, height}).
SyncBlock(c) ==
    /\ proc[c].st = "sync"
    /\ synced' = SyncedHeight(proc[c])
    /\ proc' = [proc EXCEPT ![c].st = "emit"]
    /\ UNCHANGED <<latest, control, nextBlocks, replay, fetch, crashes, errors, history>>

\* processRange goes on behind the block it has processed, whatever became of it.
NextRange(p) == [st |-> "check", from |-> p.block + 1, to |-> p.to, block |-> 0]

\* processBlock: emit("block", block).
EmitBlock(c) ==
    /\ proc[c].st = "emit"
    /\ emitted' = [emitted EXCEPT ![proc[c].block] = @ + 1]
    /\ proc' = [proc EXCEPT ![c] = NextRange(proc[c])]
    /\ UNCHANGED <<latest, synced, control, nextBlocks, replay, fetch, crashes, errors,
                   base, applied, failed>>

\* An exception in processBlock is logged and dropped.
ProcessThrows(c) ==
    /\ proc[c].st \in {"apply", "sync"} /\ errors < MaxErrors
    /\ errors' = errors + 1
    /\ failed' = failed \cup {proc[c].block}
    /\ proc' = [proc EXCEPT ![c] = NextRange(proc[c])]
    /\ UNCHANGED <<latest, synced, control, nextBlocks, replay, fetch, crashes,
                   base, applied, emitted>>

\* The process dies and its container is restarted: memory is lost.
Crash ==
    /\ crashes < MaxCrashes
    /\ crashes' = crashes + 1
    /\ pc' = "get" /\ doc' = NoDoc /\ call' = None
    /\ nextBlocks' = [h \in Heights |-> 0]
    /\ replay' = [c \in Calls |-> FALSE]
    /\ fetch' = [c \in Calls |-> FetchIdle]
    /\ proc' = [c \in Calls |-> ProcIdle]
    /\ UNCHANGED <<latest, synced, errors, history>>

MonitorNetwork == GetSynced \/ CompareHeights \/ AllResolve
ProcessRange(c) ==
    \/ ShouldProcess(c) \/ RangeDone(c) \/ PopBlock(c) \/ PopNothing(c)
    \/ ApplyBlock(c) \/ SyncBlock(c) \/ EmitBlock(c)
Failures ==
    \/ PollThrows \/ Crash
    \/ \E c \in Calls : ReplayThrows(c) \/ FetchThrows(c) \/ ProcessThrows(c)

Next ==
    \/ ChainGrows
    \/ MonitorNetwork
    \/ \E c \in Calls : ReplayEnds(c) \/ FetchBlock(c) \/ ProcessRange(c)
    \/ Failures

Spec == Init /\ [][Next]_vars

\* The event loop resumes every coroutine whose promise is settled; nothing
\* obliges the chain to grow or anything to fail.
Fairness ==
    /\ WF_vars(MonitorNetwork)
    /\ \A c \in Calls :
        WF_vars(ReplayEnds(c)) /\ WF_vars(FetchBlock(c)) /\ WF_vars(ProcessRange(c))

FairSpec == Spec /\ Fairness

----------------------------------------------------------------------------
(* Properties *)

\* No block is processed before it has MINIMUM_BLOCK_CONFIRM confirmations, not
\* even by coroutines a rejected Promise.all left behind (monitorNetwork).
OnlyConfirmed == \A h \in Heights : applied[h] > 0 => h <= latest - MinConf

\* Monitoring starts behind the height that was stored or initialised: no block
\* at or below it is processed (monitorNetwork's initialisation).
StartsAtBase == \A h \in Heights : applied[h] > 0 => h > base

\* Every block between the start and the synced height was processed, unless its
\* own exception was swallowed: a restart skips nothing (processRange, fetchRange).
OnlySwallowedSkipped ==
    base # NoDoc => \A h \in Heights :
        base < h /\ h <= synced => applied[h] > 0 \/ h \in failed

\* processRange pops the block that shouldProcessNextBlock validated (the comments
\* at monitor.js 111 and 126 describe one block).
ProcessesValidated ==
    \A c \in Calls : proc[c].st \in {"apply", "sync", "emit"}
        => ValidateBlock(proc[c].block, proc[c].from, proc[c].to)

\* A block is written again only after a crash or a swallowed exception.
ReplayedOnlyAfterFailure == \A h \in Heights : applied[h] <= 1 + crashes + errors

\* A block is announced at most once, whatever crashes: the synced height is
\* written before the event (processBlock).
AnnouncedOnce == \A h \in Heights : emitted[h] <= 1

\* The synced height never moves back (a step of BlockFeed does not lower it, either).
SyncedMonotone == [][synced' >= synced]_synced

\* Every confirmed block is passed in the end (README: the service listens to the
\* network and pushes what it finds), provided the failures end.
CatchesUp == \A h \in Heights : (h <= latest - MinConf) ~> (synced >= h)

\* The pipeline implements what the monitor promises: a height that is passed over
\* is one whose exception was swallowed (monitorNetwork, fetchRange, processRange,
\* processBlock).
Feed == INSTANCE BlockFeed WITH
    Unset <- NoDoc,
    first <- base,
    passed <- synced,
    skipped <- {h \in failed : base < h /\ h <= synced},
    announced <- {h \in Heights : emitted[h] > 0}
ImplementsFeed == Feed!Spec
=============================================================================
