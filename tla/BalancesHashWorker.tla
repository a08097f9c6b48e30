------------------------- MODULE BalancesHashWorker -------------------------
(***************************************************************************)
(* How a block that the monitor announced reaches the message queue        *)
(* (src/src/app/worker.js, src/src/app/rabbitMQ.js and                     *)
(* reproduceBalancesHash of src/src/lib/monitor.js).                       *)
(*                                                                         *)
(* The handler of the "block" event hands the block to the channel and     *)
(* writes the outcome to the balanceshashes collection without awaiting    *)
(* the write.  A block whose hand-over threw is stored as an error and     *)
(* emitted again by reproduceBalancesHash, which stores it as a success    *)
(* before it emits it.  The channel is the one createProducer returned     *)
(* when the process started: nothing replaces it.                          *)
(*                                                                         *)
(* The channel accepts what is handed to it without a confirmation of the  *)
(* broker; what becomes of it afterwards is outside this module.           *)
(***************************************************************************)
EXTENDS Naturals

CONSTANTS
    Blocks,      \* the blocks the monitor announces, each once (BlockPipeline)
    Replays,     \* the coroutines reproduceBalancesHash that may run at a time
    None,        \* no block
    MaxCrashes,  \* bound on crashes of the worker
    MaxStops     \* bound on stops of the broker

ASSUME NoneAssumption == None \notin Blocks
ASSUME BoundsAssumption == MaxCrashes \in Nat /\ MaxStops \in Nat

VARIABLES
    due,      \* blocks the monitor has still to announce
    docs,     \* status of each block in balanceshashes, or "none"
    writes,   \* updates under way that nobody awaits
    todo,     \* what each reproduceBalancesHash has still to replay
    marked,   \* the block it has stored as a success and emits next
    up,       \* is the worker running?
    channel,  \* is its channel open?
    timer,    \* is a reconnection scheduled?
    broker,   \* is the broker running?
    handed,   \* observability: how often the channel accepted each block
    lost,     \* observability: blocks whose trace a crash wiped out
    crashes, stops

network == <<channel, timer, broker>>
bounds == <<crashes, stops>>
vars == <<due, docs, writes, todo, marked, up, network, handed, lost, bounds>>

Statuses == {"success", "error"}

TypeOK ==
    /\ due \subseteq Blocks
    /\ docs \in [Blocks -> Statuses \cup {"none"}]
    /\ writes \subseteq [block : Blocks, status : Statuses]
    /\ todo \in [Replays -> SUBSET Blocks]
    /\ marked \in [Replays -> Blocks \cup {None}]
    /\ up \in BOOLEAN /\ channel \in BOOLEAN /\ timer \in BOOLEAN /\ broker \in BOOLEAN
    /\ channel => up /\ broker
    /\ handed \in [Blocks -> Nat]
    /\ lost \subseteq Blocks
    /\ crashes \in Nat /\ stops \in Nat

ErrorUnderWay(b) == [block |-> b, status |-> "error"] \in writes
IsMarked(b) == \E r \in Replays : marked[r] = b

----------------------------------------------------------------------------
Init ==
    /\ due = Blocks
    /\ docs = [b \in Blocks |-> "none"]
    /\ writes = {}
    /\ todo = [r \in Replays |-> {}]
    /\ marked = [r \in Replays |-> None]
    /\ up = TRUE /\ channel = TRUE /\ timer = FALSE /\ broker = TRUE
    /\ handed = [b \in Blocks |-> 0]
    /\ lost = {}
    /\ crashes = 0 /\ stops = 0

\* The handler of "block", up to the update it does not await: sendToQueue throws
\* when the channel is closed.
\* Slip: the outcome is not looked at.
HandleAsSuccess(b) ==
    /\ handed' = IF channel THEN [handed EXCEPT ![b] = @ + 1] ELSE handed
    /\ writes' = writes \cup {[block |-> b, status |-> "success"]}
\* Slip: an error is stored whatever happened.
HandleAsError(b) ==
    /\ handed' = IF channel THEN [handed EXCEPT ![b] = @ + 1] ELSE handed
    /\ writes' = writes \cup {[block |-> b, status |-> "error"]}
Handle(b) ==
    /\ handed' = IF channel THEN [handed EXCEPT ![b] = @ + 1] ELSE handed
    /\ writes' = writes \cup {[block |-> b, status |-> IF channel THEN "success" ELSE "error"]}

\* processBlock emits a new block.
Announce(b) ==
    /\ up /\ b \in due
    /\ due' = due \ {b}
    /\ Handle(b)
    /\ UNCHANGED <<docs, todo, marked, up, network, lost, bounds>>

\* An update of balanceshashes is done.
Write(w) ==
    /\ w \in writes
    /\ docs' = [docs EXCEPT ![w.block] = w.status]
    /\ writes' = writes \ {w}
    /\ UNCHANGED <<due, todo, marked, up, network, handed, lost, bounds>>

\* reproduceBalancesHash reads the errors: getErrorBalanceHash.
\* Slip: the successes are replayed too.
AllDocs == {b \in Blocks : docs[b] # "none"}
\* Slip: nothing is found.
NoDocs == {b \in Blocks : docs[b] = "unknown"}
ErrorDocs == {b \in Blocks : docs[b] = "error"}
ReadErrors(r) ==
    /\ up /\ todo[r] = {} /\ marked[r] = None
    /\ todo' = [todo EXCEPT ![r] = ErrorDocs]
    /\ UNCHANGED <<due, docs, writes, marked, up, network, handed, lost, bounds>>

\* The block is stored as a success ...
MarkSuccess(r) ==
    /\ up /\ marked[r] = None
    /\ \E b \in todo[r] :
        /\ docs' = [docs EXCEPT ![b] = "success"]
        /\ marked' = [marked EXCEPT ![r] = b]
        /\ todo' = [todo EXCEPT ![r] = @ \ {b}]
    /\ UNCHANGED <<due, writes, up, network, handed, lost, bounds>>

\* ... and emitted again.
EmitAgain(r) ==
    /\ up /\ marked[r] # None
    /\ Handle(marked[r])
    /\ marked' = [marked EXCEPT ![r] = None]
    /\ UNCHANGED <<due, docs, todo, up, network, lost, bounds>>

\* The broker stops: the connection's "close" event schedules createProducer.
StopBroker ==
    /\ broker /\ stops < MaxStops
    /\ broker' = FALSE /\ channel' = FALSE
    /\ timer' = up
    /\ stops' = stops + 1
    /\ UNCHANGED <<due, docs, writes, todo, marked, up, handed, lost, crashes>>

StartBroker ==
    /\ ~broker
    /\ broker' = TRUE
    /\ UNCHANGED <<due, docs, writes, todo, marked, up, channel, timer, handed, lost, bounds>>

\* The scheduled createProducer: isConnecting is still set from the start of the
\* process, so it returns at once, and the channel stays the old one.
Reconnect ==
    /\ timer
    /\ timer' = FALSE
    /\ UNCHANGED <<due, docs, writes, todo, marked, up, channel, broker, handed, lost, bounds>>

\* The worker dies: the updates under way and the replay are gone.
Crash ==
    /\ up /\ crashes < MaxCrashes
    /\ crashes' = crashes + 1
    /\ up' = FALSE /\ channel' = FALSE /\ timer' = FALSE
    /\ lost' = lost \cup {b \in Blocks : ErrorUnderWay(b) \/ IsMarked(b)}
    /\ writes' = {}
    /\ todo' = [r \in Replays |-> {}]
    /\ marked' = [r \in Replays |-> None]
    /\ UNCHANGED <<due, docs, broker, handed, stops>>

\* Its container restarts it; without a broker it does not come up.
\* Slip: it comes up, with a channel, whether the broker is there or not.
StartAnyway ==
    /\ ~up
    /\ up' = TRUE /\ channel' = TRUE
    /\ UNCHANGED <<due, docs, writes, todo, marked, timer, broker, handed, lost, bounds>>
Start ==
    /\ ~up /\ broker
    /\ up' = TRUE /\ channel' = TRUE
    /\ UNCHANGED <<due, docs, writes, todo, marked, timer, broker, handed, lost, bounds>>

Replay(r) == ReadErrors(r) \/ MarkSuccess(r) \/ EmitAgain(r)
Next ==
    \/ \E b \in Blocks : Announce(b)
    \/ \E w \in writes : Write(w)
    \/ \E r \in Replays : Replay(r)
    \/ StopBroker \/ StartBroker \/ Reconnect \/ Crash \/ Start

Spec == Init /\ [][Next]_vars

\* The database answers, the containers are restarted, timers fire, and the
\* monitor starts reproduceBalancesHash again as long as the chain grows.
FairSpec ==
    /\ Spec
    /\ \A b \in Blocks, s \in Statuses : WF_vars(Write([block |-> b, status |-> s]))
    /\ \A r \in Replays : WF_vars(Replay(r))
    /\ WF_vars(StartBroker) /\ WF_vars(Reconnect) /\ WF_vars(Start)

----------------------------------------------------------------------------
(* Properties *)

\* No block is handed to the queue twice, whatever crashes: the exchange credits
\* every deposit once (handler of worker.js, reproduceBalancesHash).
HandedOnce == \A b \in Blocks : handed[b] <= 1

\* An announced block was handed over or is on the way to be, unless a crash hit
\* while its error was being written, or between the success stored by
\* reproduceBalancesHash and the event.
EveryBlockAccounted ==
    \A b \in Blocks \ due :
        handed[b] > 0 \/ docs[b] = "error" \/ ErrorUnderWay(b) \/ IsMarked(b) \/ b \in lost

\* An error is handed over in the end if the channel works: it is read, stored as
\* a success and emitted again (reproduceBalancesHash).
ErrorsResent ==
    \A b \in Blocks : (docs[b] = "error" /\ channel) ~> (handed[b] > 0 \/ ~channel)

\* When the broker is back, the worker has a channel again (comment at rabbitMQ.js 9).
Reconnects == (up /\ broker /\ ~channel) ~> channel
=============================================================================
