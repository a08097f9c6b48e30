----------------------------- MODULE NodeClient -----------------------------
(***************************************************************************)
(* One call of a client of a node (eth_rpc.js, bnb_rpc.js, btc_rpc.js,     *)
(* trx_api.js, api.js) and its retries while the node stops, catches up    *)
(* and comes back.  A method is what NodeMethods says of it:               *)
(*   retry   "counted", "restarted" (the counter is passed in the place of *)
(*           another argument and starts at 0 again) or "never"            *)
(*   end     "throw" or "fallback", a value in place of the answer         *)
(*   answer  "any" answer is returned as it is; "height" asks a node that  *)
(*           has none whether it is syncing; "found" asks at once again    *)
(*           for what the node does not know, by a call inside its try;    *)
(*           an empty "receipt" is a failure; "none": it fails before it   *)
(*           asks                                                          *)
(***************************************************************************)
EXTENDS Integers, FiniteSets

CONSTANTS
    Methods,     \* [client, name, retry, end, answer]
    MaxAttempt,  \* MAX_ATTEMPT of the clients
    MaxChanges   \* how often the node stops, starts or catches up

ASSUME MethodsAssumption ==
    \A m \in Methods :
        /\ m.retry \in {"counted", "restarted", "never"}
        /\ m.end \in {"throw", "fallback"}
        /\ m.answer \in {"any", "height", "found", "receipt", "none"}
        /\ m.answer = "found" => m.retry = "counted"
ASSUME BoundsAssumption == MaxAttempt \in Nat /\ MaxChanges \in Nat

VARIABLES
    method,   \* the method called
    pc,       \* "request", "sync" (isSyncing), "delay" or "done"
    attempt,  \* its argument, at most MaxAttempt + 1 as no more is told apart
    guards,   \* the attempts whose try still waits for a call made inside it
    failed,   \* its failed requests, counted to MaxAttempt + 2
    result,   \* "none" yet, "value", "nothing", "fallback" or "thrown"
    node,     \* "down", "behind" (it answers, but knows nothing yet) or "ready"
    changes

call == <<method, attempt, guards, failed, result>>
vars == <<method, pc, attempt, guards, failed, result, node, changes>>

Init ==
    /\ method \in Methods /\ pc = "request" /\ attempt = 0 /\ guards = {} /\ failed = 0 /\ result = "none"
    /\ node \in {"down", "behind", "ready"} /\ changes = 0

Incremented(n, limit) == IF n < limit THEN n + 1 ELSE n

----------------------------------------------------------------------------
Return(r) ==
    /\ pc' = "done" /\ result' = r
    /\ UNCHANGED <<method, attempt, guards, failed, node, changes>>

\* Slip: one attempt more.
OneMore == method.retry = "never" \/ attempt > MaxAttempt
LastAttempt == method.retry = "never" \/ attempt >= MaxAttempt

\* The catch of an attempt: wait and try again.
Wait == ~LastAttempt /\ pc' = "delay" /\ UNCHANGED <<attempt, guards, result>>

\* The last attempt throws: the call that made it catches that when it waits inside its
\* try, and counts on from its own attempt.
Innermost(g) == g \in guards /\ \A h \in guards : h <= g
CaughtBelow ==
    /\ LastAttempt /\ pc' = "delay"
    /\ \E g \in guards : Innermost(g) /\ attempt' = g /\ guards' = guards \ {g}
    /\ UNCHANGED result
GiveUp ==
    /\ LastAttempt /\ guards = {} /\ pc' = "done"
    /\ result' = IF method.end = "throw" THEN "thrown" ELSE "fallback"
    /\ UNCHANGED <<attempt, guards>>

Fail ==
    /\ failed' = Incremented(failed, MaxAttempt + 2)
    /\ Wait \/ CaughtBelow \/ GiveUp
    /\ UNCHANGED <<method, node, changes>>

\* The request is answered.
Answer == pc = "request" /\ method.answer # "none" /\ node = "ready" /\ Return("value")

\* The node does not know it: null, no height, or an empty receipt, for which trx calls
\* a function that does not exist.
AnswerNothing ==
    /\ pc = "request" /\ node = "behind" /\ method.answer = "any"
    /\ Return("nothing")
AskSyncing ==
    /\ pc = "request" /\ node = "behind" /\ method.answer = "height"
    /\ pc' = "sync"
    /\ UNCHANGED <<call, node, changes>>
\* The last attempt lets an exception of the inner call through.
\* Slip: it does not look at its number.
AlwaysGuarded(n) == {n}
Guarded(n) == {n} \cap 0 .. MaxAttempt - 1

AskAgain ==
    /\ pc = "request" /\ node = "behind" /\ method.answer = "found"
    /\ attempt' = Incremented(attempt, MaxAttempt + 1)
    /\ guards' = guards \cup Guarded(attempt)
    /\ UNCHANGED <<method, pc, failed, result, node, changes>>
EmptyReceipt == pc = "request" /\ node = "behind" /\ method.answer = "receipt" /\ Fail

\* isSyncing: the current block, or 0.
Syncing == pc = "sync" /\ node # "down" /\ Return("value")

\* No connection, an error or a timeout; or a client that is broken.
NoAnswer ==
    /\ \/ pc = "sync" /\ node = "down"
       \/ pc = "request" /\ (node = "down" \/ method.answer = "none")
    /\ Fail

\* The delay of sleepTime is over.
\* Slip: the counter is passed in the place of verbose.
AlwaysRestarted == 0
NextAttempt ==
    IF method.retry = "restarted" THEN 0 ELSE Incremented(attempt, MaxAttempt + 1)
Retry ==
    /\ pc = "delay"
    /\ pc' = "request" /\ attempt' = NextAttempt
    /\ UNCHANGED <<method, guards, failed, result, node, changes>>

\* The node, and the network to it.
Change ==
    /\ changes < MaxChanges /\ changes' = changes + 1
    /\ node' \in {"down", "behind", "ready"} \ {node}
    /\ UNCHANGED <<call, pc>>

Step ==
    \/ Answer \/ AnswerNothing \/ AskSyncing \/ AskAgain \/ EmptyReceipt
    \/ Syncing \/ NoAnswer \/ Retry
Next == Step \/ Change

Spec == Init /\ [][Next]_vars

\* Every request ends, by an answer, an error or a timeout, and so does every delay.
FairSpec == Spec /\ WF_vars(Step)

----------------------------------------------------------------------------
(* Properties *)

\* The types of the call's state (get and the like).
TypeOK ==
    /\ method \in Methods
    /\ pc \in {"request", "sync", "delay", "done"}
    /\ attempt \in 0 .. MaxAttempt + 1 /\ failed \in 0 .. MaxAttempt + 2
    /\ guards \subseteq 0 .. MaxAttempt - 1
    /\ result \in {"none", "value", "nothing", "fallback", "thrown"}
    /\ node \in {"down", "behind", "ready"} /\ changes \in 0 .. MaxChanges

\* A method that never retries (broadcast, sendTrx) asks once. One that counts does not
\* give up before it has failed MAX_ATTEMPT + 1 times, and then does; getAssetInfoById
\* may fail more often, as each call inside its try is caught and tried again.
GivesUpAtLimit ==
    /\ method.retry = "never" => failed <= 1 /\ pc # "delay"
    /\ method.retry = "counted" /\ result \in {"thrown", "fallback"} => failed >= MaxAttempt + 1
    /\ method.retry = "counted" /\ method.answer # "found" => failed <= MaxAttempt + 1

\* A call ends although the node never comes back, if its retries are counted; one that
\* begins to count anew ends unless the node stops again and again (getBlockHashByHeight
\* passes its attempts as verbose), and getAssetInfoById unless it is again and again
\* told that what it asks for is not known.
Settles ==
    \/ <>(pc = "done")
    \/ method.retry = "restarted" /\ []<>(node = "down")
    \/ method.answer = "found" /\ []<>(node = "behind")
=============================================================================
