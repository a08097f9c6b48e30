----------------------------- MODULE BlockFeed -----------------------------
(***************************************************************************)
(* What the monitor of one currency promises to those who rely on it: the  *)
(* confirmed blocks are passed in ascending order from a first height on,  *)
(* a block that is left out is accounted for, and a passed block is        *)
(* announced at most once, while it is the last one passed.  Coroutines,   *)
(* the queue, polling and restarts are not visible here; BlockPipeline     *)
(* implements this specification when no Promise.all rejects.              *)
(***************************************************************************)
EXTENDS Integers

CONSTANTS
    MinConf,  \* confirmations a block needs before it is passed
    Unset     \* no height is stored yet

VARIABLES
    latest,     \* height of the chain
    first,      \* the height monitoring starts behind
    passed,     \* the last height passed
    skipped,    \* the heights left out on the way
    announced   \* the heights announced

vars == <<latest, first, passed, skipped, announced>>

Init ==
    /\ latest \in Nat
    /\ passed \in {Unset} \cup 0 .. latest - 1
    /\ first = passed
    /\ skipped = {} /\ announced = {}

Grow ==
    /\ latest' = latest + 1
    /\ UNCHANGED <<first, passed, skipped, announced>>

\* A new service begins behind the tip of the chain.
Begin ==
    /\ passed = Unset
    /\ passed' = latest - 1 /\ first' = passed'
    /\ UNCHANGED <<latest, skipped, announced>>

\* Everything between the last height passed and h is left out; h itself may have
\* been left out once, before it was passed.
Pass(h) ==
    /\ passed # Unset /\ passed < h /\ h <= latest - MinConf
    /\ passed' = h
    /\ skipped' \in {skipped \cup passed + 1 .. h - 1, skipped \cup passed + 1 .. h}
    /\ UNCHANGED <<latest, first, announced>>

Announce ==
    /\ passed # Unset /\ first < passed
    /\ passed \notin announced
    /\ announced' = announced \cup {passed}
    /\ UNCHANGED <<latest, first, passed, skipped>>

Next == Grow \/ Begin \/ Announce \/ \E h \in 0 .. latest : Pass(h)

Spec == Init /\ [][Next]_vars
=============================================================================
