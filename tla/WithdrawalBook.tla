--------------------------- MODULE WithdrawalBook ---------------------------
(***************************************************************************)
(* What the API promises about withdrawals: of those with the same         *)
(* withdrawalId at most one is taken into the book, and only if its        *)
(* address is valid; what is accepted is in the book, what is refused is   *)
(* not.  Only of a withdrawal whose request ends without a verdict, by a   *)
(* failure of the database or of the server, nothing is known.             *)
(***************************************************************************)
CONSTANTS
    Items,     \* the withdrawals of all requests
    Id(_),     \* their withdrawalId
    Valid(_)   \* their address is valid

VARIABLES
    book,      \* the withdrawals the payment will process
    verdict    \* what the client knows: "open", "accepted", "refused", "unknown"

Init == book = {} /\ verdict = [i \in Items |-> "open"]

Take(i) ==
    /\ verdict[i] = "open" /\ Valid(i)
    /\ \A j \in book : Id(j) # Id(i)
    /\ book' = book \cup {i}
    /\ UNCHANGED verdict

\* The clients learn a verdict, or that they will not: of several withdrawals at once
\* when a whole batch is refused or the server dies.
Tell ==
    /\ verdict' \in [Items -> {"open", "accepted", "refused", "unknown"}]
    /\ \A i \in Items : verdict'[i] # verdict[i] =>
          /\ verdict[i] = "open"
          /\ verdict'[i] = "accepted" => i \in book
          /\ verdict'[i] = "refused" => i \notin book
    /\ UNCHANGED book

Next == (\E i \in Items : Take(i)) \/ Tell

Spec == Init /\ [][Next]_<<book, verdict>>
=============================================================================
