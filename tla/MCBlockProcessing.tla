------------------------- MODULE MCBlockProcessing -------------------------
(* Chains on which TLC runs BlockProcessing.  Transactions are numbered.      *)
EXTENDS BlockProcessing

NoAttempts == [w \in {} |-> <<>>]
Chain(blocks) == [blocks |-> blocks, attempts |-> NoAttempts, gas |-> {}]

Transfer(hash, cur, amount, from, to) ==
    [hash |-> hash, idx |-> 0, cur |-> cur, amount |-> amount, fee |-> 1,
     from |-> from, to |-> to, inputs |-> <<>>, ok |-> TRUE]
Failed(t) == [t EXCEPT !.ok = FALSE]

\* A token transaction: a call that moves no coin, and the token's log.
Token(hash, amount, from, to) ==
    <<Transfer(hash, "eth", 0, from, None), Transfer(hash, "usd", amount, from, to)>>

----------------------------------------------------------------------------
(* Chains of an account currency, with two addresses of ours. *)

Coin(hash) ==
    {<<Transfer(hash, "eth", n, None, a)>> : n \in {3, 5}, a \in {"a", "b"}}
    \cup {<<Transfer(hash, "eth", n, "a", b)>> : n \in 1 .. 2, b \in {"b", None}}
    \cup {<<Failed(Transfer(hash, "eth", 1, "a", b))>> : b \in {"b", None}}
Tokens(hash) ==
    {Token(hash, 3, None, "a"), Token(hash, 1, "a", "b"), Token(hash, 2, "a", None)}

AccountChains ==
    {Chain(bs) : bs \in {b \in
        {<<x1 \o x2, x3 \o x4>> : x1 \in Coin(1), x2 \in Coin(2) \cup Tokens(2),
                                  x3 \in Coin(3) \cup Tokens(3), x4 \in Coin(4) \cup Tokens(4)}
        : Covered(Chain(b))}}

\* An address that pays the fees of its tokens with top-ups, wholly or in part: the
\* transporter's way.
FuelledChains ==
    {c \in {[Chain(<<first \o Token(2, 3, None, "a"), Token(3, 1, "a", b) \o last>>)
                EXCEPT !.gas = {1, 4}] :
        first \in {<<Transfer(1, "eth", n, None, "a")>> : n \in {1, 2}}, b \in {"b", None},
        last \in Coin(4) \cup Coin(5) \cup Tokens(4) \cup Tokens(5)} : Covered(c)}

----------------------------------------------------------------------------
(* Chains of a UTXO currency. *)

Out(hash, idx, to, inputs) ==
    [hash |-> hash, idx |-> idx, cur |-> "btc", amount |-> 1, fee |-> 0,
     from |-> None, to |-> to, inputs |-> inputs, ok |-> TRUE]
Input(hash, idx) == [hash |-> hash, idx |-> idx]

UtxoChains ==
    {c \in {Chain(<< <<Out(1, 0, "a", <<>>), Out(1, 1, "b", <<>>)>>, b2, b3 >>) :
        b2 \in {<<Out(2, 0, None, ins), Out(2, 1, "a", ins)>> :
                    ins \in {<<>>, <<Input(1, 0)>>, <<Input(1, 0), Input(1, 1)>>,
                            <<Input(9, 0), Input(1, 1)>>}},
        b3 \in {<<Out(3, 0, "b", ins)>> :
                    ins \in {<<>>, <<Input(2, 1)>>, <<Input(1, 1), Input(2, 1)>>}}} :
     OutputsApart(c)}

----------------------------------------------------------------------------
(* Chains with withdrawals that are tried several times, and with top-ups. *)

Attempt(hash) == [hash |-> hash, idx |-> 0]
Pay(hash, amount, ok) ==
    IF ok THEN Token(hash, amount, "a", None)
    ELSE <<Failed(Transfer(hash, "eth", 0, "a", None))>>

RetryChains ==
    {[blocks |-> << <<Transfer(1, "eth", 5, None, "a")>> \o Token(2, 3, None, "a"),
                    Pay(3, 1, ok3) \o <<Transfer(5, "eth", 1, None, "b")>>,
                    Pay(4, 1, ok4) \o <<Transfer(6, "eth", 1, "a", None)>> >>,
      attempts |-> [w \in {"w"} |-> <<Attempt(3), Attempt(4)>>],
      gas |-> {5}] : ok3 \in BOOLEAN, ok4 \in BOOLEAN}

\* A first attempt that succeeds leaves nothing to a second one: such a chain ends
\* before it.
PayoutChains ==
    {c \in RetryChains : Failed(Transfer(3, "eth", 0, "a", None)) \in ToSet(c.blocks[2])}
    \cup {[c EXCEPT !.blocks = SubSeq(@, 1, 2)] : c \in RetryChains}

HealthyChains == AccountChains \cup FuelledChains \cup PayoutChains

\* They are chains on which the ledger is proved to hold.
ASSUME LedgerAssumption == \A c \in HealthyChains : InputFree(c) /\ Covered(c)

CrashChains == RetryChains \cup UtxoChains

\* They are chains on which spent outputs are proved to be marked.
ASSUME OutputsAssumption == \A c \in CrashChains : InputFree(c) \/ (OutputsApart(c) /\ NoPayouts(c))

TopUpChains ==
    {[Chain(<< <<Transfer(1, "eth", 1, None, "a"), Transfer(2, "eth", 1, None, "a")>> >>)
        EXCEPT !.gas = {2}]}
=============================================================================
