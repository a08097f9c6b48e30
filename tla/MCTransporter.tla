--------------------------- MODULE MCTransporter ---------------------------
EXTENDS Transporter
CONSTANTS a1, a2, coin, token

Amounts(c, t) == (coin :> c) @@ (token :> t)
Deposit(k, a, x, n) ==
    [from |-> Outside, nonce |-> k, asset |-> x, to |-> a, amount |-> n, fee |-> 0]
\* The gas wallet holds g, the first address d of the coin.
Funds(g, d) ==
    [a \in Accounts |-> Amounts(IF a = Gas THEN g ELSE IF a = a1 THEN d ELSE 0, 0)]

Setup(c, threshold, deposits, bound) ==
    [chain |-> c, tokens |-> <<token>>, threshold |-> threshold, minimum |-> Amounts(4, 2),
     configured |-> TRUE, gasWallet |-> TRUE, held |-> Funds(20, 0), deposits |-> deposits,
     troubles |-> bound]

TokenDeposits == <<Deposit(1, a1, token, 3), Deposit(2, a2, token, 2)>>
CoinDeposits == <<Deposit(1, a1, coin, 9), Deposit(2, a2, coin, 10)>>

\* eth: a hot wallet for tokens, one for the coin, deposits of both at one address; a
\* gas wallet that can pay the last top-up but not its fee, or that is not there, and a token
\* that is there twice; a deposit that just fills the hot wallet but for the fee.
EthSetups ==
    {Setup("eth", Amounts(0, 2), TokenDeposits, 1),
     [Setup("eth", Amounts(4, 0), CoinDeposits, 1) EXCEPT !.held[Hot] = Amounts(1, 0)],
     Setup("eth", Amounts(2, 4), <<Deposit(1, a1, token, 2), Deposit(2, a1, coin, 7)>>, 0),
     [Setup("eth", Amounts(0, 0), TokenDeposits, 1) EXCEPT
         !.held = Funds(7, 1), !.tokens = <<token, token>>],
     [Setup("eth", Amounts(0, 0), TokenDeposits, 0) EXCEPT !.gasWallet = FALSE],
     Setup("eth", Amounts(4, 0), <<Deposit(1, a1, coin, 4)>>, 0)}

\* bnb: the same with and without a threshold for the coin, and dust at an address.
BnbSetups ==
    {Setup("bnb", Amounts(0, 2), <<Deposit(1, a1, token, 1), Deposit(2, a2, coin, 5)>>, 1),
     Setup("bnb", Amounts(3, 0), <<Deposit(1, a1, coin, 4)>>, 0),
     [Setup("bnb", Amounts(0, 0), TokenDeposits, 0) EXCEPT !.held = Funds(15, 1)]}

TrxSetups ==
    {[Setup("trx", Amounts(0, 2), <<Deposit(1, a1, token, 3)>>, 1) EXCEPT !.held = Funds(6, 3)],
     Setup("trx", Amounts(4, 0), <<Deposit(1, a1, coin, 4), Deposit(2, a2, coin, 8)>>, 0),
     Setup("trx", Amounts(0, 0), <<Deposit(1, a1, coin, 4)>>, 1)}

\* No minimum is configured, and a deposit of the coin is below the fee of 2 or just the
\* fee; an address has gas besides its deposit; a hot wallet for tokens is just full.
Dust(c, deposits, gas) ==
    [Setup(c, Amounts(4, 2), deposits, IF c = "trx" THEN 1 ELSE 0) EXCEPT
        !.held = Funds(12, gas), !.minimum = Amounts(0, 0),
        !.threshold[coin] = IF c = "bnb" THEN 0 ELSE 4]
DustSetups ==
    {Dust(c, <<Deposit(1, a1, coin, n), Deposit(2, a2, coin, 5)>>, g) :
        c \in {"eth", "bnb", "trx"}, n \in 1 .. 2, g \in {0, 6}}
    \cup {[Dust("eth", <<Deposit(1, a1, coin, 1), Deposit(2, a2, token, 1)>>, 6) EXCEPT
            !.held[Hot] = Amounts(0, 2)]}

Deposited(s, a, x) ==
    MapThenSumSet(LAMBDA d : IF d.to = a /\ d.asset = x THEN d.amount ELSE 0, ToSet(s.deposits))
WithDeposits(s) ==
    [s EXCEPT !.held = [a \in Accounts |-> [x \in Assets |->
        s.held[a][x] + Deposited(s, a, x)]]]
MCSetups ==
    {WithDeposits(s) :
        s \in EthSetups \cup BnbSetups \cup TrxSetups \cup DustSetups
                 \cup {Setup("btc", Amounts(0, 0), CoinDeposits, 0)}}
=============================================================================
