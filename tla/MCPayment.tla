----------------------------- MODULE MCPayment -----------------------------
EXTENDS Payment
CONSTANTS w1, w2, coin, token

MCAsset == (w1 :> coin) @@ (w2 :> token)
MCAmount == (w1 :> 1) @@ (w2 :> 2)

Books(c, t) == (coin :> c) @@ (token :> t)
Rich == Books(8, 4)
Setup(nonced, bk, bound) ==
    [nonced |-> nonced, coinFeeKnown |-> TRUE, signed |-> {w1, w2}, queued |-> <<w1>>,
     book |-> bk, batch |-> 2, troubles |-> bound]

\* eth: a hot wallet that can pay all; one that can pay the token only, which has to
\* wait as a pass takes one withdrawal; one that lacks the fee of the token when the
\* coin is paid; a withdrawal with a wrong signature before another.
EthSetups ==
    {Setup(TRUE, Rich, 1), [Setup(TRUE, Books(2, 2), 1) EXCEPT !.batch = 1],
     Setup(TRUE, Books(3, 2), 1), [Setup(TRUE, Rich, 1) EXCEPT !.signed = {w2}]}
\* trx: the same with both withdrawals queued, and a hot wallet with little coin.
TrxSetups ==
    {[Setup(FALSE, Rich, 1) EXCEPT !.queued = <<w2, w1>>], Setup(FALSE, Books(1, 2), 0)}
\* bnb: the coin cannot be paid, and what is behind it waits.
BnbSetups == {[Setup(TRUE, Rich, 0) EXCEPT !.coinFeeKnown = FALSE]}
MCSetups == EthSetups \cup TrxSetups \cup BnbSetups
=============================================================================
