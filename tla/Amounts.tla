------------------------------ MODULE Amounts ------------------------------
(***************************************************************************)
(* Sums of amounts, which the code forms with reduce and Decimal.add.      *)
(* Amounts are natural numbers here, so that a sum is a number of units;   *)
(* put this way, and not as a recursive function, sums can be proved about *)
(* with the facts on cardinalities (AmountsProofs).                        *)
(***************************************************************************)
EXTENDS Integers, FiniteSets

\* f[x] units for each x.
Units(f) == UNION {{x} \X (1 .. f[x]) : x \in DOMAIN f}

\* The sum of f over its domain.
SumOf(f) == Cardinality(Units(f))
=============================================================================
