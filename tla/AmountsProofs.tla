---------------------------- MODULE AmountsProofs ----------------------------
(***************************************************************************)
(* The facts about sums that the ledger rests on.                          *)
(***************************************************************************)
EXTENDS Amounts, FiniteSetTheorems, FunctionTheorems, TLAPS

\* A function to amounts, whose sum is a number.
IsAmounts(f) == IsFiniteSet(DOMAIN f) /\ \A x \in DOMAIN f : f[x] \in Nat

LEMMA ImageFinite ==
    ASSUME NEW g, IsFiniteSet(DOMAIN g), g = [x \in DOMAIN g |-> g[x]]
    PROVE  IsFiniteSet({g[x] : x \in DOMAIN g})
<1>1. PICK S, T : S = DOMAIN g /\ T = {g[x] : x \in DOMAIN g}
  OBVIOUS
<1>2. g \in [S -> T] /\ \A t \in T : \E x \in S : g[x] = t
  BY <1>1
<1>3. g \in Surjection(S, T)
  BY <1>2, Fun_IsSurj
<1> QED BY <1>1, <1>3, FS_Surjection

LEMMA UnitsFinite ==
    ASSUME NEW f, IsAmounts(f)
    PROVE  IsFiniteSet(Units(f))
<1>1. IsFiniteSet(DOMAIN f) /\ \A x \in DOMAIN f : f[x] \in Nat
  BY DEF IsAmounts
<1>2. ASSUME NEW x \in DOMAIN f PROVE IsFiniteSet({x} \X (1 .. f[x]))
  <2>1. IsFiniteSet({x})
    BY FS_Singleton
  <2>2. IsFiniteSet(1 .. f[x])
    BY <1>1, FS_Interval
  <2> QED BY <2>1, <2>2, FS_Product
<1>3. PICK g : g = [x \in DOMAIN f |-> {x} \X (1 .. f[x])]
  OBVIOUS
<1>4. IsFiniteSet({g[x] : x \in DOMAIN g})
  <2>1. DOMAIN g = DOMAIN f /\ g = [x \in DOMAIN g |-> g[x]]
    BY <1>3
  <2> QED BY <1>1, <2>1, ImageFinite
<1>5. {g[x] : x \in DOMAIN g} = {{x} \X (1 .. f[x]) : x \in DOMAIN f}
  BY <1>3
<1>6. IsFiniteSet(UNION {{x} \X (1 .. f[x]) : x \in DOMAIN f})
  BY <1>2, <1>4, <1>5, FS_UNION
<1> QED BY <1>6 DEF Units

LEMMA SumIsNat ==
    ASSUME NEW f, IsAmounts(f)
    PROVE  SumOf(f) \in Nat
BY UnitsFinite, FS_CardinalityType DEF SumOf

\* A sum is that of two parts.
LEMMA SumSplit ==
    ASSUME NEW f, IsAmounts(f), NEW A \in SUBSET DOMAIN f,
           NEW g, g = [x \in A |-> f[x]], NEW h, h = [x \in DOMAIN f \ A |-> f[x]]
    PROVE  IsAmounts(g) /\ IsAmounts(h) /\ SumOf(f) = SumOf(g) + SumOf(h)
<1>1. IsFiniteSet(A) /\ IsFiniteSet(DOMAIN f \ A)
  BY FS_Subset DEF IsAmounts
<1>2. IsAmounts(g) /\ IsAmounts(h)
  BY <1>1 DEF IsAmounts
<1>3. Units(f) = Units(g) \cup Units(h) /\ Units(g) \cap Units(h) = {}
  BY DEF Units
<1>4. IsFiniteSet(Units(g)) /\ IsFiniteSet(Units(h))
  BY <1>2, UnitsFinite
<1>5. Cardinality(Units(f)) = Cardinality(Units(g)) + Cardinality(Units(h)) - Cardinality({})
  <2>1. Cardinality(Units(g) \cup Units(h)) =
            Cardinality(Units(g)) + Cardinality(Units(h)) - Cardinality(Units(g) \cap Units(h))
    BY <1>4, FS_Union
  <2> QED BY <1>3, <2>1
<1>6. SumOf(g) \in Nat /\ SumOf(h) \in Nat
  BY <1>2, SumIsNat
<1> QED BY <1>2, <1>5, <1>6, FS_EmptySet DEF SumOf

LEMMA SumOfNothing == ASSUME NEW f, DOMAIN f = {} PROVE SumOf(f) = 0
BY FS_EmptySet DEF SumOf, Units

LEMMA SumOfOne ==
    ASSUME NEW x, NEW f, DOMAIN f = {x}, f[x] \in Nat
    PROVE  SumOf(f) = f[x]
<1> DEFINE n == f[x]
           S == 1 .. n
<1>1. Units(f) = {x} \X S
  BY DEF Units
<1>2. IsFiniteSet({x}) /\ Cardinality({x}) = 1
  BY FS_Singleton
<1>3. IsFiniteSet(S) /\ Cardinality(S) = n
  BY FS_Interval
<1> HIDE DEF S, n
<1>4. Cardinality({x} \X S) = Cardinality({x}) * Cardinality(S)
  BY <1>2, <1>3, FS_Product
<1>5. n \in Nat
  BY DEF n
<1>6. Cardinality({x} \X S) = n
  BY <1>2, <1>3, <1>4, <1>5
<1> QED BY <1>1, <1>6 DEF SumOf, n

\* One element taken out.
LEMMA SumWithout ==
    ASSUME NEW f, IsAmounts(f), NEW x \in DOMAIN f,
           NEW g, g = [y \in DOMAIN f \ {x} |-> f[y]]
    PROVE  IsAmounts(g) /\ SumOf(f) = SumOf(g) + f[x]
<1>1. PICK h : h = [y \in {x} |-> f[y]]
  OBVIOUS
<1>2. SumOf(h) = f[x]
  BY <1>1, SumOfOne DEF IsAmounts
<1>3. IsAmounts(g) /\ IsAmounts(h) /\ SumOf(f) = SumOf(h) + SumOf(g)
  BY <1>1, SumSplit
<1>4. SumOf(h) \in Nat /\ SumOf(g) \in Nat
  BY <1>3, SumIsNat
<1> QED BY <1>2, <1>3, <1>4

\* The sum of nothing but zeros.
LEMMA SumOfZeros ==
    ASSUME NEW f, \A x \in DOMAIN f : f[x] = 0
    PROVE  SumOf(f) = 0
<1>1. \A x \in DOMAIN f : {x} \X (1 .. f[x]) = {}
  OBVIOUS
<1>2. Units(f) = {}
  BY <1>1 DEF Units
<1> QED BY <1>2, FS_EmptySet DEF SumOf
=============================================================================
