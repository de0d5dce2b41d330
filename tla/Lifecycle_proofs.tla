--------------------------- MODULE Lifecycle_proofs ---------------------------
(***************************************************************************)
(* What the pure operators of an invoice promise for every price, amount   *)
(* and tolerance: the tolerance band brackets the quote, and the total of  *)
(* a set of transfers is a natural that grows with the set.                *)
(***************************************************************************)
EXTENDS Lifecycle, FiniteSetTheorems, TLAPS

-----------------------------------------------------------------------------
(* The tolerance band *)

\* Rounding down never exceeds, rounding up never undershoots.
LEMMA DivBounds ==
    ASSUME NEW x \in Int, NEW d \in Nat \ {0}
    PROVE  /\ x \div d \in Int
           /\ (x \div d) * d <= x
           /\ x < (x \div d + 1) * d
  BY Z3

LEMMA DivBelow ==
    ASSUME NEW x \in Int, NEW d \in Nat \ {0}, NEW m \in Int, x <= m * d
    PROVE  x \div d <= m
  BY DivBounds, Z3

LEMMA DivAbove ==
    ASSUME NEW x \in Int, NEW d \in Nat \ {0}, NEW m \in Int, m * d <= x
    PROVE  m <= x \div d
  BY DivBounds, Z3

\* computeToleranceBand brackets the quote: an exact payment always lies in
\* the band, whatever the tolerance, so it is decided paid.
THEOREM BandBracketsQuote ==
    ASSUME NEW amount \in Nat
    PROVE  /\ ComputeToleranceBand(amount).lowerBound \in Nat
           /\ ComputeToleranceBand(amount).upperBound \in Nat
           /\ ComputeToleranceBand(amount).lowerBound <= amount
           /\ amount <= ComputeToleranceBand(amount).upperBound
  <1> DEFINE n == ToleranceNum
             d == ToleranceDen
             lo == amount * (d - n)
             hi == amount * (d + n) + d - 1
  <1>1. n \in Nat /\ d \in Nat \ {0} /\ n <= d
    BY ToleranceAssumption
  <1>2. lo \in Int /\ 0 <= lo /\ lo <= amount * d
    BY <1>1, Z3
  <1>3. hi \in Int /\ amount * d <= hi
    BY <1>1, Z3
  <1>. HIDE DEF n, d, lo, hi
  <1>4. lo \div d \in Int /\ lo \div d <= amount
    BY <1>1, <1>2, DivBelow, DivBounds
  <1>5. 0 <= lo \div d
    <2>1. 0 * d <= lo
      BY <1>1, <1>2
    <2>. QED  BY <1>1, <1>2, <2>1, DivAbove
  <1>6. hi \div d \in Int /\ amount <= hi \div d
    BY <1>1, <1>3, DivAbove, DivBounds
  <1>7. /\ ComputeToleranceBand(amount).lowerBound = lo \div d
        /\ ComputeToleranceBand(amount).upperBound = hi \div d
    BY DEF ComputeToleranceBand, n, d, lo, hi
  <1>. QED  BY <1>4, <1>5, <1>6, <1>7

\* A payment of exactly the quote is decided paid.
COROLLARY ExactPaymentIsPaid ==
    ASSUME NEW amount \in Nat \ {0}
    PROVE  Decision(amount, ComputeToleranceBand(amount)) = "paid"
  BY BandBracketsQuote DEF Decision

-----------------------------------------------------------------------------
(* Totals *)

LEMMA UnitsFinite ==
    ASSUME NEW S \in SUBSET Tx
    PROVE  IsFiniteSet(Units(S))
  <1> DEFINE part == [t \in S |-> {t} \X (1 .. Amount[t])]
             parts == {part[t] : t \in S}
  <1>1. IsFiniteSet(S)
    BY TxAssumption, FS_Subset
  <1>2. part \in Surjection(S, parts)
    BY DEF Surjection
  <1>3. IsFiniteSet(parts)
    <2>. HIDE DEF part, parts
    <2>. QED  BY <1>1, <1>2, FS_Surjection
  <1>4. ASSUME NEW T \in parts
        PROVE  IsFiniteSet(T)
    <2>1. PICK t \in S : T = {t} \X (1 .. Amount[t])
      OBVIOUS
    <2>2. Amount[t] \in Nat
      BY AmountAssumption
    <2>3. IsFiniteSet(1 .. Amount[t])
      BY <2>2, FS_Interval
    <2>4. IsFiniteSet({t})
      BY FS_Singleton
    <2>. QED  BY <2>1, <2>3, <2>4, FS_Product
  <1>5. Units(S) = UNION parts
    BY DEF Units
  <1>. QED  BY <1>3, <1>4, <1>5, FS_UNION

LEMMA TotalIsNat ==
    ASSUME NEW S \in SUBSET Tx
    PROVE  TotalMicro(S) \in Nat
  BY UnitsFinite, FS_CardinalityType DEF TotalMicro

\* Counting more transfers never counts less money.
LEMMA TotalMonotone ==
    ASSUME NEW S \in SUBSET Tx, NEW T \in SUBSET S
    PROVE  TotalMicro(T) <= TotalMicro(S)
  <1>1. Units(T) \subseteq Units(S)
    BY DEF Units
  <1>. QED  BY <1>1, UnitsFinite, FS_Subset DEF TotalMicro

LEMMA TotalOfNone == TotalMicro({}) = 0
  <1>1. Units({}) = {}
    BY DEF Units
  <1>. QED  BY <1>1, FS_EmptySet DEF TotalMicro

\* More transfers are more money: no transfer moves nothing.
LEMMA TotalStrict ==
    ASSUME NEW S \in SUBSET Tx, NEW T \in SUBSET S, T # S
    PROVE  TotalMicro(T) < TotalMicro(S)
  <1>1. PICK t \in S : t \notin T
    OBVIOUS
  <1>2. Units(T) \subseteq Units(S)
    BY DEF Units
  <1>3. <<t, 1>> \in Units(S) /\ <<t, 1>> \notin Units(T)
    <2>1. 1 \in 1 .. Amount[t]
      BY AmountAssumption
    <2>. QED  BY <1>1, <2>1 DEF Units
  <1>4. TotalMicro(T) # TotalMicro(S)
    BY <1>2, <1>3, UnitsFinite, FS_Subset DEF TotalMicro
  <1>. QED  BY <1>4, TotalMonotone, TotalIsNat
=============================================================================
