--------------------------- MODULE ApportionProofs ---------------------------
(***************************************************************************)
(* The arithmetic of the service.                                          *)
(*                                                                         *)
(* What Split and CumulativeRefund promise for every amount.  The only     *)
(* nonlinear facts are about one floor division: the lemmas Quotient,      *)
(* ScaleLe and UnscaleLt isolate them, and PartBounds and PartMonotone     *)
(* carry them through the four turns of the apportionment loop.            *)
(*                                                                         *)
(* How a Total changes when one element of the function changes.  The sum  *)
(* is a cardinality, so no induction over the set is needed: the pairs of  *)
(* the one element are a disjoint part of all the pairs.                   *)
(***************************************************************************)
EXTENDS Apportion, Totals, FiniteSetTheorems, WellFoundedInduction, TLAPS

Shares == [Slot -> Nat]

\* Division by a positive number, as the two inequalities that define it.
LEMMA Quotient ==
  ASSUME NEW a \in Nat, NEW d \in Nat, d > 0
  PROVE  /\ a \div d \in Nat
         /\ (a \div d) * d <= a
         /\ a < (a \div d + 1) * d
OBVIOUS

\* A product with a natural number preserves <=.
LEMMA ScaleLe ==
  ASSUME NEW a \in Int, NEW b \in Int, NEW c \in Nat, a <= b
  PROVE  a * c <= b * c
OBVIOUS

\* A product with a natural number reflects <.
LEMMA UnscaleLt ==
  ASSUME NEW a \in Int, NEW b \in Int, NEW c \in Nat, a * c < b * c
  PROVE  a < b
OBVIOUS

(***************************************************************************)
(* One turn of the loop: the part lies between 0 and the share, and what   *)
(* is left to refund lies between 0 and what is left of the total, so the  *)
(* next turn starts from the same precondition.                            *)
(***************************************************************************)
LEMMA PartBounds ==
  ASSUME NEW share \in Nat, NEW total \in Nat, NEW refund \in Nat,
         share <= total, refund <= total
  PROVE  /\ Part(share, total, refund) \in 0..share
         /\ refund - Part(share, total, refund) \in 0..(total - share)
<1>1. CASE total = 0
  BY <1>1 DEF Part
<1>2. CASE total > 0
  <2> DEFINE q == (refund * share) \div total
  <2>1. refund * share \in Nat /\ Part(share, total, refund) = q
    BY <1>2 DEF Part
  <2>2. /\ q \in Nat
        /\ q * total <= refund * share
        /\ refund * share < (q + 1) * total
    BY <1>2, <2>1, Quotient
  <2> HIDE DEF q
  <2>3. refund * share <= total * share
    BY ScaleLe
  <2>4. q * total < (share + 1) * total
    BY <1>2, <2>2, <2>3
  <2>5. q < share + 1
    BY <2>2, <2>4, UnscaleLt
  <2>6. share * refund <= total * refund
    BY ScaleLe
  <2>7. q * total < (refund + 1) * total
    BY <1>2, <2>2, <2>6
  <2>8. q < refund + 1
    BY <2>2, <2>7, UnscaleLt
  <2>9. refund - q <= total - share
    <3>1. (total - refund) * share <= (total - refund) * total
      BY ScaleLe
    <3>2. (share - (total - refund)) * total <= refund * share
      BY <3>1
    <3>3. (share - (total - refund)) * total < (q + 1) * total
      BY <2>2, <3>2
    <3>4. share - (total - refund) < q + 1
      BY <2>2, <3>3, UnscaleLt
    <3> QED
      BY <2>2, <3>4
  <2> QED
    BY <2>1, <2>2, <2>5, <2>8, <2>9
<1> QED
  BY <1>1, <1>2

(***************************************************************************)
(* One turn of the loop is monotone twice: a larger refund gives a larger  *)
(* part, and leaves at least as much for the slots that follow.  An        *)
(* independent floor per slot would lose the second half.                  *)
(***************************************************************************)
LEMMA PartMonotone ==
  ASSUME NEW share \in Nat, NEW total \in Nat, NEW r1 \in Nat, NEW r2 \in Nat,
         share <= total, r1 <= r2
  PROVE  /\ Part(share, total, r1) <= Part(share, total, r2)
         /\ r1 - Part(share, total, r1) <= r2 - Part(share, total, r2)
<1>1. CASE total = 0
  BY <1>1 DEF Part
<1>2. CASE total > 0
  <2> DEFINE q1 == (r1 * share) \div total
             q2 == (r2 * share) \div total
  <2>1. /\ r1 * share \in Nat
        /\ r2 * share \in Nat
        /\ Part(share, total, r1) = q1
        /\ Part(share, total, r2) = q2
    BY <1>2 DEF Part
  <2>2. /\ q1 \in Nat
        /\ q1 * total <= r1 * share
        /\ r1 * share < (q1 + 1) * total
    BY <1>2, <2>1, Quotient
  <2>3. /\ q2 \in Nat
        /\ q2 * total <= r2 * share
        /\ r2 * share < (q2 + 1) * total
    BY <1>2, <2>1, Quotient
  <2> HIDE DEF q1, q2
  <2>4. r1 * share <= r2 * share
    BY ScaleLe
  <2>5. q1 * total < (q2 + 1) * total
    BY <2>2, <2>3, <2>4
  <2>6. q1 < q2 + 1
    BY <2>2, <2>3, <2>5, UnscaleLt
  <2>7. q2 - q1 <= r2 - r1
    <3>1. (r2 - r1) * share <= (r2 - r1) * total
      BY ScaleLe
    <3>2. (q2 - (r2 - r1)) * total <= r1 * share
      BY <2>3, <3>1
    <3>3. (q2 - (r2 - r1)) * total < (q1 + 1) * total
      BY <2>2, <2>3, <3>2
    <3>4. q2 - (r2 - r1) < q1 + 1
      BY <2>2, <2>3, <3>3, UnscaleLt
    <3> QED
      BY <2>2, <2>3, <3>4
  <2> QED
    BY <2>1, <2>2, <2>3, <2>6, <2>7
<1> QED
  BY <1>1, <1>2

(***************************************************************************)
(* The whole loop unfolded: each turn's part, and the fact that the total  *)
(* and the refund that reach a turn satisfy PartBounds' hypotheses.        *)
(***************************************************************************)
LEMMA Unfolded ==
  ASSUME NEW shares \in Shares, NEW refund \in 0..SumOf(shares)
  PROVE  LET got == CumulativeRefund(shares, refund) IN
         /\ got \in Shares
         /\ \A s \in Slot : got[s] \in 0..shares[s]
         /\ SumOf(got) = refund
         /\ refund - got[0] \in 0..(SumOf(shares) - shares[0])
         /\ refund - got[0] - got[1] \in 0..(SumOf(shares) - shares[0] - shares[1])
         /\ got[0] = Part(shares[0], SumOf(shares), refund)
         /\ got[1] = Part(shares[1], SumOf(shares) - shares[0], refund - got[0])
         /\ got[2] = Part(shares[2], SumOf(shares) - shares[0] - shares[1],
                          refund - got[0] - got[1])
         /\ got[3] = refund - got[0] - got[1] - got[2]
<1> DEFINE T0 == SumOf(shares)
           p0 == Part(shares[0], T0, refund)
           T1 == T0 - shares[0]
           r1 == refund - p0
           p1 == Part(shares[1], T1, r1)
           T2 == T1 - shares[1]
           r2 == r1 - p1
           p2 == Part(shares[2], T2, r2)
           T3 == T2 - shares[2]
           r3 == r2 - p2
           got == CumulativeRefund(shares, refund)
<1>0. /\ Slot = 0..3
      /\ shares[0] \in Nat /\ shares[1] \in Nat /\ shares[2] \in Nat /\ shares[3] \in Nat
      /\ T0 = shares[0] + shares[1] + shares[2] + shares[3]
  BY DEF Slot, Shares, SumOf, Direct, Indirect, Platform, Merchant
<1>1. /\ got = [s \in Slot |-> CASE s = 0 -> p0
                                 [] s = 1 -> p1
                                 [] s = 2 -> p2
                                 [] s = 3 -> IF T3 = 0 THEN 0 ELSE r3]
  BY DEF CumulativeRefund, Direct, Indirect, Platform, Merchant
<1>2. got[0] = p0 /\ got[1] = p1 /\ got[2] = p2 /\ got[3] = (IF T3 = 0 THEN 0 ELSE r3)
  BY <1>0, <1>1
<1>3. p0 \in 0..shares[0] /\ r1 \in 0..T1
  <2>1. T0 \in Nat /\ refund \in Nat /\ shares[0] <= T0 /\ refund <= T0
    BY <1>0
  <2> HIDE DEF T0
  <2> QED
    BY <1>0, <2>1, PartBounds
<1>4. p1 \in 0..shares[1] /\ r2 \in 0..T2
  <2>1. T1 \in Nat /\ r1 \in Nat /\ shares[1] <= T1 /\ r1 <= T1
    BY <1>0, <1>3
  <2> HIDE DEF T1, r1
  <2> QED
    BY <1>0, <2>1, PartBounds
<1>5. p2 \in 0..shares[2] /\ r3 \in 0..T3
  <2>1. T2 \in Nat /\ r2 \in Nat /\ shares[2] <= T2 /\ r2 <= T2
    BY <1>0, <1>3, <1>4
  <2> HIDE DEF T2, r2
  <2> QED
    BY <1>0, <2>1, PartBounds
<1>6. T3 = shares[3]
  BY <1>0
<1>7. got[3] = r3 /\ r3 \in 0..shares[3]
  BY <1>0, <1>2, <1>5, <1>6
<1> HIDE DEF p0, p1, p2, T3, r3
<1>8. got \in Shares
  BY <1>0, <1>1, <1>3, <1>4, <1>5, <1>6, <1>7 DEF Shares
<1> HIDE DEF got
<1>9. /\ \A s \in Slot : got[s] \in 0..shares[s]
      /\ SumOf(got) = refund
  <2>1. got[0] \in 0..shares[0] /\ got[1] \in 0..shares[1]
        /\ got[2] \in 0..shares[2] /\ got[3] \in 0..shares[3]
    BY <1>2, <1>3, <1>4, <1>5, <1>7
  <2>2. got[0] + got[1] + got[2] + got[3] = refund
    BY <1>0, <1>2, <1>3, <1>4, <1>5, <1>7 DEF r3
  <2> QED
    BY <1>0, <2>1, <2>2 DEF SumOf, Direct, Indirect, Platform, Merchant
<1> QED
  BY <1>0, <1>2, <1>3, <1>4, <1>7, <1>8, <1>9 DEF got, p0, p1, p2, r3

(***************************************************************************)
(* A cumulative refund takes from each slot no less than 0 and no more     *)
(* than its share, and takes exactly the refunded amount altogether.       *)
(***************************************************************************)
THEOREM RefundExact ==
  ASSUME NEW shares \in Shares, NEW refund \in 0..SumOf(shares)
  PROVE  /\ CumulativeRefund(shares, refund) \in Shares
         /\ \A s \in Slot : CumulativeRefund(shares, refund)[s] <= shares[s]
         /\ SumOf(CumulativeRefund(shares, refund)) = refund
<1>1. \A s \in Slot : CumulativeRefund(shares, refund)[s] \in 0..shares[s]
  BY Unfolded
<1>2. SumOf(CumulativeRefund(shares, refund)) = refund
  BY Unfolded
<1>3. \A s \in Slot : shares[s] \in Nat
  BY DEF Shares
<1>4. CumulativeRefund(shares, refund) \in Shares
  BY Unfolded
<1> QED
  BY <1>1, <1>2, <1>3, <1>4

(***************************************************************************)
(* A larger cumulative refund takes at least as much from EVERY slot: the  *)
(* delta of one more refund is never negative.                             *)
(***************************************************************************)
THEOREM RefundMonotone ==
  ASSUME NEW shares \in Shares,
         NEW r1 \in 0..SumOf(shares), NEW r2 \in 0..SumOf(shares), r1 <= r2
  PROVE  \A s \in Slot :
            CumulativeRefund(shares, r1)[s] <= CumulativeRefund(shares, r2)[s]
<1> DEFINE g == CumulativeRefund(shares, r1)
           h == CumulativeRefund(shares, r2)
           T0 == SumOf(shares)
           T1 == T0 - shares[0]
           T2 == T1 - shares[1]
<1>0. /\ Slot = 0..3
      /\ shares[0] \in Nat /\ shares[1] \in Nat /\ shares[2] \in Nat /\ shares[3] \in Nat
      /\ T0 = shares[0] + shares[1] + shares[2] + shares[3]
  BY DEF Slot, Shares, SumOf, Direct, Indirect, Platform, Merchant
<1>1. /\ \A s \in Slot : g[s] \in 0..shares[s]
      /\ r1 - g[0] \in 0..T1
      /\ r1 - g[0] - g[1] \in 0..T2
      /\ g[0] = Part(shares[0], T0, r1)
      /\ g[1] = Part(shares[1], T1, r1 - g[0])
      /\ g[2] = Part(shares[2], T2, r1 - g[0] - g[1])
      /\ g[3] = r1 - g[0] - g[1] - g[2]
  BY Unfolded
<1>2. /\ \A s \in Slot : h[s] \in 0..shares[s]
      /\ r2 - h[0] \in 0..T1
      /\ r2 - h[0] - h[1] \in 0..T2
      /\ h[0] = Part(shares[0], T0, r2)
      /\ h[1] = Part(shares[1], T1, r2 - h[0])
      /\ h[2] = Part(shares[2], T2, r2 - h[0] - h[1])
      /\ h[3] = r2 - h[0] - h[1] - h[2]
  BY Unfolded
<1>3. /\ T0 \in Nat /\ T1 \in Nat /\ T2 \in Nat
      /\ shares[0] <= T0 /\ shares[1] <= T1 /\ shares[2] <= T2
      /\ r1 \in Nat /\ r2 \in Nat
  BY <1>0
<1> HIDE DEF g, h, T0, T1, T2
<1>4. g[0] <= h[0] /\ r1 - g[0] <= r2 - h[0]
  <2>1. /\ Part(shares[0], T0, r1) <= Part(shares[0], T0, r2)
        /\ r1 - Part(shares[0], T0, r1) <= r2 - Part(shares[0], T0, r2)
    BY <1>0, <1>3, PartMonotone
  <2> QED
    BY <1>1, <1>2, <2>1
<1>5. g[1] <= h[1] /\ r1 - g[0] - g[1] <= r2 - h[0] - h[1]
  <2>1. r1 - g[0] \in Nat /\ r2 - h[0] \in Nat
    BY <1>0, <1>1, <1>2, <1>3 DEF T1
  <2> QED
    BY <1>0, <1>1, <1>2, <1>3, <1>4, <2>1, PartMonotone
<1>6. g[2] <= h[2] /\ r1 - g[0] - g[1] - g[2] <= r2 - h[0] - h[1] - h[2]
  <2>1. r1 - g[0] - g[1] \in Nat /\ r2 - h[0] - h[1] \in Nat
    BY <1>0, <1>1, <1>2, <1>3 DEF T2
  <2> QED
    BY <1>0, <1>1, <1>2, <1>3, <1>5, <2>1, PartMonotone
<1> QED
  BY <1>0, <1>1, <1>2, <1>4, <1>5, <1>6 DEF g, h

(***************************************************************************)
(* A full refund reverses every share exactly, and no refund takes nothing.*)
(***************************************************************************)
THEOREM FullRefundReverses ==
  ASSUME NEW shares \in Shares
  PROVE  /\ CumulativeRefund(shares, SumOf(shares)) = shares
         /\ \A s \in Slot : CumulativeRefund(shares, 0)[s] = 0
<1>0. /\ Slot = 0..3 /\ SumOf(shares) \in Nat
      /\ \A s \in Slot : shares[s] \in Nat
  BY DEF Slot, Shares, SumOf, Direct, Indirect, Platform, Merchant
<1>1. ASSUME NEW got \in Shares, \A s \in Slot : got[s] <= shares[s]
      PROVE  /\ SumOf(got) = SumOf(shares) => got = shares
             /\ SumOf(got) = 0 => \A s \in Slot : got[s] = 0
  BY <1>1 DEF Shares, Slot, SumOf, Direct, Indirect, Platform, Merchant
<1> QED
  BY <1>0, <1>1, RefundExact

(***************************************************************************)
(* The split of an order under valid terms: every share is a natural       *)
(* number and together they are the amount paid.                           *)
(***************************************************************************)
THEOREM SplitConserves ==
  ASSUME NEW paid \in Nat, NEW base \in Nat, NEW t \in Terms,
         NEW direct \in BOOLEAN, NEW indirect \in BOOLEAN,
         Splittable(paid, base, direct, indirect)
  PROVE  /\ Split(paid, base, t, direct, indirect) \in Shares
         /\ SumOf(Split(paid, base, t, direct, indirect)) = paid
<1> DEFINE fee    == FeePool(base, t)
           first  == Referral(fee, t.direct, direct)
           second == Referral(fee, t.indirect, indirect)
<1>1. /\ t.rate \in 0..Bps /\ t.fixed \in Nat /\ t.direct \in Nat /\ t.indirect \in Nat
      /\ t.direct + t.indirect <= Bps /\ Bps \in Nat /\ Bps > 0
      /\ t.cap = None \/ t.cap \in Nat
      /\ base <= paid
  <2>1. /\ t.rate \in 0..Bps /\ t.fixed \in 0..MaxOperation
        /\ t.cap \in 0..MaxOperation \cup {None}
        /\ t.direct \in 0..Bps /\ t.indirect \in 0..Bps
        /\ t.direct + t.indirect <= Bps
    BY DEF Terms
  <2>2. base <= paid
    BY DEF Splittable
  <2>3. Bps \in Nat /\ Bps > 0
    BY DEF Bps
  <2>4. 0..MaxOperation \subseteq Nat
    BY MaxOperationAssumption
  <2>5. t.fixed \in Nat /\ (t.cap = None \/ t.cap \in Nat)
    BY <2>1, <2>4
  <2> QED
    BY <2>1, <2>2, <2>3, <2>5
<1>2. fee \in 0..base
  <2>1. base * t.rate \in Nat
    BY <1>1
  <2>2. (base * t.rate) \div Bps \in Nat
    BY <1>1, <2>1, Quotient
  <2> QED
    BY <1>1, <2>2 DEF FeePool, Lesser
<1> HIDE DEF fee
<1>3. first \in Nat /\ second \in Nat /\ first + second <= fee
  <2>1. fee * t.direct \in Nat /\ fee * t.indirect \in Nat
    BY <1>1, <1>2
  <2>2. /\ (fee * t.direct) \div Bps \in Nat
        /\ ((fee * t.direct) \div Bps) * Bps <= fee * t.direct
    BY <1>1, <2>1, Quotient
  <2>3. /\ (fee * t.indirect) \div Bps \in Nat
        /\ ((fee * t.indirect) \div Bps) * Bps <= fee * t.indirect
    BY <1>1, <2>1, Quotient
  <2>4. fee * t.direct + fee * t.indirect <= fee * Bps
    <3>1. (t.direct + t.indirect) * fee <= Bps * fee
      BY <1>1, <1>2, ScaleLe
    <3> QED
      BY <1>1, <1>2, <3>1
  <2>5. (fee * t.direct) \div Bps + (fee * t.indirect) \div Bps <= fee
    BY <1>1, <1>2, <2>2, <2>3, <2>4 DEF Bps
  <2> QED
    BY <1>2, <2>2, <2>3, <2>5 DEF Referral
<1> HIDE DEF first, second
<1>4. Split(paid, base, t, direct, indirect)
        = [s \in Slot |-> CASE s = 0 -> first
                            [] s = 1 -> second
                            [] s = 2 -> fee - first - second
                            [] s = 3 -> paid - fee]
  BY DEF Split, fee, first, second, Direct, Indirect, Platform, Merchant
<1>5. Slot = 0..3
  BY DEF Slot, Direct, Merchant
<1> QED
  BY <1>1, <1>2, <1>3, <1>4, <1>5 DEF Shares, SumOf, Direct, Indirect, Platform, Merchant

-----------------------------------------------------------------------------
(* Totals.                                                                 *)


\* The pairs of one element are as many as its number.
LEMMA UnitsOfOne ==
  ASSUME NEW x, NEW n \in Nat
  PROVE  /\ IsFiniteSet({x} \X (1..n))
         /\ Cardinality({x} \X (1..n)) = n
<1>1. IsFiniteSet({x}) /\ Cardinality({x}) = 1
  BY FS_Singleton
<1>2. IsFiniteSet(1..n) /\ Cardinality(1..n) = n
  BY FS_Interval
<1>3. /\ IsFiniteSet({x} \X (1..n))
      /\ Cardinality({x} \X (1..n)) = Cardinality({x}) * Cardinality(1..n)
  BY <1>1, <1>2, FS_Product, Zenon
<1> QED
  BY <1>1, <1>2, <1>3

\* The pairs of a function with natural values on a finite set are finite.
LEMMA UnitsFinite ==
  ASSUME NEW S, IsFiniteSet(S), NEW f \in [S -> Nat]
  PROVE  IsFiniteSet(Units(S, f))
<1> DEFINE g == [x \in S |-> {x} \X (1..f[x])]
           T == {{x} \X (1..f[x]) : x \in S}
<1>1. g \in Surjection(S, T)
  BY DEF Surjection
<1>2. IsFiniteSet(T)
  BY <1>1, FS_Surjection
<1>3. \A t \in T : IsFiniteSet(t)
  <2>1. \A x \in S : IsFiniteSet({x} \X (1..f[x]))
    BY UnitsOfOne
  <2> QED
    BY <2>1
<1>4. IsFiniteSet(UNION T)
  BY <1>2, <1>3, FS_UNION
<1> QED
  BY <1>4 DEF Units

\* A total is what one element contributes and the total of the others.
LEMMA TotalSplit ==
  ASSUME NEW S, IsFiniteSet(S), NEW f \in [S -> Nat], NEW x \in S
  PROVE  /\ Total(S, f) \in Nat
         /\ Cardinality(Units(S \ {x}, f)) \in Nat
         /\ Total(S, f) = f[x] + Cardinality(Units(S \ {x}, f))
<1> DEFINE U == {x} \X (1..f[x])
           V == Units(S \ {x}, f)
<1>1. Units(S, f) = U \cup V
  BY DEF Units
<1>2. U \cap V = {}
  BY DEF Units
<1>3. IsFiniteSet(U) /\ Cardinality(U) = f[x]
  BY UnitsOfOne
<1>4. IsFiniteSet(V)
  <2>1. V \subseteq Units(S, f)
    BY <1>1
  <2> QED
    BY <2>1, UnitsFinite, FS_Subset
<1>5. Cardinality(U \cap V) = 0
  BY <1>2, FS_EmptySet
<1>6. Cardinality(V) \in Nat
  BY <1>4, FS_CardinalityType
<1>7. Cardinality(U \cup V) = Cardinality(U) + Cardinality(V) - Cardinality(U \cap V)
  BY <1>3, <1>4, FS_Union
<1> QED
  BY <1>1, <1>3, <1>5, <1>6, <1>7 DEF Total

(***************************************************************************)
(* One element of a finite table changes: its total changes by as much.    *)
(***************************************************************************)
THEOREM TotalUpdate ==
  ASSUME NEW S, IsFiniteSet(S), NEW f \in [S -> Nat], NEW g \in [S -> Nat],
         NEW x \in S, \A y \in S \ {x} : g[y] = f[y]
  PROVE  /\ Total(S, f) \in Nat
         /\ Total(S, g) \in Nat
         /\ Total(S, g) = Total(S, f) - f[x] + g[x]
<1>1. Units(S \ {x}, f) = Units(S \ {x}, g)
  BY DEF Units
<1> QED
  BY <1>1, TotalSplit

\* A table in which every row counts 0 has total 0.
THEOREM TotalZero ==
  ASSUME NEW S, NEW f \in [S -> Nat], \A x \in S : f[x] = 0
  PROVE  Total(S, f) = 0
<1>1. Units(S, f) = {}
  BY DEF Units
<1> QED
  BY <1>1, FS_EmptySet DEF Total

\* One row counts at most the whole total.
THEOREM TotalAtLeast ==
  ASSUME NEW S, IsFiniteSet(S), NEW f \in [S -> Nat], NEW x \in S
  PROVE  f[x] <= Total(S, f)
<1>1. f[x] \in Nat
  OBVIOUS
<1>2. /\ Cardinality(Units(S \ {x}, f)) \in Nat
      /\ Total(S, f) = f[x] + Cardinality(Units(S \ {x}, f))
  BY TotalSplit
<1> QED
  BY <1>1, <1>2

\* Numbers that are nowhere larger have no larger total.
THEOREM TotalMonotone ==
  ASSUME NEW S, IsFiniteSet(S), NEW f \in [S -> Nat], NEW g \in [S -> Nat],
         \A x \in S : f[x] <= g[x]
  PROVE  Total(S, f) <= Total(S, g)
<1>1. \A x \in S : 1..f[x] \subseteq 1..g[x]
  OBVIOUS
<1>2. Units(S, f) \subseteq Units(S, g)
  BY <1>1 DEF Units
<1> QED
  BY <1>2, UnitsFinite, FS_Subset DEF Total

-----------------------------------------------------------------------------
(* The least number of a set, which stands for induction.                  *)

Less == {pair \in Nat \X Nat : pair[1] < pair[2]}

\* Every nonempty set of natural numbers has a least element.
LEMMA LeastNumber ==
  ASSUME NEW T \in SUBSET Nat, T # {}
  PROVE  \E n \in T : \A m \in T : n <= m
<1>1. IsWellFoundedOn(Less, Nat)
  BY NatLessThanWellFounded DEF Less, OpToRel
<1>2. PICK n \in T : \A m \in T : ~ (<<m, n>> \in Less)
  BY <1>1, WFMin
<1>3. ASSUME NEW m \in T PROVE n <= m
  <2>1. n \in Nat /\ m \in Nat /\ <<m, n>> \notin Less
    BY <1>2
  <2> QED
    BY <2>1 DEF Less
<1> QED
  BY <1>3

\* A function of a nonempty finite set to the naturals has a greatest value: a
\* smallest subset without one would lose an element and be smaller still.
LEMMA GreatestValue ==
  ASSUME NEW T, IsFiniteSet(T), T # {}, NEW f \in [T -> Nat]
  PROVE  \E n \in T : \A m \in T : f[m] <= f[n]
<1> DEFINE Top(S) == \E n \in S : \A m \in S : f[m] <= f[n]
           Bad == {S \in SUBSET T : S # {} /\ ~ Top(S)}
           sizes == {Cardinality(S) : S \in Bad}
<1>1. \A S \in SUBSET T : IsFiniteSet(S) /\ Cardinality(S) \in Nat
  BY FS_Subset, FS_CardinalityType
<1>2. CASE Bad = {}
  BY <1>2
<1>3. CASE Bad # {}
  <2>1. sizes \in SUBSET Nat /\ sizes # {}
    BY <1>1, <1>3
  <2>2. PICK n \in sizes : \A m \in sizes : n <= m
    BY <2>1, LeastNumber
  <2>3. PICK S \in Bad : Cardinality(S) = n
    BY <2>2
  <2>4. PICK x \in S : TRUE
    BY <2>3
  <2> DEFINE R == S \ {x}
  <2>5. R \in SUBSET T /\ Cardinality(R) = n - 1 /\ n \in Nat
    BY <1>1, <2>1, <2>3, <2>4, FS_RemoveElement
  <2>6. R \notin Bad
    <3>1. R \in Bad => n <= Cardinality(R)
      BY <2>2
    <3> QED
      BY <2>5, <3>1
  <2>7. CASE R = {}
    <3>1. \A m \in S : m = x
      BY <2>7
    <3>2. f[x] \in Nat
      BY <2>3, <2>4
    <3> QED
      BY <2>3, <2>4, <3>1, <3>2
  <2>8. CASE R # {}
    <3>1. PICK y \in R : \A m \in R : f[m] <= f[y]
      BY <2>5, <2>6, <2>8
    <3>2. /\ \A m \in S : f[m] \in Nat
          /\ x \in S /\ y \in S /\ \A m \in S : m = x \/ f[m] <= f[y]
      BY <2>3, <2>4, <3>1
    <3>3. CASE f[x] <= f[y]
      <4>1. \A m \in S : f[m] <= f[y]
        BY <3>2, <3>3
      <4> QED
        BY <2>3, <3>2, <4>1
    <3>4. CASE ~ (f[x] <= f[y])
      <4>1. \A m \in S : f[m] <= f[x]
        BY <3>2, <3>4
      <4> QED
        BY <2>3, <3>2, <4>1
    <3> QED
      BY <3>3, <3>4
  <2> QED
    BY <2>7, <2>8
<1> QED
  BY <1>2, <1>3
=============================================================================
