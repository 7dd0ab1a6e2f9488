------------------------------ MODULE Apportion ------------------------------
(***************************************************************************)
(* The pure business arithmetic of crates/commission-types/src/domain.rs:  *)
(* how the fee of an order is split between the referrers, the platform    *)
(* and the merchant, and how a cumulative refund is taken back from the    *)
(* four shares.  Amounts are minor units (fen); every product of the code  *)
(* is an i128, so no operator here wraps.                                  *)
(*                                                                         *)
(* A share vector is a function on the allocation ordinals 0..3.  The code *)
(* leaves out the row of an absent referrer; here its share is 0, which    *)
(* takes no part of any refund (Reversal checks this against the loop over *)
(* the vector the code builds).                                            *)
(***************************************************************************)
EXTENDS Integers

CONSTANTS
    MaxOperation,  \* MAX_OPERATION_MINOR, the largest amount of one operation
    None           \* the absent value of an optional field

ASSUME MaxOperationAssumption == MaxOperation \in Nat \ {0}
ASSUME NoneAssumption == None \notin Int

Direct   == 0
Indirect == 1
Platform == 2
Merchant == 3
Slot     == Direct..Merchant

Bps == 10000
Lesser(a, b) == IF a <= b THEN a ELSE b

\* Terms and Terms.validate.
Terms == { t \in [rate : 0..Bps, fixed : 0..MaxOperation,
                  cap : 0..MaxOperation \cup {None},
                  direct : 0..Bps, indirect : 0..Bps] :
             t.direct + t.indirect <= Bps }

Positive(amount) == 0 < amount /\ amount <= MaxOperation

SumOf(f) == f[Direct] + f[Indirect] + f[Platform] + f[Merchant]

-----------------------------------------------------------------------------
\* What split refuses; terms are validated when a rule is created.
Splittable(paid, base, direct, indirect) ==
    /\ Positive(paid)
    /\ 0 <= base /\ base <= paid
    /\ indirect => direct

\* Mutant of FeePool: the fee is not limited to the base.
UncappedFeePool(base, t) == (base * t.rate) \div Bps + t.fixed

\* The fee pool: the rate and the fixed part, at most the cap and the base.
FeePool(base, t) ==
    LET rawFee == (base * t.rate) \div Bps + t.fixed
        cap    == IF t.cap = None THEN base ELSE Lesser(t.cap, base)
    IN  Lesser(rawFee, cap)

\* A referral share is a floor of the fee pool, and 0 without a referrer.
Referral(fee, bps, present) == IF present THEN (fee * bps) \div Bps ELSE 0

Split(paid, base, t, direct, indirect) ==
    LET fee    == FeePool(base, t)
        first  == Referral(fee, t.direct, direct)
        second == Referral(fee, t.indirect, indirect)
    IN  [s \in Slot |-> CASE s = Direct   -> first
                          [] s = Indirect -> second
                          [] s = Platform -> fee - first - second
                          [] s = Merchant -> paid - fee]

-----------------------------------------------------------------------------
\* One turn of the apportionment loop, for a slot that is not the last one.
Part(share, total, refund) ==
    IF total = 0 THEN 0 ELSE (refund * share) \div total

\* Mutant of CumulativeRefund: every slot is rounded down by itself.
SeparateFloors(shares, refunded) ==
    [s \in Slot |-> Part(shares[s], SumOf(shares), refunded)]

\* Of a cumulative refund, what is taken back from each slot in the fixed
\* ordinal order; the last slot takes what is left.
CumulativeRefund(shares, refunded) ==
    LET total0 == SumOf(shares)
        part0  == Part(shares[Direct], total0, refunded)
        total1 == total0 - shares[Direct]
        left1  == refunded - part0
        part1  == Part(shares[Indirect], total1, left1)
        total2 == total1 - shares[Indirect]
        left2  == left1 - part1
        part2  == Part(shares[Platform], total2, left2)
        total3 == total2 - shares[Platform]
        left3  == left2 - part2
    IN  [s \in Slot |-> CASE s = Direct   -> part0
                          [] s = Indirect -> part1
                          [] s = Platform -> part2
                          [] s = Merchant -> IF total3 = 0 THEN 0 ELSE left3]
=============================================================================
