------------------------------ MODULE Reversal ------------------------------
(***************************************************************************)
(* One order and its successive refunds, with the allocation rows as the   *)
(* code has them: a row for each referrer that exists, then PLATFORM and   *)
(* the merchant, and the apportionment as the loop over these rows.  It    *)
(* ties the four-slot arithmetic of Apportion, which Ledger and the proofs *)
(* use, to the code, and bounds what rounding does to each party.          *)
(***************************************************************************)
EXTENDS Apportion, Sequences

CONSTANTS
    MaxPaid,   \* bound on the amount of the order
    SomeTerms  \* terms of the rules in use

ASSUME InstanceAssumption ==
    /\ MaxPaid \in 1..MaxOperation
    /\ SomeTerms \subseteq Terms

VARIABLES
    paid,      \* orders.paid_minor
    parts,     \* the allocation rows, by ordinal
    refunded   \* orders.refunded_minor

orderVars == <<paid, parts, refunded>>

-----------------------------------------------------------------------------
\* The slots that have a row.
Present(direct, indirect) ==
    (IF direct THEN <<Direct>> ELSE <<>>) \o (IF indirect THEN <<Indirect>> ELSE <<>>)
    \o <<Platform, Merchant>>

Rows(shares, slots) ==
    [i \in 1..Len(slots) |-> [slot |-> slots[i], original |-> shares[slots[i]],
                              refunded |-> 0]]

Originals(rows) == [i \in 1..Len(rows) |-> rows[i].original]

\* Mutant of Turn: a share is rounded up.
TurnRoundedUp(shares, i, left) ==
    IF left.total = 0 THEN 0
    ELSE IF i = Len(shares) THEN left.refund
    ELSE (left.refund * shares[i] + left.total - 1) \div left.total

\* What one turn of the loop gives to row i.
Turn(shares, i, left) ==
    IF left.total = 0 THEN 0
    ELSE IF i = Len(shares) THEN left.refund
    ELSE (left.refund * shares[i]) \div left.total

\* Mutant of RefundLoop: the floors are taken of the whole refund, and the last
\* row takes the residual.
IndependentFloors(shares, amount) ==
    LET sum[i \in 0..Len(shares)] == IF i = 0 THEN 0 ELSE sum[i - 1] + shares[i]
        floor(i) == (amount * shares[i]) \div sum[Len(shares)]
        taken[i \in 0..Len(shares)] == IF i = 0 THEN 0 ELSE taken[i - 1] + floor(i)
    IN  [i \in 1..Len(shares) |->
            IF i < Len(shares) THEN floor(i) ELSE amount - taken[i - 1]]

\* cumulative_refund: the loop's state after each row.
RefundLoop(shares, amount) ==
    LET sum[i \in 0..Len(shares)] == IF i = 0 THEN 0 ELSE sum[i - 1] + shares[i]
        after[i \in 0..Len(shares)] ==
            IF i = 0
            THEN [result |-> <<>>, total |-> sum[Len(shares)], refund |-> amount]
            ELSE LET left == after[i - 1]
                     part == Turn(shares, i, left)
                 IN  [result |-> Append(left.result, part),
                      total  |-> left.total - shares[i],
                      refund |-> left.refund - part]
    IN  after[Len(shares)].result

-----------------------------------------------------------------------------
\* capture: the split is one row per party.
Init ==
    \E amount \in 1..MaxPaid, base \in 0..MaxPaid, t \in SomeTerms,
       direct, indirect \in BOOLEAN :
        /\ Splittable(amount, base, direct, indirect)
        /\ paid = amount
        /\ parts = Rows(Split(amount, base, t, direct, indirect),
                        Present(direct, indirect))
        /\ refunded = 0

\* refund: every row is set to its cumulative target.
PartialRefund(amount) ==
    LET targets == RefundLoop(Originals(parts), refunded + amount)
    IN  /\ Positive(amount)
        /\ refunded + amount <= paid
        /\ \A i \in DOMAIN parts : targets[i] >= parts[i].refunded
        /\ parts' = [i \in DOMAIN parts |-> [parts[i] EXCEPT !.refunded = targets[i]]]
        /\ refunded' = refunded + amount
        /\ UNCHANGED paid

Next == \E amount \in 1..MaxPaid : PartialRefund(amount)

Spec == Init /\ [][Next]_orderVars

-----------------------------------------------------------------------------
(***************************************************************************)
(* The rows the code keeps, over any history of refunds, are the slots     *)
(* Apportion computes from the totals; a slot without a row has no share.  *)
(***************************************************************************)
Slots(column(_)) ==
    [s \in Slot |->
        IF \E i \in DOMAIN parts : parts[i].slot = s
        THEN column(parts[CHOOSE i \in DOMAIN parts : parts[i].slot = s]) ELSE 0]

Share(row)    == row.original
Returned(row) == row.refunded

LoopAgrees == Slots(Returned) = CumulativeRefund(Slots(Share), refunded)

(***************************************************************************)
(* Rounding is bounded: after any history of refunds no party is behind    *)
(* its exact proportion of the refund by a whole fen, and a row is ahead   *)
(* by less than one fen for each row before it; the merchant, whose row is *)
(* the last and who pays the rounding of the others, is never behind.      *)
(***************************************************************************)
NearlyProportional ==
    \A i \in DOMAIN parts :
        LET exact == parts[i].original * refunded
            taken == parts[i].refunded * paid
        IN  /\ exact - taken < (IF i = Len(parts) THEN 1 ELSE paid)
            /\ taken - exact < (IF i = 1 THEN 1 ELSE (i - 1) * paid)
            /\ parts[i].refunded \in 0..parts[i].original
=============================================================================
