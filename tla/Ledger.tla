------------------------------- MODULE Ledger -------------------------------
(***************************************************************************)
(* What the money service promises: every operation of orders.rs,          *)
(* payouts.rs and bind_referral of catalog.rs as ONE atomic step on the    *)
(* committed tables.  Commission.tla shows that the transactions of the    *)
(* code, interleaved, implement this.                                      *)
(*                                                                         *)
(* A request carries the fields the operation reads.  Its identity is the  *)
(* idempotency key <<actor, operation, key>>; two requests with one key    *)
(* and different fields are two bodies sent under the same key.  Orders,   *)
(* refunds and payouts are named by their unique external ids.  Requests   *)
(* that fail a static check (role, text length, currency) never reach a    *)
(* table and are left out.  Accounts and the rule in force for a merchant  *)
(* are constants here.                                                     *)
(***************************************************************************)
EXTENDS Apportion, Totals, Accounts

CONSTANTS
    PlatformAccount,       \* PLATFORM, created by the migration
    Clearing,              \* CLEARING, created by the migration
    TermsOf,               \* [Merchants -> Terms]: the rule quote_in selects
    Customers, Orders, Refunds, Payouts, References, Actors, Keys,
    Requests               \* what the clients may send, any number of times

Account == Merchants \cup Promoters \cup {PlatformAccount, Clearing}
Payee   == Account \ {Clearing}

Outcomes == {"succeeded", "failed", "unknown"}
Open     == {"requested", "approved", "processing", "unknown"}
Undone   == {"rejected", "failed"}
Status   == Open \cup Undone \cup {"succeeded"}

OrderRequests ==
    [op : {"capture"}, actor : Actors, key : Keys, order : Orders,
     merchant : Merchants, customer : Customers \cup {None},
     paid : Int, base : Int]
    \cup
    [op : {"refund"}, actor : Actors, key : Keys, order : Orders,
     refund : Refunds, amount : Int]
    \cup
    [op : {"release"}, actor : Actors, key : Keys, order : Orders]
    \cup
    [op : {"bind"}, actor : Actors, key : Keys,
     customer : Customers, promoter : Promoters]

PayoutRequests ==
    [op : {"request"}, actor : Actors, key : Keys, payout : Payouts,
     account : Account, amount : Int]
    \cup
    [op : {"approve", "processing", "reject"}, actor : Actors, key : Keys,
     payout : Payouts]
    \cup
    [op : {"outcome"}, actor : Actors, key : Keys, payout : Payouts,
     status : Outcomes, reference : References \cup {None}]

OrderRow ==
    [customer : Customers \cup {None}, paid : Nat, refunded : Nat,
     payee : [Slot -> Payee \cup {None}], original : [Slot -> Nat],
     returned : [Slot -> Nat], released : BOOLEAN]

PayoutRow ==
    [account : Payee, amount : Nat, status : Status, requester : Actors,
     approver : Actors \cup {None}, reference : References \cup {None}]

ASSUME AccountAssumption ==
    /\ Merchants \cap Promoters = {}
    /\ PlatformAccount # Clearing
    /\ {PlatformAccount, Clearing} \cap (Merchants \cup Promoters) = {}
    /\ Parent \in [Promoters -> Promoters \cup {None}]
    /\ \A p \in Promoters : Parent[p] # p
    /\ TermsOf \in [Merchants -> Terms]

ASSUME TableAssumption ==
    /\ IsFiniteSet(Orders) /\ IsFiniteSet(Payouts) /\ IsFiniteSet(Account)
    /\ None \notin Account \cup Customers \cup Actors \cup References
    /\ None \notin OrderRow \cup PayoutRow

ASSUME RequestAssumption == Requests \subseteq OrderRequests \cup PayoutRequests

VARIABLES
    wallet,   \* [Account -> buckets]: table wallets
    order,    \* [Orders -> OrderRow or None]: tables orders and allocations
    due,      \* the orders whose unlock_at has passed
    refunds,  \* external ids of table refunds
    payout,   \* [Payouts -> PayoutRow or None]: table payouts
    binding,  \* [Customers -> promoter or None]: table referral_bindings
    applied   \* the requests that hold a committed idempotency row

ledgerVars == <<wallet, order, due, refunds, payout, binding, applied>>

-----------------------------------------------------------------------------
(***************************************************************************)
(* Postings: for each bucket, the change of every account after post has   *)
(* combined the lines.                                                     *)
(***************************************************************************)
At(a, account, amount) == IF a = account THEN amount ELSE 0
PayTo(payee, amount, a) == SumOf([s \in Slot |-> At(a, payee[s], amount[s])])
NoChange == [a \in Account |-> 0]

CapturePosting(row) ==
    [frozen    |-> [a \in Account |-> PayTo(row.payee, row.original, a)],
     available |-> [a \in Account |-> - At(a, Clearing, row.paid)],
     reserved  |-> NoChange]

\* A refund takes from the bucket the order's shares are in at that moment.
RefundPosting(row, delta, amount) ==
    [frozen    |-> [a \in Account |->
                      IF row.released THEN 0 ELSE - PayTo(row.payee, delta, a)],
     available |-> [a \in Account |->
                      At(a, Clearing, amount)
                      - (IF row.released THEN PayTo(row.payee, delta, a) ELSE 0)],
     reserved  |-> NoChange]

Net(row) == [s \in Slot |-> row.original[s] - row.returned[s]]

ReleasePosting(row) ==
    [frozen    |-> [a \in Account |-> - PayTo(row.payee, Net(row), a)],
     available |-> [a \in Account |-> PayTo(row.payee, Net(row), a)],
     reserved  |-> NoChange]

\* amount moves between the available funds of `to` and the reserve of account.
ReservePosting(account, to, amount) ==
    [frozen    |-> NoChange,
     available |-> [a \in Account |-> - At(a, to, amount)],
     reserved  |-> [a \in Account |-> At(a, account, amount)]]

\* The accounts whose wallets post locks, in the order of their ids.
Touched(p) ==
    { a \in Account : p.frozen[a] # 0 \/ p.available[a] # 0 \/ p.reserved[a] # 0 }

\* What the lines of a posting add to the accounts, and what they take.
Change(p, a) == p.frozen[a] + p.available[a] + p.reserved[a]
Gains(p)  == [a \in Account |-> IF Change(p, a) > 0 THEN Change(p, a) ELSE 0]
Losses(p) == [a \in Account |-> IF Change(p, a) < 0 THEN - Change(p, a) ELSE 0]

\* Mutant of Balanced: post refuses a posting without lines.
BalancedWithLines(p) ==
    /\ Touched(p) # {}
    /\ Total(Account, Gains(p)) = Total(Account, Losses(p))

\* What post and the deferred trigger check_journal_balance accept: the lines
\* add up to zero.
Balanced(p) == Total(Account, Gains(p)) = Total(Account, Losses(p))

\* The trigger apply_ledger_entry on every line of the journal.
Posted(p) ==
    [a \in Account |-> [frozen    |-> wallet[a].frozen + p.frozen[a],
                        available |-> wallet[a].available + p.available[a],
                        reserved  |-> wallet[a].reserved + p.reserved[a]]]

\* The CHECKs of table wallets.
Accepted(w) == \A a \in Account : w[a].frozen >= 0 /\ w[a].reserved >= 0

Post(p) ==
    /\ Balanced(p)
    /\ Accepted(Posted(p))
    /\ wallet' = Posted(p)

-----------------------------------------------------------------------------
(***************************************************************************)
(* What each operation reads and writes.  `row` is the row the operation   *)
(* has read; here it is always the committed row.                          *)
(***************************************************************************)
KeyOf(r) == <<r.actor, r.op, r.key>>

Answered(r) == \E q \in applied : KeyOf(q) = KeyOf(r)

\* quote_in: the customer's promoter, and the promoter's parent.
Referrer(customer) == IF customer = None THEN None ELSE binding[customer]
ParentOf(direct)   == IF direct = None THEN None ELSE Parent[direct]

NewOrder(r, direct) ==
    LET indirect == ParentOf(direct)
    IN  [customer |-> r.customer, paid |-> r.paid, refunded |-> 0,
         payee    |-> [s \in Slot |-> CASE s = Direct   -> direct
                                        [] s = Indirect -> indirect
                                        [] s = Platform -> PlatformAccount
                                        [] s = Merchant -> r.merchant],
         original |-> Split(r.paid, r.base, TermsOf[r.merchant],
                            direct # None, indirect # None),
         returned |-> [s \in Slot |-> 0],
         released |-> FALSE]

Quotable(r) == Splittable(r.paid, r.base, FALSE, FALSE)

InsertOrder(r, row) ==
    /\ order[r.order] = None
    /\ order' = [order EXCEPT ![r.order] = row]
    /\ Post(CapturePosting(row))

Refundable(r, row) ==
    /\ Positive(r.amount)
    /\ row.refunded + r.amount <= row.paid

\* Mutant of Targets: each refund is apportioned by itself.
TargetsPerRefund(r, row) ==
    [s \in Slot |-> row.returned[s] + CumulativeRefund(row.original, r.amount)[s]]

Targets(r, row) == CumulativeRefund(row.original, row.refunded + r.amount)
Deltas(r, row)  == [s \in Slot |-> Targets(r, row)[s] - row.returned[s]]

\* refund ends in an internal error if a slot would be given money back.
Reversible(r, row) == \A s \in Slot : Deltas(r, row)[s] >= 0

InsertRefund(r, row) ==
    /\ r.refund \notin refunds
    /\ Reversible(r, row)
    /\ refunds' = refunds \cup {r.refund}
    /\ order' = [order EXCEPT ![r.order].refunded = row.refunded + r.amount,
                              ![r.order].returned = Targets(r, row)]
    /\ Post(RefundPosting(row, Deltas(r, row), r.amount))

ReleaseRow(o, row) ==
    /\ order' = [order EXCEPT ![o].released = TRUE]
    /\ Post(ReleasePosting(row))

\* Mutant of Bindable: the orders of the customer are not looked at.
BindableAnytime(r) == binding[r.customer] = None

Bindable(r) ==
    /\ binding[r.customer] = None
    /\ \A o \in Orders : order[o] # None => order[o].customer # r.customer

InsertPayout(r) ==
    /\ payout[r.payout] = None
    /\ payout' = [payout EXCEPT ![r.payout] =
                    [account |-> r.account, amount |-> r.amount,
                     status |-> "requested", requester |-> r.actor,
                     approver |-> None, reference |-> None]]
    /\ Post(ReservePosting(r.account, r.account, r.amount))

\* Mutant of Funded: frozen funds count as funds.
FundedByFrozen(r) ==
    /\ Positive(r.amount)
    /\ r.account # Clearing
    /\ wallet[r.account].frozen + wallet[r.account].available >= r.amount

Funded(r) ==
    /\ Positive(r.amount)
    /\ r.account # Clearing
    /\ wallet[r.account].available >= r.amount

\* Mutant of Processable: a requested payout goes on without approval.
ProcessableUnapproved(r, row) ==
    row.status \in {"requested", "approved"} /\ row.requester # r.actor

\* The status and the four-eyes conditions read from the locked payout row.
Approvable(r, row)   == row.status = "requested" /\ row.requester # r.actor
Processable(r, row)  == row.status = "approved" /\ row.requester # r.actor
Rejectable(row)      == row.status \in {"requested", "approved"}
Confirmable(r, row)  == /\ row.status \in {"processing", "unknown"}
                        /\ row.requester # r.actor
                        /\ r.status = "succeeded" => r.reference # None
NotInDebt(account) == wallet[account].available >= 0

SetApproved(r) ==
    payout' = [payout EXCEPT ![r.payout].status = "approved",
                             ![r.payout].approver = r.actor]

SetProcessing(r) == payout' = [payout EXCEPT ![r.payout].status = "processing"]

SetRejected(r, row) ==
    /\ payout' = [payout EXCEPT ![r.payout].status = "rejected"]
    /\ Post(ReservePosting(row.account, row.account, - row.amount))

\* provider_reference is UNIQUE, and kept when the outcome names none.
ReferenceFree(r) ==
    r.reference # None =>
        \A p \in Payouts \ {r.payout} :
            payout[p] # None => payout[p].reference # r.reference

\* Mutant of SetOutcome: a timeout counts as a failed transfer.
SetOutcomeUnknownFails(r, row) ==
    /\ ReferenceFree(r)
    /\ payout' = [payout EXCEPT
                    ![r.payout].status = r.status,
                    ![r.payout].reference =
                        IF r.reference = None THEN @ ELSE r.reference]
    /\ Post(ReservePosting(row.account,
                           IF r.status = "succeeded" THEN Clearing ELSE row.account,
                           - row.amount))

SetOutcome(r, row) ==
    /\ ReferenceFree(r)
    /\ payout' = [payout EXCEPT
                    ![r.payout].status = r.status,
                    ![r.payout].reference =
                        IF r.reference = None THEN @ ELSE r.reference]
    /\ CASE r.status = "succeeded" ->
                Post(ReservePosting(row.account, Clearing, - row.amount))
         [] r.status = "failed" ->
                Post(ReservePosting(row.account, row.account, - row.amount))
         [] r.status = "unknown" -> UNCHANGED wallet

-----------------------------------------------------------------------------
LedgerInit ==
    /\ wallet = [a \in Account |-> [frozen |-> 0, available |-> 0, reserved |-> 0]]
    /\ order = [o \in Orders |-> None]
    /\ due = {}
    /\ refunds = {}
    /\ payout = [p \in Payouts |-> None]
    /\ binding = [c \in Customers |-> None]
    /\ applied = {}

Record(r) == applied' = applied \cup {r}

Capture(r) ==
    /\ r.op = "capture"
    /\ Quotable(r)
    /\ InsertOrder(r, NewOrder(r, Referrer(r.customer)))
    /\ Record(r)
    /\ UNCHANGED <<due, refunds, payout, binding>>

Refund(r) ==
    /\ r.op = "refund"
    /\ order[r.order] # None
    /\ Refundable(r, order[r.order])
    /\ InsertRefund(r, order[r.order])
    /\ Record(r)
    /\ UNCHANGED <<due, payout, binding>>

\* An order that is released already is answered with changed = false.
Release(r) ==
    /\ r.op = "release"
    /\ order[r.order] # None
    /\ \/ /\ order[r.order].released
          /\ UNCHANGED <<wallet, order>>
       \/ /\ ~ order[r.order].released
          /\ r.order \in due
          /\ ReleaseRow(r.order, order[r.order])
    /\ Record(r)
    /\ UNCHANGED <<due, refunds, payout, binding>>

WorkerRelease(o) ==
    /\ order[o] # None
    /\ ~ order[o].released
    /\ o \in due
    /\ ReleaseRow(o, order[o])
    /\ UNCHANGED <<due, refunds, payout, binding, applied>>

Bind(r) ==
    /\ r.op = "bind"
    /\ Bindable(r)
    /\ binding' = [binding EXCEPT ![r.customer] = r.promoter]
    /\ Record(r)
    /\ UNCHANGED <<wallet, order, due, refunds, payout>>

RequestPayout(r) ==
    /\ r.op = "request"
    /\ Funded(r)
    /\ InsertPayout(r)
    /\ Record(r)
    /\ UNCHANGED <<order, due, refunds, binding>>

Approve(r) ==
    /\ r.op = "approve"
    /\ payout[r.payout] # None
    /\ Approvable(r, payout[r.payout])
    /\ NotInDebt(payout[r.payout].account)
    /\ SetApproved(r)
    /\ Record(r)
    /\ UNCHANGED <<wallet, order, due, refunds, binding>>

Processing(r) ==
    /\ r.op = "processing"
    /\ payout[r.payout] # None
    /\ Processable(r, payout[r.payout])
    /\ NotInDebt(payout[r.payout].account)
    /\ SetProcessing(r)
    /\ Record(r)
    /\ UNCHANGED <<wallet, order, due, refunds, binding>>

Reject(r) ==
    /\ r.op = "reject"
    /\ payout[r.payout] # None
    /\ Rejectable(payout[r.payout])
    /\ SetRejected(r, payout[r.payout])
    /\ Record(r)
    /\ UNCHANGED <<order, due, refunds, binding>>

Outcome(r) ==
    /\ r.op = "outcome"
    /\ payout[r.payout] # None
    /\ Confirmable(r, payout[r.payout])
    /\ SetOutcome(r, payout[r.payout])
    /\ Record(r)
    /\ UNCHANGED <<order, due, refunds, binding>>

\* Time reaches the order's unlock_at.
FreezeEnds(o) ==
    /\ order[o] # None
    /\ due' = due \cup {o}
    /\ UNCHANGED <<wallet, order, refunds, payout, binding, applied>>

Serve(r) ==
    /\ ~ Answered(r)
    /\ \/ Capture(r) \/ Refund(r) \/ Release(r) \/ Bind(r)
       \/ RequestPayout(r) \/ Approve(r) \/ Processing(r)
       \/ Reject(r) \/ Outcome(r)

LedgerNext ==
    \/ \E r \in Requests : Serve(r)
    \/ \E o \in Orders : WorkerRelease(o) \/ FreezeEnds(o)

LedgerSpec == LedgerInit /\ [][LedgerNext]_ledgerVars

-----------------------------------------------------------------------------
\* Every committed row has the columns its table declares.
LedgerTypeOK ==
    /\ wallet \in [Account -> [frozen : Int, available : Int, reserved : Int]]
    /\ order \in [Orders -> OrderRow \cup {None}]
    /\ due \subseteq Orders
    /\ refunds \subseteq Refunds
    /\ payout \in [Payouts -> PayoutRow \cup {None}]
    /\ binding \in [Customers -> Promoters \cup {None}]
    /\ applied \subseteq Requests

\* What an order row or a payout row in some condition is worth to an account.
Frozen(a, row) ==
    IF row # None /\ ~ row.released THEN PayTo(row.payee, Net(row), a) ELSE 0
Thawed(a, row) ==
    IF row # None /\ row.released THEN PayTo(row.payee, Net(row), a) ELSE 0
Earned(a, row) ==
    IF row # None /\ row.released THEN PayTo(row.payee, row.original, a) ELSE 0
Received(row) == IF row # None THEN row.paid - row.refunded ELSE 0
Drawn(a, row, statuses) ==
    IF row # None /\ row.status \in statuses THEN At(a, row.account, row.amount) ELSE 0
PaidOut(row) == IF row # None /\ row.status = "succeeded" THEN row.amount ELSE 0

TotalFrozen(a) == Total(Orders, [o \in Orders |-> Frozen(a, order[o])])
TotalThawed(a) == Total(Orders, [o \in Orders |-> Thawed(a, order[o])])
TotalEarned(a) == Total(Orders, [o \in Orders |-> Earned(a, order[o])])
TotalReceived  == Total(Orders, [o \in Orders |-> Received(order[o])])
TotalPaidOut   == Total(Payouts, [p \in Payouts |-> PaidOut(payout[p])])
TotalDrawn(a, statuses) ==
    Total(Payouts, [p \in Payouts |-> Drawn(a, payout[p], statuses)])

(***************************************************************************)
(* Wallets are projections: each bucket of each account is what the order, *)
(* allocation and payout rows say it is.  Frozen funds are the net shares  *)
(* of the unreleased orders, reserved funds the amounts of the open        *)
(* payouts, available funds the released shares less everything drawn; the *)
(* clearing account mirrors what came in and went out.  A refund into the  *)
(* wrong bucket, a double release or a double terminal posting breaks it.  *)
(***************************************************************************)
Books ==
    \A a \in Account :
        /\ wallet[a].frozen = TotalFrozen(a)
        /\ wallet[a].reserved = TotalDrawn(a, Open)
        /\ wallet[a].available =
              TotalThawed(a) - TotalDrawn(a, Status \ Undone)
              + At(a, Clearing, TotalPaidOut - TotalReceived)

(***************************************************************************)
(* Only a refund can put an account into debt: what its payouts draw never *)
(* exceeds the shares that were ever released to it, before refunds.  Two  *)
(* payout requests that both see the same balance would break it.          *)
(***************************************************************************)
NeverOverdrawn ==
    \A a \in Payee : TotalDrawn(a, Status \ Undone) <= TotalEarned(a)

(***************************************************************************)
(* The allocations of an order add up to what was paid, and what has been  *)
(* taken back from each slot depends on the refunded total alone, however  *)
(* many refunds it took: the order's history leaves no rounding behind.    *)
(***************************************************************************)
AllocationsExact ==
    \A o \in Orders : order[o] # None =>
        /\ SumOf(order[o].original) = order[o].paid
        /\ order[o].refunded \in 0..order[o].paid
        /\ order[o].returned = CumulativeRefund(order[o].original, order[o].refunded)

(***************************************************************************)
(* Neither error branch that refund and post answer with an internal error *)
(* is ever taken, and no CHECK of table wallets stops one: any refund that *)
(* leaves the cumulative amount within what was paid can be applied.       *)
(***************************************************************************)
RefundNeverStuck ==
    \A o \in Orders : order[o] # None =>
        \A amount \in 1..(order[o].paid - order[o].refunded) :
            LET r == [order |-> o, amount |-> amount]
                p == RefundPosting(order[o], Deltas(r, order[o]), amount)
            IN  /\ Reversible(r, order[o])
                /\ Balanced(p)
                /\ Accepted(Posted(p))

(***************************************************************************)
(* Referral attribution is settled by the first order: every order of a    *)
(* customer credits the promoter the customer is bound to, so a binding    *)
(* never appears after an order that went without one.                     *)
(***************************************************************************)
Attribution ==
    \A o \in Orders :
        order[o] # None /\ order[o].customer # None =>
            /\ order[o].payee[Direct] = binding[order[o].customer]
            /\ order[o].payee[Indirect] = ParentOf(order[o].payee[Direct])

(***************************************************************************)
(* Four eyes and one payment: a payout that has left the review was        *)
(* approved by another credential than the requester's, and no two payouts *)
(* were confirmed by the same provider transaction.                        *)
(***************************************************************************)
PayoutControl ==
    \A p \in Payouts : payout[p] # None =>
        /\ payout[p].status \in {"approved", "processing", "unknown", "succeeded", "failed"}
              => payout[p].approver \notin {None, payout[p].requester}
        /\ payout[p].status = "succeeded" => payout[p].reference # None
        /\ payout[p].reference # None =>
              \A q \in Payouts \ {p} :
                  payout[q] # None => payout[q].reference # payout[p].reference
=============================================================================
