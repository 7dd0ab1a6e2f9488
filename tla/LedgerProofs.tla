---------------------------- MODULE LedgerProofs ----------------------------
(***************************************************************************)
(* Theorems of the atomic money service, for any number of accounts,       *)
(* orders, payouts and requests and for any amounts.                       *)
(*                                                                         *)
(* The wallets are what the rows say.  Every step changes at most one      *)
(* order row or one payout row, so each total changes by the difference of *)
(* that row (TotalUpdate); the proof of a step is then that its posting is *)
(* the difference, account by account.                                     *)
(***************************************************************************)
EXTENDS Ledger, ApportionProofs

-----------------------------------------------------------------------------
\* The fields of a request, by operation.
LEMMA RequestFields ==
  ASSUME NEW r \in Requests
  PROVE  /\ r.actor \in Actors
         /\ r.op = "capture" =>
               /\ r.order \in Orders /\ r.merchant \in Merchants
               /\ r.customer \in Customers \cup {None}
               /\ r.paid \in Int /\ r.base \in Int
         /\ r.op = "refund" =>
               r.order \in Orders /\ r.refund \in Refunds /\ r.amount \in Int
         /\ r.op = "release" => r.order \in Orders
         /\ r.op = "bind" => r.customer \in Customers /\ r.promoter \in Promoters
         /\ r.op = "request" =>
               r.payout \in Payouts /\ r.account \in Account /\ r.amount \in Int
         /\ r.op \in {"approve", "processing", "reject", "outcome"} =>
               r.payout \in Payouts
         /\ r.op = "outcome" =>
               r.status \in Outcomes /\ r.reference \in References \cup {None}
BY RequestAssumption DEF OrderRequests, PayoutRequests

\* Facts about the accounts that the constants give.
LEMMA Accounts ==
  /\ Merchants \subseteq Payee /\ Promoters \subseteq Payee
  /\ PlatformAccount \in Payee /\ Payee \subseteq Account
  /\ Clearing \in Account /\ Clearing \notin Payee
  /\ None \notin Account
  /\ Parent \in [Promoters -> Promoters \cup {None}]
  /\ TermsOf \in [Merchants -> Terms]
BY AccountAssumption, TableAssumption DEF Payee, Account

\* What is known of an order row that AllocationsExact speaks of.
Exact(row) ==
    /\ SumOf(row.original) = row.paid
    /\ row.refunded \in 0..row.paid
    /\ row.returned = CumulativeRefund(row.original, row.refunded)

\* The row quote_in and capture write is well formed and exact.
LEMMA NewOrderExact ==
  ASSUME NEW r \in Requests, r.op = "capture", Quotable(r),
         NEW direct \in Promoters \cup {None}
  PROVE  NewOrder(r, direct) \in OrderRow /\ Exact(NewOrder(r, direct))
<1> DEFINE indirect == ParentOf(direct)
           split == Split(r.paid, r.base, TermsOf[r.merchant],
                          direct # None, indirect # None)
           payees == [s \in Slot |-> CASE s = Direct   -> direct
                                        [] s = Indirect -> indirect
                                        [] s = Platform -> PlatformAccount
                                        [] s = Merchant -> r.merchant]
           row == NewOrder(r, direct)
<1>1. /\ r.merchant \in Merchants /\ r.customer \in Customers \cup {None}
      /\ r.paid \in Int /\ r.base \in Int
  BY RequestFields
<1>2. r.paid \in Nat /\ r.base \in Nat /\ r.base <= r.paid
  BY <1>1 DEF Quotable, Splittable, Positive
<1>3. indirect \in Promoters \cup {None} /\ (direct = None => indirect = None)
  BY Accounts, TableAssumption DEF ParentOf
<1>4. Splittable(r.paid, r.base, direct # None, indirect # None)
  BY <1>3 DEF Quotable, Splittable
<1>5. TermsOf[r.merchant] \in Terms
  BY <1>1, Accounts
<1>6. split \in Shares /\ SumOf(split) = r.paid
  BY <1>2, <1>4, <1>5, SplitConserves
<1>7. payees \in [Slot -> Payee \cup {None}]
  BY <1>1, <1>3, Accounts DEF Slot, Direct, Indirect, Platform, Merchant
<1>8. row = [customer |-> r.customer, paid |-> r.paid, refunded |-> 0,
             payee |-> payees, original |-> split,
             returned |-> [s \in Slot |-> 0], released |-> FALSE]
  BY DEF NewOrder
<1> HIDE DEF split, indirect, payees, row
<1>9. row.returned = CumulativeRefund(split, 0)
  <2>1. 0 \in 0..SumOf(split)
    BY <1>2, <1>6
  <2>2. \A s \in Slot : CumulativeRefund(split, 0)[s] = 0
    BY <1>6, FullRefundReverses
  <2>3. CumulativeRefund(split, 0) \in Shares
    BY <1>6, <2>1, RefundExact
  <2> QED
    BY <1>8, <2>2, <2>3 DEF Shares
<1>10. row \in OrderRow
  <2>1. row.original \in [Slot -> Nat] /\ row.returned \in [Slot -> Nat]
    BY <1>6, <1>8 DEF Shares
  <2>2. 0 \in Nat /\ FALSE \in BOOLEAN
    OBVIOUS
  <2> QED
    BY <1>1, <1>2, <1>7, <1>8, <2>1, <2>2 DEF OrderRow
<1> QED
  BY <1>2, <1>6, <1>8, <1>9, <1>10 DEF Exact, row

\* An accepted refund leaves the row well formed and exact, and takes from
\* every slot a natural amount; together they are the refund.
LEMMA RefundedExact ==
  ASSUME NEW row \in OrderRow, Exact(row),
         NEW r \in Requests, r.op = "refund", Refundable(r, row)
  PROVE  LET next == [row EXCEPT !.refunded = row.refunded + r.amount,
                                 !.returned = Targets(r, row)]
         IN  /\ next \in OrderRow
             /\ Exact(next)
             /\ Targets(r, row) \in Shares
             /\ \A s \in Slot : /\ Targets(r, row)[s] >= row.returned[s]
                                /\ Targets(r, row)[s] <= row.original[s]
             /\ r.amount \in Nat
<1> DEFINE total == row.refunded + r.amount
           next == [row EXCEPT !.refunded = total, !.returned = Targets(r, row)]
<1>1. /\ row.original \in Shares /\ row.paid \in Nat /\ row.refunded \in Nat
      /\ SumOf(row.original) = row.paid
      /\ row.refunded \in 0..SumOf(row.original)
      /\ row.returned = CumulativeRefund(row.original, row.refunded)
  BY DEF Exact, OrderRow, Shares
<1>2. r.amount \in Nat /\ total \in 0..SumOf(row.original) /\ row.refunded <= total
  BY <1>1, RequestFields DEF Refundable, Positive
<1>3. Targets(r, row) = CumulativeRefund(row.original, total)
  BY DEF Targets
<1>4. /\ Targets(r, row) \in Shares
      /\ \A s \in Slot : Targets(r, row)[s] <= row.original[s]
  BY <1>1, <1>2, <1>3, RefundExact
<1>5. \A s \in Slot : Targets(r, row)[s] >= row.returned[s]
  <2>1. \A s \in Slot : CumulativeRefund(row.original, row.refunded)[s]
                           <= CumulativeRefund(row.original, total)[s]
    BY <1>1, <1>2, RefundMonotone
  <2>2. \A s \in Slot : Targets(r, row)[s] \in Nat /\ row.returned[s] \in Nat
    BY <1>4 DEF Shares, OrderRow
  <2> QED
    BY <1>1, <1>3, <2>1, <2>2
<1>6. next \in OrderRow
  <2>1. \A n \in Nat, t \in [Slot -> Nat] :
            [row EXCEPT !.refunded = n, !.returned = t] \in OrderRow
    BY DEF OrderRow
  <2>2. total \in Nat /\ Targets(r, row) \in [Slot -> Nat]
    BY <1>1, <1>2, <1>4 DEF Shares
  <2> QED
    BY <2>1, <2>2
<1>7. Exact(next)
  BY <1>1, <1>2, <1>3 DEF Exact, OrderRow
<1> QED
  BY <1>2, <1>4, <1>5, <1>6, <1>7

-----------------------------------------------------------------------------
\* What an amount per slot is worth to one account.
LEMMA PayToNat ==
  ASSUME NEW payee, NEW amount \in [Slot -> Nat], NEW a
  PROVE  PayTo(payee, amount, a) \in Nat
<1>1. \A s \in Slot : At(a, payee[s], amount[s]) \in Nat
  BY DEF At
<1> QED
  BY <1>1 DEF PayTo, SumOf, Slot, Direct, Indirect, Platform, Merchant

\* It is linear in the amounts.
LEMMA PayToMinus ==
  ASSUME NEW payee, NEW x \in [Slot -> Nat], NEW y \in [Slot -> Nat], NEW a,
         NEW z \in [Slot -> Int], \A s \in Slot : z[s] = x[s] - y[s]
  PROVE  PayTo(payee, z, a) = PayTo(payee, x, a) - PayTo(payee, y, a)
<1>1. \A s \in Slot : /\ At(a, payee[s], z[s])
                            = At(a, payee[s], x[s]) - At(a, payee[s], y[s])
                     /\ At(a, payee[s], x[s]) \in Int
                     /\ At(a, payee[s], y[s]) \in Int
  BY DEF At
<1> QED
  BY <1>1 DEF PayTo, SumOf, Slot, Direct, Indirect, Platform, Merchant

LEMMA PayToInt ==
  ASSUME NEW payee, NEW amount \in [Slot -> Int], NEW a
  PROVE  PayTo(payee, amount, a) \in Int
<1>1. \A s \in Slot : At(a, payee[s], amount[s]) \in Int
  BY DEF At
<1> QED
  BY <1>1 DEF PayTo, SumOf, Slot, Direct, Indirect, Platform, Merchant

Wallets == [Account -> [frozen : Int, available : Int, reserved : Int]]

Changes == [Account -> Int]

\* A posting of whole changes leaves wallets of whole numbers.
LEMMA PostType ==
  ASSUME wallet \in Wallets, NEW p,
         p.frozen \in Changes, p.available \in Changes, p.reserved \in Changes
  PROVE  Posted(p) \in Wallets
BY DEF Wallets, Changes, Posted

\* The postings of every operation are whole.
LEMMA PostingTypes ==
  /\ \A row \in OrderRow :
        /\ CapturePosting(row).frozen \in Changes
        /\ CapturePosting(row).available \in Changes
        /\ CapturePosting(row).reserved \in Changes
        /\ ReleasePosting(row).frozen \in Changes
        /\ ReleasePosting(row).available \in Changes
        /\ ReleasePosting(row).reserved \in Changes
  /\ \A row \in OrderRow, delta \in [Slot -> Int], amount \in Int :
        /\ RefundPosting(row, delta, amount).frozen \in Changes
        /\ RefundPosting(row, delta, amount).available \in Changes
        /\ RefundPosting(row, delta, amount).reserved \in Changes
  /\ \A account, to \in Account, amount \in Int :
        /\ ReservePosting(account, to, amount).frozen \in Changes
        /\ ReservePosting(account, to, amount).available \in Changes
        /\ ReservePosting(account, to, amount).reserved \in Changes
<1>0. NoChange \in Changes
  BY DEF NoChange, Changes
<1>1. ASSUME NEW row \in OrderRow
      PROVE  /\ CapturePosting(row).frozen \in Changes
             /\ CapturePosting(row).available \in Changes
             /\ CapturePosting(row).reserved \in Changes
             /\ ReleasePosting(row).frozen \in Changes
             /\ ReleasePosting(row).available \in Changes
             /\ ReleasePosting(row).reserved \in Changes
  <2>1. \A a \in Account : PayTo(row.payee, row.original, a) \in Int
    BY PayToNat DEF OrderRow
  <2>2. Net(row) \in [Slot -> Int]
    BY DEF Net, OrderRow
  <2>3. \A a \in Account : PayTo(row.payee, Net(row), a) \in Int
    BY <2>2, PayToInt
  <2>4. row.paid \in Int
    BY DEF OrderRow
  <2>5. \A a \in Account : At(a, Clearing, row.paid) \in Int
    BY <2>4 DEF At
  <2> QED
    BY <1>0, <2>1, <2>3, <2>5 DEF CapturePosting, ReleasePosting, Changes
<1>2. ASSUME NEW row \in OrderRow, NEW delta \in [Slot -> Int], NEW amount \in Int
      PROVE  /\ RefundPosting(row, delta, amount).frozen \in Changes
             /\ RefundPosting(row, delta, amount).available \in Changes
             /\ RefundPosting(row, delta, amount).reserved \in Changes
  <2>1. \A a \in Account : PayTo(row.payee, delta, a) \in Int
    BY PayToInt
  <2>2. \A a \in Account : At(a, Clearing, amount) \in Int
    BY DEF At
  <2> QED
    BY <1>0, <2>1, <2>2 DEF RefundPosting, Changes
<1>3. ASSUME NEW account \in Account, NEW to \in Account, NEW amount \in Int
      PROVE  /\ ReservePosting(account, to, amount).frozen \in Changes
             /\ ReservePosting(account, to, amount).available \in Changes
             /\ ReservePosting(account, to, amount).reserved \in Changes
  <2>1. \A a \in Account : At(a, account, amount) \in Int /\ At(a, to, amount) \in Int
    BY DEF At
  <2> QED
    BY <1>0, <2>1 DEF ReservePosting, Changes
<1> QED
  BY <1>1, <1>2, <1>3

-----------------------------------------------------------------------------
\* A step that replaces one order row by a well-formed exact one.
LEMMA OrderReplaced ==
  ASSUME LedgerTypeOK, AllocationsExact, NEW o \in Orders, NEW row \in OrderRow,
         Exact(row), order' = [order EXCEPT ![o] = row]
  PROVE  order' \in [Orders -> OrderRow \cup {None}] /\ AllocationsExact'
BY DEF LedgerTypeOK, AllocationsExact, Exact

LEMMA CaptureCore ==
  ASSUME LedgerTypeOK, AllocationsExact, NEW r \in Requests, Capture(r)
  PROVE  LedgerTypeOK' /\ AllocationsExact'
<1> DEFINE row == NewOrder(r, Referrer(r.customer))
<1>1. Referrer(r.customer) \in Promoters \cup {None}
  <2>1. r.customer \in Customers \cup {None}
    BY RequestFields DEF Capture
  <2> QED
    BY <2>1 DEF Referrer, LedgerTypeOK
<1>2. row \in OrderRow /\ Exact(row)
  BY <1>1, NewOrderExact DEF Capture
<1>3. order' \in [Orders -> OrderRow \cup {None}] /\ AllocationsExact'
  BY <1>2, OrderReplaced, RequestFields DEF Capture, InsertOrder
<1>4. wallet' \in Wallets
  BY <1>2, PostType, PostingTypes DEF Capture, InsertOrder, Post, LedgerTypeOK, Wallets
<1> QED
  BY <1>3, <1>4 DEF LedgerTypeOK, Wallets, Capture, Record

LEMMA RefundCore ==
  ASSUME LedgerTypeOK, AllocationsExact, NEW r \in Requests, Refund(r)
  PROVE  LedgerTypeOK' /\ AllocationsExact'
<1> DEFINE row == order[r.order]
           next == [row EXCEPT !.refunded = row.refunded + r.amount,
                               !.returned = Targets(r, row)]
<1>1. r.order \in Orders /\ r.refund \in Refunds /\ r.op = "refund"
  BY RequestFields DEF Refund
<1>2. row \in OrderRow /\ Exact(row) /\ Refundable(r, row)
  BY <1>1 DEF Refund, LedgerTypeOK, AllocationsExact, Exact
<1>3. /\ next \in OrderRow /\ Exact(next) /\ Targets(r, row) \in Shares
      /\ r.amount \in Nat
  BY <1>1, <1>2, RefundedExact
<1>4. order' = [order EXCEPT ![r.order] = next]
  BY <1>1 DEF Refund, InsertRefund, LedgerTypeOK
<1>5. order' \in [Orders -> OrderRow \cup {None}] /\ AllocationsExact'
  BY <1>1, <1>3, <1>4, OrderReplaced
<1>6. Deltas(r, row) \in [Slot -> Int]
  BY <1>2, <1>3 DEF Deltas, OrderRow, Shares
<1>7. wallet' \in Wallets
  <2> DEFINE p == RefundPosting(row, Deltas(r, row), r.amount)
  <2>1. p.frozen \in Changes /\ p.available \in Changes /\ p.reserved \in Changes
    BY <1>2, <1>3, <1>6, PostingTypes
  <2>2. wallet' = Posted(p)
    BY DEF Refund, InsertRefund, Post
  <2> HIDE DEF p
  <2> QED
    BY <2>1, <2>2, PostType DEF LedgerTypeOK, Wallets
<1> QED
  BY <1>1, <1>5, <1>7 DEF LedgerTypeOK, Wallets, Refund, InsertRefund, Record

\* Release and WorkerRelease write the same.
LEMMA ReleaseRowCore ==
  ASSUME LedgerTypeOK, AllocationsExact, NEW o \in Orders, order[o] # None,
         ReleaseRow(o, order[o])
  PROVE  /\ order' \in [Orders -> OrderRow \cup {None}] /\ AllocationsExact'
         /\ wallet' \in Wallets
<1> DEFINE row == order[o]
           next == [row EXCEPT !.released = TRUE]
<1>1. row \in OrderRow /\ Exact(row)
  BY DEF LedgerTypeOK, AllocationsExact, Exact
<1>2. next \in OrderRow /\ Exact(next)
  BY <1>1 DEF OrderRow, Exact
<1>3. order' = [order EXCEPT ![o] = next]
  BY DEF ReleaseRow, LedgerTypeOK
<1>4. wallet' \in Wallets
  BY <1>1, PostType, PostingTypes DEF ReleaseRow, Post, LedgerTypeOK, Wallets
<1> QED
  BY <1>2, <1>3, <1>4, OrderReplaced

LEMMA ReleaseCore ==
  ASSUME LedgerTypeOK, AllocationsExact, NEW r \in Requests, Release(r)
  PROVE  LedgerTypeOK' /\ AllocationsExact'
<1>1. r.order \in Orders
  BY RequestFields DEF Release
<1>2. CASE order[r.order].released
  BY <1>2 DEF Release, Record, LedgerTypeOK, AllocationsExact
<1>3. CASE ~ order[r.order].released
  <2>1. ReleaseRow(r.order, order[r.order]) /\ order[r.order] # None
    BY <1>3 DEF Release
  <2>2. /\ order' \in [Orders -> OrderRow \cup {None}] /\ AllocationsExact'
        /\ wallet' \in Wallets
    BY <1>1, <2>1, ReleaseRowCore
  <2> QED
    BY <2>2 DEF Release, Record, LedgerTypeOK, Wallets
<1> QED
  BY <1>2, <1>3

LEMMA WorkerReleaseCore ==
  ASSUME LedgerTypeOK, AllocationsExact, NEW o \in Orders, WorkerRelease(o)
  PROVE  LedgerTypeOK' /\ AllocationsExact'
<1>1. /\ order' \in [Orders -> OrderRow \cup {None}] /\ AllocationsExact'
      /\ wallet' \in Wallets
  BY ReleaseRowCore DEF WorkerRelease
<1> QED
  BY <1>1 DEF WorkerRelease, LedgerTypeOK, Wallets

LEMMA RequestPayoutCore ==
  ASSUME LedgerTypeOK, AllocationsExact, NEW r \in Requests, RequestPayout(r)
  PROVE  LedgerTypeOK' /\ AllocationsExact'
<1>1. /\ r.payout \in Payouts /\ r.account \in Payee /\ r.amount \in Nat
      /\ r.actor \in Actors
  BY RequestFields DEF RequestPayout, Funded, Positive, Payee
<1>2. wallet' \in Wallets
  <2> DEFINE p == ReservePosting(r.account, r.account, r.amount)
  <2>1. p.frozen \in Changes /\ p.available \in Changes /\ p.reserved \in Changes
    BY <1>1, Accounts, PostingTypes
  <2>2. wallet' = Posted(p)
    BY DEF RequestPayout, InsertPayout, Post
  <2> HIDE DEF p
  <2> QED
    BY <2>1, <2>2, PostType DEF LedgerTypeOK, Wallets
<1>3. payout' \in [Payouts -> PayoutRow \cup {None}]
  BY <1>1 DEF RequestPayout, InsertPayout, LedgerTypeOK, PayoutRow, Status, Open
<1> QED
  BY <1>2, <1>3 DEF RequestPayout, LedgerTypeOK, Wallets, AllocationsExact, Record

\* The columns of a payout row.
LEMMA PayoutColumns ==
  ASSUME LedgerTypeOK, NEW p \in Payouts, payout[p] # None
  PROVE  /\ payout[p] \in PayoutRow
         /\ payout[p].account \in Payee
         /\ payout[p].amount \in Nat
         /\ - payout[p].amount \in Int
BY DEF LedgerTypeOK, PayoutRow

LEMMA ReviewCore ==
  ASSUME LedgerTypeOK, AllocationsExact, NEW r \in Requests,
         Approve(r) \/ Processing(r) \/ Reject(r)
  PROVE  LedgerTypeOK' /\ AllocationsExact'
<1>1. r.payout \in Payouts /\ r.actor \in Actors /\ payout[r.payout] # None
  BY RequestFields DEF Approve, Processing, Reject
<1>2. CASE Approve(r)
  <2>1. payout' \in [Payouts -> PayoutRow \cup {None}]
    BY <1>1, <1>2 DEF Approve, SetApproved, LedgerTypeOK, PayoutRow, Status, Open
  <2> QED
    BY <1>2, <2>1 DEF Approve, LedgerTypeOK, AllocationsExact, Record
<1>3. CASE Processing(r)
  <2>1. payout' \in [Payouts -> PayoutRow \cup {None}]
    BY <1>1, <1>3 DEF Processing, SetProcessing, LedgerTypeOK, PayoutRow, Status, Open
  <2> QED
    BY <1>3, <2>1 DEF Processing, LedgerTypeOK, AllocationsExact, Record
<1>4. CASE Reject(r)
  <2>1. payout' \in [Payouts -> PayoutRow \cup {None}]
    BY <1>1, <1>4 DEF Reject, SetRejected, LedgerTypeOK, PayoutRow, Status, Undone
  <2>2. wallet' \in Wallets
    BY <1>1, <1>4, PayoutColumns, Accounts, PostType, PostingTypes
       DEF Reject, SetRejected, Post, LedgerTypeOK, Wallets
  <2> QED
    BY <1>4, <2>1, <2>2 DEF Reject, LedgerTypeOK, AllocationsExact, Record, Wallets
<1> QED
  BY <1>2, <1>3, <1>4

LEMMA OutcomeCore ==
  ASSUME LedgerTypeOK, AllocationsExact, NEW r \in Requests, Outcome(r)
  PROVE  LedgerTypeOK' /\ AllocationsExact'
<1>1. /\ r.payout \in Payouts /\ payout[r.payout] # None
      /\ r.status \in Outcomes /\ r.reference \in References \cup {None}
  BY RequestFields DEF Outcome
<1>2. payout' \in [Payouts -> PayoutRow \cup {None}]
  BY <1>1 DEF Outcome, SetOutcome, LedgerTypeOK, PayoutRow, Status, Undone, Open, Outcomes
<1>3. wallet' \in Wallets
  <2>1. /\ payout[r.payout].account \in Account
        /\ - payout[r.payout].amount \in Int
    BY <1>1, PayoutColumns, Accounts
  <2>2. CASE r.status = "unknown"
    BY <2>2 DEF Outcome, SetOutcome, LedgerTypeOK, Wallets
  <2>3. CASE r.status \in {"succeeded", "failed"}
    <3>1. PICK to \in Account :
             Post(ReservePosting(payout[r.payout].account, to, - payout[r.payout].amount))
      BY <2>1, <2>3, Accounts DEF Outcome, SetOutcome
    <3> QED
      BY <2>1, <3>1, PostType, PostingTypes DEF Post, LedgerTypeOK, Wallets
  <2> QED
    BY <1>1, <2>2, <2>3 DEF Outcomes
<1> QED
  BY <1>2, <1>3 DEF Outcome, LedgerTypeOK, AllocationsExact, Record, Wallets

LEMMA InitCore == LedgerInit => LedgerTypeOK /\ AllocationsExact
BY DEF LedgerInit, LedgerTypeOK, AllocationsExact

LEMMA NextCore ==
  LedgerTypeOK /\ AllocationsExact /\ [LedgerNext]_ledgerVars
    => LedgerTypeOK' /\ AllocationsExact'
<1> SUFFICES ASSUME LedgerTypeOK, AllocationsExact, [LedgerNext]_ledgerVars
             PROVE  LedgerTypeOK' /\ AllocationsExact'
  OBVIOUS
<1>1. CASE UNCHANGED ledgerVars
  BY <1>1 DEF ledgerVars, LedgerTypeOK, AllocationsExact
<1>2. ASSUME NEW r \in Requests, Serve(r)
      PROVE  LedgerTypeOK' /\ AllocationsExact'
  <2>1. CASE Bind(r)
    <3>1. r.customer \in Customers /\ r.promoter \in Promoters
      BY <2>1, RequestFields DEF Bind
    <3> QED
      BY <2>1, <3>1 DEF Bind, LedgerTypeOK, AllocationsExact, Record
  <2> QED
    BY <1>2, <2>1, CaptureCore, RefundCore, ReleaseCore, RequestPayoutCore,
       ReviewCore, OutcomeCore DEF Serve
<1>3. ASSUME NEW o \in Orders, WorkerRelease(o)
      PROVE  LedgerTypeOK' /\ AllocationsExact'
  BY <1>3, WorkerReleaseCore
<1>4. ASSUME NEW o \in Orders, FreezeEnds(o)
      PROVE  LedgerTypeOK' /\ AllocationsExact'
  BY <1>4 DEF FreezeEnds, LedgerTypeOK, AllocationsExact
<1> QED
  BY <1>1, <1>2, <1>3, <1>4 DEF LedgerNext

(***************************************************************************)
(* The rows keep their declared columns, for any amounts and any number of *)
(* requests: no share, no net amount and no refunded total of the code is  *)
(* ever negative.                                                          *)
(***************************************************************************)
THEOREM TypeCorrect == LedgerSpec => []LedgerTypeOK
<1>1. LedgerSpec => [](LedgerTypeOK /\ AllocationsExact)
  BY InitCore, NextCore, PTL DEF LedgerSpec
<1> QED
  BY <1>1, PTL

(***************************************************************************)
(* The allocations of every order stay exact through any history of        *)
(* captures, releases and refunds (orders.rs capture and refund).          *)
(***************************************************************************)
THEOREM AllocationsStayExact == LedgerSpec => []AllocationsExact
<1>1. LedgerSpec => [](LedgerTypeOK /\ AllocationsExact)
  BY InitCore, NextCore, PTL DEF LedgerSpec
<1> QED
  BY <1>1, PTL

-----------------------------------------------------------------------------
\* A payout step replaces one row; the others keep theirs.
LEMMA ControlReplaced ==
  ASSUME LedgerTypeOK, PayoutControl, NEW p \in Payouts, NEW row \in PayoutRow,
         payout' = [payout EXCEPT ![p] = row],
         row.status \in {"approved", "processing", "unknown", "succeeded", "failed"}
            => row.approver \notin {None, row.requester},
         row.status = "succeeded" => row.reference # None,
         row.reference # None =>
            \A q \in Payouts \ {p} :
               payout[q] # None => payout[q].reference # row.reference
  PROVE  PayoutControl'
<1>1. /\ payout' [p] = row
      /\ \A q \in Payouts \ {p} : payout' [q] = payout[q]
  BY DEF LedgerTypeOK
<1> QED
  BY <1>1 DEF PayoutControl

LEMMA NextControl ==
  LedgerTypeOK /\ LedgerTypeOK' /\ PayoutControl /\ [LedgerNext]_ledgerVars
    => PayoutControl'
<1> SUFFICES ASSUME LedgerTypeOK, LedgerTypeOK', PayoutControl,
                    [LedgerNext]_ledgerVars
             PROVE  PayoutControl'
  OBVIOUS
<1>1. CASE UNCHANGED payout
  BY <1>1 DEF PayoutControl
<1>3. ASSUME NEW r \in Requests, RequestPayout(r)
      PROVE  PayoutControl'
  <2> DEFINE row == [account |-> r.account, amount |-> r.amount,
                     status |-> "requested", requester |-> r.actor,
                     approver |-> None, reference |-> None]
  <2>1. r.payout \in Payouts
    BY <1>3, RequestFields DEF RequestPayout
  <2>2. payout' = [payout EXCEPT ![r.payout] = row]
    BY <1>3 DEF RequestPayout, InsertPayout
  <2>3. row \in PayoutRow
    <3>1. /\ r.account \in Payee /\ r.amount \in Nat /\ r.actor \in Actors
      BY <1>3, RequestFields DEF RequestPayout, Funded, Positive, Payee
    <3> QED
      BY <3>1 DEF PayoutRow, Status, Open
  <2> QED
    BY <2>1, <2>2, <2>3, ControlReplaced
<1>4. ASSUME NEW r \in Requests, Approve(r)
      PROVE  PayoutControl'
  <2> DEFINE old == payout[r.payout]
             row == [old EXCEPT !.status = "approved", !.approver = r.actor]
  <2>1. r.payout \in Payouts /\ r.actor \in Actors /\ old \in PayoutRow
    BY <1>4, RequestFields, PayoutColumns DEF Approve
  <2>2. payout' = [payout EXCEPT ![r.payout] = row]
    BY <1>4 DEF Approve, SetApproved
  <2>3. /\ row \in PayoutRow /\ row.status = "approved" /\ row.approver = r.actor
        /\ row.requester = old.requester /\ row.reference = old.reference
    BY <2>1 DEF PayoutRow, Status, Open
  <2>4. r.actor # old.requester /\ r.actor # None
    BY <1>4, <2>1, TableAssumption DEF Approve, Approvable
  <2>5. old.reference # None =>
           \A q \in Payouts \ {r.payout} :
              payout[q] # None => payout[q].reference # old.reference
    BY <1>4, <2>1 DEF PayoutControl, Approve
  <2> HIDE DEF row
  <2> QED
    BY <2>1, <2>2, <2>3, <2>4, <2>5, ControlReplaced
<1>5. ASSUME NEW r \in Requests, Processing(r)
      PROVE  PayoutControl'
  <2> DEFINE old == payout[r.payout]
             row == [old EXCEPT !.status = "processing"]
  <2>1. r.payout \in Payouts /\ old \in PayoutRow
    BY <1>5, RequestFields, PayoutColumns DEF Processing
  <2>2. payout' = [payout EXCEPT ![r.payout] = row]
    BY <1>5 DEF Processing, SetProcessing
  <2>3. /\ row \in PayoutRow /\ row.status = "processing"
        /\ row.approver = old.approver
        /\ row.requester = old.requester /\ row.reference = old.reference
    BY <2>1 DEF PayoutRow, Status, Open
  <2>4. /\ old.approver \notin {None, old.requester}
        /\ old.reference # None =>
              \A q \in Payouts \ {r.payout} :
                 payout[q] # None => payout[q].reference # old.reference
    BY <1>5, <2>1 DEF PayoutControl, Processing, Processable
  <2> HIDE DEF row
  <2> QED
    BY <2>1, <2>2, <2>3, <2>4, ControlReplaced
<1>6. ASSUME NEW r \in Requests, Reject(r)
      PROVE  PayoutControl'
  <2> DEFINE old == payout[r.payout]
             row == [old EXCEPT !.status = "rejected"]
  <2>1. r.payout \in Payouts /\ old \in PayoutRow
    BY <1>6, RequestFields, PayoutColumns DEF Reject
  <2>2. payout' = [payout EXCEPT ![r.payout] = row]
    BY <1>6 DEF Reject, SetRejected
  <2>3. /\ row \in PayoutRow /\ row.status = "rejected"
        /\ row.reference = old.reference
    BY <2>1 DEF PayoutRow, Status, Undone
  <2>4. old.reference # None =>
           \A q \in Payouts \ {r.payout} :
              payout[q] # None => payout[q].reference # old.reference
    BY <1>6, <2>1 DEF PayoutControl, Reject
  <2> HIDE DEF row
  <2> QED
    BY <2>1, <2>2, <2>3, <2>4, ControlReplaced
<1>7. ASSUME NEW r \in Requests, Outcome(r)
      PROVE  PayoutControl'
  <2> DEFINE old == payout[r.payout]
             ref == IF r.reference = None THEN old.reference ELSE r.reference
             row == [old EXCEPT !.status = r.status, !.reference = ref]
  <2>1. /\ r.payout \in Payouts /\ old \in PayoutRow
        /\ r.status \in Outcomes /\ r.reference \in References \cup {None}
    BY <1>7, RequestFields, PayoutColumns DEF Outcome
  <2>2. payout' = [payout EXCEPT ![r.payout] = row]
    BY <1>7 DEF Outcome, SetOutcome
  <2>3. ref \in References \cup {None}
    BY <2>1 DEF PayoutRow
  <2>4. /\ r.status = "succeeded" => ref # None
        /\ ref # None =>
              \A q \in Payouts \ {r.payout} :
                 payout[q] # None => payout[q].reference # ref
    BY <1>7, <2>1 DEF PayoutControl, Outcome, Confirmable, SetOutcome, ReferenceFree
  <2> HIDE DEF ref
  <2>5. /\ row \in PayoutRow /\ row.status = r.status
        /\ row.approver = old.approver
        /\ row.requester = old.requester /\ row.reference = ref
    BY <2>1, <2>3 DEF PayoutRow, Status, Open, Undone, Outcomes
  <2>6. old.approver \notin {None, old.requester}
    BY <1>7, <2>1 DEF PayoutControl, Outcome, Confirmable
  <2> HIDE DEF row
  <2> QED
    BY <2>1, <2>2, <2>4, <2>5, <2>6, ControlReplaced
<1>8. ASSUME NEW r \in Requests, Serve(r)
      PROVE  PayoutControl'
  BY <1>1, <1>3, <1>4, <1>5, <1>6, <1>7, <1>8
     DEF Serve, Capture, Refund, Release, Bind
<1> QED
  BY <1>1, <1>8 DEF LedgerNext, ledgerVars, WorkerRelease, FreezeEnds

(***************************************************************************)
(* Four eyes on every payout and one provider transaction per payment, for *)
(* any number of payouts, credentials and references (payouts.rs).         *)
(***************************************************************************)
THEOREM PayoutsControlled == LedgerSpec => []PayoutControl
<1>1. LedgerInit => PayoutControl
  BY DEF LedgerInit, PayoutControl
<1> QED
  BY <1>1, NextControl, TypeCorrect, PTL DEF LedgerSpec

-----------------------------------------------------------------------------
LEMMA NextAttribution ==
  LedgerTypeOK /\ LedgerTypeOK' /\ Attribution /\ [LedgerNext]_ledgerVars
    => Attribution'
<1> SUFFICES ASSUME LedgerTypeOK, LedgerTypeOK', Attribution,
                    [LedgerNext]_ledgerVars
             PROVE  Attribution'
  OBVIOUS
<1>1. CASE UNCHANGED <<order, binding>>
  BY <1>1 DEF Attribution, ParentOf
\* A refund and a release keep the columns Attribution speaks of.
<1>2. ASSUME NEW o \in Orders, order[o] # None, UNCHANGED binding,
             \A x \in Orders \ {o} : order'[x] = order[x],
             order'[o].payee = order[o].payee,
             order'[o].customer = order[o].customer
      PROVE  Attribution'
  BY <1>2 DEF Attribution, ParentOf
<1>3. ASSUME NEW r \in Requests, Capture(r)
      PROVE  Attribution'
  <2> DEFINE row == NewOrder(r, Referrer(r.customer))
  <2>1. r.order \in Orders /\ r.customer \in Customers \cup {None}
    BY <1>3, RequestFields DEF Capture
  <2>2. /\ order'[r.order] = row
        /\ \A x \in Orders \ {r.order} : order'[x] = order[x]
        /\ UNCHANGED binding
    BY <1>3, <2>1 DEF Capture, InsertOrder, LedgerTypeOK
  <2>3. /\ row.customer = r.customer
        /\ row.payee[Direct] = Referrer(r.customer)
        /\ row.payee[Indirect] = ParentOf(Referrer(r.customer))
    BY DEF NewOrder, Slot, Direct, Indirect, Platform, Merchant
  <2> HIDE DEF row
  <2> QED
    BY <2>1, <2>2, <2>3 DEF Attribution, Referrer, ParentOf
<1>4. ASSUME NEW r \in Requests, Refund(r)
      PROVE  Attribution'
  <2>1. r.order \in Orders /\ order[r.order] \in OrderRow
    BY <1>4, RequestFields DEF Refund, LedgerTypeOK
  <2>2. /\ order'[r.order].payee = order[r.order].payee
        /\ order'[r.order].customer = order[r.order].customer
        /\ \A x \in Orders \ {r.order} : order'[x] = order[x]
    BY <1>4, <2>1 DEF Refund, InsertRefund, LedgerTypeOK, OrderRow
  <2> QED
    BY <1>2, <1>4, <2>1, <2>2 DEF Refund
<1>5. ASSUME NEW o \in Orders, order[o] # None, ReleaseRow(o, order[o]),
             UNCHANGED binding
      PROVE  Attribution'
  <2>1. /\ order'[o].payee = order[o].payee
        /\ order'[o].customer = order[o].customer
        /\ \A x \in Orders \ {o} : order'[x] = order[x]
    BY <1>5 DEF ReleaseRow, LedgerTypeOK, OrderRow
  <2> QED
    BY <1>2, <1>5, <2>1
<1>6. ASSUME NEW r \in Requests, Release(r)
      PROVE  Attribution'
  BY <1>1, <1>5, <1>6, RequestFields DEF Release
<1>7. ASSUME NEW r \in Requests, Bind(r)
      PROVE  Attribution'
  <2>1. r.customer \in Customers
    BY <1>7, RequestFields DEF Bind
  <2>2. /\ \A c \in Customers \ {r.customer} : binding'[c] = binding[c]
        /\ UNCHANGED order
    BY <1>7, <2>1 DEF Bind, LedgerTypeOK
  <2>3. \A o \in Orders : order[o] # None => order[o].customer # r.customer
    BY <1>7 DEF Bind, Bindable
  <2>4. \A o \in Orders : order[o] # None => order[o].customer \in Customers \cup {None}
    BY DEF LedgerTypeOK, OrderRow
  <2> QED
    BY <2>2, <2>3, <2>4 DEF Attribution, ParentOf
<1>8. ASSUME NEW r \in Requests, Serve(r)
      PROVE  Attribution'
  BY <1>1, <1>3, <1>4, <1>6, <1>7, <1>8
     DEF Serve, RequestPayout, Approve, Processing, Reject, Outcome
<1>9. ASSUME NEW o \in Orders, WorkerRelease(o)
      PROVE  Attribution'
  BY <1>5, <1>9 DEF WorkerRelease
<1> QED
  BY <1>1, <1>8, <1>9 DEF LedgerNext, ledgerVars, FreezeEnds

(***************************************************************************)
(* Every order of a customer credits the promoter the customer is bound to *)
(* and that promoter's parent: bind_referral can never come after capture. *)
(***************************************************************************)
THEOREM AttributionSettled == LedgerSpec => []Attribution
<1>1. LedgerInit => Attribution
  BY DEF LedgerInit, Attribution
<1> QED
  BY <1>1, NextAttribution, TypeCorrect, PTL DEF LedgerSpec

-----------------------------------------------------------------------------
(* The books.                                                              *)

Core == LedgerTypeOK /\ AllocationsExact

\* The rows of the tables, as their columns allow them.
OrderRows  == { row \in OrderRow : Exact(row) } \cup {None}
PayoutRows == PayoutRow \cup {None}

LEMMA CoreRows ==
  ASSUME Core
  PROVE  order \in [Orders -> OrderRows] /\ payout \in [Payouts -> PayoutRows]
BY DEF Core, LedgerTypeOK, AllocationsExact, OrderRows, PayoutRows, Exact

\* What remains of a share is a natural number, and not more than the share.
LEMMA NetNat ==
  ASSUME NEW row \in OrderRow, Exact(row)
  PROVE  /\ Net(row) \in [Slot -> Nat]
         /\ \A s \in Slot : Net(row)[s] = row.original[s] - row.returned[s]
         /\ \A s \in Slot : Net(row)[s] <= row.original[s]
<1>1. /\ row.original \in Shares /\ row.refunded \in 0..SumOf(row.original)
      /\ row.returned = CumulativeRefund(row.original, row.refunded)
      /\ \A s \in Slot : row.original[s] \in Nat /\ row.returned[s] \in Nat
  BY DEF Exact, OrderRow, Shares
<1>2. \A s \in Slot : row.returned[s] <= row.original[s]
  BY <1>1, RefundExact
<1> QED
  BY <1>1, <1>2 DEF Net

\* A larger amount in each slot is worth no less to an account.
LEMMA PayToMonotone ==
  ASSUME NEW payee, NEW x \in [Slot -> Nat], NEW y \in [Slot -> Nat], NEW a,
         \A s \in Slot : x[s] <= y[s]
  PROVE  PayTo(payee, x, a) <= PayTo(payee, y, a)
<1>1. \A s \in Slot : /\ At(a, payee[s], x[s]) <= At(a, payee[s], y[s])
                     /\ At(a, payee[s], x[s]) \in Int
                     /\ At(a, payee[s], y[s]) \in Int
  BY DEF At
<1> QED
  BY <1>1 DEF PayTo, SumOf, Slot, Direct, Indirect, Platform, Merchant

\* What the rows are worth is a natural number.
LEMMA OrderWorth ==
  ASSUME NEW row \in OrderRows, NEW a
  PROVE  /\ Frozen(a, row) \in Nat /\ Thawed(a, row) \in Nat
         /\ Earned(a, row) \in Nat
         /\ Thawed(a, row) <= Earned(a, row)
         /\ Received(row) \in Nat
<1>1. CASE row = None
  BY <1>1 DEF Frozen, Thawed, Earned, Received
<1>2. CASE row # None
  <2>1. row \in OrderRow /\ Exact(row)
    BY <1>2 DEF OrderRows
  <2>2. /\ Net(row) \in [Slot -> Nat] /\ row.original \in [Slot -> Nat]
        /\ \A s \in Slot : Net(row)[s] <= row.original[s]
    BY <2>1, NetNat DEF OrderRow
  <2>3. /\ PayTo(row.payee, Net(row), a) \in Nat
        /\ PayTo(row.payee, row.original, a) \in Nat
        /\ PayTo(row.payee, Net(row), a) <= PayTo(row.payee, row.original, a)
    BY <2>2, PayToNat, PayToMonotone
  <2>4. row.paid - row.refunded \in Nat
    BY <2>1 DEF Exact, OrderRow
  <2> QED
    BY <1>2, <2>3, <2>4 DEF Frozen, Thawed, Earned, Received
<1> QED
  BY <1>1, <1>2

LEMMA PayoutWorth ==
  ASSUME NEW row \in PayoutRows, NEW a, NEW statuses
  PROVE  Drawn(a, row, statuses) \in Nat /\ PaidOut(row) \in Nat
BY DEF PayoutRows, PayoutRow, Drawn, PaidOut, At

(***************************************************************************)
(* The totals over a table in which one row has changed.                   *)
(***************************************************************************)
LEMMA OrderTotals ==
  ASSUME NEW old \in [Orders -> OrderRows], NEW new \in [Orders -> OrderRows],
         NEW o \in Orders, \A x \in Orders \ {o} : new[x] = old[x], NEW a
  PROVE
         /\ Total(Orders, [x \in Orders |-> Frozen(a, old[x])]) \in Nat
         /\ Total(Orders, [x \in Orders |-> Frozen(a, new[x])])
            = Total(Orders, [x \in Orders |-> Frozen(a, old[x])])
              - Frozen(a, old[o]) + Frozen(a, new[o])
         /\ Total(Orders, [x \in Orders |-> Thawed(a, old[x])]) \in Nat
         /\ Total(Orders, [x \in Orders |-> Thawed(a, new[x])])
            = Total(Orders, [x \in Orders |-> Thawed(a, old[x])])
              - Thawed(a, old[o]) + Thawed(a, new[o])
         /\ Total(Orders, [x \in Orders |-> Received(old[x])]) \in Nat
         /\ Total(Orders, [x \in Orders |-> Received(new[x])])
            = Total(Orders, [x \in Orders |-> Received(old[x])])
              - Received(old[o]) + Received(new[o])
<1>0. IsFiniteSet(Orders)
  BY TableAssumption
<1>1. /\ Total(Orders, [x \in Orders |-> Frozen(a, old[x])]) \in Nat
     /\ Total(Orders, [x \in Orders |-> Frozen(a, new[x])])
        = Total(Orders, [x \in Orders |-> Frozen(a, old[x])])
          - Frozen(a, old[o]) + Frozen(a, new[o])
  <2> DEFINE f == [x \in Orders |-> Frozen(a, old[x])]
             g == [x \in Orders |-> Frozen(a, new[x])]
  <2>1. f \in [Orders -> Nat] /\ g \in [Orders -> Nat]
    BY OrderWorth
  <2>2. \A x \in Orders \ {o} : g[x] = f[x]
    OBVIOUS
  <2>3. f[o] = Frozen(a, old[o]) /\ g[o] = Frozen(a, new[o])
    OBVIOUS
  <2> HIDE DEF f, g
  <2>4. Total(Orders, f) \in Nat /\ Total(Orders, g) = Total(Orders, f) - f[o] + g[o]
    BY <1>0, <2>1, <2>2, TotalUpdate
  <2> QED
    BY <2>3, <2>4 DEF f, g
<1>2. /\ Total(Orders, [x \in Orders |-> Thawed(a, old[x])]) \in Nat
     /\ Total(Orders, [x \in Orders |-> Thawed(a, new[x])])
        = Total(Orders, [x \in Orders |-> Thawed(a, old[x])])
          - Thawed(a, old[o]) + Thawed(a, new[o])
  <2> DEFINE f == [x \in Orders |-> Thawed(a, old[x])]
             g == [x \in Orders |-> Thawed(a, new[x])]
  <2>1. f \in [Orders -> Nat] /\ g \in [Orders -> Nat]
    BY OrderWorth
  <2>2. \A x \in Orders \ {o} : g[x] = f[x]
    OBVIOUS
  <2>3. f[o] = Thawed(a, old[o]) /\ g[o] = Thawed(a, new[o])
    OBVIOUS
  <2> HIDE DEF f, g
  <2>4. Total(Orders, f) \in Nat /\ Total(Orders, g) = Total(Orders, f) - f[o] + g[o]
    BY <1>0, <2>1, <2>2, TotalUpdate
  <2> QED
    BY <2>3, <2>4 DEF f, g
<1>3. /\ Total(Orders, [x \in Orders |-> Received(old[x])]) \in Nat
     /\ Total(Orders, [x \in Orders |-> Received(new[x])])
        = Total(Orders, [x \in Orders |-> Received(old[x])])
          - Received(old[o]) + Received(new[o])
  <2> DEFINE f == [x \in Orders |-> Received(old[x])]
             g == [x \in Orders |-> Received(new[x])]
  <2>1. f \in [Orders -> Nat] /\ g \in [Orders -> Nat]
    BY OrderWorth
  <2>2. \A x \in Orders \ {o} : g[x] = f[x]
    OBVIOUS
  <2>3. f[o] = Received(old[o]) /\ g[o] = Received(new[o])
    OBVIOUS
  <2> HIDE DEF f, g
  <2>4. Total(Orders, f) \in Nat /\ Total(Orders, g) = Total(Orders, f) - f[o] + g[o]
    BY <1>0, <2>1, <2>2, TotalUpdate
  <2> QED
    BY <2>3, <2>4 DEF f, g
<1> QED
  BY <1>1, <1>2, <1>3

LEMMA PayoutTotals ==
  ASSUME NEW old \in [Payouts -> PayoutRows], NEW new \in [Payouts -> PayoutRows],
         NEW p \in Payouts, \A x \in Payouts \ {p} : new[x] = old[x], NEW a
  PROVE
         /\ Total(Payouts, [x \in Payouts |-> Drawn(a, old[x], Open)]) \in Nat
         /\ Total(Payouts, [x \in Payouts |-> Drawn(a, new[x], Open)])
            = Total(Payouts, [x \in Payouts |-> Drawn(a, old[x], Open)])
              - Drawn(a, old[p], Open) + Drawn(a, new[p], Open)
         /\ Total(Payouts, [x \in Payouts |-> Drawn(a, old[x], Status \ Undone)]) \in Nat
         /\ Total(Payouts, [x \in Payouts |-> Drawn(a, new[x], Status \ Undone)])
            = Total(Payouts, [x \in Payouts |-> Drawn(a, old[x], Status \ Undone)])
              - Drawn(a, old[p], Status \ Undone) + Drawn(a, new[p], Status \ Undone)
         /\ Total(Payouts, [x \in Payouts |-> PaidOut(old[x])]) \in Nat
         /\ Total(Payouts, [x \in Payouts |-> PaidOut(new[x])])
            = Total(Payouts, [x \in Payouts |-> PaidOut(old[x])])
              - PaidOut(old[p]) + PaidOut(new[p])
<1>0. IsFiniteSet(Payouts)
  BY TableAssumption
<1>1. /\ Total(Payouts, [x \in Payouts |-> Drawn(a, old[x], Open)]) \in Nat
     /\ Total(Payouts, [x \in Payouts |-> Drawn(a, new[x], Open)])
        = Total(Payouts, [x \in Payouts |-> Drawn(a, old[x], Open)])
          - Drawn(a, old[p], Open) + Drawn(a, new[p], Open)
  <2> DEFINE f == [x \in Payouts |-> Drawn(a, old[x], Open)]
             g == [x \in Payouts |-> Drawn(a, new[x], Open)]
  <2>1. f \in [Payouts -> Nat] /\ g \in [Payouts -> Nat]
    BY PayoutWorth
  <2>2. \A x \in Payouts \ {p} : g[x] = f[x]
    OBVIOUS
  <2>3. f[p] = Drawn(a, old[p], Open) /\ g[p] = Drawn(a, new[p], Open)
    OBVIOUS
  <2> HIDE DEF f, g
  <2>4. Total(Payouts, f) \in Nat /\ Total(Payouts, g) = Total(Payouts, f) - f[p] + g[p]
    BY <1>0, <2>1, <2>2, TotalUpdate
  <2> QED
    BY <2>3, <2>4 DEF f, g
<1>2. /\ Total(Payouts, [x \in Payouts |-> Drawn(a, old[x], Status \ Undone)]) \in Nat
     /\ Total(Payouts, [x \in Payouts |-> Drawn(a, new[x], Status \ Undone)])
        = Total(Payouts, [x \in Payouts |-> Drawn(a, old[x], Status \ Undone)])
          - Drawn(a, old[p], Status \ Undone) + Drawn(a, new[p], Status \ Undone)
  <2> DEFINE f == [x \in Payouts |-> Drawn(a, old[x], Status \ Undone)]
             g == [x \in Payouts |-> Drawn(a, new[x], Status \ Undone)]
  <2>1. f \in [Payouts -> Nat] /\ g \in [Payouts -> Nat]
    BY PayoutWorth
  <2>2. \A x \in Payouts \ {p} : g[x] = f[x]
    OBVIOUS
  <2>3. f[p] = Drawn(a, old[p], Status \ Undone) /\ g[p] = Drawn(a, new[p], Status \ Undone)
    OBVIOUS
  <2> HIDE DEF f, g
  <2>4. Total(Payouts, f) \in Nat /\ Total(Payouts, g) = Total(Payouts, f) - f[p] + g[p]
    BY <1>0, <2>1, <2>2, TotalUpdate
  <2> QED
    BY <2>3, <2>4 DEF f, g
<1>3. /\ Total(Payouts, [x \in Payouts |-> PaidOut(old[x])]) \in Nat
     /\ Total(Payouts, [x \in Payouts |-> PaidOut(new[x])])
        = Total(Payouts, [x \in Payouts |-> PaidOut(old[x])])
          - PaidOut(old[p]) + PaidOut(new[p])
  <2> DEFINE f == [x \in Payouts |-> PaidOut(old[x])]
             g == [x \in Payouts |-> PaidOut(new[x])]
  <2>1. f \in [Payouts -> Nat] /\ g \in [Payouts -> Nat]
    BY PayoutWorth
  <2>2. \A x \in Payouts \ {p} : g[x] = f[x]
    OBVIOUS
  <2>3. f[p] = PaidOut(old[p]) /\ g[p] = PaidOut(new[p])
    OBVIOUS
  <2> HIDE DEF f, g
  <2>4. Total(Payouts, f) \in Nat /\ Total(Payouts, g) = Total(Payouts, f) - f[p] + g[p]
    BY <1>0, <2>1, <2>2, TotalUpdate
  <2> QED
    BY <2>3, <2>4 DEF f, g
<1> QED
  BY <1>1, <1>2, <1>3

-----------------------------------------------------------------------------
(***************************************************************************)
(* A posting keeps the books if it is the difference of the order row.     *)
(***************************************************************************)
LEMMA OrderPosting ==
  ASSUME Core, Core', Books, NEW o \in Orders, NEW p,
         \A x \in Orders \ {o} : order'[x] = order[x],
         UNCHANGED payout,
         wallet' = Posted(p),
         \A a \in Account :
            /\ p.frozen[a] = Frozen(a, order'[o]) - Frozen(a, order[o])
            /\ p.reserved[a] = 0
            /\ p.available[a] =
                  Thawed(a, order'[o]) - Thawed(a, order[o])
                  - At(a, Clearing, Received(order'[o]) - Received(order[o]))
  PROVE  Books'
<1>0. order \in [Orders -> OrderRows] /\ order' \in [Orders -> OrderRows]
  <2>1. order \in [Orders -> OrderRows]
    BY CoreRows
  <2>2. order' \in [Orders -> OrderRows]
    BY DEF Core, LedgerTypeOK, AllocationsExact, OrderRows, Exact
  <2> QED
    BY <2>1, <2>2
<1> SUFFICES ASSUME NEW a \in Account
             PROVE  /\ wallet'[a].frozen = TotalFrozen(a)'
                    /\ wallet'[a].reserved = TotalDrawn(a, Open)'
                    /\ wallet'[a].available =
                          TotalThawed(a)' - TotalDrawn(a, Status \ Undone)'
                          + At(a, Clearing, TotalPaidOut' - TotalReceived')
  BY DEF Books, At
<1>1. /\ TotalFrozen(a)' = TotalFrozen(a) - Frozen(a, order[o])
                                + Frozen(a, order'[o])
      /\ TotalThawed(a)' = TotalThawed(a) - Thawed(a, order[o])
                               + Thawed(a, order'[o])
      /\ TotalReceived' = TotalReceived - Received(order[o]) + Received(order'[o])
      /\ TotalFrozen(a) \in Nat /\ TotalThawed(a) \in Nat
      /\ TotalReceived \in Nat
  BY <1>0, OrderTotals DEF TotalFrozen, TotalThawed, TotalReceived
<1>2. /\ TotalDrawn(a, Open)' = TotalDrawn(a, Open)
      /\ TotalDrawn(a, Status \ Undone)' = TotalDrawn(a, Status \ Undone)
      /\ TotalPaidOut' = TotalPaidOut
  BY DEF TotalDrawn, TotalPaidOut
<1>3. /\ TotalDrawn(a, Open) \in Int /\ TotalDrawn(a, Status \ Undone) \in Int
      /\ TotalPaidOut \in Int
  <2> DEFINE fo == [x \in Payouts |-> Drawn(a, payout[x], Open)]
             fd == [x \in Payouts |-> Drawn(a, payout[x], Status \ Undone)]
             fp == [x \in Payouts |-> PaidOut(payout[x])]
  <2>1. /\ fo \in [Payouts -> Nat] /\ fd \in [Payouts -> Nat]
        /\ fp \in [Payouts -> Nat]
    BY CoreRows, PayoutWorth
  <2>2. /\ IsFiniteSet(Units(Payouts, fo)) /\ IsFiniteSet(Units(Payouts, fd))
        /\ IsFiniteSet(Units(Payouts, fp))
    BY <2>1, TableAssumption, UnitsFinite
  <2> QED
    BY <2>2, FS_CardinalityType DEF TotalDrawn, TotalPaidOut, Total
<1>4. /\ wallet'[a].frozen = wallet[a].frozen + p.frozen[a]
      /\ wallet'[a].available = wallet[a].available + p.available[a]
      /\ wallet'[a].reserved = wallet[a].reserved + p.reserved[a]
  BY DEF Posted
<1>a. /\ p.frozen[a] = Frozen(a, order'[o]) - Frozen(a, order[o])
      /\ p.reserved[a] = 0
      /\ p.available[a] =
            Thawed(a, order'[o]) - Thawed(a, order[o])
            - At(a, Clearing, Received(order'[o]) - Received(order[o]))
  OBVIOUS
<1>5. /\ Frozen(a, order[o]) \in Nat /\ Frozen(a, order'[o]) \in Nat
      /\ Thawed(a, order[o]) \in Nat /\ Thawed(a, order'[o]) \in Nat
      /\ Received(order[o]) \in Nat /\ Received(order'[o]) \in Nat
  BY <1>0, OrderWorth
<1>6. /\ wallet[a].frozen = TotalFrozen(a)
      /\ wallet[a].reserved = TotalDrawn(a, Open)
      /\ wallet[a].available =
            TotalThawed(a) - TotalDrawn(a, Status \ Undone)
            + At(a, Clearing, TotalPaidOut - TotalReceived)
  BY DEF Books
<1>7. wallet'[a].frozen = TotalFrozen(a)'
  BY <1>1, <1>4, <1>5, <1>6, <1>a
<1>8. wallet'[a].reserved = TotalDrawn(a, Open)'
  BY <1>2, <1>3, <1>4, <1>6, <1>a
<1>9. wallet'[a].available =
         TotalThawed(a)' - TotalDrawn(a, Status \ Undone)'
         + At(a, Clearing, TotalPaidOut' - TotalReceived')
  BY <1>1, <1>2, <1>3, <1>4, <1>5, <1>6, <1>a DEF At
<1> QED
  BY <1>7, <1>8, <1>9

\* And if it is the difference of the payout row.
LEMMA PayoutPosting ==
  ASSUME Core, Core', Books, NEW w \in Payouts, NEW p,
         \A x \in Payouts \ {w} : payout'[x] = payout[x],
         UNCHANGED order,
         wallet' = Posted(p),
         \A a \in Account :
            /\ p.frozen[a] = 0
            /\ p.reserved[a] = Drawn(a, payout'[w], Open) - Drawn(a, payout[w], Open)
            /\ p.available[a] =
                  Drawn(a, payout[w], Status \ Undone)
                  - Drawn(a, payout'[w], Status \ Undone)
                  + At(a, Clearing, PaidOut(payout'[w]) - PaidOut(payout[w]))
  PROVE  Books'
<1>0. payout \in [Payouts -> PayoutRows] /\ payout' \in [Payouts -> PayoutRows]
  BY DEF Core, LedgerTypeOK, PayoutRows
<1> SUFFICES ASSUME NEW a \in Account
             PROVE  /\ wallet'[a].frozen = TotalFrozen(a)'
                    /\ wallet'[a].reserved = TotalDrawn(a, Open)'
                    /\ wallet'[a].available =
                          TotalThawed(a)' - TotalDrawn(a, Status \ Undone)'
                          + At(a, Clearing, TotalPaidOut' - TotalReceived')
  BY DEF Books, At
<1>1. /\ TotalDrawn(a, Open)' = TotalDrawn(a, Open) - Drawn(a, payout[w], Open)
                                + Drawn(a, payout'[w], Open)
      /\ TotalDrawn(a, Status \ Undone)' =
            TotalDrawn(a, Status \ Undone) - Drawn(a, payout[w], Status \ Undone)
            + Drawn(a, payout'[w], Status \ Undone)
      /\ TotalPaidOut' = TotalPaidOut - PaidOut(payout[w]) + PaidOut(payout'[w])
      /\ TotalDrawn(a, Open) \in Nat /\ TotalDrawn(a, Status \ Undone) \in Nat
      /\ TotalPaidOut \in Nat
  <2>1. TotalDrawn(a, Open) = Total(Payouts, [x \in Payouts |-> Drawn(a, payout[x], Open)])
    BY DEF TotalDrawn
  <2>2. TotalDrawn(a, Open)' = Total(Payouts, [x \in Payouts |-> Drawn(a, payout'[x], Open)])
    BY DEF TotalDrawn
  <2>3. TotalDrawn(a, Status \ Undone)
           = Total(Payouts, [x \in Payouts |-> Drawn(a, payout[x], Status \ Undone)])
    BY DEF TotalDrawn
  <2>4. TotalDrawn(a, Status \ Undone)'
           = Total(Payouts, [x \in Payouts |-> Drawn(a, payout'[x], Status \ Undone)])
    BY DEF TotalDrawn
  <2>5. /\ TotalPaidOut = Total(Payouts, [x \in Payouts |-> PaidOut(payout[x])])
        /\ TotalPaidOut' = Total(Payouts, [x \in Payouts |-> PaidOut(payout'[x])])
    BY DEF TotalPaidOut
  <2>6. /\ Total(Payouts, [x \in Payouts |-> Drawn(a, payout[x], Open)]) \in Nat
        /\ Total(Payouts, [x \in Payouts |-> Drawn(a, payout'[x], Open)])
           = Total(Payouts, [x \in Payouts |-> Drawn(a, payout[x], Open)])
             - Drawn(a, payout[w], Open) + Drawn(a, payout'[w], Open)
    BY <1>0, PayoutTotals
  <2>7. /\ Total(Payouts, [x \in Payouts |-> Drawn(a, payout[x], Status \ Undone)]) \in Nat
        /\ Total(Payouts, [x \in Payouts |-> Drawn(a, payout'[x], Status \ Undone)])
           = Total(Payouts, [x \in Payouts |-> Drawn(a, payout[x], Status \ Undone)])
             - Drawn(a, payout[w], Status \ Undone) + Drawn(a, payout'[w], Status \ Undone)
    BY <1>0, PayoutTotals
  <2>8. /\ Total(Payouts, [x \in Payouts |-> PaidOut(payout[x])]) \in Nat
        /\ Total(Payouts, [x \in Payouts |-> PaidOut(payout'[x])])
           = Total(Payouts, [x \in Payouts |-> PaidOut(payout[x])])
             - PaidOut(payout[w]) + PaidOut(payout'[w])
    BY <1>0, PayoutTotals
  <2> QED
    BY <2>1, <2>2, <2>3, <2>4, <2>5, <2>6, <2>7, <2>8
<1>2. /\ TotalFrozen(a)' = TotalFrozen(a)
      /\ TotalThawed(a)' = TotalThawed(a)
      /\ TotalReceived' = TotalReceived
  BY DEF TotalFrozen, TotalThawed, TotalReceived
<1>3. /\ TotalFrozen(a) \in Int /\ TotalThawed(a) \in Int
      /\ TotalReceived \in Int
  <2> DEFINE ff == [x \in Orders |-> Frozen(a, order[x])]
             ft == [x \in Orders |-> Thawed(a, order[x])]
             fr == [x \in Orders |-> Received(order[x])]
  <2>1. /\ ff \in [Orders -> Nat] /\ ft \in [Orders -> Nat]
        /\ fr \in [Orders -> Nat]
    BY CoreRows, OrderWorth
  <2>2. /\ IsFiniteSet(Units(Orders, ff)) /\ IsFiniteSet(Units(Orders, ft))
        /\ IsFiniteSet(Units(Orders, fr))
    BY <2>1, TableAssumption, UnitsFinite
  <2> QED
    BY <2>2, FS_CardinalityType DEF TotalFrozen, TotalThawed, TotalReceived, Total
<1>4. /\ wallet'[a].frozen = wallet[a].frozen + p.frozen[a]
      /\ wallet'[a].available = wallet[a].available + p.available[a]
      /\ wallet'[a].reserved = wallet[a].reserved + p.reserved[a]
  BY DEF Posted
<1>a. /\ p.frozen[a] = 0
      /\ p.reserved[a] = Drawn(a, payout'[w], Open) - Drawn(a, payout[w], Open)
      /\ p.available[a] =
            Drawn(a, payout[w], Status \ Undone)
            - Drawn(a, payout'[w], Status \ Undone)
            + At(a, Clearing, PaidOut(payout'[w]) - PaidOut(payout[w]))
  OBVIOUS
<1>5. /\ Drawn(a, payout[w], Open) \in Nat /\ Drawn(a, payout'[w], Open) \in Nat
      /\ Drawn(a, payout[w], Status \ Undone) \in Nat
      /\ Drawn(a, payout'[w], Status \ Undone) \in Nat
      /\ PaidOut(payout[w]) \in Nat /\ PaidOut(payout'[w]) \in Nat
  BY <1>0, PayoutWorth
<1>6. /\ wallet[a].frozen = TotalFrozen(a)
      /\ wallet[a].reserved = TotalDrawn(a, Open)
      /\ wallet[a].available =
            TotalThawed(a) - TotalDrawn(a, Status \ Undone)
            + At(a, Clearing, TotalPaidOut - TotalReceived)
  BY DEF Books
<1>7. wallet'[a].frozen = TotalFrozen(a)'
  BY <1>2, <1>3, <1>4, <1>6, <1>a
<1>8. wallet'[a].reserved = TotalDrawn(a, Open)'
  BY <1>1, <1>4, <1>5, <1>6, <1>a
<1>9. wallet'[a].available =
         TotalThawed(a)' - TotalDrawn(a, Status \ Undone)'
         + At(a, Clearing, TotalPaidOut' - TotalReceived')
  BY <1>1, <1>2, <1>3, <1>4, <1>5, <1>6, <1>a DEF At
<1> QED
  BY <1>7, <1>8, <1>9

-----------------------------------------------------------------------------
\* capture: the new row is frozen in full, and the clearing account owes it.
LEMMA BooksCapture ==
  ASSUME Core, Core', Books, NEW r \in Requests, Capture(r)
  PROVE  Books'
<1> DEFINE row == NewOrder(r, Referrer(r.customer))
           p == CapturePosting(row)
<1>1. r.order \in Orders
  BY RequestFields DEF Capture
<1>2. /\ order[r.order] = None /\ order'[r.order] = row
      /\ \A x \in Orders \ {r.order} : order'[x] = order[x]
      /\ UNCHANGED payout /\ wallet' = Posted(p)
  BY <1>1 DEF Capture, InsertOrder, Post, Core, LedgerTypeOK
<1>3. row \in OrderRow /\ row # None
  <2>1. order'[r.order] \in OrderRow \cup {None}
    BY <1>1 DEF Core, LedgerTypeOK
  <2>2. row # None
    <3>1. Referrer(r.customer) \in Promoters \cup {None}
      BY RequestFields DEF Referrer, Core, LedgerTypeOK, Capture
    <3>2. row \in OrderRow
      BY <3>1, NewOrderExact DEF Capture
    <3> QED
      BY <3>2, TableAssumption
  <2> QED
    BY <1>2, <2>1, <2>2
<1>4. /\ row.released = FALSE /\ row.refunded = 0
      /\ row.returned = [s \in Slot |-> 0]
  BY DEF NewOrder
<1>5. row.original \in [Slot -> Nat] /\ row.paid \in Nat
  BY <1>3 DEF OrderRow
<1> HIDE DEF row
<1>6. Net(row) = row.original
  BY <1>4, <1>5 DEF Net
<1>7. \A a \in Account :
         /\ p.frozen[a] = PayTo(row.payee, row.original, a)
         /\ p.reserved[a] = 0
         /\ p.available[a] = - At(a, Clearing, row.paid)
  BY DEF CapturePosting, NoChange
<1>8. \A a \in Account : PayTo(row.payee, row.original, a) \in Nat
  BY <1>5, PayToNat
<1>9. /\ Received(order[r.order]) = 0 /\ Received(order'[r.order]) = row.paid
      /\ \A a \in Account :
            /\ Frozen(a, order[r.order]) = 0 /\ Thawed(a, order[r.order]) = 0
            /\ Frozen(a, order'[r.order]) = PayTo(row.payee, row.original, a)
            /\ Thawed(a, order'[r.order]) = 0
  BY <1>2, <1>3, <1>4, <1>5, <1>6 DEF Received, Frozen, Thawed
<1> HIDE DEF p
<1>10. \A a \in Account :
          /\ p.frozen[a] = Frozen(a, order'[r.order]) - Frozen(a, order[r.order])
          /\ p.reserved[a] = 0
          /\ p.available[a] =
                Thawed(a, order'[r.order]) - Thawed(a, order[r.order])
                - At(a, Clearing, Received(order'[r.order]) - Received(order[r.order]))
  BY <1>5, <1>7, <1>8, <1>9 DEF At
<1> QED
  BY <1>1, <1>2, <1>10, OrderPosting

\* refund: what the slots give back leaves the bucket their shares are in.
LEMMA BooksRefund ==
  ASSUME Core, Core', Books, NEW r \in Requests, Refund(r)
  PROVE  Books'
<1> DEFINE row == order[r.order]
           next == [row EXCEPT !.refunded = row.refunded + r.amount,
                               !.returned = Targets(r, row)]
           delta == Deltas(r, row)
           p == RefundPosting(row, delta, r.amount)
<1>1. r.order \in Orders /\ r.op = "refund" /\ row # None
  BY RequestFields DEF Refund
<1>2. row \in OrderRow /\ Exact(row)
  BY <1>1 DEF Core, LedgerTypeOK, AllocationsExact, Exact
<1>3. /\ order'[r.order] = next
      /\ \A x \in Orders \ {r.order} : order'[x] = order[x]
      /\ UNCHANGED payout /\ wallet' = Posted(p)
  BY <1>1 DEF Refund, InsertRefund, Post, Core, LedgerTypeOK
<1>4. /\ next \in OrderRow /\ Exact(next) /\ Targets(r, row) \in Shares
      /\ r.amount \in Nat
  BY <1>1, <1>2, RefundedExact DEF Refund
<1>5. /\ next.payee = row.payee /\ next.released = row.released
      /\ next.original = row.original /\ next.paid = row.paid
      /\ next.returned = Targets(r, row)
      /\ next.refunded = row.refunded + r.amount
      /\ next # None
  BY <1>2, <1>4, TableAssumption DEF OrderRow
<1> HIDE DEF next, row
<1>6. delta \in [Slot -> Int] /\ \A s \in Slot : delta[s] = Net(row)[s] - Net(next)[s]
  <2>1. \A s \in Slot : /\ row.original[s] \in Nat /\ row.returned[s] \in Nat
                        /\ Targets(r, row)[s] \in Nat
    BY <1>2, <1>4 DEF OrderRow, Shares
  <2>2. \A s \in Slot : delta[s] = Targets(r, row)[s] - row.returned[s]
    BY DEF Deltas
  <2>3. \A s \in Slot : /\ Net(row)[s] = row.original[s] - row.returned[s]
                        /\ Net(next)[s] = row.original[s] - Targets(r, row)[s]
    BY <1>5 DEF Net
  <2>4. delta = [s \in Slot |-> Targets(r, row)[s] - row.returned[s]]
    BY DEF Deltas
  <2> HIDE DEF delta
  <2> QED
    BY <2>1, <2>2, <2>3, <2>4
<1>7. Net(row) \in [Slot -> Nat] /\ Net(next) \in [Slot -> Nat]
  BY <1>2, <1>4, NetNat
<1> HIDE DEF delta
<1>8. \A a \in Account :
         /\ PayTo(row.payee, delta, a)
            = PayTo(row.payee, Net(row), a) - PayTo(row.payee, Net(next), a)
         /\ PayTo(row.payee, Net(row), a) \in Nat
         /\ PayTo(row.payee, Net(next), a) \in Nat
         /\ PayTo(row.payee, delta, a) \in Int
  BY <1>6, <1>7, PayToMinus, PayToNat, PayToInt
<1>9. \A a \in Account :
         /\ p.frozen[a] = IF row.released THEN 0 ELSE - PayTo(row.payee, delta, a)
         /\ p.reserved[a] = 0
         /\ p.available[a] = At(a, Clearing, r.amount)
               - (IF row.released THEN PayTo(row.payee, delta, a) ELSE 0)
  BY DEF RefundPosting, NoChange
<1>10. Received(next) - Received(row) = - r.amount
  BY <1>1, <1>2, <1>4, <1>5 DEF Received, OrderRow, row
<1>11. \A a \in Account :
          /\ Frozen(a, row)  = IF row.released THEN 0 ELSE PayTo(row.payee, Net(row), a)
          /\ Frozen(a, next) = IF row.released THEN 0 ELSE PayTo(row.payee, Net(next), a)
          /\ Thawed(a, row)  = IF row.released THEN PayTo(row.payee, Net(row), a) ELSE 0
          /\ Thawed(a, next) = IF row.released THEN PayTo(row.payee, Net(next), a) ELSE 0
  BY <1>1, <1>5 DEF Frozen, Thawed
<1> HIDE DEF p
<1>12. \A a \in Account :
          /\ p.frozen[a] = Frozen(a, next) - Frozen(a, row)
          /\ p.reserved[a] = 0
          /\ p.available[a] = Thawed(a, next) - Thawed(a, row)
                - At(a, Clearing, Received(next) - Received(row))
  <2> SUFFICES ASSUME NEW a \in Account
               PROVE  /\ p.frozen[a] = Frozen(a, next) - Frozen(a, row)
                      /\ p.reserved[a] = 0
                      /\ p.available[a] = Thawed(a, next) - Thawed(a, row)
                            - At(a, Clearing, Received(next) - Received(row))
    OBVIOUS
  <2>1. CASE row.released
    BY <1>4, <1>8, <1>9, <1>10, <1>11, <2>1 DEF At
  <2>2. CASE ~ row.released
    BY <1>4, <1>8, <1>9, <1>10, <1>11, <2>2 DEF At
  <2> QED
    BY <2>1, <2>2
<1> QED
  BY <1>1, <1>3, <1>12, OrderPosting DEF row

\* release: the net shares move from frozen to available.
LEMMA BooksRelease ==
  ASSUME Core, Core', Books, NEW o \in Orders, order[o] # None,
         ~ order[o].released, ReleaseRow(o, order[o]), UNCHANGED payout
  PROVE  Books'
<1> DEFINE row == order[o]
           next == [row EXCEPT !.released = TRUE]
           p == ReleasePosting(row)
<1>1. row \in OrderRow /\ Exact(row)
  BY DEF Core, LedgerTypeOK, AllocationsExact, Exact
<1>2. /\ order'[o] = next
      /\ \A x \in Orders \ {o} : order'[x] = order[x]
      /\ wallet' = Posted(p)
  BY DEF ReleaseRow, Post, Core, LedgerTypeOK
<1>3. /\ next.payee = row.payee /\ next.released = TRUE
      /\ next.original = row.original /\ next.returned = row.returned
      /\ next.paid = row.paid /\ next.refunded = row.refunded
      /\ next \in OrderRow
  BY <1>1 DEF OrderRow
<1>4. next # None
  BY <1>3, TableAssumption
<1> HIDE DEF next
<1>5. Net(next) = Net(row)
  BY <1>3 DEF Net
<1>6. \A a \in Account : PayTo(row.payee, Net(row), a) \in Nat
  BY <1>1, NetNat, PayToNat
<1>7. \A a \in Account :
         /\ p.frozen[a] = - PayTo(row.payee, Net(row), a)
         /\ p.reserved[a] = 0
         /\ p.available[a] = PayTo(row.payee, Net(row), a)
  BY DEF ReleasePosting, NoChange
<1>8. /\ Received(next) = Received(row) /\ Received(row) \in Nat
      /\ \A a \in Account :
            /\ Frozen(a, row) = PayTo(row.payee, Net(row), a) /\ Thawed(a, row) = 0
            /\ Frozen(a, next) = 0 /\ Thawed(a, next) = PayTo(row.payee, Net(row), a)
  <2>1. Received(next) = Received(row) /\ Received(row) \in Nat
    BY <1>1, <1>3, <1>4 DEF Received, OrderRow, Exact
  <2> QED
    BY <1>3, <1>4, <1>5, <2>1 DEF Frozen, Thawed
<1> HIDE DEF p
<1>9. \A a \in Account :
         /\ p.frozen[a] = Frozen(a, next) - Frozen(a, row)
         /\ p.reserved[a] = 0
         /\ p.available[a] = Thawed(a, next) - Thawed(a, row)
               - At(a, Clearing, Received(next) - Received(row))
  BY <1>6, <1>7, <1>8 DEF At
<1> QED
  BY <1>2, <1>9, OrderPosting

(***************************************************************************)
(* The payout steps.  Each replaces one row by one with the same account   *)
(* and amount and another status, so what it must post follows from the    *)
(* two statuses.                                                           *)
(***************************************************************************)
LEMMA MinusZero ==
  ASSUME NEW x \in Int, x = 0
  PROVE  - x = 0
<1> DEFINE y == - x
<1> HIDE DEF y
<1>1. x + y = 0 /\ y \in Int
  BY DEF y
<1>2. y = 0
  BY <1>1
<1> QED
  BY <1>2 DEF y

LEMMA DrawnRow ==
  ASSUME NEW row \in PayoutRow, NEW a, NEW statuses
  PROVE  /\ row # None
         /\ row.status \in statuses => Drawn(a, row, statuses) = At(a, row.account, row.amount)
         /\ row.status \notin statuses => Drawn(a, row, statuses) = 0
         /\ row.status = "succeeded" => PaidOut(row) = row.amount
         /\ row.status # "succeeded" => PaidOut(row) = 0
         /\ row.amount \in Nat /\ row.account \in Account /\ row.account # Clearing
BY TableAssumption, Accounts DEF PayoutRow, Drawn, PaidOut, Payee

\* payouts::request: available funds become reserved with the new row.
LEMMA BooksRequest ==
  ASSUME Core, Core', Books, NEW r \in Requests, RequestPayout(r)
  PROVE  Books'
<1> DEFINE row == payout'[r.payout]
           p == ReservePosting(r.account, r.account, r.amount)
<1>1. /\ r.payout \in Payouts /\ r.account \in Payee /\ r.amount \in Nat
      /\ r.actor \in Actors
  BY RequestFields DEF RequestPayout, Funded, Positive, Payee
<1>2. /\ payout[r.payout] = None
      /\ \A x \in Payouts \ {r.payout} : payout'[x] = payout[x]
      /\ UNCHANGED order /\ wallet' = Posted(p)
  BY <1>1 DEF RequestPayout, InsertPayout, Post, Core, LedgerTypeOK
<1>3. row = [account |-> r.account, amount |-> r.amount,
             status |-> "requested", requester |-> r.actor,
             approver |-> None, reference |-> None]
  BY <1>1 DEF RequestPayout, InsertPayout, Core, LedgerTypeOK
<1>4. /\ row.account = r.account /\ row.amount = r.amount
      /\ row.status = "requested" /\ row \in PayoutRow
  BY <1>1, <1>3 DEF PayoutRow, Status, Open
<1> HIDE DEF row
<1>5. \A a \in Account :
         /\ Drawn(a, row, Open) = At(a, r.account, r.amount)
         /\ Drawn(a, row, Status \ Undone) = At(a, r.account, r.amount)
         /\ PaidOut(row) = 0
         /\ Drawn(a, payout[r.payout], Open) = 0
         /\ Drawn(a, payout[r.payout], Status \ Undone) = 0
         /\ PaidOut(payout[r.payout]) = 0
  <2>1. "requested" \in Open /\ "requested" \in Status \ Undone
    BY DEF Open, Status, Undone
  <2> QED
    BY <1>2, <1>4, <2>1, DrawnRow DEF Drawn, PaidOut
<1>6. \A a \in Account : /\ p.frozen[a] = 0
                        /\ p.reserved[a] = At(a, r.account, r.amount)
                        /\ p.available[a] = - At(a, r.account, r.amount)
  BY DEF ReservePosting, NoChange
<1> HIDE DEF p
<1>7. \A a \in Account :
         /\ p.frozen[a] = 0
         /\ p.reserved[a] = Drawn(a, row, Open) - Drawn(a, payout[r.payout], Open)
         /\ p.available[a] =
               Drawn(a, payout[r.payout], Status \ Undone)
               - Drawn(a, row, Status \ Undone)
               + At(a, Clearing, PaidOut(row) - PaidOut(payout[r.payout]))
  <2> SUFFICES ASSUME NEW a \in Account
               PROVE  /\ p.frozen[a] = 0
                      /\ p.reserved[a] = Drawn(a, row, Open) - Drawn(a, payout[r.payout], Open)
                      /\ p.available[a] =
                            Drawn(a, payout[r.payout], Status \ Undone)
                            - Drawn(a, row, Status \ Undone)
                            + At(a, Clearing, PaidOut(row) - PaidOut(payout[r.payout]))
    OBVIOUS
  <2> DEFINE amount == At(a, r.account, r.amount)
             settled == PaidOut(row) - PaidOut(payout[r.payout])
  <2>1. amount \in Nat
    BY <1>1 DEF At
  <2>2. settled = 0
    BY <1>5
  <2>3. At(a, Clearing, settled) = 0
    BY <2>2 DEF At
  <2>4. /\ p.frozen[a] = 0 /\ p.reserved[a] = amount /\ p.available[a] = - amount
        /\ Drawn(a, row, Open) = amount /\ Drawn(a, row, Status \ Undone) = amount
        /\ Drawn(a, payout[r.payout], Open) = 0
        /\ Drawn(a, payout[r.payout], Status \ Undone) = 0
    BY <1>5, <1>6
  <2> HIDE DEF amount, settled
  <2>5. /\ p.frozen[a] = 0
        /\ p.reserved[a] = Drawn(a, row, Open) - Drawn(a, payout[r.payout], Open)
        /\ p.available[a] =
              Drawn(a, payout[r.payout], Status \ Undone)
              - Drawn(a, row, Status \ Undone) + At(a, Clearing, settled)
    BY <2>1, <2>3, <2>4
  <2> QED
    BY <2>5 DEF settled
<1> QED
  BY <1>1, <1>2, <1>7, PayoutPosting DEF row

\* A change of status that posts `moved` from the reserve to the available
\* funds of `to` keeps the books when `moved` is what the status stops drawing.
LEMMA BooksStatus ==
  ASSUME Core, Core', Books, NEW w \in Payouts,
         payout[w] \in PayoutRow, payout'[w] \in PayoutRow,
         payout'[w].account = payout[w].account,
         payout'[w].amount = payout[w].amount,
         payout[w].status \in Open,
         \A x \in Payouts \ {w} : payout'[x] = payout[x],
         UNCHANGED order, NEW to, NEW moved \in Int,
         wallet' = Posted(ReservePosting(payout[w].account, to, moved)),
         \/ payout'[w].status \in Open /\ moved = 0
         \/ /\ payout'[w].status \in Undone
            /\ moved = - payout[w].amount /\ to = payout[w].account
         \/ /\ payout'[w].status = "succeeded"
            /\ moved = - payout[w].amount /\ to = Clearing
  PROVE  Books'
<1> DEFINE old == payout[w]
           row == payout'[w]
           p == ReservePosting(old.account, to, moved)
<1>1. \A a \in Account : /\ p.frozen[a] = 0
                        /\ p.reserved[a] = At(a, old.account, moved)
                        /\ p.available[a] = - At(a, to, moved)
  BY DEF ReservePosting, NoChange
<1>2. /\ old \in PayoutRow /\ row \in PayoutRow
      /\ old.amount \in Nat /\ old.account # Clearing
      /\ row.account = old.account /\ row.amount = old.amount
  BY DrawnRow
<1> HIDE DEF p, old, row
<1>3. \A a \in Account :
         /\ Drawn(a, old, Open) = At(a, old.account, old.amount)
         /\ Drawn(a, old, Status \ Undone) = At(a, old.account, old.amount)
         /\ PaidOut(old) = 0
  <2>1. /\ old.status \in Open /\ old.status \in Status \ Undone
        /\ old.status # "succeeded"
    BY DEF old, Open, Status, Undone
  <2> QED
    BY <1>2, <2>1, DrawnRow
<1>4. \A a \in Account :
         /\ p.frozen[a] = 0
         /\ p.reserved[a] = Drawn(a, row, Open) - Drawn(a, old, Open)
         /\ p.available[a] =
               Drawn(a, old, Status \ Undone) - Drawn(a, row, Status \ Undone)
               + At(a, Clearing, PaidOut(row) - PaidOut(old))
  <2> SUFFICES ASSUME NEW a \in Account
               PROVE  /\ p.frozen[a] = 0
                      /\ p.reserved[a] = Drawn(a, row, Open) - Drawn(a, old, Open)
                      /\ p.available[a] =
                            Drawn(a, old, Status \ Undone) - Drawn(a, row, Status \ Undone)
                            + At(a, Clearing, PaidOut(row) - PaidOut(old))
    OBVIOUS
  <2>0. /\ p.frozen[a] = 0 /\ p.reserved[a] = At(a, old.account, moved)
        /\ p.available[a] = - At(a, to, moved)
        /\ Drawn(a, old, Open) = At(a, old.account, old.amount)
        /\ Drawn(a, old, Status \ Undone) = At(a, old.account, old.amount)
        /\ PaidOut(old) = 0
    BY <1>1, <1>3
  <2>1. CASE row.status \in Open /\ moved = 0
    <3>1. row.status \in Status \ Undone /\ row.status # "succeeded"
      BY <2>1 DEF Open, Status, Undone
    <3>2. /\ Drawn(a, row, Open) = At(a, old.account, old.amount)
          /\ Drawn(a, row, Status \ Undone) = At(a, old.account, old.amount)
          /\ PaidOut(row) = 0
      BY <1>2, <2>1, <3>1, DrawnRow
    <3> QED
      BY <1>2, <2>0, <2>1, <3>2 DEF At
  <2>2. CASE row.status \in Undone /\ moved = - old.amount /\ to = old.account
    <3>1. /\ row.status \notin Open /\ row.status \notin Status \ Undone
          /\ row.status # "succeeded"
      BY <2>2 DEF Open, Status, Undone
    <3>2. /\ Drawn(a, row, Open) = 0
          /\ Drawn(a, row, Status \ Undone) = 0
          /\ PaidOut(row) = 0
      BY <1>2, <3>1, DrawnRow
    <3> QED
      BY <1>2, <2>0, <2>2, <3>2 DEF At
  <2>3. CASE row.status = "succeeded" /\ moved = - old.amount /\ to = Clearing
    <3>1. row.status \notin Open /\ row.status \in Status \ Undone
      BY <2>3 DEF Open, Status, Undone
    <3>2. /\ Drawn(a, row, Open) = 0
          /\ Drawn(a, row, Status \ Undone) = At(a, old.account, old.amount)
          /\ PaidOut(row) = old.amount
      BY <1>2, <2>3, <3>1, DrawnRow
    <3> QED
      BY <1>2, <2>0, <2>3, <3>2 DEF At
  <2> QED
    BY <2>1, <2>2, <2>3 DEF old, row
<1>5. wallet' = Posted(p)
  BY DEF p, old
<1> QED
  BY <1>4, <1>5, PayoutPosting DEF old, row

\* approve and processing move no money, reject gives the amount back.
LEMMA BooksReview ==
  ASSUME Core, Core', Books, NEW r \in Requests,
         Approve(r) \/ Processing(r) \/ Reject(r)
  PROVE  Books'
<1>1. /\ r.payout \in Payouts /\ payout[r.payout] # None
      /\ payout[r.payout] \in PayoutRow /\ r.actor \in Actors
      /\ payout[r.payout].amount \in Nat
  BY RequestFields, PayoutColumns DEF Approve, Processing, Reject, Core
<1>2. /\ \A x \in Payouts \ {r.payout} : payout'[x] = payout[x]
      /\ UNCHANGED order
      /\ payout'[r.payout].account = payout[r.payout].account
      /\ payout'[r.payout].amount = payout[r.payout].amount
      /\ payout[r.payout].status \in Open
  BY <1>1 DEF Approve, Processing, Reject, SetApproved, SetProcessing, SetRejected,
     Approvable, Processable, Rejectable, Core, LedgerTypeOK, PayoutRow, Open
<1>3. payout'[r.payout] \in PayoutRow
  BY <1>1 DEF Approve, Processing, Reject, SetApproved, SetProcessing, SetRejected,
     Core, LedgerTypeOK, PayoutRow, Status, Open, Undone
<1>4. CASE Reject(r)
  <2>1. /\ wallet' = Posted(ReservePosting(payout[r.payout].account,
                         payout[r.payout].account, - payout[r.payout].amount))
        /\ payout'[r.payout].status \in Undone
    BY <1>1, <1>4 DEF Reject, SetRejected, Post, Undone, Core, LedgerTypeOK, PayoutRow
  <2>2. - payout[r.payout].amount \in Int
    BY <1>1
  <2> QED
    BY <1>1, <1>2, <1>3, <2>1, <2>2, BooksStatus
<1>5. CASE Approve(r) \/ Processing(r)
  <2> DEFINE account == payout[r.payout].account
             p == ReservePosting(account, account, 0)
  <2>1. UNCHANGED wallet /\ payout'[r.payout].status \in Open
    BY <1>1, <1>5 DEF Approve, Processing, SetApproved, SetProcessing, Open,
       Core, LedgerTypeOK, PayoutRow
  <2>2. \A a \in Account : p.frozen[a] = 0 /\ p.available[a] = 0 /\ p.reserved[a] = 0
    <3>1. \A a \in Account : At(a, account, 0) = 0
      BY DEF At
    <3>2. p = [frozen    |-> NoChange,
               available |-> [a \in Account |-> - At(a, account, 0)],
               reserved  |-> [a \in Account |-> At(a, account, 0)]]
      BY DEF ReservePosting
    <3> QED
      BY <3>1, <3>2, MinusZero DEF NoChange
  <2> HIDE DEF p
  <2>3. wallet' = Posted(p)
    BY <2>1, <2>2 DEF Posted, Core, LedgerTypeOK
  <2> QED
    BY <1>1, <1>2, <1>3, <2>1, <2>3, BooksStatus DEF p
<1> QED
  BY <1>4, <1>5

\* outcome: paid to the clearing account, given back, or still reserved.
LEMMA BooksOutcome ==
  ASSUME Core, Core', Books, NEW r \in Requests, Outcome(r)
  PROVE  Books'
<1> DEFINE account == payout[r.payout].account
           moved == - payout[r.payout].amount
<1>1. /\ r.payout \in Payouts /\ payout[r.payout] # None
      /\ payout[r.payout] \in PayoutRow /\ payout[r.payout].amount \in Nat
      /\ r.status \in Outcomes /\ r.reference \in References \cup {None}
  BY RequestFields, PayoutColumns DEF Outcome, Core
<1>2. /\ \A x \in Payouts \ {r.payout} : payout'[x] = payout[x]
      /\ UNCHANGED order
      /\ payout'[r.payout].account = payout[r.payout].account
      /\ payout'[r.payout].amount = payout[r.payout].amount
      /\ payout'[r.payout].status = r.status
      /\ payout[r.payout].status \in Open
  BY <1>1 DEF Outcome, SetOutcome, Confirmable, Core, LedgerTypeOK, PayoutRow, Open
<1>3. payout'[r.payout] \in PayoutRow
  BY <1>1 DEF Outcome, SetOutcome, Core, LedgerTypeOK, PayoutRow, Status, Open,
     Undone, Outcomes
<1>4. moved \in Int
  BY <1>1
<1>5. CASE r.status = "succeeded"
  <2>1. wallet' = Posted(ReservePosting(account, Clearing, moved))
    BY <1>5 DEF Outcome, SetOutcome, Post
  <2> QED
    BY <1>1, <1>2, <1>3, <1>4, <1>5, <2>1, BooksStatus
<1>6. CASE r.status = "failed"
  <2>1. wallet' = Posted(ReservePosting(account, account, moved))
    BY <1>6 DEF Outcome, SetOutcome, Post
  <2>2. r.status \in Undone
    BY <1>6 DEF Undone
  <2> QED
    BY <1>1, <1>2, <1>3, <1>4, <2>1, <2>2, BooksStatus
<1>7. CASE r.status = "unknown"
  <2> DEFINE p == ReservePosting(account, account, 0)
  <2>1. UNCHANGED wallet /\ r.status \in Open
    BY <1>7 DEF Outcome, SetOutcome, Open
  <2>2. \A a \in Account : p.frozen[a] = 0 /\ p.available[a] = 0 /\ p.reserved[a] = 0
    <3>1. \A a \in Account : At(a, account, 0) = 0
      BY DEF At
    <3>2. p = [frozen    |-> NoChange,
               available |-> [a \in Account |-> - At(a, account, 0)],
               reserved  |-> [a \in Account |-> At(a, account, 0)]]
      BY DEF ReservePosting
    <3> QED
      BY <3>1, <3>2, MinusZero DEF NoChange
  <2> HIDE DEF p
  <2>3. wallet' = Posted(p)
    BY <2>1, <2>2 DEF Posted, Core, LedgerTypeOK
  <2> QED
    BY <1>1, <1>2, <1>3, <2>1, <2>3, BooksStatus DEF p
<1> QED
  BY <1>1, <1>5, <1>6, <1>7 DEF Outcomes

-----------------------------------------------------------------------------
LEMMA InitBooks == LedgerInit => Books
<1> SUFFICES ASSUME LedgerInit, NEW a \in Account
             PROVE  /\ wallet[a].frozen = TotalFrozen(a)
                    /\ wallet[a].reserved = TotalDrawn(a, Open)
                    /\ wallet[a].available =
                          TotalThawed(a) - TotalDrawn(a, Status \ Undone)
                          + At(a, Clearing, TotalPaidOut - TotalReceived)
  BY DEF Books
<1>1. /\ TotalFrozen(a) = 0 /\ TotalThawed(a) = 0 /\ TotalReceived = 0
  <2> DEFINE zero == [o \in Orders |-> 0]
  <2>1. /\ [o \in Orders |-> Frozen(a, order[o])] = zero
        /\ [o \in Orders |-> Thawed(a, order[o])] = zero
        /\ [o \in Orders |-> Received(order[o])] = zero
    BY DEF LedgerInit, Frozen, Thawed, Received
  <2>2. zero \in [Orders -> Nat] /\ \A o \in Orders : zero[o] = 0
    OBVIOUS
  <2> HIDE DEF zero
  <2>3. Total(Orders, zero) = 0
    BY <2>2, TotalZero
  <2> QED
    BY <2>1, <2>3 DEF TotalFrozen, TotalThawed, TotalReceived
<1>2. /\ TotalDrawn(a, Open) = 0 /\ TotalDrawn(a, Status \ Undone) = 0
      /\ TotalPaidOut = 0
  <2> DEFINE zero == [p \in Payouts |-> 0]
  <2>1. /\ [p \in Payouts |-> Drawn(a, payout[p], Open)] = zero
        /\ [p \in Payouts |-> Drawn(a, payout[p], Status \ Undone)] = zero
        /\ [p \in Payouts |-> PaidOut(payout[p])] = zero
    BY DEF LedgerInit, Drawn, PaidOut
  <2>2. zero \in [Payouts -> Nat] /\ \A p \in Payouts : zero[p] = 0
    OBVIOUS
  <2> HIDE DEF zero
  <2>3. Total(Payouts, zero) = 0
    BY <2>2, TotalZero
  <2> QED
    BY <2>1, <2>3 DEF TotalDrawn, TotalPaidOut
<1>3. wallet[a].frozen = 0 /\ wallet[a].reserved = 0 /\ wallet[a].available = 0
  BY DEF LedgerInit
<1> QED
  BY <1>1, <1>2, <1>3 DEF At

LEMMA NextBooks == Core /\ Core' /\ Books /\ [LedgerNext]_ledgerVars => Books'
<1> SUFFICES ASSUME Core, Core', Books, [LedgerNext]_ledgerVars
             PROVE  Books'
  OBVIOUS
<1>1. CASE UNCHANGED <<wallet, order, payout>>
  BY <1>1 DEF Books, TotalFrozen, TotalThawed, TotalReceived, TotalDrawn, TotalPaidOut
<1>2. ASSUME NEW r \in Requests, Release(r)
      PROVE  Books'
  <2>1. r.order \in Orders
    BY <1>2, RequestFields DEF Release
  <2>2. CASE UNCHANGED <<wallet, order>>
    BY <1>1, <1>2, <2>2 DEF Release
  <2>3. CASE ~ order[r.order].released /\ ReleaseRow(r.order, order[r.order])
    BY <1>2, <2>1, <2>3, BooksRelease DEF Release
  <2> QED
    BY <1>2, <2>2, <2>3 DEF Release
<1>3. ASSUME NEW r \in Requests, Serve(r)
      PROVE  Books'
  <2>1. CASE Bind(r)
    BY <1>1, <2>1 DEF Bind
  <2> QED
    BY <1>2, <1>3, <2>1, BooksCapture, BooksRefund, BooksRequest, BooksReview,
       BooksOutcome DEF Serve
<1>4. ASSUME NEW o \in Orders, WorkerRelease(o)
      PROVE  Books'
  BY <1>4, BooksRelease DEF WorkerRelease
<1> QED
  BY <1>1, <1>3, <1>4 DEF LedgerNext, ledgerVars, FreezeEnds

(***************************************************************************)
(* In every committed state each bucket of each wallet is what the order,  *)
(* allocation and payout rows say: the projection the trigger              *)
(* apply_ledger_entry maintains never drifts from the facts.               *)
(***************************************************************************)
THEOREM BooksBalance == LedgerSpec => []Books
<1>1. LedgerInit => Core /\ Books
  BY InitCore, InitBooks DEF Core
<1>2. Core /\ Books /\ [LedgerNext]_ledgerVars => (Core /\ Books)'
  BY NextCore, NextBooks DEF Core
<1> QED
  BY <1>1, <1>2, PTL DEF LedgerSpec

-----------------------------------------------------------------------------
\* What was ever released to an account never shrinks, whatever is refunded.
LEMMA EarnedGrows ==
  ASSUME Core, Core', [LedgerNext]_ledgerVars, NEW o \in Orders, NEW a
  PROVE  Earned(a, order[o]) <= Earned(a, order'[o])
<1>1. order[o] \in OrderRows /\ order'[o] \in OrderRows
  <2>1. order'[o] \in OrderRows
    BY DEF Core, LedgerTypeOK, AllocationsExact, OrderRows, Exact
  <2> QED
    BY <2>1, CoreRows
<1>2. Earned(a, order[o]) \in Nat /\ Earned(a, order'[o]) \in Nat
  BY <1>1, OrderWorth
<1>3. CASE order'[o] = order[o]
  BY <1>2, <1>3
<1>4. CASE order[o] = None \/ ~ order[o].released
  BY <1>2, <1>4 DEF Earned
<1>5. ASSUME NEW r \in Requests, Capture(r)
      PROVE  order'[o] = order[o] \/ order[o] = None
  BY <1>5, RequestFields DEF Capture, InsertOrder, Core, LedgerTypeOK
<1>6. ASSUME NEW r \in Requests, Refund(r)
      PROVE  Earned(a, order[o]) <= Earned(a, order'[o])
  <2>1. r.order \in Orders /\ order[r.order] \in OrderRow
    BY <1>6, RequestFields DEF Refund, Core, LedgerTypeOK
  <2>2. CASE o # r.order
    BY <1>3, <1>6, <2>1, <2>2 DEF Refund, InsertRefund, Core, LedgerTypeOK
  <2>3. CASE o = r.order
    <3> DEFINE next == [order[o] EXCEPT !.refunded = order[o].refunded + r.amount,
                                        !.returned = Targets(r, order[o])]
    <3>3. r.op = "refund" /\ Exact(order[o]) /\ Refundable(r, order[o])
      BY <1>6, <2>1, <2>3, TableAssumption DEF Refund, Core, AllocationsExact, Exact
    <3>4. next \in OrderRow
      BY <2>1, <2>3, <3>3, RefundedExact
    <3>5. order'[o] = next
      BY <1>6, <2>1, <2>3 DEF Refund, InsertRefund, Core, LedgerTypeOK
    <3>1. /\ order'[o].payee = order[o].payee
          /\ order'[o].original = order[o].original
          /\ order'[o].released = order[o].released
          /\ order'[o] \in OrderRow
      BY <2>1, <2>3, <3>4, <3>5 DEF OrderRow
    <3>2. order[o] # None /\ order'[o] # None
      BY <2>1, <2>3, <3>1, TableAssumption
    <3> QED
      BY <1>2, <3>1, <3>2 DEF Earned
  <2> QED
    BY <2>2, <2>3
<1>7. ASSUME NEW x \in Orders, ReleaseRow(x, order[x]), ~ order[x].released
      PROVE  order'[o] = order[o] \/ ~ order[o].released
  BY <1>7 DEF ReleaseRow, Core, LedgerTypeOK
<1>8. ASSUME NEW r \in Requests, Serve(r)
      PROVE  Earned(a, order[o]) <= Earned(a, order'[o])
  <2>1. CASE Release(r)
    <3>1. r.order \in Orders
      BY <2>1, RequestFields DEF Release
    <3> QED
      BY <1>3, <1>4, <1>7, <2>1, <3>1 DEF Release
  <2>2. CASE Capture(r)
    BY <1>3, <1>4, <1>5, <2>2
  <2>3. CASE Refund(r)
    BY <1>6, <2>3
  <2>4. CASE UNCHANGED order
    BY <1>3, <2>4
  <2> QED
    BY <1>8, <2>1, <2>2, <2>3, <2>4
       DEF Serve, Bind, RequestPayout, Approve, Processing, Reject, Outcome
<1>9. ASSUME NEW x \in Orders, WorkerRelease(x)
      PROVE  Earned(a, order[o]) <= Earned(a, order'[o])
  BY <1>3, <1>4, <1>7, <1>9 DEF WorkerRelease
<1> QED
  BY <1>3, <1>8, <1>9 DEF LedgerNext, ledgerVars, FreezeEnds

\* Only payouts::request adds to what the payouts draw.
LEMMA DrawnShrinks ==
  ASSUME Core, Core', [LedgerNext]_ledgerVars,
         \A r \in Requests : ~ RequestPayout(r),
         NEW p \in Payouts, NEW a
  PROVE  Drawn(a, payout'[p], Status \ Undone) <= Drawn(a, payout[p], Status \ Undone)
<1>1. payout[p] \in PayoutRows /\ payout'[p] \in PayoutRows
  BY DEF Core, LedgerTypeOK, PayoutRows
<1>2. /\ Drawn(a, payout[p], Status \ Undone) \in Nat
      /\ Drawn(a, payout'[p], Status \ Undone) \in Nat
  BY <1>1, PayoutWorth
<1>3. CASE payout'[p] = payout[p]
  BY <1>2, <1>3
<1>4. ASSUME payout[p] \in PayoutRow, payout[p].status \in Open,
             payout'[p] \in PayoutRow, payout'[p].account = payout[p].account,
             payout'[p].amount = payout[p].amount
      PROVE  Drawn(a, payout'[p], Status \ Undone) <= Drawn(a, payout[p], Status \ Undone)
  <2>1. payout[p].status \in Status \ Undone
    BY <1>4 DEF Open, Status, Undone
  <2>2. Drawn(a, payout[p], Status \ Undone) = At(a, payout[p].account, payout[p].amount)
    BY <1>4, <2>1, DrawnRow
  <2>3. \/ Drawn(a, payout'[p], Status \ Undone) = At(a, payout[p].account, payout[p].amount)
        \/ Drawn(a, payout'[p], Status \ Undone) = 0
    BY <1>4, DrawnRow
  <2> QED
    BY <1>2, <2>2, <2>3
<1>5. ASSUME NEW r \in Requests,
             Approve(r) \/ Processing(r) \/ Reject(r) \/ Outcome(r)
      PROVE  Drawn(a, payout'[p], Status \ Undone) <= Drawn(a, payout[p], Status \ Undone)
  <2>1. /\ r.payout \in Payouts /\ payout[r.payout] \in PayoutRow
        /\ payout'[r.payout] \in PayoutRow \cup {None}
    BY <1>5, RequestFields, PayoutColumns DEF Approve, Processing, Reject, Outcome,
       Core, LedgerTypeOK
  <2>2. CASE p # r.payout
    <3>1. payout'[p] = payout[p]
      BY <1>5, <2>1, <2>2 DEF Approve, Processing, Reject, Outcome, SetApproved,
         SetProcessing, SetRejected, SetOutcome, Core, LedgerTypeOK
    <3> QED
      BY <1>3, <3>1
  <2>3. CASE p = r.payout
    <3>3. payout[p].status \in Open
      BY <1>5, <2>3 DEF Approve, Processing, Reject, Outcome, Approvable,
         Processable, Rejectable, Confirmable, Open
    <3> DEFINE Same == /\ payout'[p].account = payout[p].account
                       /\ payout'[p].amount = payout[p].amount
    <3>4. ASSUME Approve(r) \/ Processing(r) \/ Reject(r)
          PROVE  Same
      BY <2>1, <2>3, <3>4 DEF Approve, Processing, Reject, SetApproved,
         SetProcessing, SetRejected, Core, LedgerTypeOK, PayoutRow
    <3>5. ASSUME Outcome(r)
          PROVE  Same
      BY <2>1, <2>3, <3>5 DEF Outcome, SetOutcome, Core, LedgerTypeOK, PayoutRow
    <3>1. /\ payout[p].status \in Open
          /\ payout'[p].account = payout[p].account
          /\ payout'[p].amount = payout[p].amount
      BY <1>5, <3>3, <3>4, <3>5
    <3>2. CASE payout'[p] = None
      BY <1>2, <3>2 DEF Drawn
    <3> QED
      BY <1>4, <2>1, <2>3, <3>1, <3>2
  <2> QED
    BY <2>2, <2>3
<1>6. ASSUME NEW r \in Requests, Serve(r)
      PROVE  Drawn(a, payout'[p], Status \ Undone) <= Drawn(a, payout[p], Status \ Undone)
  <2>1. CASE UNCHANGED payout
    BY <1>3, <2>1
  <2> QED
    BY <1>5, <1>6, <2>1 DEF Serve, Capture, Refund, Release, Bind
<1> QED
  BY <1>3, <1>6 DEF LedgerNext, ledgerVars, WorkerRelease, FreezeEnds

\* The totals NeverOverdrawn compares, and the released shares between them.
LEMMA TotalsCompared ==
  ASSUME Core, NEW a
  PROVE  /\ TotalEarned(a) \in Nat /\ TotalThawed(a) \in Nat
         /\ TotalThawed(a) <= TotalEarned(a)
         /\ TotalDrawn(a, Status \ Undone) \in Nat
         /\ TotalPaidOut \in Nat /\ TotalReceived \in Nat
<1> DEFINE ft == [o \in Orders |-> Thawed(a, order[o])]
           fe == [o \in Orders |-> Earned(a, order[o])]
           fr == [o \in Orders |-> Received(order[o])]
           fd == [p \in Payouts |-> Drawn(a, payout[p], Status \ Undone)]
           fp == [p \in Payouts |-> PaidOut(payout[p])]
<1>1. /\ ft \in [Orders -> Nat] /\ fe \in [Orders -> Nat] /\ fr \in [Orders -> Nat]
      /\ fd \in [Payouts -> Nat] /\ fp \in [Payouts -> Nat]
      /\ \A o \in Orders : ft[o] <= fe[o]
  BY CoreRows, OrderWorth, PayoutWorth
<1>2. IsFiniteSet(Orders) /\ IsFiniteSet(Payouts)
  BY TableAssumption
<1> HIDE DEF ft, fe, fr, fd, fp
<1>3. /\ IsFiniteSet(Units(Orders, ft)) /\ IsFiniteSet(Units(Orders, fe))
      /\ IsFiniteSet(Units(Orders, fr)) /\ IsFiniteSet(Units(Payouts, fd))
      /\ IsFiniteSet(Units(Payouts, fp))
  BY <1>1, <1>2, UnitsFinite
<1>4. /\ Total(Orders, ft) \in Nat /\ Total(Orders, fe) \in Nat
      /\ Total(Orders, fr) \in Nat /\ Total(Payouts, fd) \in Nat
      /\ Total(Payouts, fp) \in Nat
  BY <1>3, FS_CardinalityType DEF Total
<1>5. Total(Orders, ft) <= Total(Orders, fe)
  BY <1>1, <1>2, TotalMonotone
<1> QED
  BY <1>4, <1>5 DEF TotalEarned, TotalThawed, TotalReceived, TotalDrawn, TotalPaidOut,
     ft, fe, fr, fd, fp

LEMMA NextOverdrawn ==
  Core /\ Core' /\ Books /\ NeverOverdrawn /\ [LedgerNext]_ledgerVars
    => NeverOverdrawn'
<1> SUFFICES ASSUME Core, Core', Books, NeverOverdrawn, [LedgerNext]_ledgerVars,
                    NEW a \in Payee
             PROVE  TotalDrawn(a, Status \ Undone)' <= TotalEarned(a)'
  BY DEF NeverOverdrawn
<1> DEFINE fe == [o \in Orders |-> Earned(a, order[o])]
           ge == [o \in Orders |-> Earned(a, order'[o])]
           fd == [p \in Payouts |-> Drawn(a, payout[p], Status \ Undone)]
           gd == [p \in Payouts |-> Drawn(a, payout'[p], Status \ Undone)]
<1>0. /\ order \in [Orders -> OrderRows] /\ order' \in [Orders -> OrderRows]
      /\ payout \in [Payouts -> PayoutRows] /\ payout' \in [Payouts -> PayoutRows]
  <2>1. order' \in [Orders -> OrderRows] /\ payout' \in [Payouts -> PayoutRows]
    BY DEF Core, LedgerTypeOK, AllocationsExact, OrderRows, PayoutRows, Exact
  <2> QED
    BY <2>1, CoreRows
<1>1. /\ fe \in [Orders -> Nat] /\ ge \in [Orders -> Nat]
      /\ fd \in [Payouts -> Nat] /\ gd \in [Payouts -> Nat]
  BY <1>0, OrderWorth, PayoutWorth
<1>2. \A o \in Orders : fe[o] <= ge[o]
  BY EarnedGrows
<1>3. IsFiniteSet(Orders) /\ IsFiniteSet(Payouts)
  BY TableAssumption
<1>4. /\ TotalEarned(a) = Total(Orders, fe) /\ TotalEarned(a)' = Total(Orders, ge)
      /\ TotalDrawn(a, Status \ Undone) = Total(Payouts, fd)
      /\ TotalDrawn(a, Status \ Undone)' = Total(Payouts, gd)
  BY DEF TotalEarned, TotalDrawn
<1>5. /\ TotalDrawn(a, Status \ Undone) <= TotalEarned(a)
      /\ TotalEarned(a) \in Nat /\ TotalThawed(a) \in Nat
      /\ TotalThawed(a) <= TotalEarned(a) /\ TotalDrawn(a, Status \ Undone) \in Nat
      /\ TotalPaidOut \in Nat /\ TotalReceived \in Nat
  BY TotalsCompared DEF NeverOverdrawn
<1>6. TotalEarned(a)' \in Nat /\ TotalDrawn(a, Status \ Undone)' \in Nat
  <2> HIDE DEF ge, gd
  <2>1. IsFiniteSet(Units(Orders, ge)) /\ IsFiniteSet(Units(Payouts, gd))
    BY <1>1, <1>3, UnitsFinite
  <2> QED
    BY <1>4, <2>1, FS_CardinalityType DEF Total
<1>7. TotalEarned(a) <= TotalEarned(a)'
  <2> HIDE DEF fe, ge
  <2> QED
    BY <1>1, <1>2, <1>3, <1>4, TotalMonotone
<1>8. CASE \A r \in Requests : ~ RequestPayout(r)
  <2>1. \A p \in Payouts : gd[p] <= fd[p]
    BY <1>8, DrawnShrinks
  <2> HIDE DEF fd, gd
  <2>2. Total(Payouts, gd) <= Total(Payouts, fd)
    BY <1>1, <1>3, <2>1, TotalMonotone
  <2> QED
    BY <1>4, <1>5, <1>6, <1>7, <2>2
<1>9. ASSUME NEW r \in Requests, RequestPayout(r)
      PROVE  TotalDrawn(a, Status \ Undone)' <= TotalEarned(a)'
  <2>1. /\ r.payout \in Payouts /\ r.account \in Payee /\ r.amount \in Nat
        /\ r.actor \in Actors /\ wallet[r.account].available >= r.amount
    BY <1>9, RequestFields DEF RequestPayout, Funded, Positive, Payee
  <2>2. /\ payout[r.payout] = None
        /\ payout'[r.payout].account = r.account
        /\ payout'[r.payout].amount = r.amount
        /\ \A x \in Payouts \ {r.payout} : payout'[x] = payout[x]
    BY <1>9, <2>1 DEF RequestPayout, InsertPayout, Core, LedgerTypeOK
  <2>3. /\ \A x \in Payouts \ {r.payout} : gd[x] = fd[x]
        /\ fd[r.payout] = 0
        /\ gd[r.payout] \in {0, At(a, r.account, r.amount)}
    BY <2>1, <2>2 DEF Drawn
  <2> HIDE DEF fd, gd
  <2>4. Total(Payouts, gd) = Total(Payouts, fd) - fd[r.payout] + gd[r.payout]
    BY <1>1, <1>3, <2>1, <2>3, TotalUpdate
  <2>5. CASE a # r.account
    <3>1. gd[r.payout] = 0
      BY <2>3, <2>5 DEF At
    <3> QED
      BY <1>4, <1>5, <1>6, <1>7, <2>3, <2>4, <3>1
  <2>6. CASE a = r.account
    <3>1. gd[r.payout] \in {0, r.amount}
      BY <2>3, <2>6 DEF At
    <3>2. wallet[a].available = TotalThawed(a) - TotalDrawn(a, Status \ Undone)
      <4>1. a \in Account /\ a # Clearing
        BY Accounts
      <4>2. At(a, Clearing, TotalPaidOut - TotalReceived) = 0
        BY <4>1 DEF At
      <4>3. wallet[a].available =
               TotalThawed(a) - TotalDrawn(a, Status \ Undone)
               + At(a, Clearing, TotalPaidOut - TotalReceived)
        BY <4>1 DEF Books
      <4> QED
        BY <1>5, <4>2, <4>3
    <3> QED
      BY <1>4, <1>5, <1>6, <1>7, <2>1, <2>3, <2>4, <2>6, <3>1, <3>2
  <2> QED
    BY <2>5, <2>6
<1> QED
  BY <1>8, <1>9

(***************************************************************************)
(* A payee is in debt only through refunds: in every committed state what  *)
(* its payouts draw is covered by what releases have ever credited to it.  *)
(***************************************************************************)
THEOREM PayoutsCovered == LedgerSpec => []NeverOverdrawn
<1>1. LedgerInit => Core /\ Books /\ NeverOverdrawn
  <2> SUFFICES ASSUME LedgerInit, NEW a \in Payee
               PROVE  TotalDrawn(a, Status \ Undone) <= TotalEarned(a)
    BY InitCore, InitBooks DEF Core, NeverOverdrawn
  <2> DEFINE fd == [p \in Payouts |-> Drawn(a, payout[p], Status \ Undone)]
  <2>1. fd \in [Payouts -> Nat] /\ \A p \in Payouts : fd[p] = 0
    BY DEF LedgerInit, Drawn
  <2> HIDE DEF fd
  <2>2. Total(Payouts, fd) = 0
    BY <2>1, TotalZero
  <2>3. TotalEarned(a) \in Nat
    BY InitCore, TotalsCompared DEF Core
  <2> QED
    BY <2>2, <2>3 DEF TotalDrawn, fd
<1>2. Core /\ Books /\ NeverOverdrawn /\ [LedgerNext]_ledgerVars
        => (Core /\ Books /\ NeverOverdrawn)'
  BY NextCore, NextBooks, NextOverdrawn DEF Core
<1> QED
  BY <1>1, <1>2, PTL DEF LedgerSpec

-----------------------------------------------------------------------------
(* No refund gets stuck.                                                   *)

\* A slot without a payee has no share.
Held(row) == \A s \in Slot : row.payee[s] = None => row.original[s] = 0

SharesHeld == \A o \in Orders : order[o] # None => Held(order[o])

LEMMA NewOrderHeld ==
  ASSUME NEW r \in Requests, r.op = "capture", NEW direct \in Promoters \cup {None}
  PROVE  Held(NewOrder(r, direct))
<1> DEFINE row      == NewOrder(r, direct)
           indirect == ParentOf(direct)
<1>1. r.merchant # None /\ PlatformAccount # None
  BY RequestFields, Accounts
<1>2. /\ row.payee[0] = direct /\ row.payee[1] = indirect
      /\ row.payee[2] = PlatformAccount /\ row.payee[3] = r.merchant
  BY DEF NewOrder, Slot, Direct, Indirect, Platform, Merchant
<1>3. row.original = Split(r.paid, r.base, TermsOf[r.merchant],
                           direct # None, indirect # None)
  BY DEF NewOrder
<1> HIDE DEF row
<1>4. /\ direct = None => row.original[0] = 0
      /\ indirect = None => row.original[1] = 0
  BY <1>3 DEF Split, Referral, Slot, Direct, Indirect, Platform, Merchant
<1>5. Slot = {0, 1, 2, 3}
  BY DEF Slot, Direct, Merchant
<1> QED
  BY <1>1, <1>2, <1>4, <1>5 DEF Held, row

LEMMA NextHeld ==
  LedgerTypeOK /\ LedgerTypeOK' /\ SharesHeld /\ [LedgerNext]_ledgerVars => SharesHeld'
<1> SUFFICES ASSUME LedgerTypeOK, LedgerTypeOK', SharesHeld, [LedgerNext]_ledgerVars
             PROVE  SharesHeld'
  OBVIOUS
<1>1. CASE UNCHANGED order
  BY <1>1 DEF SharesHeld, Held
\* A refund and a release keep the columns Held speaks of.
<1>2. ASSUME NEW o \in Orders, order[o] # None,
             \A x \in Orders \ {o} : order'[x] = order[x],
             order'[o].payee = order[o].payee,
             order'[o].original = order[o].original
      PROVE  SharesHeld'
  BY <1>2 DEF SharesHeld, Held
<1>3. ASSUME NEW r \in Requests, Capture(r)
      PROVE  SharesHeld'
  <2> DEFINE row == NewOrder(r, Referrer(r.customer))
  <2>1. r.order \in Orders /\ r.customer \in Customers \cup {None} /\ r.op = "capture"
    BY <1>3, RequestFields DEF Capture
  <2>2. /\ order'[r.order] = row
        /\ \A x \in Orders \ {r.order} : order'[x] = order[x]
    BY <1>3, <2>1 DEF Capture, InsertOrder, LedgerTypeOK
  <2>3. Referrer(r.customer) \in Promoters \cup {None}
    BY <2>1 DEF Referrer, LedgerTypeOK
  <2>4. Held(row)
    BY <2>1, <2>3, NewOrderHeld
  <2> HIDE DEF row
  <2> QED
    BY <2>1, <2>2, <2>4 DEF SharesHeld, Held
<1>4. ASSUME NEW r \in Requests, Refund(r)
      PROVE  SharesHeld'
  <2>1. r.order \in Orders /\ order[r.order] # None /\ order[r.order] \in OrderRow
    BY <1>4, RequestFields DEF Refund, LedgerTypeOK
  <2>2. /\ order'[r.order].payee = order[r.order].payee
        /\ order'[r.order].original = order[r.order].original
        /\ \A x \in Orders \ {r.order} : order'[x] = order[x]
    BY <1>4, <2>1 DEF Refund, InsertRefund, LedgerTypeOK, OrderRow
  <2> QED
    BY <1>2, <2>1, <2>2
<1>5. ASSUME NEW o \in Orders, order[o] # None, ReleaseRow(o, order[o])
      PROVE  SharesHeld'
  <2>1. /\ order'[o].payee = order[o].payee
        /\ order'[o].original = order[o].original
        /\ \A x \in Orders \ {o} : order'[x] = order[x]
    BY <1>5 DEF ReleaseRow, LedgerTypeOK, OrderRow
  <2> QED
    BY <1>2, <1>5, <2>1
<1>6. ASSUME NEW r \in Requests, Release(r)
      PROVE  SharesHeld'
  BY <1>1, <1>5, <1>6, RequestFields DEF Release
<1>7. ASSUME NEW r \in Requests, Serve(r)
      PROVE  SharesHeld'
  BY <1>1, <1>3, <1>4, <1>6, <1>7
     DEF Serve, Bind, RequestPayout, Approve, Processing, Reject, Outcome
<1>8. ASSUME NEW o \in Orders, WorkerRelease(o)
      PROVE  SharesHeld'
  BY <1>5, <1>8 DEF WorkerRelease
<1> QED
  BY <1>1, <1>7, <1>8 DEF LedgerNext, ledgerVars, FreezeEnds

\* One line of n to account x adds n to a total over the accounts.
LEMMA LineAdds ==
  ASSUME NEW f \in [Account -> Nat], NEW g \in [Account -> Nat],
         NEW x \in Account \cup {None}, NEW n \in Nat, x = None => n = 0,
         \A a \in Account : g[a] = f[a] + At(a, x, n)
  PROVE  Total(Account, f) \in Nat /\ Total(Account, g) = Total(Account, f) + n
<1>1. IsFiniteSet(Account)
  BY TableAssumption
<1>2. CASE x \in Account
  <2>1. /\ g[x] = f[x] + n /\ f[x] \in Nat
        /\ \A a \in Account \ {x} : g[a] = f[a]
    BY <1>2 DEF At
  <2>2. /\ Total(Account, f) \in Nat
        /\ Total(Account, g) = Total(Account, f) - f[x] + g[x]
    BY <1>1, <1>2, <2>1, TotalUpdate
  <2> QED
    BY <2>1, <2>2
<1>3. CASE x = None
  <2>1. g = f
    BY <1>3 DEF At
  <2>2. Clearing \in Account
    BY Accounts
  <2>3. Total(Account, f) \in Nat
    BY <1>1, <2>2, TotalUpdate
  <2> QED
    BY <1>3, <2>1, <2>3
<1> QED
  BY <1>2, <1>3

\* The lines of the four slots add up to the amounts of the slots.
LEMMA LinesOfSlots ==
  ASSUME NEW payee \in [Slot -> Account \cup {None}], NEW amount \in [Slot -> Nat],
         \A s \in Slot : payee[s] = None => amount[s] = 0
  PROVE  Total(Account, [a \in Account |-> PayTo(payee, amount, a)]) = SumOf(amount)
<1> DEFINE line(s, a) == At(a, payee[s], amount[s])
           f0 == [a \in Account |-> 0]
           f1 == [a \in Account |-> f0[a] + line(0, a)]
           f2 == [a \in Account |-> f1[a] + line(1, a)]
           f3 == [a \in Account |-> f2[a] + line(2, a)]
           f4 == [a \in Account |-> f3[a] + line(3, a)]
<1>0. Slot = {0, 1, 2, 3}
  BY DEF Slot, Direct, Merchant
<1>1. \A s \in Slot, a \in Account : line(s, a) \in Nat
  BY DEF At
<1>2. f0 \in [Account -> Nat] /\ Total(Account, f0) = 0
  <2>1. f0 \in [Account -> Nat] /\ \A a \in Account : f0[a] = 0
    OBVIOUS
  <2> HIDE DEF f0
  <2> QED
    BY <2>1, TotalZero
<1> HIDE DEF line, f0
<1>3. /\ f1 \in [Account -> Nat] /\ \A a \in Account : f1[a] = f0[a] + line(0, a)
  BY <1>0, <1>1, <1>2
<1> HIDE DEF f1
<1>4. /\ f2 \in [Account -> Nat] /\ \A a \in Account : f2[a] = f1[a] + line(1, a)
  BY <1>0, <1>1, <1>3
<1> HIDE DEF f2
<1>5. /\ f3 \in [Account -> Nat] /\ \A a \in Account : f3[a] = f2[a] + line(2, a)
  BY <1>0, <1>1, <1>4
<1> HIDE DEF f3
<1>6. /\ f4 \in [Account -> Nat] /\ \A a \in Account : f4[a] = f3[a] + line(3, a)
  BY <1>0, <1>1, <1>5
<1> HIDE DEF f4
<1>7. \A s \in Slot : /\ payee[s] \in Account \cup {None} /\ amount[s] \in Nat
                      /\ payee[s] = None => amount[s] = 0
  OBVIOUS
<1>8. ASSUME NEW s \in Slot, NEW f \in [Account -> Nat], NEW g \in [Account -> Nat],
             \A a \in Account : g[a] = f[a] + line(s, a)
      PROVE  Total(Account, g) = Total(Account, f) + amount[s]
  BY <1>7, <1>8, LineAdds DEF line
<1>9. Total(Account, f1) = amount[0]
  <2>1. Total(Account, f1) = Total(Account, f0) + amount[0]
    BY <1>0, <1>2, <1>3, <1>8
  <2>2. amount[0] \in Nat
    BY <1>0
  <2> QED
    BY <1>2, <2>1, <2>2
<1>10. Total(Account, f2) = amount[0] + amount[1]
  <2>1. Total(Account, f2) = Total(Account, f1) + amount[1]
    BY <1>0, <1>3, <1>4, <1>8
  <2>2. amount[0] \in Nat /\ amount[1] \in Nat
    BY <1>0
  <2> QED
    BY <1>9, <2>1, <2>2
<1>11. Total(Account, f3) = amount[0] + amount[1] + amount[2]
  <2>1. Total(Account, f3) = Total(Account, f2) + amount[2]
    BY <1>0, <1>4, <1>5, <1>8
  <2>2. amount[0] \in Nat /\ amount[1] \in Nat /\ amount[2] \in Nat
    BY <1>0
  <2> QED
    BY <1>10, <2>1, <2>2
<1>12. Total(Account, f4) = amount[0] + amount[1] + amount[2] + amount[3]
  <2>1. Total(Account, f4) = Total(Account, f3) + amount[3]
    BY <1>0, <1>5, <1>6, <1>8
  <2>2. amount[0] \in Nat /\ amount[1] \in Nat /\ amount[2] \in Nat /\ amount[3] \in Nat
    BY <1>0
  <2> QED
    BY <1>11, <2>1, <2>2
<1>13. f4 = [a \in Account |-> PayTo(payee, amount, a)]
  <2>1. ASSUME NEW a \in Account PROVE f4[a] = PayTo(payee, amount, a)
    <3>1. f4[a] = line(0, a) + line(1, a) + line(2, a) + line(3, a)
      <4>1. f0[a] = 0
        BY DEF f0
      <4>2. /\ line(0, a) \in Nat /\ line(1, a) \in Nat
            /\ line(2, a) \in Nat /\ line(3, a) \in Nat
        BY <1>0, <1>1
      <4> QED
        BY <1>3, <1>4, <1>5, <1>6, <4>1, <4>2
    <3>2. PayTo(payee, amount, a) = line(0, a) + line(1, a) + line(2, a) + line(3, a)
      BY <1>0 DEF PayTo, SumOf, line, Direct, Indirect, Platform, Merchant
    <3> QED
      BY <3>1, <3>2
  <2> QED
    BY <1>6, <2>1
<1> QED
  BY <1>12, <1>13 DEF SumOf, Direct, Indirect, Platform, Merchant

(***************************************************************************)
(* A refund within what was paid: its deltas are natural numbers, no larger *)
(* than what the slots still hold, and together they are its amount.       *)
(***************************************************************************)
LEMMA DeltasFit ==
  ASSUME NEW row \in OrderRow, Exact(row), NEW r,
         r.amount \in 1..(row.paid - row.refunded)
  PROVE  /\ Deltas(r, row) \in [Slot -> Nat]
         /\ \A s \in Slot : Deltas(r, row)[s] <= Net(row)[s]
         /\ SumOf(Deltas(r, row)) = r.amount
         /\ Reversible(r, row)
<1> DEFINE total == row.refunded + r.amount
           targets == Targets(r, row)
           delta == Deltas(r, row)
<1>1. /\ row.original \in Shares /\ row.paid \in Nat /\ row.refunded \in Nat
      /\ SumOf(row.original) = row.paid
      /\ row.refunded \in 0..SumOf(row.original)
      /\ row.returned = CumulativeRefund(row.original, row.refunded)
  BY DEF Exact, OrderRow, Shares
<1>2. total \in 0..SumOf(row.original) /\ row.refunded <= total /\ r.amount \in Nat
  BY <1>1
<1>3. targets = CumulativeRefund(row.original, total)
  BY DEF Targets
<1>4. /\ targets \in Shares /\ SumOf(targets) = total
      /\ \A s \in Slot : targets[s] <= row.original[s]
  BY <1>1, <1>2, <1>3, RefundExact
<1>5. row.returned \in Shares /\ SumOf(row.returned) = row.refunded
  BY <1>1, RefundExact
<1>6. \A s \in Slot : row.returned[s] <= targets[s]
  BY <1>1, <1>2, <1>3, RefundMonotone
<1> HIDE DEF targets
<1>7. delta = [s \in Slot |-> targets[s] - row.returned[s]]
  BY DEF Deltas, targets
<1> HIDE DEF delta, total
<1>8. \A s \in Slot : /\ targets[s] \in Nat /\ row.returned[s] \in Nat
                      /\ row.original[s] \in Nat
                      /\ delta[s] = targets[s] - row.returned[s]
  BY <1>1, <1>4, <1>5, <1>7 DEF Shares
<1>9. \A s \in Slot : delta[s] \in Nat /\ delta[s] <= Net(row)[s]
  BY <1>4, <1>6, <1>8 DEF Net
<1>10. delta \in [Slot -> Nat]
  BY <1>7, <1>9
<1>11. SumOf(delta) = r.amount
  <2>1. Slot = {0, 1, 2, 3}
    BY DEF Slot, Direct, Merchant
  <2>2. SumOf(delta) = SumOf(targets) - SumOf(row.returned)
    BY <1>8, <2>1 DEF SumOf, Direct, Indirect, Platform, Merchant
  <2> QED
    BY <1>1, <1>2, <1>4, <1>5, <2>2 DEF total
<1>12. Reversible(r, row)
  BY <1>9 DEF Reversible, delta
<1> QED
  BY <1>9, <1>10, <1>11, <1>12 DEF delta

LEMMA RefundFits ==
  ASSUME Core, Books, SharesHeld, NEW o \in Orders, order[o] # None,
         NEW r, r.amount \in 1..(order[o].paid - order[o].refunded)
  PROVE  LET p == RefundPosting(order[o], Deltas(r, order[o]), r.amount)
         IN  /\ Reversible(r, order[o])
             /\ Balanced(p)
             /\ Accepted(Posted(p))
<1> DEFINE row   == order[o]
           delta == Deltas(r, row)
           p     == RefundPosting(row, delta, r.amount)
           paid(a) == PayTo(row.payee, delta, a)
<1>1. row \in OrderRow /\ Exact(row) /\ Held(row)
  BY DEF Core, LedgerTypeOK, AllocationsExact, Exact, SharesHeld
<1>2. /\ delta \in [Slot -> Nat]
      /\ \A s \in Slot : delta[s] <= Net(row)[s]
      /\ SumOf(delta) = r.amount
      /\ Reversible(r, row)
  BY <1>1, DeltasFit
<1>3. r.amount \in Nat
  BY <1>1 DEF OrderRow
<1>4. row.payee \in [Slot -> Payee \cup {None}]
  BY <1>1 DEF OrderRow
<1> HIDE DEF delta
<1>5. \A a \in Account : paid(a) \in Nat
  BY <1>2, PayToNat
<1>6. paid(Clearing) = 0
  <2>1. \A s \in Slot : At(Clearing, row.payee[s], delta[s]) = 0
    BY <1>4, Accounts DEF At
  <2> QED
    BY <2>1 DEF PayTo, SumOf, Slot, Direct, Indirect, Platform, Merchant
<1>7. \A a \in Account :
         /\ p.frozen[a] = IF row.released THEN 0 ELSE - paid(a)
         /\ p.reserved[a] = 0
         /\ p.available[a] = At(a, Clearing, r.amount)
               - (IF row.released THEN paid(a) ELSE 0)
  BY DEF RefundPosting, NoChange
<1> HIDE DEF p
<1>8. Balanced(p)
  <2>1. \A a \in Account : Change(p, a) = At(a, Clearing, r.amount) - paid(a)
    <3> HIDE DEF row
    <3> QED
      BY <1>3, <1>5, <1>7 DEF Change, At
  <2>2. /\ Gains(p) \in [Account -> Nat]
        /\ \A a \in Account : Gains(p)[a] = At(a, Clearing, r.amount)
    <3> HIDE DEF row, paid
    <3>1. \A a \in Account : /\ At(a, Clearing, r.amount) \in Nat
                             /\ a # Clearing => At(a, Clearing, r.amount) = 0
      BY <1>3 DEF At
    <3>2. \A a \in Account : (IF Change(p, a) > 0 THEN Change(p, a) ELSE 0)
                               = At(a, Clearing, r.amount)
      BY <1>5, <1>6, <2>1, <3>1
    <3> QED
      BY <3>1, <3>2 DEF Gains
  <2>3. Losses(p) = [a \in Account |-> paid(a)]
    <3> HIDE DEF row, paid
    <3>1. \A a \in Account : /\ At(a, Clearing, r.amount) \in Nat
                             /\ a # Clearing => At(a, Clearing, r.amount) = 0
      BY <1>3 DEF At
    <3>2. \A a \in Account : (IF Change(p, a) < 0 THEN - Change(p, a) ELSE 0) = paid(a)
      BY <1>5, <1>6, <2>1, <3>1
    <3> QED
      BY <3>2 DEF Losses
  <2>4. Total(Account, Gains(p)) = r.amount
    <3> DEFINE f0 == [a \in Account |-> 0]
    <3>1. f0 \in [Account -> Nat] /\ \A a \in Account : f0[a] = 0
      OBVIOUS
    <3> HIDE DEF f0
    <3>2. Total(Account, f0) = 0
      BY <3>1, TotalZero
    <3>3. \A a \in Account : Gains(p)[a] = f0[a] + At(a, Clearing, r.amount)
      BY <1>3, <2>2, <3>1 DEF At
    <3>4. Total(Account, Gains(p)) = Total(Account, f0) + r.amount
      <4> DEFINE n == r.amount
                 g == Gains(p)
      <4>1. /\ n \in Nat /\ g \in [Account -> Nat]
            /\ \A a \in Account : g[a] = f0[a] + At(a, Clearing, n)
            /\ Clearing \in Account \cup {None} /\ Clearing # None
        BY <1>3, <2>2, <3>3, Accounts
      <4> HIDE DEF n, g
      <4>2. Total(Account, g) = Total(Account, f0) + n
        BY <3>1, <4>1, LineAdds
      <4> QED
        BY <4>2 DEF n, g
    <3> QED
      BY <1>3, <3>2, <3>4
  <2>5. Total(Account, Losses(p)) = r.amount
    <3>1. row.payee \in [Slot -> Account \cup {None}]
      BY <1>4, Accounts
    <3>2. \A s \in Slot : row.payee[s] = None => delta[s] = 0
      BY <1>1, <1>2, NetNat DEF Held, OrderRow
    <3> QED
      BY <1>2, <2>3, <3>1, <3>2, LinesOfSlots
  <2> QED
    BY <2>4, <2>5 DEF Balanced
<1>9. Accepted(Posted(p))
  <2> SUFFICES ASSUME NEW a \in Account
               PROVE  Posted(p)[a].frozen >= 0 /\ Posted(p)[a].reserved >= 0
    BY DEF Accepted
  <2> DEFINE fz == [x \in Orders |-> Frozen(a, order[x])]
             dr == [x \in Payouts |-> Drawn(a, payout[x], Open)]
  <2>1. fz \in [Orders -> Nat] /\ dr \in [Payouts -> Nat]
    BY CoreRows, OrderWorth, PayoutWorth
  <2>2. wallet[a].frozen = Total(Orders, fz) /\ wallet[a].reserved = Total(Payouts, dr)
    BY DEF Books, TotalFrozen, TotalDrawn
  <2>3. fz[o] = IF row.released THEN 0 ELSE PayTo(row.payee, Net(row), a)
    BY DEF Frozen
  <2> HIDE DEF fz, dr
  <2>4. Total(Orders, fz) \in Nat /\ fz[o] <= Total(Orders, fz)
    BY <2>1, TableAssumption, TotalAtLeast, TotalUpdate
  <2>5. Total(Payouts, dr) >= 0
    <3>1. Cardinality(Units(Payouts, dr)) \in Nat
      BY <2>1, TableAssumption, UnitsFinite, FS_CardinalityType
    <3> QED
      BY <3>1 DEF Total
  <2>6. paid(a) <= PayTo(row.payee, Net(row), a) /\ PayTo(row.payee, Net(row), a) \in Nat
    BY <1>1, <1>2, NetNat, PayToNat, PayToMonotone
  <2>7. /\ Posted(p)[a].frozen = wallet[a].frozen + p.frozen[a]
        /\ Posted(p)[a].reserved = wallet[a].reserved + p.reserved[a]
    BY DEF Posted
  <2>8. Total(Payouts, dr) \in Int
    BY <2>1, TableAssumption, UnitsFinite, FS_CardinalityType DEF Total
  <2> HIDE DEF row, paid
  <2>9. p.frozen[a] = (IF row.released THEN 0 ELSE - paid(a)) /\ p.reserved[a] = 0
        /\ paid(a) \in Nat
    BY <1>5, <1>7
  <2> QED
    BY <2>1, <2>2, <2>3, <2>4, <2>5, <2>6, <2>7, <2>8, <2>9
<1> QED
  BY <1>2, <1>8, <1>9 DEF p, delta, row

(***************************************************************************)
(* A refund that stays within what was paid meets no error: cumulative     *)
(* apportionment never takes a slot back, the lines always balance and no  *)
(* wallet CHECK stops them, for any accounts and amounts (orders.rs        *)
(* 133-178, ledger.rs 59-71).                                              *)
(***************************************************************************)
THEOREM RefundsNeverStuck == LedgerSpec => []RefundNeverStuck
<1>1. LedgerInit => Core /\ Books /\ SharesHeld
  BY InitCore, InitBooks DEF Core, SharesHeld, LedgerInit
<1>2. Core /\ Books /\ SharesHeld /\ [LedgerNext]_ledgerVars => (Core /\ Books /\ SharesHeld)'
  BY NextCore, NextBooks, NextHeld DEF Core
<1>3. Core /\ Books /\ SharesHeld => RefundNeverStuck
  <2> SUFFICES ASSUME Core, Books, SharesHeld, NEW o \in Orders, order[o] # None,
                      NEW amount \in 1..(order[o].paid - order[o].refunded)
               PROVE  LET r == [order |-> o, amount |-> amount]
                          p == RefundPosting(order[o], Deltas(r, order[o]), amount)
                      IN  /\ Reversible(r, order[o])
                          /\ Balanced(p)
                          /\ Accepted(Posted(p))
    BY DEF RefundNeverStuck
  <2> DEFINE r == [order |-> o, amount |-> amount]
  <2>1. r.amount = amount
    OBVIOUS
  <2> HIDE DEF r
  <2>2. /\ Reversible(r, order[o])
        /\ Balanced(RefundPosting(order[o], Deltas(r, order[o]), r.amount))
        /\ Accepted(Posted(RefundPosting(order[o], Deltas(r, order[o]), r.amount)))
    BY <2>1, RefundFits
  <2> QED
    BY <2>1, <2>2 DEF r
<1> QED
  BY <1>1, <1>2, <1>3, PTL DEF LedgerSpec
=============================================================================
