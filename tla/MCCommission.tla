---------------------------- MODULE MCCommission ----------------------------
(***************************************************************************)
(* Small instances of Commission.  OrderRequests exercises capture,        *)
(* binding, refund and release against each other and the worker;          *)
(* PayoutRequests one payout life cycle against a second request for the   *)
(* same balance and a refund; ReferenceRequests two payouts whose outcomes *)
(* exchange their provider references.  A behaviour of TransactionsSpec    *)
(* serves one of the three kinds, up to two or three of them at once.      *)
(***************************************************************************)
EXTENDS Commission, TLC

CONSTANTS m, p1, p2, plat, clr, c, o1, o2, f1, f2, w1, w2, t1, t2, adm, fin, k1, k2, k3, k4,
          h1, h2, h3, worker

Swap == Permutations(Handlers)

MCParent  == [p \in {p1, p2} |-> IF p = p1 THEN p2 ELSE None]
MCTermsOf == [x \in {m} |-> [rate |-> 5000, fixed |-> 2, cap |-> None,
                             direct |-> 5000, indirect |-> 3000]]
MCRank    == [a \in Account |-> CASE a = m -> 1 [] a = p1 -> 2 [] a = p2 -> 3
                                  [] a = plat -> 4 [] a = clr -> 5]

CaptureOf(k, o, paid, base) ==
    [op |-> "capture", actor |-> adm, key |-> k, order |-> o, merchant |-> m,
     customer |-> c, paid |-> paid, base |-> base]
BindOf(k) == [op |-> "bind", actor |-> adm, key |-> k, customer |-> c, promoter |-> p1]
RefundOf(k, o, f, amount) ==
    [op |-> "refund", actor |-> adm, key |-> k, order |-> o, refund |-> f,
     amount |-> amount]
ReleaseOf(k, o) == [op |-> "release", actor |-> adm, key |-> k, order |-> o]
PayoutOf(k, w, account, amount) ==
    [op |-> "request", actor |-> adm, key |-> k, payout |-> w,
     account |-> account, amount |-> amount]
ReviewOf(op, k, w) == [op |-> op, actor |-> fin, key |-> k, payout |-> w]
OutcomeOf(k, w, status, reference) ==
    [op |-> "outcome", actor |-> fin, key |-> k, payout |-> w,
     status |-> status, reference |-> reference]

\* Two refunds of one order, one external refund id for two orders, and one
\* idempotency key with two bodies.
MCOrderRequests ==
    { CaptureOf(k1, o1, 8, 6), CaptureOf(k2, o2, 2, 2), BindOf(k1),
      RefundOf(k1, o1, f1, 3), RefundOf(k2, o1, f2, 4), RefundOf(k2, o2, f2, 1),
      ReleaseOf(k1, o1) }

\* Two payouts that compete for one balance and for one provider reference, and
\* the refund that puts the account into debt between their steps.
MCPayoutRequests ==
    { CaptureOf(k1, o1, 8, 6), RefundOf(k1, o1, f1, 8),
      PayoutOf(k1, w1, m, 2), PayoutOf(k2, w2, m, 2), PayoutOf(k3, w2, p1, 1),
      ReviewOf("approve", k1, w1), ReviewOf("processing", k1, w1),
      ReviewOf("approve", k2, w2), ReviewOf("processing", k2, w2),
      ReviewOf("reject", k1, w1),
      OutcomeOf(k1, w1, "unknown", None), OutcomeOf(k2, w1, "succeeded", t1),
      OutcomeOf(k3, w1, "failed", None), OutcomeOf(k2, w2, "succeeded", t1) }

\* Two payouts with an unknown outcome each, which a later outcome gives the
\* reference that the other had.
MCReferenceRequests ==
    { CaptureOf(k1, o1, 8, 6), ReleaseOf(k1, o1),
      PayoutOf(k1, w1, m, 1), PayoutOf(k2, w2, m, 1),
      ReviewOf("approve", k1, w1), ReviewOf("processing", k1, w1),
      ReviewOf("approve", k2, w2), ReviewOf("processing", k2, w2),
      OutcomeOf(k1, w1, "unknown", t1), OutcomeOf(k2, w2, "unknown", t2),
      OutcomeOf(k3, w1, "succeeded", t2), OutcomeOf(k4, w2, "unknown", t1) }

MCTransactions == MCOrderRequests \cup MCPayoutRequests \cup MCReferenceRequests

VARIABLE scenario

MCServed == CASE scenario = "orders"     -> MCOrderRequests
              [] scenario = "payouts"    -> MCPayoutRequests
              [] scenario = "references" -> MCReferenceRequests
MCAtOnce == IF scenario = "payouts" THEN 3 ELSE 2

MCNext ==
    /\ CommissionNext
    /\ UNCHANGED scenario
    /\ \A h \in Handlers : req'[h] \in MCServed \cup {None}
    /\ Cardinality({h \in Handlers : req'[h] # None}) <= MCAtOnce

TransactionsInit == CommissionInit /\ scenario \in {"orders", "payouts", "references"}
WorkerInit       == CommissionInit /\ scenario = "orders"

TransactionsSpec ==
    /\ TransactionsInit
    /\ [][MCNext]_<<vars, scenario>>

\* Two orders that share every wallet, one of them refunded in full.
MCWorkerRequests ==
    { CaptureOf(k1, o1, 8, 6), CaptureOf(k2, o2, 2, 2),
      RefundOf(k1, o1, f1, 8), RefundOf(k2, o2, f2, 1), ReleaseOf(k1, o1) }

WorkerSpec ==
    /\ WorkerInit
    /\ [][CommissionNext /\ UNCHANGED scenario]_<<vars, scenario>>
    /\ Fairness
=============================================================================
