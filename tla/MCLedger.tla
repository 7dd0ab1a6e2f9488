------------------------------ MODULE MCLedger ------------------------------
(***************************************************************************)
(* Small instances of Ledger, Reversal and Rules, three questions about    *)
(* orders without common state: a behaviour is about one of them           *)
(* (scenario).                                                             *)
(*                                                                         *)
(* "service": one merchant, a promoter and its parent, two orders, two     *)
(* payouts, and an administrator who may send anything.  "refunds": orders *)
(* of up to twenty fen under three rules: a rate alone, a fixed fee under  *)
(* a cap, and a rate whose fee goes to the referrers in full.  "rules":    *)
(* one rule for all, one that will be superseded by a time limit, and one  *)
(* of the merchant for small bases, while one of two orders is captured    *)
(* (captures do not touch each other's rules).                             *)
(***************************************************************************)
EXTENDS Ledger, Reversal, Rules

CONSTANTS m, p1, p2, plat, clr, c, o1, o2, f1, f2, f3, w1, w2, t1, adm, fin, k1, k2, k3

VARIABLE scenario

Tariff(rate, fixed, cap, direct, indirect) ==
    [rate |-> rate, fixed |-> fixed, cap |-> cap, direct |-> direct,
     indirect |-> indirect]

MCParent  == [p \in {p1, p2} |-> IF p = p1 THEN p2 ELSE None]
MCTermsOf == [x \in {m} |-> Tariff(5000, 2, None, 5000, 3000)]

MCTerms == { Tariff(8000, 0, None, 3000, 3000), Tariff(1000, 5, 4, 5000, 2500),
             Tariff(10000, 0, None, 6000, 4000) }

Offer(merchant, priority, max, from, until) ==
    [merchant |-> merchant, priority |-> priority, min |-> 0, max |-> max,
     from |-> from, until |-> until]

MCOffers == { Offer(None, 0, None, None, None), Offer(None, 0, None, None, 1),
              Offer(m, 0, 2, 1, None) }

MCPurchases == { [order |-> 1, merchant |-> m, base |-> 1],
                 [order |-> 2, merchant |-> m, base |-> 2] }

CaptureOf(k, o, amount, base) ==
    [op |-> "capture", actor |-> adm, key |-> k, order |-> o, merchant |-> m,
     customer |-> c, paid |-> amount, base |-> base]
RefundOf(k, o, f, amount) ==
    [op |-> "refund", actor |-> adm, key |-> k, order |-> o, refund |-> f,
     amount |-> amount]
ReleaseOf(k, o) == [op |-> "release", actor |-> adm, key |-> k, order |-> o]
PayoutOf(k, w, account, amount) ==
    [op |-> "request", actor |-> adm, key |-> k, payout |-> w,
     account |-> account, amount |-> amount]
ReviewOf(op, actor, k, w) == [op |-> op, actor |-> actor, key |-> k, payout |-> w]
OutcomeOf(k, w, status, reference) ==
    [op |-> "outcome", actor |-> fin, key |-> k, payout |-> w,
     status |-> status, reference |-> reference]

\* f2 is sent for both orders, k1 with two refund bodies, and the second
\* payout by an operation that competes for the merchant's balance.
MCRequests ==
    { CaptureOf(k1, o1, 8, 6), CaptureOf(k2, o2, 2, 2),
      [op |-> "bind", actor |-> adm, key |-> k1, customer |-> c, promoter |-> p1],
      RefundOf(k1, o1, f1, 3), RefundOf(k2, o1, f2, 4), RefundOf(k1, o2, f2, 1),
      RefundOf(k3, o1, f3, 1), ReleaseOf(k1, o1), ReleaseOf(k2, o2),
      PayoutOf(k1, w1, m, 2), PayoutOf(k2, w2, m, 2), PayoutOf(k1, w2, p1, 1),
      ReviewOf("approve", adm, k1, w1), ReviewOf("approve", fin, k1, w1),
      ReviewOf("approve", fin, k2, w2),
      ReviewOf("processing", fin, k1, w1), ReviewOf("processing", fin, k2, w2),
      ReviewOf("reject", fin, k1, w1), ReviewOf("reject", fin, k2, w2),
      OutcomeOf(k1, w1, "unknown", t1), OutcomeOf(k2, w1, "succeeded", t1),
      OutcomeOf(k2, w1, "failed", None), OutcomeOf(k1, w2, "succeeded", t1) }

\* One order stands for all of them while the question is not about refunds.
Smallest == Rows([s \in Slot |-> IF s = Merchant THEN 1 ELSE 0], <<Platform, Merchant>>)

MCInit ==
    /\ LedgerInit /\ Init /\ RulesInit
    /\ scenario \in {"service", "refunds", "rules"}
    /\ scenario # "refunds" => parts = Smallest

MCNext ==
    /\ UNCHANGED scenario
    /\ \/ /\ scenario = "service"
          /\ LedgerNext /\ UNCHANGED <<orderVars, rulesVars>>
       \/ /\ scenario = "refunds"
          /\ Next /\ UNCHANGED <<ledgerVars, rulesVars>>
       \/ /\ scenario = "rules"
          /\ RulesNext /\ UNCHANGED <<ledgerVars, orderVars>>
          /\ \A p, q \in Purchases : None \in {capture'[p], capture'[q]} \/ p = q

MCSpec == MCInit /\ [][MCNext]_<<scenario, ledgerVars, orderVars, rulesVars>>
=============================================================================
