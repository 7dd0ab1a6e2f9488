----------------------------- MODULE MCIngestion -----------------------------
(***************************************************************************)
(* A small instance of Ingestion: a payment, its settlement without an     *)
(* amount, the same event with other contents, a refund without a time, an *)
(* invalid message, a page that repeats an order and names a cursor, and   *)
(* an empty last page.  The pages and the passing of time are looked at    *)
(* apart: scenario.                                                        *)
(***************************************************************************)
EXTENDS Ingestion

CONSTANTS h1, h2, r1, r2, e1, e2, e3, e4, p1, p2, c1

VARIABLE scenario

F(r, s, t, a) == [order |-> r, status |-> s, time |-> t, amount |-> a]
M(e, fs) == [event |-> e, valid |-> TRUE, facts |-> fs, cursor |-> None]

Paid    == M(e1, <<F(r1, "paid", 1, 5)>>)
Settled == M(e2, <<F(r1, "completed", 2, None)>>)
Changed == M(e2, <<F(r1, "completed", 1, 4)>>)
Refund  == M(e3, <<F(r2, "refunded", None, 7)>>)
Broken  == [event |-> e4, valid |-> FALSE, facts |-> <<>>, cursor |-> None]

MCBodies == {<<Settled, Broken>>, <<Changed>>, <<Paid, Refund>>}
MCPages  ==
    {[M(p1, <<F(r1, "paid", 1, 6)>>) EXCEPT !.cursor = c1],
     M(p2, <<>>)}

MCInit(scenarios) == scenario \in scenarios /\ Init

MCNext ==
    /\ UNCHANGED scenario
    /\ \/ Tick /\ scenario = "late"
       \/ \E h \in Handlers :
             \/ \E body \in Bodies : Deliver(h, body)
             \/ \E page \in Pages : Reconcile(h, page) /\ scenario = "pages"
             \/ Proceed(h) \/ Fail(h)

MCVars == <<scenario, vars>>

MCFairIngest == MCInit({"late", "pages"}) /\ [][MCNext]_MCVars /\ IngestFairness
LateSpec     == MCInit({"late"}) /\ [][MCNext]_MCVars

MCOnce == {<<Refund>>}
MCNoPages == {}
=============================================================================
