------------------------------ MODULE Ingestion ------------------------------
(***************************************************************************)
(* How the messages of a platform become rows: the webhook and the         *)
(* reconciliation of douyin/sync.rs, over the raw events, observations and *)
(* projections of platform/store.rs.  A platform delivers a body again     *)
(* until it is acknowledged, also while an earlier delivery still runs,    *)
(* and in any order.                                                       *)
(*                                                                         *)
(* A fact stands for a record of a message: an order line with its         *)
(* commission, and a refund or settlement of it.  Their four tables are    *)
(* written alike, so one set of observations and one projection stand for  *)
(* them.  The transaction of a message locks every row it projects to      *)
(* until it commits, which makes it one step; but a reconciliation that    *)
(* finds no checkpoint has nothing to lock, and others go on before it     *)
(* writes.                                                                 *)
(***************************************************************************)
EXTENDS Naturals, Sequences, FiniteSetsExt

CONSTANTS
    Handlers,    \* concurrent requests
    Orders, Events, None,
    Bodies,      \* what the platform delivers: sequences of messages
    Pages,       \* answers to a reconciliation
    Cursors,     \* that a page may name for the next one
    MaxClock

Statuses == {"paid", "completed", "refunded"}
Fact == [order : Orders, status : Statuses, time : Nat \cup {None},
         amount : Nat \cup {None}]
Message == [event : Events, valid : BOOLEAN, facts : Seq(Fact),
            cursor : Cursors \cup {None}]
Observation == [event : Events, order : Orders, status : Statuses, time : Nat,
                amount : Nat \cup {None}]

\* The rows of the tables, and what a request works on.
RawRow == [message : Message, status : {"pending", "normalized", "rejected"}]
Projection == [latest : Observation, amount : Nat \cup {None}]
Checkpoint == [cursor : Cursors \cup {None}, time : Nat \cup {None}]
Job == [kind : {"webhook", "reconcile"},
        body : Bodies \cup {<<page>> : page \in Pages},
        at : Nat \ {0}, pc : {"store", "apply", "write"},
        received : 0 .. MaxClock, seen : Checkpoint \cup {None}]

ASSUME IngestAssumption ==
    /\ None \notin Nat \cup RawRow \cup Projection \cup Checkpoint \cup Job
    /\ MaxClock \in Nat
    /\ \A body \in Bodies : body \in Seq(Message) /\ body # <<>>
    /\ Pages \subseteq Message
    /\ \A page \in Pages, body \in Bodies :
          \A i \in DOMAIN body : body[i].event # page.event

VARIABLES
    clock,
    raw,         \* event -> its message and processing_status, or None
    observed,    \* the observation tables
    orders,      \* the projections: order -> latest observation and amount
    checkpoint,  \* of the reconcile stream: its cursor and
                 \* last_platform_updated_at, or None without a row
    job,         \* handler -> what it works on, or None
    acked        \* bodies answered with success

vars == <<clock, raw, observed, orders, checkpoint, job, acked>>

-----------------------------------------------------------------------------
(* The store.                                                              *)

\* normalizer.rs falls back to the time of receipt.
TimeOf(fact, received) == IF fact.time = None THEN received ELSE fact.time

Observe(event, fact, received) ==
    [event |-> event, order |-> fact.order, status |-> fact.status,
     time |-> TimeOf(fact, received), amount |-> fact.amount]

Observations(m, received) ==
    [i \in DOMAIN m.facts |-> Observe(m.event, m.facts[i], received)]

\* Mutants: the last writer wins; an unknown amount replaces a known one.
Always(o, row) == TRUE
Replace(new, old) == new

Newer(o, row) == o.time >= row.latest.time
Coalesce(new, old) == IF new # None THEN new ELSE old

\* upsert_order_observation and upsert_commission_observation.
Upsert(rows, o) ==
    LET row == rows[o.order]
    IN  IF row = None
        THEN [rows EXCEPT ![o.order] = [latest |-> o, amount |-> o.amount]]
        ELSE IF Newer(o, row)
        THEN [rows EXCEPT ![o.order] =
                [latest |-> o, amount |-> Coalesce(o.amount, row.amount)]]
        ELSE rows

\* The loop of the transaction over the records of a message.
UpsertAll(rows, os) ==
    LET after[n \in 0 .. Len(os)] ==
            IF n = 0 THEN rows ELSE Upsert(after[n - 1], os[n])
    IN  after[Len(os)]

-----------------------------------------------------------------------------
Init ==
    /\ clock = 0
    /\ raw = [e \in Events |-> None]
    /\ observed = {}
    /\ orders = [o \in Orders |-> None]
    /\ checkpoint = None
    /\ job = [h \in Handlers |-> None]
    /\ acked = {}

Tick ==
    /\ clock < MaxClock
    /\ clock' = clock + 1
    /\ UNCHANGED <<raw, observed, orders, checkpoint, job, acked>>

Work(kind, body) ==
    [kind |-> kind, body |-> body, at |-> 1, pc |-> "store",
     received |-> clock, seen |-> checkpoint]

Begin(h, work) ==
    /\ job[h] = None
    /\ job' = [job EXCEPT ![h] = work]
    /\ UNCHANGED <<clock, raw, observed, orders, checkpoint, acked>>

\* A delivery, the first or another one.
Deliver(h, body) == Begin(h, Work("webhook", body))

\* reconcile_page reads the checkpoint and calls the platform.
Reconcile(h, page) == Begin(h, Work("reconcile", <<page>>))

Busy(h, pc) ==
    job[h] # None /\ job[h].pc = pc /\ job[h].at <= Len(job[h].body)
Current(h) == job[h].body[job[h].at]
Advance(h) == [job EXCEPT ![h].at = @ + 1, ![h].pc = "store"]
Finish(h)  == [job EXCEPT ![h] = None]

\* Mutant: an event that is not finished cannot be resumed.
OnlyFinished(old, m) == old.message = m /\ old.status # "pending"

SamePayload(old, m) == old.message = m

\* Mutants: an event counts as handled as soon as it is stored; it is stored
\* with a status that the table does not know.
SkipKnown(kind, status) == kind = "webhook"
StoredAsNormalized == "normalized"
StoredAsReceived == "received"

Skip(kind, status) == kind = "webhook" /\ status = "normalized"
StoredAs == "pending"

\* persist_raw: INSERT ... ON CONFLICT DO NOTHING, and if there is a row
\* already, the SELECT of it; then the check for a duplicate.
Store(h) ==
    LET m == Current(h) old == raw[m.event]
    IN  /\ Busy(h, "store")
        /\ raw' = IF old = None
                  THEN [raw EXCEPT ![m.event] = [message |-> m, status |-> StoredAs]]
                  ELSE raw
        /\ job' = IF old = None THEN [job EXCEPT ![h].pc = "apply"]
                  ELSE IF ~SamePayload(old, m) THEN Finish(h)
                  ELSE IF Skip(job[h].kind, old.status) THEN Advance(h)
                  ELSE [job EXCEPT ![h].pc = "apply"]
        /\ UNCHANGED <<clock, observed, orders, checkpoint, acked>>

\* reject_raw, which also ends the request.
Reject(h) ==
    LET m == Current(h)
    IN  /\ Busy(h, "apply")
        /\ ~m.valid
        /\ raw' = [raw EXCEPT ![m.event].status = "rejected"]
        /\ job' = Finish(h)
        /\ UNCHANGED <<clock, observed, orders, checkpoint, acked>>

Superseded(h) == job[h].kind = "reconcile" /\ job[h].seen # checkpoint

\* Mutant: a page without records unsets last_platform_updated_at.
OfThePage(old, times) == IF times = {} THEN None ELSE Max(times)

\* COALESCE(GREATEST(...), ...): the newest of the times there are.
Greatest(old, times) ==
    IF (times \cup {old}) \ {None} = {} THEN None ELSE Max((times \cup {old}) \ {None})

\* lock_reconcile_checkpoint when there is no row: no later reconciliation waits.
FindNoRow(h) ==
    /\ Busy(h, "apply")
    /\ Current(h).valid /\ ~Superseded(h)
    /\ job[h].kind = "reconcile" /\ job[h].seen = None
    /\ job' = [job EXCEPT ![h].pc = "write"]
    /\ UNCHANGED <<clock, raw, observed, orders, checkpoint, acked>>

\* The transaction of a message, or mark_raw_normalized if it has no facts.
Apply(h) ==
    LET m == Current(h) os == Observations(m, job[h].received)
    IN  /\ \/ Busy(h, "write")
           \/ /\ Busy(h, "apply") /\ ~Superseded(h)
              /\ job[h].kind = "reconcile" => job[h].seen # None
        /\ m.valid
        /\ observed' = observed \cup {os[i] : i \in DOMAIN os}
        /\ orders' = UpsertAll(orders, os)
        /\ raw' = [raw EXCEPT ![m.event].status = "normalized"]
        /\ checkpoint' =
              IF job[h].kind = "reconcile"
              THEN [cursor |-> m.cursor,
                    time |-> Greatest(IF checkpoint = None THEN None ELSE checkpoint.time,
                                      {os[i].time : i \in DOMAIN os})]
              ELSE checkpoint
        /\ job' = Advance(h)
        /\ UNCHANGED <<clock, acked>>

\* ConcurrentSync: another reconciliation moved the checkpoint.
Concurrent(h) ==
    /\ Busy(h, "apply")
    /\ Current(h).valid /\ Superseded(h)
    /\ job' = Finish(h)
    /\ UNCHANGED <<clock, raw, observed, orders, checkpoint, acked>>

\* The answer {"code":0}.
Acknowledge(h) ==
    /\ job[h] # None /\ job[h].at > Len(job[h].body)
    /\ acked' = IF job[h].kind = "webhook" THEN acked \cup {job[h].body} ELSE acked
    /\ job' = Finish(h)
    /\ UNCHANGED <<clock, raw, observed, orders, checkpoint>>

\* The 1.5 seconds are over, a statement fails or the process stops: the open
\* transaction is rolled back, and the platform gets no success.
Fail(h) ==
    /\ job[h] # None
    /\ job' = Finish(h)
    /\ UNCHANGED <<clock, raw, observed, orders, checkpoint, acked>>

Proceed(h) ==
    \/ Store(h) \/ Reject(h) \/ FindNoRow(h) \/ Apply(h)
    \/ Concurrent(h) \/ Acknowledge(h)

Next ==
    \/ Tick
    \/ \E h \in Handlers :
          \/ \E body \in Bodies : Deliver(h, body)
          \/ \E page \in Pages : Reconcile(h, page)
          \/ Proceed(h) \/ Fail(h)

IngestSpec == Init /\ [][Next]_vars

\* The platform delivers a body until it is acknowledged, a request goes on as
\* long as it does not fail, and from some time on none is interrupted.
IngestFairness ==
    /\ \A body \in Bodies : SF_vars(\E h \in Handlers : Deliver(h, body))
    /\ \A h \in Handlers : WF_vars(Proceed(h))
    /\ <>[][\A h \in Handlers : Fail(h) => Proceed(h)]_vars

FairIngest == IngestSpec /\ IngestFairness

-----------------------------------------------------------------------------
(* Properties.                                                             *)

\* Type invariant of the tables and the handlers.
IngestTypeOK ==
    /\ clock \in 0 .. MaxClock
    /\ checkpoint \in Checkpoint \cup {None}
    /\ raw \in [Events -> RawRow \cup {None}]
    /\ observed \subseteq Observation
    /\ orders \in [Orders -> Projection \cup {None}]
    /\ job \in [Handlers -> Job \cup {None}]
    /\ \A h \in Handlers : job[h] # None => job[h].at <= Len(job[h].body) + 1
    /\ acked \subseteq Bodies

Observed(m) ==
    \A i \in DOMAIN m.facts :
        \E o \in observed : \E t \in 0 .. MaxClock :
            o = Observe(m.event, m.facts[i], t)

\* A normalized event has all its observations, any other has none.
StatusIsTrue ==
    \A e \in Events : raw[e] # None =>
        IF raw[e].status = "normalized" THEN raw[e].message.valid /\ Observed(raw[e].message)
        ELSE \A o \in observed : o.event # e

\* The page that the checkpoint continues is stored, and its time is the newest
\* of the records of all pages.
CheckpointIsStored ==
    /\ checkpoint # None =>
          /\ \E page \in Pages :
                /\ raw[page.event] = [message |-> page, status |-> "normalized"]
                /\ page.cursor = checkpoint.cursor
          /\ checkpoint.time # None => \E o \in observed : o.time = checkpoint.time
    /\ \A page \in Pages, o \in observed : o.event = page.event =>
          checkpoint # None /\ checkpoint.time # None /\ o.time <= checkpoint.time

\* processing_status and the checkpoint tell the truth, whatever stopped,
\* overlapped or met no checkpoint yet (douyin/sync.rs 112-191, 331-404,
\* 441-455).
NormalizedIsStored == StatusIsTrue /\ CheckpointIsStored

\* What was acknowledged will not be delivered again, so all of it is stored
\* (http/mod.rs 330-376, douyin/sync.rs 124-127).
AckedIsStored ==
    \A body \in acked : \A i \in DOMAIN body :
        raw[body[i].event] = [message |-> body[i], status |-> "normalized"]

\* Out of order, repeated or reconciled: a projection shows an observation that
\* no other of its order is newer than (platform/store.rs 69-87, 161-184).
ProjectionIsNewest ==
    \A r \in Orders :
        IF orders[r] = None THEN \A o \in observed : o.order # r
        ELSE /\ orders[r].latest \in observed
             /\ \A o \in observed : o.order = r => o.time <= orders[r].latest.time

\* A step never takes a projection back in time, and an amount that became
\* known does not become unknown (platform/store.rs 75-87).
OnlyForward ==
    [][\A r \in Orders : orders[r] # None =>
          /\ orders'[r].latest.time >= orders[r].latest.time
          /\ orders[r].amount # None => orders'[r].amount # None]_vars

AllMessages == UNION {{body[i] : i \in DOMAIN body} : body \in Bodies}

Acceptable(body) ==
    \A i \in DOMAIN body :
        /\ body[i].valid
        /\ \A m \in AllMessages : m.event = body[i].event => m = body[i]

\* Every body without an invalid or contradictory message is acknowledged in
\* the end, wherever earlier deliveries of it stopped (douyin/sync.rs 112-146).
Redelivered == \A body \in Bodies : Acceptable(body) => <>(body \in acked)

\* "重复投递不会重复产生账务事实": however often a message is delivered, a record of it
\* gives one observation (docs/API.md 259, douyin/sync.rs 124-127).
ObservedOnce ==
    \A o1, o2 \in observed :
        o1.event = o2.event /\ o1.order = o2.order /\ o1.status = o2.status => o1 = o2
=============================================================================
