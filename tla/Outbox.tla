------------------------------- MODULE Outbox -------------------------------
(***************************************************************************)
(* Delivery of events: claim and ack of service/outbox.rs with the         *)
(* consumers that call them.  The rows are written by the transactions of  *)
(* the service, here by whoever composes this module.                      *)
(*                                                                         *)
(* A claim and an ack are single statements, hence single steps.  Time     *)
(* only says when a lease has run out.  A lease token is known by the      *)
(* consumer it was made for: a later claim of the same event by the same   *)
(* consumer makes its older token useless.                                 *)
(***************************************************************************)
EXTENDS Naturals

CONSTANTS
    MaxEvents,   \* a bound on the rows
    Consumers, None

Row == [holder : Consumers \cup {None}, lapsed : BOOLEAN, delivered : BOOLEAN]

ASSUME OutboxAssumption == MaxEvents \in Nat /\ None \notin Consumers \cup Row

Events == 1 .. MaxEvents

VARIABLES
    outbox,      \* event -> the lease and delivered_at of its row, or None
    lease,       \* consumer -> event -> what it knows of its lease
    handled      \* <<consumer, event>>: processed, durably

outboxVars == <<outbox, lease, handled>>

OutboxInit ==
    /\ outbox = [e \in Events |-> None]
    /\ lease = [k \in Consumers |-> [e \in Events |-> "none"]]
    /\ handled = {}

Recorded == {e \in Events : outbox[e] # None}

\* record_event, the last write of a transaction.
Record(e) ==
    /\ outbox[e] = None
    /\ outbox' = [outbox EXCEPT ![e] = [holder |-> None, lapsed |-> FALSE,
                                        delivered |-> FALSE]]
    /\ UNCHANGED <<lease, handled>>

\* Mutants: a claim takes what is not delivered, leased or not; it never takes
\* what was claimed before.
Undelivered(row) == ~row.delivered
Unclaimed(row) == ~row.delivered /\ row.holder = None

Ready(row) == ~row.delivered /\ (row.holder = None \/ row.lapsed)

\* claim: the oldest rows that are ready, up to a limit and less those that
\* another statement has locked (SKIP LOCKED).
Claim(k, es) ==
    /\ es # {} /\ es \subseteq Recorded
    /\ \A e \in es : Ready(outbox[e])
    /\ outbox' = [e \in Events |->
                     IF e \in es THEN [outbox[e] EXCEPT !.holder = k, !.lapsed = FALSE]
                     ELSE outbox[e]]
    /\ lease' = [lease EXCEPT ![k] = [e \in Events |->
                     IF e \in es THEN "running" ELSE @[e]]]
    /\ UNCHANGED handled

\* lease_until passes, for the row and for the consumer alike.
Lapse(e) ==
    /\ e \in Recorded
    /\ outbox[e].holder # None /\ ~outbox[e].lapsed /\ ~outbox[e].delivered
    /\ outbox' = [outbox EXCEPT ![e].lapsed = TRUE]
    /\ lease' = [k \in Consumers |->
                    IF k = outbox[e].holder /\ lease[k][e] = "running"
                    THEN [lease[k] EXCEPT ![e] = "over"] ELSE lease[k]]
    /\ UNCHANGED handled

\* A consumer processes what it claimed, as long as it takes.
Handle(k, e) ==
    /\ lease[k][e] # "none"
    /\ <<k, e>> \notin handled
    /\ handled' = handled \cup {<<k, e>>}
    /\ UNCHANGED <<outbox, lease>>

\* Mutant: an ack only names the event.
AnyToken(k, row) == row.delivered \/ ~row.lapsed

MayAck(k, row) == row.holder = k /\ (row.delivered \/ ~row.lapsed)

\* ack: success, or the conflict of a lease that is over or was taken over.
Ack(k, e) ==
    /\ lease[k][e] # "none"
    /\ <<k, e>> \in handled
    /\ outbox' = IF MayAck(k, outbox[e])
                 THEN [outbox EXCEPT ![e].delivered = TRUE] ELSE outbox
    /\ lease' = [lease EXCEPT ![k][e] = "none"]
    /\ UNCHANGED handled

\* A consumer stops, or the answer to its claim is lost: it has no token, but
\* what it processed is durable.
Stop(k) ==
    /\ lease[k] # [e \in Events |-> "none"]
    /\ lease' = [lease EXCEPT ![k] = [e \in Events |-> "none"]]
    /\ UNCHANGED <<outbox, handled>>

-----------------------------------------------------------------------------
\* At most one consumer works on an event under a lease that still runs
\* (outbox.rs 35-39).
OneHolder ==
    \A e \in Events : \A k1, k2 \in Consumers :
        lease[k1][e] = "running" /\ lease[k2][e] = "running" => k1 = k2

\* An event counts as delivered only when the consumer that claimed it last has
\* processed it: a late acknowledgement under an older lease does not count
\* (outbox.rs 43-48, docs/API.md 200).
DeliveredWasHandled ==
    \A e \in Recorded : outbox[e].delivered => <<outbox[e].holder, e>> \in handled
=============================================================================
