------------------------------- MODULE Access -------------------------------
(***************************************************************************)
(* Credentials: bootstrap and authenticate of auth.rs, create_credential   *)
(* and revoke_credential of service/catalog.rs, each in a transaction of   *)
(* its own that records an event, which the consumers of Outbox fetch with *)
(* a credential of theirs.                                                 *)
(*                                                                         *)
(* Of the time, what matters is which credentials have expired.  now() is  *)
(* the time a transaction began, so a transaction goes by the credentials  *)
(* that had expired then.  A request is sent once: its repetition is       *)
(* answered from the stored response, which Commission models.             *)
(***************************************************************************)
EXTENDS Outbox, FiniteSets

CONSTANTS
    Requests,    \* what arrives: operation, actor and the credential it is about
    Admins,      \* credentials of the role admin
    Integrator,  \* the credential of the consumers
    Expiring,    \* those that can expire while we look
    Tables       \* the credentials at the start: no one, or who was created

Credentials == Admins \cup {Integrator}

ASSUME AccessAssumption ==
    /\ Requests \subseteq [op : {"bootstrap"}, actor : {None}, target : Admins] \cup
                    [op : {"create", "revoke"}, actor : Admins, target : Credentials]
    /\ None \notin Requests \cup Credentials
    /\ None \notin {"active", "revoked"}
    /\ Integrator \notin Admins
    /\ Expiring \subseteq Credentials
    /\ \A table \in Tables : table \subseteq Credentials

VARIABLES
    credential,  \* its row: None, "active" or "revoked"
    expired,     \* credentials with expires_at <= the time
    lock,        \* who holds the advisory lock 734190821
    pc,          \* request -> how far it is
    past         \* revocation -> what had expired when its transaction began

accessVars == <<credential, expired, lock, pc, past>>
vars == <<accessVars, outboxVars>>

Init ==
    /\ OutboxInit
    /\ \E table \in Tables :
          credential = [c \in Credentials |-> IF c \in table THEN "active" ELSE None]
    /\ expired = {}
    /\ lock = None
    /\ pc = [r \in Requests |-> "unsent"]
    /\ past = [r \in Requests |-> {}]

Active(c) == credential[c] = "active"
Valid(c) == Active(c) /\ c \notin expired

Expire(c) ==
    /\ c \in Expiring \ expired /\ credential[c] # None
    /\ expired' = expired \cup {c}
    /\ UNCHANGED <<credential, lock, pc, past, outboxVars>>

Goto(r, next) == pc' = [pc EXCEPT ![r] = next]

\* Mutant: a lock of the session instead of the transaction.
KeepLock(r) ==
    /\ Goto(r, "done")
    /\ past' = [past EXCEPT ![r] = {}]
    /\ UNCHANGED lock

End(r) ==
    /\ Goto(r, "done")
    /\ lock' = IF lock = r THEN None ELSE lock
    /\ past' = [past EXCEPT ![r] = {}]

\* authenticate and actor.require, after which nothing looks at the actor
\* again; bootstrap is a command line without an actor.
Receive(r) ==
    /\ pc[r] = "unsent"
    /\ r.op # "bootstrap" => Valid(r.actor)
    /\ Goto(r, "begin")
    /\ UNCHANGED <<credential, expired, lock, past, outboxVars>>

Begin(r) ==
    /\ pc[r] = "begin"
    /\ past' = IF r.op = "revoke" THEN [past EXCEPT ![r] = expired] ELSE past
    /\ Goto(r, IF r.op = "create" THEN "write" ELSE "lock")
    /\ UNCHANGED <<credential, expired, lock, outboxVars>>

\* Mutant: nobody waits for the advisory lock.
NoLock(r) == TRUE

Free(r) == lock = None

Lock(r) ==
    /\ pc[r] = "lock"
    /\ Free(r)
    /\ lock' = r
    /\ Goto(r, "check")
    /\ UNCHANGED <<credential, expired, past, outboxVars>>

\* Mutant: administrators who have expired count as well.
Unrevoked(r) == {c \in Admins : Active(c)}

ValidAdmins(r) == {c \in Admins : Active(c) /\ c \notin past[r]}

\* What bootstrap and revoke_credential check under the lock.
MayWrite(r) ==
    IF r.op = "bootstrap" THEN \A c \in Credentials : credential[c] = None
    ELSE /\ credential[r.target] # None
         /\ r.target \in Admins /\ Active(r.target) /\ r.target \notin past[r]
               => Cardinality(ValidAdmins(r)) > 1

Check(r) ==
    /\ pc[r] = "check"
    /\ IF MayWrite(r) THEN Goto(r, "write") /\ UNCHANGED <<lock, past>> ELSE End(r)
    /\ UNCHANGED <<credential, expired, outboxVars>>

\* The INSERT or UPDATE, complete and COMMIT; token_hash is unique.  Rows of the
\* outbox do not depend on each other, so any MaxEvents of them are followed.
Write(r) ==
    /\ pc[r] = "write"
    /\ r.op # "revoke" => credential[r.target] = None
    /\ credential' = [credential EXCEPT ![r.target] =
                         IF r.op = "revoke" THEN "revoked" ELSE "active"]
    /\ \/ \E e \in Events : Record(e)
       \/ UNCHANGED outboxVars
    /\ End(r)
    /\ UNCHANGED expired

\* A failed statement, a timeout or a crash.
Rollback(r) ==
    /\ pc[r] \notin {"unsent", "done"}
    /\ End(r)
    /\ UNCHANGED <<credential, expired, outboxVars>>

Administer ==
    \E r \in Requests :
        Receive(r) \/ Begin(r) \/ Lock(r) \/ Check(r) \/ Write(r) \/ Rollback(r)

Fetch(e) ==
    \E k \in Consumers, es \in SUBSET Events :
        e \in es /\ Valid(Integrator) /\ Claim(k, es)
Process(e) == \E k \in Consumers : Handle(k, e)
Confirm(e) == \E k \in Consumers : Valid(Integrator) /\ Ack(k, e)

Consume ==
    /\ \/ \E e \in Events : Fetch(e) \/ Process(e) \/ Confirm(e) \/ Lapse(e)
       \/ \E k \in Consumers : Stop(k)
    /\ UNCHANGED accessVars

Next == Administer \/ (\E c \in Credentials : Expire(c)) \/ Consume

AccessSpec == Init /\ [][Next]_vars

InTime(e) == e \in Recorded /\ \E k \in Consumers :
                MayAck(k, outbox[e]) /\ Valid(Integrator) /\ Ack(k, e)

\* Time passes, consumers poll and process for ever, and not every
\* acknowledgement is late.
FairAccess ==
    /\ AccessSpec
    /\ \A e \in Events :
          /\ WF_vars(Lapse(e) /\ UNCHANGED accessVars)
          /\ SF_vars(Fetch(e) /\ UNCHANGED accessVars)
          /\ SF_vars(Process(e) /\ UNCHANGED accessVars)
          /\ SF_vars(InTime(e) /\ UNCHANGED accessVars)

-----------------------------------------------------------------------------
\* Type invariant of the tables, the consumers and the handlers.
AccessTypeOK ==
    /\ outbox \in [Events -> Row \cup {None}]
    /\ lease \in [Consumers -> [Events -> {"none", "running", "over"}]]
    /\ handled \subseteq Consumers \X Events
    /\ credential \in [Credentials -> {None, "active", "revoked"}]
    /\ expired \subseteq {c \in Credentials : credential[c] # None}
    /\ lock \in Requests \cup {None}
    /\ lock # None => pc[lock] \in {"check", "write"}
    /\ pc \in [Requests -> {"unsent", "begin", "lock", "check", "write", "done"}]
    /\ past \in [Requests -> SUBSET expired]

\* Two bootstraps at once leave one administrator: neither writes to a table
\* that is not empty any more (auth.rs 100-119).
OneRoot ==
    [][\A r \in Requests : r.op = "bootstrap" /\ Write(r) =>
          \A c \in Credentials : credential[c] = None]_vars

\* A revocation never leaves the service without an administrator that was
\* valid when it began, whatever ran or expired meanwhile (catalog.rs 250-266).
LastAdminStays ==
    [][\A r \in Requests :
          r.op = "revoke" /\ Write(r)
             /\ r.target \in Admins \ past[r] /\ Active(r.target) =>
              \E c \in Admins \ past[r] : credential'[c] = "active"]_vars

\* Every recorded event is delivered in the end, whichever consumers stop and
\* answers are lost, unless the credential of the consumers ends (outbox.rs 26-48).
Delivered ==
    \A e \in Events :
        e \in Recorded ~> (e \in Recorded /\ outbox[e].delivered) \/ ~Valid(Integrator)
=============================================================================
