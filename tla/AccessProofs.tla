---------------------------- MODULE AccessProofs ----------------------------
(***************************************************************************)
(* Proofs about Access, with the Outbox it extends, for any number of      *)
(* credentials, requests, consumers and events: the type invariant, who    *)
(* works on an event and when it counts as delivered, and that neither two *)
(* bootstraps nor two revocations undo what the other relied on.           *)
(*                                                                         *)
(* Leases ties what a consumer believes about its lease to the row.        *)
(* Checked says what a request that is about to write has found out, and   *)
(* that the advisory lock keeps it true until it writes.                   *)
(***************************************************************************)
EXTENDS Access, FiniteSetTheorems, TLAPS

-----------------------------------------------------------------------------
(* The outbox.                                                             *)

LeaseState == {"none", "running", "over"}

OutboxTypes ==
    /\ outbox \in [Events -> Row \cup {None}]
    /\ lease \in [Consumers -> [Events -> LeaseState]]
    /\ handled \subseteq Consumers \X Events

\* A token is one of a recorded event, and a consumer whose lease runs is the
\* holder named in the row.
Leases ==
    \A k \in Consumers, e \in Events :
        /\ lease[k][e] # "none" => outbox[e] # None
        /\ lease[k][e] = "running" => outbox[e].holder = k /\ ~outbox[e].lapsed

OutboxInv == OutboxTypes /\ Leases /\ DeliveredWasHandled

LEMMA RecordKeeps ==
    ASSUME NEW e \in Events, Record(e), OutboxInv
    PROVE  OutboxInv'
<1> DEFINE row == [holder |-> None, lapsed |-> FALSE, delivered |-> FALSE]
<1>1. row \in Row
  BY DEF Row
<1>2. outbox' = [outbox EXCEPT ![e] = row] /\ UNCHANGED <<lease, handled>>
  BY DEF Record
<1>3. OutboxTypes'
  BY <1>1, <1>2 DEF OutboxInv, OutboxTypes
<1>4. \A k \in Consumers : lease[k][e] = "none"
  BY DEF OutboxInv, Leases, Record
<1>5. Leases'
  BY <1>2, <1>4 DEF OutboxInv, OutboxTypes, Leases
<1>6. DeliveredWasHandled'
  <2>1. \A f \in Events : outbox'[f] # outbox[f] => f = e /\ outbox'[f] = row
    BY <1>2 DEF OutboxInv, OutboxTypes
  <2>2. ~row.delivered
    OBVIOUS
  <2> QED BY <1>2, <2>1, <2>2 DEF OutboxInv, DeliveredWasHandled, Recorded
<1> QED
  BY <1>3, <1>5, <1>6 DEF OutboxInv

LEMMA ClaimKeeps ==
    ASSUME NEW k \in Consumers, NEW es \in SUBSET Events, Claim(k, es), OutboxInv
    PROVE  OutboxInv'
<1>1. \A e \in es : /\ outbox[e] \in Row /\ ~outbox[e].delivered
                    /\ outbox[e].holder = None \/ outbox[e].lapsed
  BY DEF Claim, Recorded, Ready, OutboxInv, OutboxTypes
<1>2. \A e \in es : /\ outbox'[e] \in Row /\ outbox'[e].holder = k
                    /\ ~outbox'[e].lapsed /\ ~outbox'[e].delivered
  BY <1>1 DEF Claim, Row
<1>3. \A e \in Events \ es : outbox'[e] = outbox[e]
  BY DEF Claim
<1>4. OutboxTypes'
  <2>1. outbox' \in [Events -> Row \cup {None}]
    BY <1>2, <1>3 DEF Claim, OutboxInv, OutboxTypes
  <2>2. lease' \in [Consumers -> [Events -> LeaseState]]
    BY DEF Claim, OutboxInv, OutboxTypes, LeaseState
  <2> QED BY <2>1, <2>2 DEF Claim, OutboxInv, OutboxTypes
<1>5. \A e \in es, j \in Consumers : lease[j][e] # "running"
  BY <1>1, OutboxAssumption DEF OutboxInv, Leases
<1>6. \A e \in Events, j \in Consumers :
        lease'[j][e] = "running" => (e \in es /\ j = k) \/ (e \notin es /\ lease[j][e] = "running")
  BY <1>5 DEF Claim, OutboxInv, OutboxTypes
<1>7. Leases'
  <2>1. \A e \in Events \ es, j \in Consumers : lease'[j][e] = lease[j][e]
    BY DEF Claim, OutboxInv, OutboxTypes
  <2>2. \A e \in es : outbox'[e] # None
    BY <1>2, OutboxAssumption
  <2> QED BY <1>2, <1>3, <1>6, <2>1, <2>2 DEF OutboxInv, Leases
<1>8. DeliveredWasHandled'
  BY <1>2, <1>3 DEF Claim, OutboxInv, DeliveredWasHandled, Recorded
<1> QED
  BY <1>4, <1>7, <1>8 DEF OutboxInv

LEMMA LapseKeeps ==
    ASSUME NEW e \in Events, Lapse(e), OutboxInv
    PROVE  OutboxInv'
<1>1. outbox[e] \in Row /\ ~outbox[e].delivered
  BY DEF Lapse, Recorded, OutboxInv, OutboxTypes
<1>2. /\ outbox'[e] \in Row /\ outbox'[e].lapsed /\ ~outbox'[e].delivered
      /\ \A f \in Events \ {e} : outbox'[f] = outbox[f]
  BY <1>1 DEF Lapse, OutboxInv, OutboxTypes, Row
<1>3. OutboxTypes'
  <2>1. outbox' \in [Events -> Row \cup {None}]
    BY <1>1, <1>2 DEF Lapse, OutboxInv, OutboxTypes
  <2>2. \A k \in Consumers : [lease[k] EXCEPT ![e] = "over"] \in [Events -> LeaseState]
    BY DEF OutboxInv, OutboxTypes, LeaseState
  <2>3. lease' \in [Consumers -> [Events -> LeaseState]]
    BY <2>2 DEF Lapse, OutboxInv, OutboxTypes
  <2> QED BY <2>1, <2>3 DEF Lapse, OutboxInv, OutboxTypes
<1>4. \A k \in Consumers : lease'[k][e] # "running"
  BY DEF Lapse, OutboxInv, OutboxTypes, Leases
<1>5. \A k \in Consumers, f \in Events \ {e} : lease'[k][f] = lease[k][f]
  BY DEF Lapse, OutboxInv, OutboxTypes
<1>6. Leases'
  BY <1>2, <1>4, <1>5, OutboxAssumption DEF OutboxInv, Leases
<1>7. DeliveredWasHandled'
  BY <1>2 DEF Lapse, OutboxInv, DeliveredWasHandled, Recorded
<1> QED
  BY <1>3, <1>6, <1>7 DEF OutboxInv

LEMMA ConsumerKeeps ==
    ASSUME NEW k \in Consumers, NEW e \in Events, OutboxInv,
           Handle(k, e) \/ Ack(k, e) \/ Stop(k)
    PROVE  OutboxInv'
<1>1. CASE Handle(k, e)
  BY <1>1 DEF Handle, OutboxInv, OutboxTypes, Leases, DeliveredWasHandled, Recorded
<1>2. CASE Stop(k)
  <2>1. lease' = [lease EXCEPT ![k] = [f \in Events |-> "none"]]
        /\ UNCHANGED <<outbox, handled>>
    BY <1>2 DEF Stop
  <2>2. [f \in Events |-> "none"] \in [Events -> LeaseState]
    BY DEF LeaseState
  <2>3. OutboxTypes'
    BY <2>1, <2>2 DEF OutboxInv, OutboxTypes
  <2>4. \A j \in Consumers, f \in Events : lease'[j][f] \in {"none", lease[j][f]}
    BY <2>1 DEF OutboxInv, OutboxTypes
  <2> QED BY <2>1, <2>3, <2>4 DEF OutboxInv, Leases, DeliveredWasHandled, Recorded
<1>3. CASE Ack(k, e)
  <2>1. /\ lease' = [lease EXCEPT ![k][e] = "none"] /\ handled' = handled
        /\ <<k, e>> \in handled
    BY <1>3 DEF Ack
  <2>2. lease' \in [Consumers -> [Events -> LeaseState]]
    <3>1. [lease[k] EXCEPT ![e] = "none"] \in [Events -> LeaseState]
      BY DEF OutboxInv, OutboxTypes, LeaseState
    <3> QED BY <2>1, <3>1 DEF OutboxInv, OutboxTypes
  <2>3. \A j \in Consumers, f \in Events : lease'[j][f] \in {"none", lease[j][f]}
    BY <2>1 DEF OutboxInv, OutboxTypes
  <2>4. outbox[e] # None
    BY <1>3 DEF Ack, OutboxInv, Leases
  <2>5. CASE outbox' = outbox
    BY <2>1, <2>2, <2>3, <2>5
       DEF OutboxInv, OutboxTypes, Leases, DeliveredWasHandled, Recorded
  <2>6. CASE MayAck(k, outbox[e]) /\ outbox' = [outbox EXCEPT ![e].delivered = TRUE]
               /\ outbox[e] # None
    <3>1. outbox[e] \in Row /\ outbox[e].holder = k
      BY <2>6 DEF MayAck, OutboxInv, OutboxTypes
    <3>2. /\ outbox'[e] \in Row /\ outbox'[e].holder = k
          /\ outbox'[e].lapsed = outbox[e].lapsed
          /\ \A f \in Events \ {e} : outbox'[f] = outbox[f]
      BY <2>6, <3>1 DEF OutboxInv, OutboxTypes, Row
    <3>3. outbox' \in [Events -> Row \cup {None}]
      BY <2>6, <3>2 DEF OutboxInv, OutboxTypes
    <3>4. Leases'
      BY <2>3, <3>1, <3>2, OutboxAssumption DEF OutboxInv, Leases
    <3>5. DeliveredWasHandled'
      BY <2>1, <3>2 DEF OutboxInv, DeliveredWasHandled, Recorded
    <3> QED BY <2>1, <2>2, <3>3, <3>4, <3>5 DEF OutboxInv, OutboxTypes
  <2> QED BY <1>3, <2>4, <2>5, <2>6 DEF Ack
<1> QED
  BY <1>1, <1>2, <1>3

\* A request only records an event; a consumer does the rest.
LEMMA OutboxKept ==
    ASSUME OutboxInv, [Next]_vars
    PROVE  OutboxInv'
<1>1. ASSUME UNCHANGED outboxVars PROVE OutboxInv'
  BY <1>1 DEF outboxVars, OutboxInv, OutboxTypes, Leases, DeliveredWasHandled, Recorded
<1>2. CASE Administer
  <2>1. (\E e \in Events : Record(e)) \/ UNCHANGED outboxVars
    BY <1>2 DEF Administer, Receive, Begin, Lock, Check, Write, Rollback
  <2> QED BY <2>1, <1>1, RecordKeeps
<1>3. CASE \E c \in Credentials : Expire(c)
  BY <1>1, <1>3 DEF Expire
<1>4. CASE Consume
  <2>1. CASE \E e \in Events : Fetch(e)
    BY <2>1, ClaimKeeps DEF Fetch
  <2>2. CASE \E e \in Events : Process(e) \/ Confirm(e)
    BY <2>2, ConsumerKeeps DEF Process, Confirm
  <2>3. CASE \E e \in Events : Lapse(e)
    BY <2>3, LapseKeeps
  <2>4. CASE \E k \in Consumers : Stop(k)
    <3>1. PICK k \in Consumers : Stop(k)
      BY <2>4
    <3>2. CASE Events = {}
      BY <3>1, <3>2 DEF Stop, OutboxInv, OutboxTypes, Leases, DeliveredWasHandled, Recorded
    <3>3. CASE Events # {}
      BY <3>1, <3>3, ConsumerKeeps
    <3> QED BY <3>2, <3>3
  <2> QED BY <1>4, <2>1, <2>2, <2>3, <2>4 DEF Consume
<1>5. CASE UNCHANGED vars
  BY <1>1, <1>5 DEF vars
<1> QED
  BY <1>2, <1>3, <1>4, <1>5 DEF Next

LEMMA OutboxInvariant == AccessSpec => []OutboxInv
<1>1. Init => OutboxInv
  BY DEF Init, OutboxInit, OutboxInv, OutboxTypes, LeaseState, Leases,
         DeliveredWasHandled, Recorded
<1>2. OutboxInv /\ [Next]_vars => OutboxInv'
  BY OutboxKept
<1> QED
  BY <1>1, <1>2, PTL DEF AccessSpec

\* At most one consumer works on an event under a lease that still runs.
THEOREM EventHasOneHolder == AccessSpec => []OneHolder
<1>1. OutboxInv => OneHolder
  BY DEF OutboxInv, Leases, OneHolder
<1> QED
  BY <1>1, OutboxInvariant, PTL

\* An event counts as delivered only when its last holder has processed it.
THEOREM DeliveryWasHandled == AccessSpec => []DeliveredWasHandled
<1>1. OutboxInv => DeliveredWasHandled
  BY DEF OutboxInv
<1> QED
  BY <1>1, OutboxInvariant, PTL

-----------------------------------------------------------------------------
(* The requests.                                                           *)

PcValue == {"unsent", "begin", "lock", "check", "write", "done"}

AccessTypes ==
    /\ credential \in [Credentials -> {None, "active", "revoked"}]
    /\ expired \subseteq {c \in Credentials : credential[c] # None}
    /\ lock \in Requests \cup {None}
    /\ lock # None => pc[lock] \in {"check", "write"}
    /\ pc \in [Requests -> PcValue]
    /\ past \in [Requests -> SUBSET expired]

\* Who is about to write holds the advisory lock, unless he creates; the actor
\* of a request on its way exists, so bootstrap finds the table not empty; what
\* Check has found out still holds.
Checked ==
    /\ \A r \in Requests : r.op # "create" /\ pc[r] \in {"check", "write"} => lock = r
    /\ \A r \in Requests :
          r.op # "bootstrap" /\ pc[r] \notin {"unsent", "done"} => credential[r.actor] # None
    /\ \A r \in Requests : r.op = "bootstrap" /\ pc[r] = "write" =>
          \A c \in Credentials : credential[c] = None
    /\ \A r \in Requests : r.op = "revoke" /\ pc[r] = "write" =>
          /\ credential[r.target] # None
          /\ r.target \in Admins \ past[r] /\ Active(r.target) =>
                \E c \in Admins \ past[r] : c # r.target /\ Active(c)

RequestInv == AccessTypes /\ Checked

LEMMA RequestFields ==
    ASSUME NEW r \in Requests
    PROVE  /\ r # None /\ r.target \in Credentials
           /\ r.op \in {"bootstrap", "create", "revoke"}
           /\ r.op # "bootstrap" => r.actor \in Admins /\ r.actor \in Credentials
BY AccessAssumption DEF Credentials

\* A request that ends, by whichever step, gives up all it held.
LEMMA EndKeeps ==
    ASSUME NEW r \in Requests, End(r), RequestInv, UNCHANGED expired,
           credential' \in [Credentials -> {None, "active", "revoked"}],
           \A c \in Credentials : credential[c] # None => credential'[c] # None
    PROVE  /\ AccessTypes'
           /\ pc'[r] = "done" /\ \A q \in Requests \ {r} : pc'[q] = pc[q] /\ past'[q] = past[q]
           /\ lock' = IF lock = r THEN None ELSE lock
<1>1. /\ pc' = [pc EXCEPT ![r] = "done"] /\ past' = [past EXCEPT ![r] = {}]
      /\ lock' = IF lock = r THEN None ELSE lock
  BY DEF End, Goto
<1>2. pc' \in [Requests -> PcValue] /\ past' \in [Requests -> SUBSET expired']
  BY <1>1 DEF RequestInv, AccessTypes, PcValue
<1>3. expired' \subseteq {c \in Credentials : credential'[c] # None}
  BY DEF RequestInv, AccessTypes
<1>4. /\ pc'[r] = "done"
      /\ \A q \in Requests \ {r} : pc'[q] = pc[q] /\ past'[q] = past[q]
  BY <1>1 DEF RequestInv, AccessTypes
<1>5. lock' \in Requests \cup {None} /\ (lock' # None => pc'[lock'] \in {"check", "write"})
  BY <1>1, <1>4 DEF RequestInv, AccessTypes
<1> QED
  BY <1>1, <1>2, <1>3, <1>4, <1>5 DEF AccessTypes

\* Steps of a request that change no credential.
LEMMA QuietKeeps ==
    ASSUME NEW r \in Requests, RequestInv,
           Receive(r) \/ Begin(r) \/ Lock(r) \/ Check(r) \/ Rollback(r)
    PROVE  RequestInv'
<1> USE DEF RequestInv
<1>1. ASSUME End(r), UNCHANGED <<credential, expired>> PROVE RequestInv'
  <2>1. /\ AccessTypes'
        /\ pc'[r] = "done" /\ \A q \in Requests \ {r} : pc'[q] = pc[q] /\ past'[q] = past[q]
        /\ lock' = IF lock = r THEN None ELSE lock
    BY <1>1, EndKeeps DEF AccessTypes
  <2> QED BY <1>1, <2>1 DEF Checked, Active
<1>2. CASE Receive(r)
  <2>1. /\ pc' = [pc EXCEPT ![r] = "begin"] /\ UNCHANGED <<credential, expired, lock, past>>
        /\ pc[r] = "unsent"
    BY <1>2 DEF Receive, Goto
  <2>2. AccessTypes'
    BY <2>1 DEF AccessTypes, PcValue
  <2>3. r.op # "bootstrap" => credential[r.actor] # None
    BY <1>2, AccessAssumption DEF Receive, Valid, Active
  <2> QED BY <2>1, <2>2, <2>3 DEF Checked, Active, AccessTypes
<1>3. CASE Begin(r)
  <2> DEFINE next == IF r.op = "create" THEN "write" ELSE "lock"
  <2>1. /\ pc' = [pc EXCEPT ![r] = next] /\ UNCHANGED <<credential, expired, lock>>
        /\ pc[r] = "begin"
        /\ past' = IF r.op = "revoke" THEN [past EXCEPT ![r] = expired] ELSE past
    BY <1>3 DEF Begin, Goto
  <2>2. \A q \in Requests \ {r} : pc'[q] = pc[q] /\ past'[q] = past[q]
    BY <2>1 DEF AccessTypes
  <2>3. pc'[r] = next /\ pc' \in [Requests -> PcValue]
    BY <2>1 DEF AccessTypes, PcValue
  <2>4. past' \in [Requests -> SUBSET expired']
    BY <2>1 DEF AccessTypes
  <2>5. lock # r
    BY <2>1, RequestFields DEF AccessTypes
  <2>6. AccessTypes'
    BY <2>1, <2>2, <2>3, <2>4, <2>5 DEF AccessTypes
  <2> QED BY <2>1, <2>2, <2>3, <2>6 DEF Checked, Active
<1>4. CASE Lock(r)
  <2>1. /\ pc' = [pc EXCEPT ![r] = "check"] /\ UNCHANGED <<credential, expired, past>>
        /\ pc[r] = "lock" /\ lock = None /\ lock' = r
    BY <1>4 DEF Lock, Goto, Free
  <2>2. pc'[r] = "check" /\ \A q \in Requests \ {r} : pc'[q] = pc[q]
    BY <2>1 DEF AccessTypes
  <2>3. AccessTypes'
    BY <2>1, <2>2 DEF AccessTypes, PcValue
  <2>4. \A q \in Requests : q.op # "create" /\ pc'[q] \in {"check", "write"} => q = r
    BY <2>1, <2>2, RequestFields DEF Checked
  <2> QED BY <2>1, <2>2, <2>3, <2>4 DEF Checked, Active
<1>5. CASE Check(r)
  <2>1. CASE ~MayWrite(r)
    BY <1>1, <1>5, <2>1 DEF Check
  <2>2. CASE MayWrite(r)
    <3>1. /\ pc' = [pc EXCEPT ![r] = "write"] /\ pc[r] = "check"
          /\ UNCHANGED <<credential, expired, lock, past>>
      BY <1>5, <2>2 DEF Check, Goto
    <3>2. pc'[r] = "write" /\ \A q \in Requests \ {r} : pc'[q] = pc[q]
      BY <3>1 DEF AccessTypes
    <3>3. AccessTypes'
      BY <3>1, <3>2 DEF AccessTypes, PcValue
    <3>4. ASSUME r.op = "revoke", r.target \in Admins \ past[r], Active(r.target)
          PROVE  \E c \in Admins \ past[r] : c # r.target /\ Active(c)
      <4>1. Cardinality(ValidAdmins(r)) > 1
        BY <2>2, <3>4 DEF MayWrite
      <4>2. ASSUME ValidAdmins(r) \subseteq {r.target} PROVE FALSE
        <5>1. IsFiniteSet({r.target}) /\ Cardinality({r.target}) = 1
          BY FS_Singleton
        <5>2. /\ IsFiniteSet(ValidAdmins(r))
              /\ Cardinality(ValidAdmins(r)) <= Cardinality({r.target})
          BY <4>2, <5>1, FS_Subset
        <5>3. Cardinality(ValidAdmins(r)) \in Nat
          BY <5>2, FS_CardinalityType
        <5> QED BY <4>1, <5>1, <5>2, <5>3
      <4> QED BY <4>2 DEF ValidAdmins
    <3>5. r.op = "bootstrap" => \A c \in Credentials : credential[c] = None
      BY <2>2 DEF MayWrite
    <3>6. r.op = "revoke" => credential[r.target] # None
      BY <2>2 DEF MayWrite
    <3> QED BY <3>1, <3>2, <3>3, <3>4, <3>5, <3>6 DEF Checked, Active
  <2> QED BY <2>1, <2>2
<1>6. CASE Rollback(r)
  BY <1>1, <1>6 DEF Rollback
<1> QED
  BY <1>2, <1>3, <1>4, <1>5, <1>6

\* The write: no other request that has checked something is disturbed by it,
\* because of the lock or, for a creation, because its actor exists.
LEMMA WriteKeeps ==
    ASSUME NEW r \in Requests, RequestInv, Write(r)
    PROVE  RequestInv'
<1> USE DEF RequestInv
<1> DEFINE new == IF r.op = "revoke" THEN "revoked" ELSE "active"
<1>1. /\ pc[r] = "write" /\ End(r) /\ UNCHANGED expired
      /\ credential' = [credential EXCEPT ![r.target] = new]
      /\ r.op # "revoke" => credential[r.target] = None
  BY DEF Write
<1>2. new # None /\ new \in {None, "active", "revoked"}
  BY AccessAssumption
<1> HIDE DEF new
<1>3. r.target \in Credentials /\ r # None
  BY RequestFields
<1>4. /\ credential' \in [Credentials -> {None, "active", "revoked"}]
      /\ \A c \in Credentials : credential'[c] = IF c = r.target THEN new ELSE credential[c]
  BY <1>1, <1>2, <1>3 DEF AccessTypes
<1>5. \A c \in Credentials : credential[c] # None => credential'[c] # None
  BY <1>2, <1>4
<1>6. /\ AccessTypes'
      /\ pc'[r] = "done" /\ \A q \in Requests \ {r} : pc'[q] = pc[q] /\ past'[q] = past[q]
      /\ lock' = IF lock = r THEN None ELSE lock
  BY <1>1, <1>4, <1>5, EndKeeps
<1>7. \A q \in Requests : q.op # "create" /\ pc'[q] \in {"check", "write"} => lock' = q
  BY <1>6 DEF Checked
<1>8. ASSUME NEW q \in Requests, q.op # "bootstrap", pc'[q] \notin {"unsent", "done"}
      PROVE  credential'[q.actor] # None
  <2>1. q # r /\ pc[q] \notin {"unsent", "done"}
    BY <1>6, <1>8
  <2>2. credential[q.actor] # None /\ q.actor \in Credentials
    BY <1>8, <2>1, RequestFields DEF Checked
  <2> QED BY <2>2, <1>5
\* Another request that has checked holds the lock, so this one creates.
<1>9. ASSUME NEW q \in Requests, q.op # "create", pc'[q] = "write"
      PROVE  r.op = "create" /\ q # r /\ pc[q] = "write" /\ past'[q] = past[q]
  <2>1. q # r /\ pc[q] = "write" /\ past'[q] = past[q]
    BY <1>6, <1>9
  <2>2. lock = q
    BY <1>9, <2>1 DEF Checked
  <2> QED BY <1>1, <2>1, <2>2 DEF Checked
<1>10. ASSUME NEW q \in Requests, q.op = "bootstrap", pc'[q] = "write"
       PROVE  FALSE
  <2>1. r.op = "create" /\ pc[q] = "write"
    BY <1>9, <1>10
  <2>2. credential[r.actor] # None /\ r.actor \in Credentials
    BY <1>1, <2>1, RequestFields DEF Checked
  <2> QED BY <1>10, <2>1, <2>2 DEF Checked
<1>11. ASSUME NEW q \in Requests, q.op = "revoke", pc'[q] = "write"
       PROVE  /\ credential'[q.target] # None
              /\ q.target \in Admins \ past'[q] /\ Active(q.target)' =>
                    \E c \in Admins \ past'[q] : c # q.target /\ Active(c)'
  <2>1. r.op = "create" /\ pc[q] = "write" /\ past'[q] = past[q]
    BY <1>9, <1>11
  <2>2. credential[r.target] = None /\ new = "active"
    BY <1>1, <2>1 DEF new
  <2>3. credential[q.target] # None /\ q.target \in Credentials
    BY <1>11, <2>1, RequestFields DEF Checked
  <2>4. credential'[q.target] = credential[q.target]
    BY <1>4, <2>2, <2>3
  <2>5. \A c \in Credentials : Active(c) => Active(c)'
    BY <1>4, <2>2, AccessAssumption DEF Active
  <2>6. Admins \subseteq Credentials
    BY DEF Credentials
  <2> QED BY <1>11, <2>1, <2>3, <2>4, <2>5, <2>6 DEF Checked, Active
<1> QED
  BY <1>6, <1>7, <1>8, <1>10, <1>11 DEF Checked

LEMMA RequestKept ==
    ASSUME RequestInv, [Next]_vars
    PROVE  RequestInv'
<1>1. CASE Administer
  BY <1>1, QuietKeeps, WriteKeeps DEF Administer
<1>2. ASSUME NEW c \in Credentials, Expire(c) PROVE RequestInv'
  <2>1. /\ UNCHANGED <<credential, lock, pc, past>> /\ expired' = expired \cup {c}
        /\ credential[c] # None
    BY <1>2 DEF Expire
  <2>2. AccessTypes'
    BY <2>1 DEF RequestInv, AccessTypes
  <2> QED BY <2>1, <2>2 DEF RequestInv, Checked, Active
<1>3. CASE UNCHANGED accessVars
  BY <1>3 DEF accessVars, RequestInv, AccessTypes, Checked, Active
<1> QED
  BY <1>1, <1>2, <1>3 DEF Next, Consume, vars

LEMMA RequestInvariant == AccessSpec => []RequestInv
<1>1. Init => RequestInv
  <2> SUFFICES ASSUME Init PROVE RequestInv
    OBVIOUS
  <2>1. AccessTypes
    BY AccessAssumption DEF Init, AccessTypes, PcValue
  <2>2. Checked
    BY DEF Init, Checked
  <2> QED BY <2>1, <2>2 DEF RequestInv
<1>2. RequestInv /\ [Next]_vars => RequestInv'
  BY RequestKept
<1> QED
  BY <1>1, <1>2, PTL DEF AccessSpec

\* The credentials, the requests, the rows and the leases keep their types.
THEOREM AccessTypeCorrect == AccessSpec => []AccessTypeOK
<1>1. OutboxInv /\ RequestInv => AccessTypeOK
  BY DEF OutboxInv, OutboxTypes, LeaseState, RequestInv, AccessTypes, PcValue, AccessTypeOK
<1> QED
  BY <1>1, OutboxInvariant, RequestInvariant, PTL

\* A bootstrap only ever writes to an empty table of credentials.
THEOREM BootstrapIsOnce == AccessSpec => OneRoot
<1>1. RequestInv =>
        [\A r \in Requests : r.op = "bootstrap" /\ Write(r) =>
            \A c \in Credentials : credential[c] = None]_vars
  BY DEF RequestInv, Checked, Write
<1> QED
  BY <1>1, RequestInvariant, PTL DEF OneRoot

\* A revocation leaves an administrator who was valid when it began.
THEOREM RevocationKeepsAdmin == AccessSpec => LastAdminStays
<1>1. RequestInv =>
        [\A r \in Requests :
            r.op = "revoke" /\ Write(r)
               /\ r.target \in Admins \ past[r] /\ Active(r.target) =>
                \E c \in Admins \ past[r] : credential'[c] = "active"]_vars
  <2> SUFFICES ASSUME RequestInv, NEW r \in Requests, r.op = "revoke", Write(r),
                      r.target \in Admins \ past[r], Active(r.target)
               PROVE  \E c \in Admins \ past[r] : credential'[c] = "active"
    OBVIOUS
  <2>1. PICK c \in Admins \ past[r] : c # r.target /\ Active(c)
    BY DEF RequestInv, Checked, Write
  <2>2. credential'[c] = credential[c]
    BY <2>1 DEF Write, RequestInv, AccessTypes, Credentials
  <2> QED BY <2>1, <2>2 DEF Active
<1> QED
  BY <1>1, RequestInvariant, PTL DEF LastAdminStays
=============================================================================
