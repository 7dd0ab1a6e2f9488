-------------------------- MODULE CommissionProofs --------------------------
(***************************************************************************)
(* Proofs about the interleaved transactions, for any number of processes, *)
(* accounts, rows and requests.                                            *)
(*                                                                         *)
(* Knows says what a transaction has found out and still relies on at each *)
(* label, and which locks keep it true.  A step of one transaction changes *)
(* a committed row only under its own lock of that row (Effect), and locks *)
(* exclude each other (Exclusive), so it takes nothing away from what the  *)
(* others know (OthersKeep).  At its commit a transaction then knows all   *)
(* that the atomic operation of Ledger asks for (StepRefines): that is the *)
(* refinement, and every theorem of Ledger holds of the transactions too.  *)
(***************************************************************************)
EXTENDS Commission, LedgerProofs

Holds(h, x) == x \in held[h]

Past(h, labels) == pc[h] \in labels

\* The customer's binding is settled before the order is quoted.
KnowsCapture(h) ==
    LET r == req[h]
    IN  /\ Past(h, {"claim", "customer", "quote", "capture", "wallets", "commit"})
        /\ Past(h, {"customer"}) => r.customer # None
        /\ Past(h, {"quote", "capture", "wallets", "commit"}) /\ r.customer # None
              => Holds(h, <<"customer", r.customer>>)
        /\ Past(h, {"capture", "wallets", "commit"})
              => Quotable(r) /\ seen[h] = NewOrder(r, Referrer(r.customer))
        /\ Past(h, {"wallets", "commit"}) => Holds(h, <<"order", r.order>>)

\* The customer has neither a binding nor an order.
KnowsBind(h) ==
    /\ Past(h, {"claim", "customer", "bind", "commit"})
    /\ Past(h, {"bind", "commit"}) => Holds(h, <<"customer", req[h].customer>>)
    /\ Past(h, {"commit"}) => Bindable(req[h])

\* The order row that was read is the committed one, and it allows the step.
KnowsOrder(h) ==
    LET r == req[h]
    IN  /\ Past(h, CASE r.op = "refund"  -> {"claim", "order", "refund", "wallets", "commit"}
                     [] r.op = "release" -> {"claim", "order", "release", "wallets", "commit"}
                     [] r.op = "worker"  -> {"release", "wallets", "commit"})
        /\ Past(h, {"refund", "release", "wallets", "commit"}) =>
              /\ Holds(h, <<"order", r.order>>)
              /\ order[r.order] # None /\ seen[h] = order[r.order]
              /\ CASE r.op = "refund"  -> Refundable(r, seen[h])
                   [] r.op = "release" -> \/ seen[h].released /\ pc[h] = "commit"
                                          \/ ~ seen[h].released /\ r.order \in due
                   [] r.op = "worker"  -> ~ seen[h].released /\ r.order \in due

\* The balance that was read is covered as long as the wallet is locked.
KnowsRequest(h) ==
    LET r == req[h]
    IN  /\ Past(h, {"claim", "balance", "reserve", "commit"})
        /\ Past(h, {"balance"}) => seen[h] = [account |-> r.account]
        /\ Past(h, {"reserve", "commit"}) =>
              Holds(h, <<"wallet", r.account>>) /\ Funded(r)
        /\ Past(h, {"commit"}) => Holds(h, <<"payout", r.payout>>)

\* The payout row that was read is the committed one, and it allows the step.
KnowsPayout(h) ==
    LET r == req[h]
    IN  /\ Past(h, CASE r.op \in {"approve", "processing"} -> {"claim", "payout", "balance", "commit"}
                     [] r.op = "reject"  -> {"claim", "payout", "wallets", "commit"}
                     [] r.op = "outcome" -> {"claim", "payout", "wallets", "reference", "commit"})
        /\ Past(h, {"balance", "wallets", "reference", "commit"}) =>
              /\ Holds(h, <<"payout", r.payout>>)
              /\ payout[r.payout] # None /\ seen[h] = payout[r.payout]
              /\ CASE r.op = "approve"    -> Approvable(r, seen[h])
                   [] r.op = "processing" -> Processable(r, seen[h])
                   [] r.op = "reject"     -> Rejectable(seen[h])
                   [] r.op = "outcome"    -> Confirmable(r, seen[h])
        /\ Past(h, {"commit"}) /\ r.op \in {"approve", "processing"} =>
              Holds(h, <<"wallet", seen[h].account>>) /\ NotInDebt(seen[h].account)

\* The accounts whose wallets the commit changes.
Touches(h) ==
    LET r == req[h]
        row == seen[h]
    IN  CASE r.op = "capture" -> Touched(CapturePosting(row))
          [] r.op = "refund"  -> Touched(RefundPosting(row, Deltas(r, row), r.amount))
          [] r.op \in {"release", "worker"} ->
                IF row.released THEN {} ELSE Touched(ReleasePosting(row))
          [] r.op = "reject"  -> Touched(ReservePosting(row.account, row.account, - row.amount))
          [] r.op = "outcome" ->
                IF r.status = "unknown" THEN {}
                ELSE Touched(ReservePosting(row.account,
                        IF r.status = "succeeded" THEN Clearing ELSE row.account,
                        - row.amount))
          [] OTHER -> {}

\* post has locked every wallet it will change, but those it still needs.
WalletsLocked(h) ==
    /\ Past(h, {"wallets"}) <=> need[h] # {}
    /\ Past(h, {"wallets", "reference", "commit"}) =>
          \A a \in Touches(h) \ need[h] : Holds(h, <<"wallet", a>>)

\* The idempotency key is this transaction's, and it has no answer.
Claimed(h) ==
    /\ Past(h, {"claim"}) => held[h] = {}
    /\ ~ Past(h, {"claim"}) => Holds(h, <<"key", KeyOf(req[h])>>) /\ ~ Answered(req[h])

Knows(h) ==
    IF pc[h] = "idle" THEN held[h] = {} /\ need[h] = {}
    ELSE /\ WalletsLocked(h)
         /\ \/ req[h] \in WorkerJobs /\ KnowsOrder(h)
            \/ /\ req[h] \in Requests
               /\ Claimed(h)
               /\ CASE req[h].op = "capture" -> KnowsCapture(h)
                    [] req[h].op = "bind"    -> KnowsBind(h)
                    [] req[h].op \in {"refund", "release"} -> KnowsOrder(h)
                    [] req[h].op = "request" -> KnowsRequest(h)
                    [] req[h].op \in {"approve", "processing", "reject", "outcome"} ->
                          KnowsPayout(h)

\* The private state of the transactions.
TxTypeOK ==
    /\ pc \in [Process -> Labels]
    /\ req \in [Process -> Jobs \cup {None}]
    /\ now \in [Process -> SUBSET Orders] /\ \A h \in Process : now[h] \subseteq due
    /\ seen = [h \in Process |-> seen[h]]
    /\ need \in [Process -> SUBSET Account]
    /\ held \in [Process -> SUBSET Resource]
    /\ outbox \in [Jobs -> Nat]

Exclusive == \A g, h \in Process : g # h => held[g] \cap held[h] = {}

TxInv == TxTypeOK /\ Exclusive /\ \A h \in Process : Knows(h)

CommInv == LedgerTypeOK /\ AllocationsExact /\ TxInv

-----------------------------------------------------------------------------
(* The order of locks.                                                     *)

\* The place of a lock in the order key, customer, order or payout row, refund,
\* wallets by id; the reference of an outcome comes last.
Level(x) ==
    CASE x[1] = "key" -> 0
      [] x[1] = "customer" -> 1
      [] x[1] \in {"order", "payout"} -> 2
      [] x[1] = "refund" -> 3
      [] x[1] = "wallet" -> 4 + Rank[x[2]]
      [] x[1] = "reference" -> 0

\* What is locked before a label is of a lower level than what it locks.
Below(label) ==
    CASE label = "claim" -> 0
      [] label = "customer" -> 1
      [] label \in {"quote", "capture", "order", "payout"} -> 2
      [] label \in {"refund", "release"} -> 3
      [] label = "balance" -> 4

Ascending(h) ==
    /\ pc[h] \in {"claim", "customer", "quote", "capture", "order", "payout", "refund",
                  "release", "balance"}
          => \A x \in held[h] : Level(x) < Below(pc[h])
    /\ \A x \in held[h], b \in need[h] : Level(x) < 4 + Rank[b]

\* Who holds the entry of a payout that is not committed, or a new reference, has
\* no lock left to wait for.
LastLocks(h) ==
    /\ \A p \in Payouts : Holds(h, <<"payout", p>>) => payout[p] # None \/ pc[h] = "commit"
    /\ \A x \in References : Holds(h, <<"reference", x>>) => pc[h] = "commit"

LockOrderInv == \A h \in Process : Ascending(h) /\ LastLocks(h)

-----------------------------------------------------------------------------
(* What the other transactions keep.                                       *)

LEMMA Operations ==
  /\ \A r \in Requests :
        /\ r.op \in {"capture", "refund", "release", "bind", "request", "approve",
                     "processing", "reject", "outcome"}
        /\ r.op # "worker" /\ r \notin WorkerJobs
  /\ \A r \in WorkerJobs : r.op = "worker" /\ r.order \in Orders
BY RequestAssumption DEF OrderRequests, PayoutRequests, WorkerJobs

\* A transaction that takes no step.
Unmoved(g) ==
    /\ pc'[g] = pc[g] /\ req'[g] = req[g] /\ now'[g] = now[g]
    /\ seen'[g] = seen[g] /\ need'[g] = need[g] /\ held'[g] = held[g]

NoNewOrderOf(c) ==
    \A o \in Orders :
        order'[o] # None /\ order'[o].customer = c => order[o] # None /\ order[o].customer = c

\* Nobody has changed a row that g has locked, or added an order of its customer.
Guarded(g) ==
    /\ due \subseteq due'
    /\ \A a \in Account : Holds(g, <<"wallet", a>>) => wallet'[a] = wallet[a]
    /\ \A o \in Orders : Holds(g, <<"order", o>>) => order'[o] = order[o]
    /\ \A p \in Payouts : Holds(g, <<"payout", p>>) => payout'[p] = payout[p]
    /\ \A c \in Customers : Holds(g, <<"customer", c>>) =>
          binding'[c] = binding[c] /\ NoNewOrderOf(c)
    /\ \A r \in Requests :
          Holds(g, <<"key", KeyOf(r)>>) /\ ~ Answered(r) => ~ Answered(r)'

LEMMA TouchesKept ==
  ASSUME NEW g \in Process, Unmoved(g)
  PROVE  Touches(g)' = Touches(g)
BY DEF Unmoved, Touches

LEMMA WalletsLockedKept ==
  ASSUME NEW g \in Process, Unmoved(g), WalletsLocked(g)
  PROVE  WalletsLocked(g)'
BY TouchesKept DEF Unmoved, WalletsLocked, Past, Holds

LEMMA OrderKept ==
  ASSUME NEW g \in Process, Unmoved(g), Guarded(g), KnowsOrder(g), req[g].order \in Orders,
         req[g].op \in {"refund", "release", "worker"}
  PROVE  KnowsOrder(g)'
<1>1. CASE Past(g, {"refund", "release", "wallets", "commit"})
  <2>1. /\ Holds(g, <<"order", req[g].order>>) /\ order'[req[g].order] = order[req[g].order]
        /\ req[g].order \in due => req[g].order \in due'
    BY <1>1 DEF KnowsOrder, Guarded
  <2> QED
    BY <1>1, <2>1 DEF Unmoved, KnowsOrder, Past, Holds, Refundable
<1>2. CASE ~ Past(g, {"refund", "release", "wallets", "commit"})
  BY <1>2 DEF Unmoved, KnowsOrder, Past
<1> QED
  BY <1>1, <1>2

LEMMA PayoutKept ==
  ASSUME NEW g \in Process, Unmoved(g), Guarded(g), KnowsPayout(g), req[g].payout \in Payouts,
         req[g].op \in {"approve", "processing", "reject", "outcome"}, LedgerTypeOK
  PROVE  KnowsPayout(g)'
<1>1. CASE Past(g, {"balance", "wallets", "reference", "commit"})
  <2>1. /\ Holds(g, <<"payout", req[g].payout>>)
        /\ payout'[req[g].payout] = payout[req[g].payout]
        /\ seen[g] = payout[req[g].payout] /\ seen[g] # None
    BY <1>1 DEF KnowsPayout, Guarded
  <2>2. seen[g].account \in Account
    BY <2>1, Accounts DEF LedgerTypeOK, PayoutRow
  <2>3. Holds(g, <<"wallet", seen[g].account>>) => wallet'[seen[g].account] = wallet[seen[g].account]
    BY <2>2 DEF Guarded
  <2> QED
    BY <1>1, <2>1, <2>3 DEF Unmoved, KnowsPayout, Past, Holds, NotInDebt,
       Approvable, Processable, Rejectable, Confirmable
<1>2. CASE ~ Past(g, {"balance", "wallets", "reference", "commit"})
  BY <1>2 DEF Unmoved, KnowsPayout, Past
<1> QED
  BY <1>1, <1>2

LEMMA CaptureKept ==
  ASSUME NEW g \in Process, Unmoved(g), Guarded(g), KnowsCapture(g),
         req[g] \in Requests, req[g].op = "capture"
  PROVE  KnowsCapture(g)'
<1>1. req[g].customer \in Customers \cup {None}
  BY RequestFields
<1>2. CASE Past(g, {"quote", "capture", "wallets", "commit"})
  <2>1. Referrer(req[g].customer)' = Referrer(req[g].customer)
    BY <1>1, <1>2 DEF KnowsCapture, Guarded, Referrer, Unmoved
  <2>2. NewOrder(req[g], Referrer(req[g].customer))' = NewOrder(req[g], Referrer(req[g].customer))
    BY <2>1 DEF NewOrder, Unmoved
  <2> QED
    BY <1>2, <2>2 DEF Unmoved, KnowsCapture, Past, Holds, Quotable
<1>3. CASE ~ Past(g, {"quote", "capture", "wallets", "commit"})
  BY <1>3 DEF Unmoved, KnowsCapture, Past
<1> QED
  BY <1>2, <1>3

LEMMA BindKept ==
  ASSUME NEW g \in Process, Unmoved(g), Guarded(g), KnowsBind(g),
         req[g] \in Requests, req[g].op = "bind"
  PROVE  KnowsBind(g)'
<1>1. req[g].customer \in Customers
  BY RequestFields
<1>2. CASE Past(g, {"commit"})
  <2>1. /\ Holds(g, <<"customer", req[g].customer>>) /\ Bindable(req[g])
        /\ binding'[req[g].customer] = binding[req[g].customer]
        /\ NoNewOrderOf(req[g].customer)
    BY <1>1, <1>2 DEF KnowsBind, Guarded, Past
  <2>2. Bindable(req[g])'
    BY <2>1 DEF Unmoved, Bindable, NoNewOrderOf
  <2> QED
    BY <1>2, <2>1, <2>2 DEF Unmoved, KnowsBind, Past, Holds
<1>3. CASE ~ Past(g, {"commit"})
  BY <1>3 DEF Unmoved, KnowsBind, Past, Holds
<1> QED
  BY <1>2, <1>3

LEMMA RequestKept ==
  ASSUME NEW g \in Process, Unmoved(g), Guarded(g), KnowsRequest(g), req[g].account \in Account
  PROVE  KnowsRequest(g)'
BY DEF Unmoved, Guarded, KnowsRequest, Past, Holds, Funded

LEMMA ClaimedKept ==
  ASSUME NEW g \in Process, Unmoved(g), Guarded(g), Claimed(g), req[g] \in Requests
  PROVE  Claimed(g)'
<1>1. ~ Past(g, {"claim"}) => ~ Answered(req[g])'
  BY DEF Guarded, Claimed, Unmoved, Answered
<1> QED
  BY <1>1 DEF Unmoved, Claimed, Past, Holds, KeyOf, Answered

\* Without a step of its own, and as long as its locks are respected, a
\* transaction goes on knowing what it knows.
LEMMA OthersKeep ==
  ASSUME NEW g \in Process, Unmoved(g), Guarded(g), Knows(g), LedgerTypeOK
  PROVE  Knows(g)'
<1>1. CASE pc[g] = "idle"
  BY <1>1 DEF Unmoved, Knows
<1>2. CASE pc[g] # "idle" /\ req[g] \in WorkerJobs
  BY <1>2, Operations, OrderKept, WalletsLockedKept DEF Unmoved, Knows
<1>3. CASE pc[g] # "idle" /\ req[g] \in Requests
  <2>1. WalletsLocked(g)' /\ Claimed(g)' /\ req'[g] = req[g] /\ pc'[g] # "idle"
    BY <1>3, Operations, WalletsLockedKept, ClaimedKept DEF Unmoved, Knows
  <2>2. CASE req[g].op = "capture"
    BY <1>3, <2>1, <2>2, Operations, CaptureKept DEF Knows
  <2>3. CASE req[g].op = "bind"
    <3>1. KnowsBind(g)'
      BY <1>3, <2>3, Operations, BindKept DEF Knows
    <3> QED
      BY <1>3, <2>1, <2>3, <3>1 DEF Knows
  <2>4. CASE req[g].op \in {"refund", "release"}
    BY <1>3, <2>1, <2>4, Operations, RequestFields, OrderKept DEF Knows
  <2>5. CASE req[g].op = "request"
    BY <1>3, <2>1, <2>5, Operations, RequestFields, RequestKept DEF Knows
  <2>6. CASE req[g].op \in {"approve", "processing", "reject", "outcome"}
    BY <1>3, <2>1, <2>6, Operations, RequestFields, PayoutKept DEF Knows
  <2> QED
    BY <1>3, <2>2, <2>3, <2>4, <2>5, <2>6, Operations
<1>4. pc[g] = "idle" \/ req[g] \in WorkerJobs \/ req[g] \in Requests
  BY DEF Knows
<1> QED
  BY <1>1, <1>2, <1>3, <1>4

-----------------------------------------------------------------------------
(* What a commit does: an operation of Ledger, on rows it has locked.      *)

LEMMA PostEffect ==
  ASSUME LedgerTypeOK, NEW p, Post(p), NEW a \in Account, a \notin Touched(p)
  PROVE  wallet'[a] = wallet[a]
<1>1. p.frozen[a] = 0 /\ p.available[a] = 0 /\ p.reserved[a] = 0
  BY DEF Touched
<1>2. wallet[a] \in [frozen : Int, available : Int, reserved : Int]
  BY DEF LedgerTypeOK
<1>3. wallet'[a] = [frozen    |-> wallet[a].frozen + p.frozen[a],
                    available |-> wallet[a].available + p.available[a],
                    reserved  |-> wallet[a].reserved + p.reserved[a]]
  BY DEF Post, Posted
<1> QED
  BY <1>1, <1>2, <1>3

\* The job a transaction that commits has, and what it knows.
LEMMA AtCommit ==
  ASSUME TxInv, NEW h \in Process, pc[h] = "commit"
  PROVE  /\ WalletsLocked(h) /\ need[h] = {}
         /\ req[h] \in WorkerJobs \/ req[h] \in Requests
         /\ req[h] \in WorkerJobs => KnowsOrder(h)
         /\ req[h] \in Requests =>
               /\ Holds(h, <<"key", KeyOf(req[h])>>) /\ ~ Answered(req[h])
               /\ req[h].op = "capture" => KnowsCapture(h)
               /\ req[h].op = "bind" => KnowsBind(h)
               /\ req[h].op \in {"refund", "release"} => KnowsOrder(h)
               /\ req[h].op = "request" => KnowsRequest(h)
               /\ req[h].op \in {"approve", "processing", "reject", "outcome"}
                     => KnowsPayout(h)
<1>1. Knows(h) /\ pc[h] # "idle"
  BY DEF TxInv
<1>2. WalletsLocked(h) /\ need[h] = {}
  BY <1>1 DEF Knows, WalletsLocked, Past
<1>3. req[h] \in Requests => Claimed(h)
  BY <1>1, Operations DEF Knows
<1> QED
  BY <1>1, <1>2, <1>3, Operations DEF Knows, Claimed, Past

\* A commit is the atomic operation of Ledger for its request.
LEMMA CommitRefines ==
  ASSUME CommInv, NEW h \in Process, Commit(h)
  PROVE  \/ req[h] \in Requests /\ Serve(req[h])
         \/ req[h] \in WorkerJobs /\ WorkerRelease(req[h].order)
<1> DEFINE r == req[h]
<1>1. TxInv /\ pc[h] = "commit" /\ Writes(h) /\ due' = due
  BY DEF CommInv, Commit
<1>2. CASE r \in WorkerJobs
  <2>1. r.op = "worker" /\ r \notin Requests
    BY <1>2, Operations
  <2>2. KnowsOrder(h)
    BY <1>1, <1>2, AtCommit
  <2>3. order[r.order] # None /\ seen[h] = order[r.order] /\ ~ seen[h].released /\ r.order \in due
    BY <1>1, <2>1, <2>2 DEF KnowsOrder, Past
  <2>4. ReleaseRow(r.order, order[r.order]) /\ UNCHANGED <<refunds, payout, binding>>
    BY <1>1, <2>1, <2>3 DEF Writes
  <2>5. UNCHANGED applied
    BY <2>1 DEF Commit
  <2> QED
    BY <1>1, <1>2, <2>3, <2>4, <2>5 DEF WorkerRelease
<1>3. CASE r \in Requests
  <2>1. /\ ~ Answered(r) /\ Record(r)
        /\ r.op = "capture" => KnowsCapture(h)
        /\ r.op = "bind" => KnowsBind(h)
        /\ r.op \in {"refund", "release"} => KnowsOrder(h)
        /\ r.op = "request" => KnowsRequest(h)
        /\ r.op \in {"approve", "processing", "reject", "outcome"} => KnowsPayout(h)
    BY <1>1, <1>3, AtCommit DEF Commit
  <2>2. CASE r.op = "capture"
    <3>1. Quotable(r) /\ seen[h] = NewOrder(r, Referrer(r.customer))
      BY <1>1, <2>1, <2>2 DEF KnowsCapture, Past
    <3>2. InsertOrder(r, seen[h]) /\ UNCHANGED <<refunds, payout, binding>>
      BY <1>1, <2>2 DEF Writes
    <3> QED
      BY <1>1, <1>3, <2>1, <2>2, <3>1, <3>2 DEF Serve, Capture
  <2>3. CASE r.op = "refund"
    <3>1. /\ order[r.order] # None /\ seen[h] = order[r.order]
          /\ Refundable(r, order[r.order])
      BY <1>1, <2>1, <2>3 DEF KnowsOrder, Past
    <3>2. InsertRefund(r, order[r.order]) /\ UNCHANGED <<payout, binding>>
      BY <1>1, <2>3, <3>1 DEF Writes
    <3> QED
      BY <1>1, <1>3, <2>1, <2>3, <3>1, <3>2 DEF Serve, Refund
  <2>4. CASE r.op = "release"
    <3>1. /\ order[r.order] # None /\ seen[h] = order[r.order]
          /\ \/ order[r.order].released
             \/ ~ order[r.order].released /\ r.order \in due
      BY <1>1, <2>1, <2>4 DEF KnowsOrder, Past
    <3>2. \/ /\ ~ order[r.order].released
             /\ ReleaseRow(r.order, order[r.order])
             /\ UNCHANGED <<refunds, payout, binding>>
          \/ /\ order[r.order].released
             /\ UNCHANGED <<wallet, order, refunds, payout, binding>>
      BY <1>1, <2>4, <3>1 DEF Writes
    <3>3. Release(r)
      BY <1>1, <2>1, <2>4, <3>1, <3>2 DEF Release
    <3> QED
      BY <1>3, <2>1, <3>3 DEF Serve
  <2>5. CASE r.op = "bind"
    <3>1. Bindable(r)
      BY <1>1, <2>1, <2>5 DEF KnowsBind, Past
    <3> QED
      BY <1>1, <1>3, <2>1, <2>5, <3>1 DEF Writes, Serve, Bind
  <2>6. CASE r.op = "request"
    <3>1. Funded(r)
      BY <1>1, <2>1, <2>6 DEF KnowsRequest, Past
    <3> QED
      BY <1>1, <1>3, <2>1, <2>6, <3>1 DEF Writes, Serve, RequestPayout
  <2>7. CASE r.op \in {"approve", "processing", "reject", "outcome"}
    <3>1. /\ payout[r.payout] # None /\ seen[h] = payout[r.payout]
          /\ r.op = "approve" => Approvable(r, payout[r.payout])
          /\ r.op = "processing" => Processable(r, payout[r.payout])
          /\ r.op = "reject" => Rejectable(payout[r.payout])
          /\ r.op = "outcome" => Confirmable(r, payout[r.payout])
          /\ r.op \in {"approve", "processing"} => NotInDebt(payout[r.payout].account)
      BY <1>1, <2>1, <2>7 DEF KnowsPayout, Past
    <3>2. CASE r.op = "approve"
      BY <1>1, <1>3, <2>1, <3>1, <3>2 DEF Writes, Serve, Approve
    <3>3. CASE r.op = "processing"
      BY <1>1, <1>3, <2>1, <3>1, <3>3 DEF Writes, Serve, Processing
    <3>4. CASE r.op = "reject"
      BY <1>1, <1>3, <2>1, <3>1, <3>4 DEF Writes, Serve, Reject
    <3>5. CASE r.op = "outcome"
      BY <1>1, <1>3, <2>1, <3>1, <3>5 DEF Writes, Serve, Outcome
    <3> QED
      BY <2>7, <3>2, <3>3, <3>4, <3>5
  <2> QED
    BY <1>3, <2>2, <2>3, <2>4, <2>5, <2>6, <2>7, Operations
<1> QED
  BY <1>1, <1>2, <1>3, AtCommit

\* The writes change the wallets of the accounts the posting touches.
LEMMA WritesWallets ==
  ASSUME CommInv, NEW h \in Process, Commit(h), NEW a \in Account,
         ~ Holds(h, <<"wallet", a>>)
  PROVE  wallet'[a] = wallet[a]
<1> DEFINE r == req[h]
           row == seen[h]
<1>1. LedgerTypeOK /\ TxInv /\ pc[h] = "commit" /\ Writes(h)
  BY DEF CommInv, Commit
<1>2. a \notin Touches(h)
  BY <1>1, AtCommit DEF WalletsLocked, Past
<1>3. CASE r.op = "capture"
  <2>1. Post(CapturePosting(row))
    BY <1>1, <1>3 DEF Writes, InsertOrder
  <2>2. a \notin Touched(CapturePosting(row))
    BY <1>2, <1>3 DEF Touches
  <2> QED
    BY <1>1, <2>1, <2>2, PostEffect
<1>4. CASE r.op = "refund"
  <2>1. Post(RefundPosting(row, Deltas(r, row), r.amount))
    BY <1>1, <1>4 DEF Writes, InsertRefund
  <2>2. a \notin Touched(RefundPosting(row, Deltas(r, row), r.amount))
    BY <1>2, <1>4 DEF Touches
  <2> QED
    BY <1>1, <2>1, <2>2, PostEffect
<1>5. CASE r.op \in {"release", "worker"}
  <2>1. CASE ~ row.released
    <3>1. Post(ReleasePosting(row))
      BY <1>1, <1>5, <2>1 DEF Writes, ReleaseRow
    <3>2. a \notin Touched(ReleasePosting(row))
      BY <1>2, <1>5, <2>1 DEF Touches
    <3> QED
      BY <1>1, <3>1, <3>2, PostEffect
  <2>2. CASE row.released
    BY <1>1, <1>5, <2>2 DEF Writes
  <2> QED
    BY <2>1, <2>2
<1>6. CASE r.op \in {"bind", "approve", "processing"}
  BY <1>1, <1>6 DEF Writes
<1>7. CASE r.op = "request"
  <2>1. Post(ReservePosting(r.account, r.account, r.amount))
    BY <1>1, <1>7 DEF Writes, InsertPayout
  <2>2. r \in Requests /\ KnowsRequest(h)
    BY <1>1, <1>7, AtCommit, Operations
  <2>3. a # r.account
    BY <1>1, <2>2 DEF KnowsRequest, Past
  <2>4. a \notin Touched(ReservePosting(r.account, r.account, r.amount))
    <3>1. At(a, r.account, r.amount) = 0
      BY <2>3 DEF At
    <3> QED
      BY <3>1, MinusZero DEF Touched, ReservePosting, NoChange
  <2> QED
    BY <1>1, <2>1, <2>4, PostEffect
<1>8. CASE r.op = "reject"
  <2>1. Post(ReservePosting(row.account, row.account, - row.amount))
    BY <1>1, <1>8 DEF Writes, SetRejected
  <2>2. a \notin Touched(ReservePosting(row.account, row.account, - row.amount))
    BY <1>2, <1>8 DEF Touches
  <2> QED
    BY <1>1, <2>1, <2>2, PostEffect
<1>9. CASE r.op = "outcome"
  <2>1. r \in Requests
    BY <1>1, <1>9, AtCommit, Operations
  <2>2. r.status \in Outcomes
    BY <1>9, <2>1, RequestAssumption DEF OrderRequests, PayoutRequests
  <2>3. SetOutcome(r, row)
    BY <1>1, <1>9 DEF Writes
  <2>4. CASE r.status = "unknown"
    BY <2>3, <2>4 DEF SetOutcome
  <2>5. CASE r.status = "succeeded"
    <3>1. Post(ReservePosting(row.account, Clearing, - row.amount))
      BY <2>3, <2>5 DEF SetOutcome
    <3>2. a \notin Touched(ReservePosting(row.account, Clearing, - row.amount))
      BY <1>2, <1>9, <2>5 DEF Touches
    <3> QED
      BY <1>1, <3>1, <3>2, PostEffect
  <2>6. CASE r.status = "failed"
    <3>1. Post(ReservePosting(row.account, row.account, - row.amount))
      BY <2>3, <2>6 DEF SetOutcome
    <3>2. a \notin Touched(ReservePosting(row.account, row.account, - row.amount))
      BY <1>2, <1>9, <2>6 DEF Touches
    <3> QED
      BY <1>1, <3>1, <3>2, PostEffect
  <2> QED
    BY <2>2, <2>4, <2>5, <2>6 DEF Outcomes
<1> QED
  BY <1>1, <1>3, <1>4, <1>5, <1>6, <1>7, <1>8, <1>9, AtCommit, Operations

\* The writes change the one row of each table that the transaction has locked.
LEMMA WritesRows ==
  ASSUME CommInv, NEW h \in Process, Commit(h)
  PROVE  /\ \A o \in Orders : ~ Holds(h, <<"order", o>>) => order'[o] = order[o]
         /\ \A p \in Payouts : ~ Holds(h, <<"payout", p>>) => payout'[p] = payout[p]
         /\ \A c \in Customers : ~ Holds(h, <<"customer", c>>) =>
               binding'[c] = binding[c] /\ NoNewOrderOf(c)
<1> DEFINE r == req[h]
           row == seen[h]
<1>1. LedgerTypeOK /\ TxInv /\ pc[h] = "commit" /\ Writes(h)
  BY DEF CommInv, Commit
<1>2. CASE r.op = "capture"
  <2>1. r \in Requests /\ Holds(h, <<"order", r.order>>) /\ KnowsCapture(h)
    BY <1>1, <1>2, AtCommit, Operations DEF KnowsCapture, Past
  <2>2. /\ \A o \in Orders : o # r.order => order'[o] = order[o]
        /\ order'[r.order] = row /\ r.order \in Orders
        /\ UNCHANGED <<payout, binding>>
    BY <1>1, <1>2, <2>1, RequestFields DEF Writes, InsertOrder, LedgerTypeOK
  <2>3. row.customer = r.customer
        /\ (r.customer # None => Holds(h, <<"customer", r.customer>>))
    BY <1>1, <2>1 DEF KnowsCapture, Past, NewOrder
  <2>4. \A c \in Customers : c # None
    BY TableAssumption
  <2> QED
    BY <2>1, <2>2, <2>3, <2>4 DEF NoNewOrderOf
<1>3. CASE r.op \in {"refund", "release", "worker"}
  <2>1. Holds(h, <<"order", r.order>>) /\ order[r.order] # None
    BY <1>1, <1>3, AtCommit, Operations DEF KnowsOrder, Past
  <2>2. r.order \in Orders
    BY <1>1, <1>3, AtCommit, Operations, RequestFields
  <2>3. /\ \A o \in Orders : o # r.order => order'[o] = order[o]
        /\ order'[r.order].customer = order[r.order].customer
        /\ UNCHANGED <<payout, binding>>
    <3>1. order[r.order] \in OrderRow
      BY <1>1, <2>1, <2>2 DEF LedgerTypeOK
    <3> QED
      BY <1>1, <1>3, <2>2, <3>1 DEF Writes, InsertRefund, ReleaseRow, LedgerTypeOK, OrderRow
  <2> QED
    BY <2>1, <2>2, <2>3 DEF NoNewOrderOf
<1>4. CASE r.op = "bind"
  <2>1. Holds(h, <<"customer", r.customer>>)
    BY <1>1, <1>4, AtCommit, Operations DEF KnowsBind, Past
  <2> QED
    BY <1>1, <1>4, <2>1 DEF Writes, LedgerTypeOK, NoNewOrderOf
<1>5. CASE r.op = "request"
  <2>1. Holds(h, <<"payout", r.payout>>)
    BY <1>1, <1>5, AtCommit, Operations DEF KnowsRequest, Past
  <2> QED
    BY <1>1, <1>5, <2>1 DEF Writes, InsertPayout, LedgerTypeOK, NoNewOrderOf
<1>6. CASE r.op \in {"approve", "processing", "reject", "outcome"}
  <2>1. Holds(h, <<"payout", r.payout>>)
    BY <1>1, <1>6, AtCommit, Operations DEF KnowsPayout, Past
  <2> QED
    BY <1>1, <1>6, <2>1 DEF Writes, SetApproved, SetProcessing, SetRejected, SetOutcome,
       LedgerTypeOK, NoNewOrderOf
<1> QED
  BY <1>1, <1>2, <1>3, <1>4, <1>5, <1>6, AtCommit, Operations

\* Rows and keys are locked exclusively, so a commit changes nothing that
\* another transaction has locked.
LEMMA CommitGuards ==
  ASSUME CommInv, NEW h \in Process, Commit(h), NEW g \in Process \ {h}
  PROVE  Guarded(g)
<1>1. \A x : Holds(g, x) => ~ Holds(h, x)
  BY DEF CommInv, TxInv, Exclusive, Holds
<1>2. ASSUME NEW r \in Requests, Holds(g, <<"key", KeyOf(r)>>), ~ Answered(r)
      PROVE  ~ Answered(r)'
  <2>1. CASE req[h] \in Requests
    <3>1. Holds(h, <<"key", KeyOf(req[h])>>) /\ applied' = applied \cup {req[h]}
      BY <2>1, AtCommit DEF CommInv, Commit, Record
    <3>2. KeyOf(req[h]) # KeyOf(r)
      BY <1>1, <1>2, <3>1
    <3> QED
      BY <1>2, <3>1, <3>2 DEF Answered, KeyOf
  <2>2. CASE req[h] \notin Requests
    BY <1>2, <2>2 DEF Commit, Answered, KeyOf
  <2> QED
    BY <2>1, <2>2
<1>3. due' = due
  BY DEF Commit
<1> QED
  BY <1>1, <1>2, <1>3, WritesWallets, WritesRows DEF Guarded

-----------------------------------------------------------------------------
(* What a step of its own adds to what a transaction knows.                *)

\* What is known of a transaction between its statements.
LEMMA Running ==
  ASSUME TxInv, NEW h \in Process, pc[h] # "idle"
  PROVE  /\ WalletsLocked(h)
         /\ req[h] \in WorkerJobs \/ req[h] \in Requests
         /\ req[h] \in WorkerJobs => KnowsOrder(h)
         /\ req[h] \in Requests =>
               /\ Claimed(h)
               /\ req[h].op = "capture" => KnowsCapture(h)
               /\ req[h].op = "bind" => KnowsBind(h)
               /\ req[h].op \in {"refund", "release"} => KnowsOrder(h)
               /\ req[h].op = "request" => KnowsRequest(h)
               /\ req[h].op \in {"approve", "processing", "reject", "outcome"}
                     => KnowsPayout(h)
<1>1. Knows(h)
  BY DEF TxInv
<1> QED
  BY <1>1, Operations DEF Knows

\* Each statement belongs to some operations.
LEMMA OperationAt ==
  ASSUME TxInv, NEW h \in Process, pc[h] # "idle"
  PROVE  /\ pc[h] \in {"claim", "customer", "bind", "quote", "capture", "order", "refund", "payout",
                       "balance", "reserve", "reference"} => req[h] \in Requests
         /\ pc[h] = "customer" => req[h].op \in {"capture", "bind"}
         /\ pc[h] = "bind" => req[h].op = "bind"
         /\ pc[h] \in {"quote", "capture"} => req[h].op = "capture"
         /\ pc[h] = "order" => req[h].op \in {"refund", "release"}
         /\ pc[h] = "refund" => req[h].op = "refund"
         /\ pc[h] = "release" => req[h].op \in {"release", "worker"}
         /\ pc[h] = "payout" =>
               req[h].op \in {"approve", "processing", "reject", "outcome"}
         /\ pc[h] = "balance" => req[h].op \in {"request", "approve", "processing"}
         /\ pc[h] = "reserve" => req[h].op = "request"
         /\ pc[h] = "wallets" =>
               req[h].op \in {"capture", "refund", "release", "worker", "reject", "outcome"}
         /\ pc[h] = "reference" => req[h].op = "outcome"
<1> DEFINE r == req[h]
<1>1. CASE r \in WorkerJobs
  BY <1>1, Running, Operations DEF KnowsOrder, Past
<1>2. CASE r \in Requests
  <2>1. CASE r.op = "capture"
    BY <1>2, <2>1, Running, Operations DEF KnowsCapture, Past
  <2>2. CASE r.op = "bind"
    BY <1>2, <2>2, Running, Operations DEF KnowsBind, Past
  <2>3. CASE r.op \in {"refund", "release"}
    BY <1>2, <2>3, Running, Operations DEF KnowsOrder, Past
  <2>4. CASE r.op = "request"
    BY <1>2, <2>4, Running, Operations DEF KnowsRequest, Past
  <2>5. CASE r.op \in {"approve", "processing", "reject", "outcome"}
    BY <1>2, <2>5, Running, Operations DEF KnowsPayout, Past
  <2> QED
    BY <1>2, <2>1, <2>2, <2>3, <2>4, <2>5, Operations
<1> QED
  BY <1>1, <1>2, Running

\* post locks a wallet it needs, and one of the smallest account id.
LEMMA LeastWallet ==
  ASSUME TxTypeOK, NEW h \in Process, need[h] # {}
  PROVE  FirstWallet(h) \in need[h] /\ \A b \in need[h] : Rank[FirstWallet(h)] <= Rank[b]
<1>1. need[h] \subseteq Account /\ Rank \in [Account -> Nat]
  BY ProcessAssumption DEF TxTypeOK
<1> DEFINE ranks == {Rank[a] : a \in need[h]}
<1>2. ranks \in SUBSET Nat /\ ranks # {}
  BY <1>1
<1>3. PICK n \in ranks : \A m \in ranks : n <= m
  BY <1>2, LeastNumber
<1>4. PICK a \in need[h] : Rank[a] = n
  BY <1>3
<1>5. \E x \in need[h] : \A b \in need[h] : Rank[x] <= Rank[b]
  BY <1>3, <1>4
<1> QED
  BY <1>5 DEF FirstWallet

\* The lock a statement waits for is one of the locks there are.
LEMMA LockIsResource ==
  ASSUME CommInv, NEW h \in Process, pc[h] # "idle"
  PROVE  /\ pc[h] = "claim" => NextLock(h) = <<"key", KeyOf(req[h])>>
         /\ pc[h] = "customer" => NextLock(h) = <<"customer", req[h].customer>>
         /\ pc[h] \in {"order", "capture"} => NextLock(h) = <<"order", req[h].order>>
         /\ pc[h] = "refund" => NextLock(h) = <<"refund", req[h].refund>>
         /\ pc[h] \in {"payout", "reserve"} => NextLock(h) = <<"payout", req[h].payout>>
         /\ pc[h] = "balance" =>
               NextLock(h) = <<"wallet", seen[h].account>> /\ seen[h].account \in Account
         /\ pc[h] = "wallets" => NextLock(h) = <<"wallet", FirstWallet(h)>>
         /\ pc[h] = "reference" =>
               NextLock(h) = IF req[h].reference \in {None, seen[h].reference} THEN None
                             ELSE <<"reference", req[h].reference>>
         /\ pc[h] \in {"bind", "quote", "release", "commit"} => NextLock(h) = None
         /\ NextLock(h) \in Resource \cup {None}
         /\ NextLock(h) = None =>
               pc[h] \in {"bind", "quote", "release", "commit", "reference"}
<1>1. TxInv /\ pc[h] \in Labels /\ None \notin Resource
  BY ProcessAssumption DEF CommInv, TxInv, TxTypeOK
<1>2. CASE pc[h] = "claim"
  <2>1. NextLock(h) = <<"key", KeyOf(req[h])>>
    BY <1>2 DEF NextLock, LockAt
  <2>2. req[h] \in Requests
    BY <1>1, <1>2, OperationAt
  <2>3. NextLock(h) \in Resource
    BY <2>1, <2>2 DEF Resource
  <2> QED
    BY <1>1, <1>2, <2>1, <2>3
<1>3. CASE pc[h] = "customer"
  <2>1. NextLock(h) = <<"customer", req[h].customer>>
    BY <1>3 DEF NextLock, LockAt
  <2>2. req[h] \in Requests /\ req[h].op \in {"capture", "bind"}
    BY <1>1, <1>3, OperationAt
  <2>3. req[h].op = "capture" => req[h].customer # None
    BY <1>1, <1>3, <2>2, Running DEF KnowsCapture, Past
  <2>4. req[h].customer \in Customers
    BY <2>2, <2>3, RequestFields
  <2>5. NextLock(h) \in Resource
    BY <2>1, <2>4 DEF Resource
  <2> QED
    BY <1>1, <1>3, <2>1, <2>5
<1>4. CASE pc[h] \in {"order", "capture"}
  <2>1. NextLock(h) = <<"order", req[h].order>>
    BY <1>4 DEF NextLock, LockAt
  <2>2. req[h].order \in Orders
    BY <1>1, <1>4, OperationAt, RequestFields
  <2>3. NextLock(h) \in Resource
    BY <2>1, <2>2 DEF Resource
  <2> QED
    BY <1>1, <1>4, <2>1, <2>3
<1>5. CASE pc[h] = "refund"
  <2>1. NextLock(h) = <<"refund", req[h].refund>>
    BY <1>5 DEF NextLock, LockAt
  <2>2. req[h].refund \in Refunds
    BY <1>1, <1>5, OperationAt, RequestFields
  <2>3. NextLock(h) \in Resource
    BY <2>1, <2>2 DEF Resource
  <2> QED
    BY <1>1, <1>5, <2>1, <2>3
<1>6. CASE pc[h] \in {"payout", "reserve"}
  <2>1. NextLock(h) = <<"payout", req[h].payout>>
    BY <1>6 DEF NextLock, LockAt
  <2>2. req[h].payout \in Payouts
    BY <1>1, <1>6, OperationAt, RequestFields
  <2>3. NextLock(h) \in Resource
    BY <2>1, <2>2 DEF Resource
  <2> QED
    BY <1>1, <1>6, <2>1, <2>3
<1>7. CASE pc[h] = "balance"
  <2>1. NextLock(h) = <<"wallet", seen[h].account>>
    BY <1>7 DEF NextLock, LockAt
  <2>2. req[h] \in Requests /\ req[h].op \in {"request", "approve", "processing"}
    BY <1>1, <1>7, OperationAt
  <2>3. seen[h].account \in Account
    <3>1. CASE req[h].op = "request"
      <4>1. seen[h] = [account |-> req[h].account]
        BY <1>1, <1>7, <2>2, <3>1, Running DEF KnowsRequest, Past
      <4>2. req[h].account \in Account
        BY <2>2, <3>1, RequestFields
      <4> QED
        BY <4>1, <4>2
    <3>2. CASE req[h].op \in {"approve", "processing"}
      <4>1. seen[h] = payout[req[h].payout] /\ seen[h] # None
        BY <1>1, <1>7, <2>2, <3>2, Running DEF KnowsPayout, Past
      <4>2. req[h].payout \in Payouts
        BY <2>2, <3>2, RequestFields
      <4>3. payout[req[h].payout] \in PayoutRow
        BY <4>1, <4>2 DEF CommInv, LedgerTypeOK
      <4> QED
        BY <4>1, <4>3, Accounts DEF PayoutRow
    <3> QED
      BY <2>2, <3>1, <3>2
  <2>4. NextLock(h) \in Resource
    BY <2>1, <2>3 DEF Resource
  <2> QED
    BY <1>1, <1>7, <2>1, <2>3, <2>4
<1>8. CASE pc[h] = "wallets"
  <2>1. NextLock(h) = <<"wallet", FirstWallet(h)>>
    BY <1>8 DEF NextLock, LockAt
  <2>2. need[h] # {}
    BY <1>1, <1>8, Running DEF WalletsLocked, Past
  <2>3. FirstWallet(h) \in Account
    BY <1>1, <2>2, LeastWallet DEF TxInv, TxTypeOK
  <2>4. NextLock(h) \in Resource
    BY <2>1, <2>3 DEF Resource
  <2> QED
    BY <1>1, <1>8, <2>1, <2>4
<1>9. CASE pc[h] = "reference"
  <2>1. NextLock(h) = IF req[h].reference \in {None, seen[h].reference} THEN None
                      ELSE <<"reference", req[h].reference>>
    BY <1>9 DEF NextLock, LockAt
  <2>2. req[h] \in Requests /\ req[h].op = "outcome"
    BY <1>1, <1>9, OperationAt
  <2>3. req[h].reference \in References \cup {None}
    BY <2>2, RequestAssumption DEF OrderRequests, PayoutRequests
  <2>4. NextLock(h) \in Resource \cup {None}
    BY <2>1, <2>3 DEF Resource
  <2> QED
    BY <1>9, <2>1, <2>4
<1>10. CASE pc[h] \in {"bind", "quote", "release", "commit"}
  <2>1. NextLock(h) = None
    BY <1>10 DEF NextLock, LockAt
  <2> QED
    BY <1>10, <2>1
<1>11. \/ pc[h] \in {"order", "capture"} \/ pc[h] \in {"payout", "reserve"}
      \/ pc[h] \in {"bind", "quote", "release", "commit"} \/ pc[h] = "claim" \/ pc[h] = "customer"
      \/ pc[h] = "refund" \/ pc[h] = "balance" \/ pc[h] = "wallets" \/ pc[h] = "reference"
  BY <1>1 DEF Labels
<1> QED
  BY <1>2, <1>3, <1>4, <1>5, <1>6, <1>7, <1>8, <1>9, <1>10, <1>11

\* A step of h leaves the private state of the transactions in order.
Turn(h) ==
    /\ TxTypeOK' /\ Exclusive' /\ Knows(h)'
    /\ \A g \in Process \ {h} : Unmoved(g)

\* A lock is taken only when nobody else has it.
LEMMA LockTaken ==
  ASSUME CommInv, NEW h \in Process, pc[h] # "idle", Acquire(h)
  PROVE  /\ held' \in [Process -> SUBSET Resource] /\ Exclusive'
         /\ \A g \in Process \ {h} : held'[g] = held[g]
         /\ held'[h] = IF NextLock(h) = None THEN held[h]
                       ELSE held[h] \cup {NextLock(h)}
         /\ NextLock(h) # None => \A g \in Process \ {h} : NextLock(h) \notin held[g]
<1>1. NextLock(h) \in Resource \cup {None} /\ held \in [Process -> SUBSET Resource]
  BY LockIsResource DEF CommInv, TxInv, TxTypeOK
<1>2. Exclusive
  BY DEF CommInv, TxInv
<1> DEFINE x == NextLock(h)
<1> HIDE DEF x
<1>3. CASE x = None
  BY <1>1, <1>2, <1>3 DEF Acquire, Exclusive, x
<1>4. CASE x # None
  <2>1. held' = [held EXCEPT ![h] = @ \cup {x}] /\ \A g \in Process \ {h} : x \notin held[g]
    BY <1>4 DEF Acquire, Free, x
  <2>2. held'[h] = held[h] \cup {x} /\ \A g \in Process \ {h} : held'[g] = held[g]
    BY <1>1, <2>1
  <2>3. Exclusive'
    BY <1>2, <2>1, <2>2 DEF Exclusive
  <2>4. held' \in [Process -> SUBSET Resource]
    BY <1>1, <1>4, <2>1 DEF x
  <2> QED
    BY <1>4, <2>1, <2>2, <2>3, <2>4 DEF x
<1> QED
  BY <1>3, <1>4

\* The end of a transaction, of either kind, leaves nothing of it.
LEMMA FinishTurn ==
  ASSUME CommInv, NEW h \in Process, Finish(h), due \subseteq due', outbox' \in [Jobs -> Nat]
  PROVE  Turn(h)
<1>1. TxTypeOK /\ Exclusive
  BY DEF CommInv, TxInv
<1>2. TxTypeOK'
  BY <1>1 DEF TxTypeOK, Finish, Labels
<1>3. Exclusive'
  BY <1>1 DEF TxTypeOK, Finish, Exclusive
<1>4. Knows(h)'
  BY <1>1 DEF TxTypeOK, Finish, Knows
<1> QED
  BY <1>1, <1>2, <1>3, <1>4 DEF Turn, Unmoved, TxTypeOK, Finish

LEMMA BeginTurn ==
  ASSUME CommInv, NEW h \in Handlers, NEW r \in Requests, Begin(h, r)
  PROVE  Turn(h)
<1>1. TxTypeOK /\ Exclusive /\ Knows(h) /\ h \in Process
  BY DEF CommInv, TxInv, Process
<1>2. /\ pc' = [pc EXCEPT ![h] = "claim"] /\ req' = [req EXCEPT ![h] = r]
      /\ held[h] = {} /\ need[h] = {}
      /\ UNCHANGED <<seen, need, held, outbox, due>>
  BY <1>1 DEF Begin, Goto, Knows, ledgerVars
<1>3. now'[h] \subseteq due /\ now'[h] \subseteq Orders
      /\ now' = [now EXCEPT ![h] = now'[h]]
  <2>1. due \subseteq Orders
    BY DEF CommInv, LedgerTypeOK
  <2> QED
    BY <1>1, <2>1 DEF Begin, TxTypeOK
<1>4. TxTypeOK'
  <2>1. req' \in [Process -> Jobs \cup {None}] /\ pc' \in [Process -> Labels]
    BY <1>1, <1>2 DEF TxTypeOK, Labels, Jobs
  <2>2. now' \in [Process -> SUBSET Orders] /\ \A g \in Process : now'[g] \subseteq due'
    BY <1>1, <1>2, <1>3 DEF TxTypeOK
  <2> QED
    BY <1>1, <1>2, <2>1, <2>2 DEF TxTypeOK
<1>5. Exclusive'
  BY <1>1, <1>2 DEF Exclusive
<1>6. Knows(h)'
  <2>1. pc'[h] = "claim" /\ req'[h] = r /\ held'[h] = {} /\ need'[h] = {}
    BY <1>1, <1>2 DEF TxTypeOK
  <2>2. WalletsLocked(h)' /\ Claimed(h)'
    BY <2>1 DEF WalletsLocked, Claimed, Past
  <2>3. CASE r.op = "capture"
    BY <2>1, <2>2, <2>3 DEF Knows, KnowsCapture, Past
  <2>4. CASE r.op = "bind"
    BY <2>1, <2>2, <2>4 DEF Knows, KnowsBind, Past
  <2>5. CASE r.op \in {"refund", "release"}
    BY <2>1, <2>2, <2>5 DEF Knows, KnowsOrder, Past
  <2>6. CASE r.op = "request"
    BY <2>1, <2>2, <2>6 DEF Knows, KnowsRequest, Past
  <2>7. CASE r.op \in {"approve", "processing", "reject", "outcome"}
    <3>1. KnowsPayout(h)'
      BY <2>1, <2>7 DEF KnowsPayout, Past
    <3> QED
      BY <2>1, <2>2, <2>7, <3>1 DEF Knows
  <2> QED
    BY <2>3, <2>4, <2>5, <2>6, <2>7, Operations
<1> QED
  BY <1>1, <1>2, <1>3, <1>4, <1>5, <1>6 DEF Turn, Unmoved, TxTypeOK, Begin, Goto

LEMMA PickTurn ==
  ASSUME CommInv, NEW h \in Workers, NEW o \in Orders, PickDue(h, o)
  PROVE  Turn(h)
<1> DEFINE job == [op |-> "worker", order |-> o]
<1>1. TxTypeOK /\ Exclusive /\ Knows(h) /\ h \in Process
  BY DEF CommInv, TxInv, Process
<1>2. /\ pc' = [pc EXCEPT ![h] = "release"] /\ req' = [req EXCEPT ![h] = job]
      /\ held' = [held EXCEPT ![h] = {<<"order", o>>}]
      /\ seen' = [seen EXCEPT ![h] = order[o]]
      /\ UNCHANGED <<now, need, outbox, due, order>> /\ need[h] = {}
      /\ \A g \in Process \ {h} : <<"order", o>> \notin held[g]
  BY <1>1 DEF PickDue, Goto, Read, Knows, Free, ledgerVars
<1>3. job \in WorkerJobs /\ <<"order", o>> \in Resource
  BY DEF WorkerJobs, Resource
<1>4. TxTypeOK'
  BY <1>1, <1>2, <1>3 DEF TxTypeOK, Labels, Jobs
<1>5. Exclusive'
  BY <1>1, <1>2 DEF Exclusive, TxTypeOK
<1>6. Knows(h)'
  <2>1. /\ pc'[h] = "release" /\ req'[h] = job /\ held'[h] = {<<"order", o>>}
        /\ need'[h] = {} /\ seen'[h] = order[o]
    BY <1>1, <1>2 DEF TxTypeOK
  <2>2. WalletsLocked(h)'
    BY <2>1 DEF WalletsLocked, Past
  <2>3. /\ job.op = "worker" /\ job.order = o /\ order' = order /\ due' = due
        /\ order[o] # None /\ ~ order[o].released /\ o \in due
    BY <1>2 DEF PickDue
  <2> HIDE DEF job
  <2>4. KnowsOrder(h)'
    BY <2>1, <2>3 DEF KnowsOrder, Past, Holds
  <2> QED
    BY <1>3, <2>1, <2>2, <2>4 DEF Knows
<1> QED
  BY <1>1, <1>2, <1>4, <1>5, <1>6 DEF Turn, Unmoved, TxTypeOK

\* A statement of h between the first and the last: only h moves, on unchanged rows.
Statement(h, label) ==
    /\ pc' = [pc EXCEPT ![h] = label]
    /\ UNCHANGED <<ledgerVars, req, now, outbox>>
    /\ seen' = [seen EXCEPT ![h] = seen'[h]]
    /\ need' = [need EXCEPT ![h] = need'[h]]
    /\ \/ UNCHANGED held
       \/ Acquire(h)

LEMMA StatementTurn ==
  ASSUME CommInv, NEW h \in Process, pc[h] # "idle", NEW label \in Labels,
         Statement(h, label), need'[h] \subseteq Account, Knows(h)'
  PROVE  Turn(h)
<1>1. TxTypeOK /\ Exclusive
  BY DEF CommInv, TxInv
<1>2. /\ held' \in [Process -> SUBSET Resource] /\ Exclusive'
      /\ \A g \in Process \ {h} : held'[g] = held[g]
  <2>1. CASE UNCHANGED held
    BY <1>1, <2>1 DEF TxTypeOK, Exclusive
  <2>2. CASE Acquire(h)
    BY <2>2, LockTaken
  <2> QED
    BY <2>1, <2>2 DEF Statement
<1>3. TxTypeOK'
  BY <1>1, <1>2 DEF TxTypeOK, Statement, ledgerVars
<1> QED
  BY <1>1, <1>2, <1>3 DEF Turn, Unmoved, Statement, TxTypeOK

\* What a transaction has to know when a request goes on to a new label.
LEMMA RequestGoesOn ==
  ASSUME CommInv, NEW h \in Process, pc[h] # "idle", req[h] \in Requests, req'[h] = req[h],
         pc'[h] \notin {"idle", "claim"}, UNCHANGED ledgerVars, WalletsLocked(h)',
         <<"key", KeyOf(req[h])>> \in held'[h], ~ Answered(req[h]),
         \/ req[h].op = "capture" /\ KnowsCapture(h)'
         \/ req[h].op = "bind" /\ KnowsBind(h)'
         \/ req[h].op \in {"refund", "release"} /\ KnowsOrder(h)'
         \/ req[h].op = "request" /\ KnowsRequest(h)'
         \/ req[h].op \in {"approve", "processing", "reject", "outcome"} /\ KnowsPayout(h)'
  PROVE  Knows(h)'
<1>1. Claimed(h)'
  <2>1. ~ Answered(req[h])'
    BY DEF ledgerVars, Answered
  <2> QED
    BY <2>1 DEF Claimed, Past, Holds, Answered
<1>2. CASE req[h].op = "capture" /\ KnowsCapture(h)'
  BY <1>1, <1>2 DEF Knows
<1>3. CASE req[h].op = "bind" /\ KnowsBind(h)'
  BY <1>1, <1>3 DEF Knows
<1>4. CASE req[h].op \in {"refund", "release"} /\ KnowsOrder(h)'
  BY <1>1, <1>4 DEF Knows
<1>5. CASE req[h].op = "request" /\ KnowsRequest(h)'
  BY <1>1, <1>5 DEF Knows
<1>6. CASE req[h].op \in {"approve", "processing", "reject", "outcome"} /\ KnowsPayout(h)'
  BY <1>1, <1>6 DEF Knows
<1> QED
  BY <1>2, <1>3, <1>4, <1>5, <1>6

LEMMA ClaimTurn ==
  ASSUME CommInv, NEW h \in Process, Claim(h)
  PROVE  Turn(h)
<1> DEFINE r == req[h]
           label == FirstStep(r)
<1>1. TxInv /\ TxTypeOK /\ pc[h] = "claim" /\ Acquire(h) /\ ~ Answered(r) /\ r \in Requests
  BY OperationAt DEF Claim, CommInv, TxInv
<1>2. /\ label \in {"customer", "quote", "order", "balance", "payout"}
      /\ r.op = "capture" => label = IF r.customer = None THEN "quote" ELSE "customer"
      /\ r.op = "bind" => label = "customer"
      /\ r.op \in {"refund", "release"} => label = "order"
      /\ r.op = "request" => label = "balance"
      /\ r.op \in {"approve", "processing", "reject", "outcome"} => label = "payout"
  BY <1>1, Operations DEF FirstStep
<1>3. /\ pc'[h] = label /\ pc' = [pc EXCEPT ![h] = label] /\ req'[h] = r /\ need'[h] = need[h]
      /\ UNCHANGED <<ledgerVars, req, now, need, outbox>>
      /\ seen' = [seen EXCEPT ![h] = seen'[h]]
      /\ r.op = "request" => seen'[h] = [account |-> r.account]
  BY <1>1 DEF Claim, Goto, Read, TxTypeOK
<1>4. held'[h] = {<<"key", KeyOf(r)>>}
  <2>1. held[h] = {} /\ NextLock(h) = <<"key", KeyOf(r)>> /\ NextLock(h) # None
    BY <1>1, Running, LockIsResource DEF Claimed, Past
  <2> QED
    BY <1>1, <2>1, LockTaken
<1> HIDE DEF label
<1>5. need'[h] = {} /\ WalletsLocked(h)'
  <2>1. need[h] = {}
    BY <1>1, Running DEF WalletsLocked, Past
  <2> QED
    BY <1>2, <1>3, <2>1 DEF WalletsLocked, Past
<1>6. \/ r.op = "capture" /\ KnowsCapture(h)'
      \/ r.op = "bind" /\ KnowsBind(h)'
      \/ r.op \in {"refund", "release"} /\ KnowsOrder(h)'
      \/ r.op = "request" /\ KnowsRequest(h)'
      \/ r.op \in {"approve", "processing", "reject", "outcome"} /\ KnowsPayout(h)'
  <2>1. CASE r.op = "capture"
    BY <1>2, <1>3, <2>1 DEF KnowsCapture, Past
  <2>2. CASE r.op = "bind"
    BY <1>2, <1>3, <2>2 DEF KnowsBind, Past
  <2>3. CASE r.op \in {"refund", "release"}
    BY <1>2, <1>3, <2>3 DEF KnowsOrder, Past
  <2>4. CASE r.op = "request"
    BY <1>2, <1>3, <2>4 DEF KnowsRequest, Past
  <2>5. CASE r.op \in {"approve", "processing", "reject", "outcome"}
    BY <1>2, <1>3, <2>5 DEF KnowsPayout, Past
  <2> QED
    BY <1>1, <2>1, <2>2, <2>3, <2>4, <2>5, Operations
<1>7. Knows(h)'
  BY <1>1, <1>2, <1>3, <1>4, <1>5, <1>6, RequestGoesOn
<1>8. Statement(h, label) /\ label \in Labels
  BY <1>1, <1>2, <1>3 DEF Statement, TxTypeOK, Labels
<1> QED
  BY <1>1, <1>5, <1>7, <1>8, StatementTurn

\* What every statement but the first leaves in place.
LEMMA StatementKeeps ==
  ASSUME CommInv, NEW h \in Process, pc[h] \notin {"idle", "claim"}, NEW label \in Labels,
         Statement(h, label)
  PROVE  /\ pc'[h] = label /\ req'[h] = req[h] /\ UNCHANGED ledgerVars
         /\ held[h] \subseteq held'[h]
         /\ Acquire(h) /\ NextLock(h) # None => NextLock(h) \in held'[h]
         /\ req[h] \in Requests =>
               <<"key", KeyOf(req[h])>> \in held'[h] /\ ~ Answered(req[h])
<1>1. TxTypeOK /\ TxInv
  BY DEF CommInv, TxInv
<1>2. /\ held[h] \subseteq held'[h]
      /\ Acquire(h) /\ NextLock(h) # None => NextLock(h) \in held'[h]
  BY LockTaken DEF Statement
<1>3. req[h] \in Requests => <<"key", KeyOf(req[h])>> \in held[h] /\ ~ Answered(req[h])
  BY <1>1, Running DEF Claimed, Past, Holds
<1> QED
  BY <1>1, <1>2, <1>3 DEF Statement, TxTypeOK

\* A transaction that is not posting has no wallet to lock.
LEMMA NotPosting ==
  ASSUME TxInv, NEW h \in Process, pc[h] \notin {"idle", "wallets"}
  PROVE  need[h] = {}
BY Running DEF WalletsLocked, Past

LEMMA LockCustomerTurn ==
  ASSUME CommInv, NEW h \in Process, LockCustomer(h)
  PROVE  Turn(h)
<1> DEFINE r == req[h]
           label == IF r.op = "bind" THEN "bind" ELSE "quote"
<1>1. TxInv /\ TxTypeOK /\ pc[h] = "customer" /\ Acquire(h)
  BY DEF LockCustomer, CommInv, TxInv
<1>2. r \in Requests /\ r.op \in {"capture", "bind"} /\ need[h] = {}
  BY <1>1, OperationAt, NotPosting
<1>3. Statement(h, label) /\ label \in Labels /\ need'[h] = {}
  BY <1>1, <1>2 DEF LockCustomer, Goto, Statement, TxTypeOK, Labels
<1>4. /\ pc'[h] = label /\ req'[h] = r /\ UNCHANGED ledgerVars
      /\ <<"customer", r.customer>> \in held'[h]
      /\ <<"key", KeyOf(r)>> \in held'[h] /\ ~ Answered(r)
  BY <1>1, <1>2, <1>3, StatementKeeps, LockIsResource
<1>5. WalletsLocked(h)'
  BY <1>2, <1>3, <1>4 DEF WalletsLocked, Past, Touches
<1>6. CASE r.op = "capture"
  <2>1. KnowsCapture(h)'
    BY <1>4, <1>6 DEF KnowsCapture, Past, Holds
  <2> QED
    BY <1>1, <1>2, <1>3, <1>4, <1>5, <1>6, <2>1, RequestGoesOn, StatementTurn
<1>7. CASE r.op = "bind"
  <2>1. KnowsBind(h)'
    BY <1>4, <1>7 DEF KnowsBind, Past, Holds
  <2> QED
    BY <1>1, <1>2, <1>3, <1>4, <1>5, <1>7, <2>1, RequestGoesOn, StatementTurn
<1> QED
  BY <1>2, <1>6, <1>7

LEMMA CheckFirstOrderTurn ==
  ASSUME CommInv, NEW h \in Process, CheckFirstOrder(h)
  PROVE  Turn(h)
<1> DEFINE r == req[h]
<1>1. TxInv /\ TxTypeOK /\ pc[h] = "bind" /\ Bindable(r)
  BY DEF CheckFirstOrder, CommInv, TxInv
<1>2. r \in Requests /\ r.op = "bind" /\ need[h] = {} /\ KnowsBind(h)
  BY <1>1, OperationAt, NotPosting, Running
<1>3. Statement(h, "commit") /\ "commit" \in Labels /\ need'[h] = {} /\ UNCHANGED held
  BY <1>1, <1>2 DEF CheckFirstOrder, Goto, Statement, TxTypeOK, Labels
<1>4. /\ pc'[h] = "commit" /\ req'[h] = r /\ UNCHANGED ledgerVars
      /\ <<"key", KeyOf(r)>> \in held'[h] /\ ~ Answered(r)
  BY <1>1, <1>2, <1>3, StatementKeeps
<1>5. WalletsLocked(h)'
  BY <1>2, <1>3, <1>4 DEF WalletsLocked, Past, Touches
<1>6. KnowsBind(h)'
  <2>1. Bindable(req[h])'
    BY <1>1, <1>4 DEF Bindable, ledgerVars
  <2> QED
    BY <1>1, <1>2, <1>3, <1>4, <2>1 DEF KnowsBind, Past, Holds
<1> QED
  BY <1>1, <1>2, <1>3, <1>4, <1>5, <1>6, RequestGoesOn, StatementTurn

\* The quote of an order changes with the binding alone.
LEMMA QuoteKept ==
  ASSUME NEW h \in Process, req'[h] = req[h], UNCHANGED binding
  PROVE  /\ NewOrder(req[h], Referrer(req[h].customer))'
               = NewOrder(req[h], Referrer(req[h].customer))
         /\ Quotable(req[h])' = Quotable(req[h])
<1>1. Referrer(req[h].customer)' = Referrer(req[h].customer)
  BY DEF Referrer
<1>2. NewOrder(req[h], Referrer(req[h].customer))' = NewOrder(req[h], Referrer(req[h].customer))
  BY <1>1 DEF NewOrder
<1>3. Quotable(req[h])' = Quotable(req[h])
  BY DEF Quotable
<1> QED
  BY <1>2, <1>3

LEMMA QuoteTurn ==
  ASSUME CommInv, NEW h \in Process, Quote(h)
  PROVE  Turn(h)
<1> DEFINE r == req[h]
<1>1. TxInv /\ TxTypeOK /\ pc[h] = "quote" /\ Quotable(r)
  BY DEF Quote, CommInv, TxInv
<1>2. r \in Requests /\ r.op = "capture" /\ need[h] = {} /\ KnowsCapture(h)
  BY <1>1, OperationAt, NotPosting, Running
<1>3. /\ Statement(h, "capture") /\ "capture" \in Labels /\ need'[h] = {}
      /\ seen'[h] = NewOrder(r, Referrer(r.customer)) /\ UNCHANGED held
  BY <1>1, <1>2 DEF Quote, Goto, Read, Statement, TxTypeOK, Labels
<1>4. /\ pc'[h] = "capture" /\ req'[h] = r /\ UNCHANGED ledgerVars
      /\ <<"key", KeyOf(r)>> \in held'[h] /\ ~ Answered(r)
  BY <1>1, <1>2, <1>3, StatementKeeps
<1>5. WalletsLocked(h)'
  BY <1>2, <1>3, <1>4 DEF WalletsLocked, Past
<1>6. KnowsCapture(h)'
  <2>1. binding' = binding
    BY <1>4 DEF ledgerVars
  <2>2. Quotable(req[h])' /\ seen'[h] = NewOrder(req[h], Referrer(req[h].customer))'
    BY <1>1, <1>3, <1>4, <2>1, QuoteKept
  <2>3. r.customer # None => <<"customer", r.customer>> \in held'[h]
    BY <1>1, <1>2, <1>3 DEF KnowsCapture, Past, Holds
  <2> QED
    BY <1>4, <2>2, <2>3 DEF KnowsCapture, Past, Holds
<1> QED
  BY <1>1, <1>2, <1>3, <1>4, <1>5, <1>6, RequestGoesOn, StatementTurn

\* post begins with all its wallets to lock.
LEMMA PostingTurn ==
  ASSUME NEW h \in Process, NEW p, NEW after \in {"commit", "reference"}, TxTypeOK,
         LockWallets(h, p, after)
  PROVE  /\ need' = [need EXCEPT ![h] = Touched(p)] /\ need'[h] = Touched(p)
         /\ need'[h] \subseteq Account
         /\ pc' = [pc EXCEPT ![h] = pc'[h]] /\ pc'[h] \in {after, "wallets"}
         /\ Touches(h)' = Touched(p) => WalletsLocked(h)'
<1>1. need'[h] = Touched(p) /\ pc'[h] = IF Touched(p) = {} THEN after ELSE "wallets"
  BY DEF LockWallets, Goto, TxTypeOK
<1>2. Touched(p) \subseteq Account
  BY DEF Touched
<1>3. Touches(h)' = Touched(p) => WalletsLocked(h)'
  BY <1>1 DEF WalletsLocked, Past
<1> QED
  BY <1>1, <1>2, <1>3 DEF LockWallets, Goto, TxTypeOK

LEMMA ReserveOrderTurn ==
  ASSUME CommInv, NEW h \in Process, ReserveOrder(h)
  PROVE  Turn(h)
<1> DEFINE r == req[h]
           p == CapturePosting(seen[h])
<1>1. TxInv /\ TxTypeOK /\ pc[h] = "capture" /\ Acquire(h) /\ LockWallets(h, p, "commit")
  BY DEF ReserveOrder, CommInv, TxInv
<1>2. r \in Requests /\ r.op = "capture" /\ KnowsCapture(h)
  BY <1>1, OperationAt, Running
<1>3. /\ need' = [need EXCEPT ![h] = need'[h]] /\ need'[h] \subseteq Account
      /\ pc' = [pc EXCEPT ![h] = pc'[h]] /\ pc'[h] \in {"commit", "wallets"}
      /\ Touches(h)' = Touched(p) => WalletsLocked(h)'
  <2> HIDE DEF p
  <2> QED
    BY <1>1, PostingTurn
<1>4. Statement(h, pc'[h]) /\ pc'[h] \in Labels /\ seen'[h] = seen[h]
  BY <1>1, <1>3 DEF ReserveOrder, Statement, TxTypeOK, Labels
<1>5. /\ req'[h] = r /\ UNCHANGED ledgerVars /\ held[h] \subseteq held'[h]
      /\ <<"key", KeyOf(r)>> \in held'[h] /\ ~ Answered(r)
      /\ <<"order", r.order>> \in held'[h]
  BY <1>1, <1>2, <1>4, StatementKeeps, LockIsResource
<1>6. WalletsLocked(h)'
  <2>1. Touches(h)' = Touched(p)
    BY <1>2, <1>4, <1>5 DEF Touches
  <2> QED
    BY <1>3, <2>1
<1>7. KnowsCapture(h)'
  <2>1. binding' = binding
    BY <1>5 DEF ledgerVars
  <2>2. Quotable(req[h])' /\ seen'[h] = NewOrder(req[h], Referrer(req[h].customer))'
    BY <1>1, <1>2, <1>4, <1>5, <2>1, QuoteKept DEF KnowsCapture, Past
  <2>3. r.customer # None => <<"customer", r.customer>> \in held'[h]
    BY <1>1, <1>2, <1>5 DEF KnowsCapture, Past, Holds
  <2> QED
    BY <1>3, <1>5, <2>2, <2>3 DEF KnowsCapture, Past, Holds
<1> QED
  BY <1>1, <1>2, <1>3, <1>4, <1>5, <1>6, <1>7, RequestGoesOn, StatementTurn

LEMMA LockOrderTurn ==
  ASSUME CommInv, NEW h \in Process, LockOrder(h)
  PROVE  Turn(h)
<1> DEFINE r == req[h]
           row == order[r.order]
<1>1. TxInv /\ TxTypeOK /\ pc[h] = "order" /\ Acquire(h) /\ row # None
  BY DEF LockOrder, CommInv, TxInv
<1>2. r \in Requests /\ r.op \in {"refund", "release"} /\ need[h] = {}
  BY <1>1, OperationAt, NotPosting
<1>3. /\ pc' = [pc EXCEPT ![h] = pc'[h]] /\ seen' = [seen EXCEPT ![h] = row]
      /\ UNCHANGED <<ledgerVars, req, now, need, outbox>>
      /\ \/ r.op = "refund" /\ pc'[h] = "refund" /\ Refundable(r, row)
         \/ r.op = "release" /\ pc'[h] = "commit" /\ row.released
         \/ /\ r.op = "release" /\ pc'[h] = "release" /\ ~ row.released
            /\ r.order \in now[h]
  BY <1>1 DEF LockOrder, Goto, Read, TxTypeOK
<1>4. Statement(h, pc'[h]) /\ pc'[h] \in Labels /\ seen'[h] = row /\ need'[h] = {}
  BY <1>1, <1>2, <1>3 DEF Statement, TxTypeOK, Labels
<1>5. /\ req'[h] = r /\ UNCHANGED ledgerVars /\ <<"order", r.order>> \in held'[h]
      /\ <<"key", KeyOf(r)>> \in held'[h] /\ ~ Answered(r)
  BY <1>1, <1>2, <1>4, StatementKeeps, LockIsResource
<1>6. WalletsLocked(h)'
  BY <1>3, <1>4, <1>5 DEF WalletsLocked, Past, Touches
<1>7. order' = order /\ due' = due /\ (r.op = "release" /\ pc'[h] = "release" => r.order \in due)
  BY <1>1, <1>3, <1>5 DEF ledgerVars, TxTypeOK
<1>8. KnowsOrder(h)'
  <2>1. CASE r.op = "refund"
    BY <1>1, <1>3, <1>4, <1>5, <1>7, <2>1 DEF KnowsOrder, Past, Holds
  <2>2. CASE r.op = "release"
    BY <1>1, <1>3, <1>4, <1>5, <1>7, <2>2 DEF KnowsOrder, Past, Holds
  <2> QED
    BY <1>2, <2>1, <2>2
<1> QED
  BY <1>1, <1>2, <1>3, <1>4, <1>5, <1>6, <1>8, RequestGoesOn, StatementTurn

\* The allocations read by the second statement are those of the locked row.
LEMMA AllocationsRead ==
  ASSUME CommInv, NEW h \in Process, req[h].order \in Orders, order[req[h].order] # None,
         seen[h] = order[req[h].order]
  PROVE  WithAllocations(h) = seen[h]
<1>1. order[req[h].order] \in OrderRow
  BY DEF CommInv, LedgerTypeOK
<1> QED
  BY <1>1 DEF WithAllocations, OrderRow

LEMMA ReserveRefundTurn ==
  ASSUME CommInv, NEW h \in Process, ReserveRefund(h)
  PROVE  Turn(h)
<1> DEFINE r == req[h]
           row == seen[h]
           p == RefundPosting(row, Deltas(r, row), r.amount)
<1>1. TxInv /\ TxTypeOK /\ pc[h] = "refund" /\ Acquire(h)
  BY DEF ReserveRefund, CommInv, TxInv
<1>2. r \in Requests /\ r.op = "refund" /\ KnowsOrder(h) /\ r.order \in Orders
  BY <1>1, OperationAt, Running, RequestFields
<1>3. order[r.order] # None /\ row = order[r.order] /\ Refundable(r, row)
  BY <1>1, <1>2 DEF KnowsOrder, Past
<1>4. LockWallets(h, p, "commit") /\ seen' = [seen EXCEPT ![h] = row]
  <2>1. WithAllocations(h) = row
    BY <1>2, <1>3, AllocationsRead
  <2> QED
    BY <2>1 DEF ReserveRefund, Read
<1>5. /\ need' = [need EXCEPT ![h] = need'[h]] /\ need'[h] \subseteq Account
      /\ pc' = [pc EXCEPT ![h] = pc'[h]] /\ pc'[h] \in {"commit", "wallets"}
      /\ Touches(h)' = Touched(p) => WalletsLocked(h)'
  <2> HIDE DEF p
  <2> QED
    BY <1>1, <1>4, PostingTurn
<1>6. Statement(h, pc'[h]) /\ pc'[h] \in Labels /\ seen'[h] = row
  BY <1>1, <1>4, <1>5 DEF ReserveRefund, Statement, TxTypeOK, Labels
<1>7. /\ req'[h] = r /\ UNCHANGED ledgerVars /\ held[h] \subseteq held'[h]
      /\ <<"key", KeyOf(r)>> \in held'[h] /\ ~ Answered(r)
  BY <1>1, <1>2, <1>6, StatementKeeps
<1>8. WalletsLocked(h)'
  <2>1. Touches(h)' = Touched(p)
    BY <1>2, <1>6, <1>7 DEF Touches
  <2> QED
    BY <1>5, <2>1
<1>9. KnowsOrder(h)'
  <2>1. <<"order", r.order>> \in held'[h] /\ order' = order
    BY <1>1, <1>2, <1>7 DEF KnowsOrder, Past, Holds, ledgerVars
  <2> QED
    BY <1>2, <1>3, <1>5, <1>6, <1>7, <2>1 DEF KnowsOrder, Past, Holds
<1> QED
  BY <1>1, <1>2, <1>5, <1>6, <1>7, <1>8, <1>9, RequestGoesOn, StatementTurn

LEMMA PlanReleaseTurn ==
  ASSUME CommInv, NEW h \in Process, PlanRelease(h)
  PROVE  Turn(h)
<1> DEFINE r == req[h]
           row == seen[h]
           p == ReleasePosting(row)
<1>1. TxInv /\ TxTypeOK /\ pc[h] = "release"
  BY DEF PlanRelease, CommInv, TxInv
<1>2. r.op \in {"release", "worker"} /\ KnowsOrder(h) /\ r.order \in Orders
  BY <1>1, OperationAt, Running, RequestFields, Operations
<1>3. order[r.order] # None /\ row = order[r.order] /\ ~ row.released /\ r.order \in due
  BY <1>1, <1>2 DEF KnowsOrder, Past
<1>4. LockWallets(h, p, "commit") /\ seen' = [seen EXCEPT ![h] = row]
  <2>1. WithAllocations(h) = row
    BY <1>2, <1>3, AllocationsRead
  <2> QED
    BY <2>1 DEF PlanRelease, Read
<1>5. /\ need' = [need EXCEPT ![h] = need'[h]] /\ need'[h] \subseteq Account
      /\ pc' = [pc EXCEPT ![h] = pc'[h]] /\ pc'[h] \in {"commit", "wallets"}
      /\ Touches(h)' = Touched(p) => WalletsLocked(h)'
  <2> HIDE DEF p
  <2> QED
    BY <1>1, <1>4, PostingTurn
<1>6. Statement(h, pc'[h]) /\ pc'[h] \in Labels /\ seen'[h] = row
  BY <1>1, <1>4, <1>5 DEF PlanRelease, Statement, TxTypeOK, Labels
<1>7. /\ req'[h] = r /\ UNCHANGED ledgerVars /\ held[h] \subseteq held'[h]
      /\ r \in Requests => <<"key", KeyOf(r)>> \in held'[h] /\ ~ Answered(r)
  BY <1>1, <1>6, StatementKeeps
<1>8. WalletsLocked(h)'
  <2>1. Touches(h)' = Touched(p)
    BY <1>2, <1>3, <1>6, <1>7 DEF Touches
  <2> QED
    BY <1>5, <2>1
<1>9. KnowsOrder(h)'
  <2>1. <<"order", r.order>> \in held'[h] /\ order' = order /\ due' = due
    BY <1>1, <1>2, <1>7 DEF KnowsOrder, Past, Holds, ledgerVars
  <2> QED
    BY <1>2, <1>3, <1>5, <1>6, <1>7, <2>1 DEF KnowsOrder, Past, Holds
<1>10. CASE r \in Requests
  BY <1>1, <1>2, <1>5, <1>6, <1>7, <1>8, <1>9, <1>10, Operations, RequestGoesOn, StatementTurn
<1>11. CASE r \in WorkerJobs
  <2>1. Knows(h)'
    BY <1>5, <1>7, <1>8, <1>9, <1>11 DEF Knows
  <2> QED
    BY <1>1, <1>5, <1>6, <2>1, StatementTurn
<1> QED
  BY <1>1, <1>10, <1>11, Running

LEMMA LockPayoutTurn ==
  ASSUME CommInv, NEW h \in Process, LockPayout(h)
  PROVE  Turn(h)
<1> DEFINE r == req[h]
           row == payout[r.payout]
           back(to) == ReservePosting(row.account, to, - row.amount)
<1>1. TxInv /\ TxTypeOK /\ pc[h] = "payout" /\ Acquire(h) /\ row # None
  BY DEF LockPayout, CommInv, TxInv
<1>2. /\ r \in Requests /\ r.op \in {"approve", "processing", "reject", "outcome"}
      /\ need[h] = {}
  BY <1>1, OperationAt, NotPosting
<1>3. /\ seen' = [seen EXCEPT ![h] = row] /\ UNCHANGED <<ledgerVars, req, now, outbox>>
      /\ seen'[h] = row /\ req'[h] = r
  BY <1>1 DEF LockPayout, Read, TxTypeOK
<1> DEFINE Ready ==
      /\ pc' = [pc EXCEPT ![h] = pc'[h]] /\ need' = [need EXCEPT ![h] = need'[h]]
      /\ need'[h] \subseteq Account /\ WalletsLocked(h)'
      /\ \/ r.op = "approve" /\ Approvable(r, row) /\ pc'[h] = "balance"
         \/ r.op = "processing" /\ Processable(r, row) /\ pc'[h] = "balance"
         \/ r.op = "reject" /\ Rejectable(row) /\ pc'[h] \in {"commit", "wallets"}
         \/ r.op = "outcome" /\ Confirmable(r, row) /\ pc'[h] \in {"reference", "wallets"}
<1>4. ASSUME r.op = "approve"
      PROVE  Ready
  <2>1. Approvable(r, row) /\ Goto(h, "balance") /\ UNCHANGED need
    BY <1>4 DEF LockPayout
  <2> QED
    BY <1>1, <1>2, <1>4, <2>1 DEF Goto, TxTypeOK, WalletsLocked, Past
<1>5. ASSUME r.op = "processing"
      PROVE  Ready
  <2>1. Processable(r, row) /\ Goto(h, "balance") /\ UNCHANGED need
    BY <1>5 DEF LockPayout
  <2> QED
    BY <1>1, <1>2, <1>5, <2>1 DEF Goto, TxTypeOK, WalletsLocked, Past
<1>6. ASSUME r.op = "reject"
      PROVE  Ready
  <2>1. Rejectable(row) /\ LockWallets(h, back(row.account), "commit")
    BY <1>6 DEF LockPayout
  <2>2. Touches(h)' = Touched(back(row.account))
    BY <1>3, <1>6 DEF Touches
  <2> HIDE DEF back
  <2> QED
    BY <1>1, <1>6, <2>1, <2>2, PostingTurn
<1>7. ASSUME r.op = "outcome"
      PROVE  Ready
  <2>1. /\ Confirmable(r, row)
        /\ \/ r.status = "unknown" /\ Goto(h, "reference") /\ UNCHANGED need
           \/ r.status = "succeeded" /\ LockWallets(h, back(Clearing), "reference")
           \/ r.status = "failed" /\ LockWallets(h, back(row.account), "reference")
    BY <1>7 DEF LockPayout
  <2>2. /\ r.status = "unknown" => Touches(h)' = {}
        /\ r.status = "succeeded" => Touches(h)' = Touched(back(Clearing))
        /\ r.status = "failed" => Touches(h)' = Touched(back(row.account))
    BY <1>3, <1>7 DEF Touches
  <2> HIDE DEF back
  <2>3. CASE r.status = "unknown"
    <3>1. Goto(h, "reference") /\ UNCHANGED need
      BY <2>1, <2>3
    <3>2. WalletsLocked(h)'
      BY <1>1, <1>2, <2>2, <2>3, <3>1 DEF WalletsLocked, Past, Goto, TxTypeOK
    <3> QED
      BY <1>1, <1>2, <1>7, <2>1, <3>1, <3>2 DEF Goto, TxTypeOK
  <2>4. CASE r.status = "succeeded"
    <3>1. LockWallets(h, back(Clearing), "reference")
      BY <2>1, <2>4
    <3> QED
      BY <1>1, <1>7, <2>1, <2>2, <2>4, <3>1, PostingTurn
  <2>5. CASE r.status = "failed"
    <3>1. LockWallets(h, back(row.account), "reference")
      BY <2>1, <2>5
    <3> QED
      BY <1>1, <1>7, <2>1, <2>2, <2>5, <3>1, PostingTurn
  <2> QED
    BY <2>1, <2>3, <2>4, <2>5
<1>8. Ready
  BY <1>2, <1>4, <1>5, <1>6, <1>7
<1>9. Statement(h, pc'[h]) /\ pc'[h] \in Labels
  BY <1>1, <1>3, <1>8 DEF Statement, TxTypeOK, Labels
<1>10. /\ <<"payout", r.payout>> \in held'[h] /\ payout' = payout
       /\ <<"key", KeyOf(r)>> \in held'[h] /\ ~ Answered(r)
  BY <1>1, <1>2, <1>9, StatementKeeps, LockIsResource DEF ledgerVars
<1>11. KnowsPayout(h)'
  <2>1. CASE r.op = "approve"
    BY <1>1, <1>3, <1>8, <1>10, <2>1 DEF KnowsPayout, Past, Holds
  <2>2. CASE r.op = "processing"
    BY <1>1, <1>3, <1>8, <1>10, <2>2 DEF KnowsPayout, Past, Holds
  <2>3. CASE r.op = "reject"
    BY <1>1, <1>3, <1>8, <1>10, <2>3 DEF KnowsPayout, Past, Holds
  <2>4. CASE r.op = "outcome"
    BY <1>1, <1>3, <1>8, <1>10, <2>4 DEF KnowsPayout, Past, Holds
  <2> QED
    BY <1>2, <2>1, <2>2, <2>3, <2>4
<1>12. pc'[h] \in {"balance", "commit", "wallets", "reference"}
  BY <1>8
<1> QED
  BY <1>1, <1>2, <1>3, <1>8, <1>9, <1>10, <1>11, <1>12, RequestGoesOn, StatementTurn

LEMMA LockBalanceTurn ==
  ASSUME CommInv, NEW h \in Process, LockBalance(h)
  PROVE  Turn(h)
<1> DEFINE r == req[h]
           label == IF r.op = "request" THEN "reserve" ELSE "commit"
<1>1. TxInv /\ TxTypeOK /\ pc[h] = "balance" /\ Acquire(h)
  BY DEF LockBalance, CommInv, TxInv
<1>2. r \in Requests /\ r.op \in {"request", "approve", "processing"} /\ need[h] = {}
  BY <1>1, OperationAt, NotPosting
<1>3. /\ Statement(h, label) /\ label \in Labels /\ need'[h] = {} /\ seen'[h] = seen[h]
      /\ r.op = "request" => Funded(r)
      /\ r.op # "request" => NotInDebt(seen[h].account)
  BY <1>1, <1>2 DEF LockBalance, Goto, Statement, TxTypeOK, Labels
<1>4. /\ pc'[h] = label /\ req'[h] = r /\ UNCHANGED ledgerVars /\ held[h] \subseteq held'[h]
      /\ <<"wallet", seen[h].account>> \in held'[h] /\ wallet' = wallet /\ payout' = payout
      /\ <<"key", KeyOf(r)>> \in held'[h] /\ ~ Answered(r)
  BY <1>1, <1>2, <1>3, StatementKeeps, LockIsResource DEF ledgerVars
<1>5. WalletsLocked(h)'
  BY <1>2, <1>3, <1>4 DEF WalletsLocked, Past, Touches
<1>6. CASE r.op = "request"
  <2>1. seen[h].account = r.account
    <3>1. seen[h] = [account |-> r.account]
      BY <1>1, <1>2, <1>6, Running DEF KnowsRequest, Past
    <3> QED
      BY <3>1
  <2>2. KnowsRequest(h)'
    BY <1>3, <1>4, <1>6, <2>1 DEF KnowsRequest, Past, Holds, Funded
  <2> QED
    BY <1>1, <1>2, <1>3, <1>4, <1>5, <1>6, <2>2, RequestGoesOn, StatementTurn
<1>7. CASE r.op \in {"approve", "processing"}
  <2>1. KnowsPayout(h)
    BY <1>1, <1>2, <1>7, Running
  <2>2. KnowsPayout(h)'
    BY <1>1, <1>3, <1>4, <1>7, <2>1 DEF KnowsPayout, Past, Holds, NotInDebt
  <2> QED
    BY <1>1, <1>2, <1>3, <1>4, <1>5, <1>7, <2>2, RequestGoesOn, StatementTurn
<1> QED
  BY <1>2, <1>6, <1>7

LEMMA ReservePayoutTurn ==
  ASSUME CommInv, NEW h \in Process, ReservePayout(h)
  PROVE  Turn(h)
<1> DEFINE r == req[h]
<1>1. TxInv /\ TxTypeOK /\ pc[h] = "reserve" /\ Acquire(h)
  BY DEF ReservePayout, CommInv, TxInv
<1>2. r \in Requests /\ r.op = "request" /\ need[h] = {} /\ KnowsRequest(h)
  BY <1>1, OperationAt, NotPosting, Running
<1>3. Statement(h, "commit") /\ "commit" \in Labels /\ need'[h] = {} /\ seen'[h] = seen[h]
  BY <1>1, <1>2 DEF ReservePayout, Goto, Statement, TxTypeOK, Labels
<1>4. /\ pc'[h] = "commit" /\ req'[h] = r /\ UNCHANGED ledgerVars /\ held[h] \subseteq held'[h]
      /\ <<"payout", r.payout>> \in held'[h] /\ wallet' = wallet
      /\ <<"key", KeyOf(r)>> \in held'[h] /\ ~ Answered(r)
  BY <1>1, <1>2, <1>3, StatementKeeps, LockIsResource DEF ledgerVars
<1>5. WalletsLocked(h)'
  BY <1>2, <1>3, <1>4 DEF WalletsLocked, Past, Touches
<1>6. KnowsRequest(h)'
  BY <1>1, <1>2, <1>4 DEF KnowsRequest, Past, Holds, Funded
<1> QED
  BY <1>1, <1>2, <1>3, <1>4, <1>5, <1>6, RequestGoesOn, StatementTurn

LEMMA LockWalletTurn ==
  ASSUME CommInv, NEW h \in Process, LockWallet(h)
  PROVE  Turn(h)
<1> DEFINE r == req[h]
           label == IF need'[h] = {} THEN AfterWallets(r) ELSE "wallets"
           first == FirstWallet(h)
<1>1. TxInv /\ TxTypeOK /\ pc[h] = "wallets" /\ Acquire(h)
  BY DEF LockWallet, CommInv, TxInv
<1>2. /\ r.op \in {"capture", "refund", "release", "worker", "reject", "outcome"}
      /\ WalletsLocked(h) /\ need[h] # {}
      /\ NextLock(h) = <<"wallet", first>> /\ NextLock(h)[2] = first
      /\ NextLock(h) # None
  BY <1>1, OperationAt, Running, LockIsResource DEF WalletsLocked, Past
<1> HIDE DEF first
<1>3. /\ need' = [need EXCEPT ![h] = @ \ {first}] /\ pc' = [pc EXCEPT ![h] = label]
      /\ UNCHANGED <<ledgerVars, req, now, seen, outbox>>
  BY <1>2 DEF LockWallet, Goto
<1>4. need'[h] = need[h] \ {first} /\ need'[h] \subseteq Account
  BY <1>1, <1>3 DEF TxTypeOK
<1>5. label = "wallets" <=> need'[h] # {}
  BY DEF AfterWallets
<1>6. label \in {"wallets", IF r.op = "outcome" THEN "reference" ELSE "commit"}
  BY DEF AfterWallets
<1> HIDE DEF label
<1>7. Statement(h, label) /\ label \in Labels /\ seen'[h] = seen[h]
  BY <1>1, <1>3, <1>4, <1>6 DEF Statement, TxTypeOK, Labels
<1>8. /\ pc'[h] = label /\ req'[h] = r /\ UNCHANGED ledgerVars /\ held[h] \subseteq held'[h]
      /\ <<"wallet", first>> \in held'[h] /\ order' = order /\ payout' = payout
      /\ due' = due /\ binding' = binding
      /\ r \in Requests => <<"key", KeyOf(r)>> \in held'[h] /\ ~ Answered(r)
  BY <1>1, <1>2, <1>7, StatementKeeps DEF ledgerVars
<1>9. WalletsLocked(h)'
  <2>1. Touches(h)' = Touches(h)
    BY <1>7, <1>8 DEF Touches
  <2>2. \A a \in Touches(h) \ need[h] : <<"wallet", a>> \in held'[h]
    BY <1>1, <1>2, <1>8 DEF WalletsLocked, Past, Holds
  <2>3. \A a \in Touches(h)' \ need'[h] : <<"wallet", a>> \in held'[h]
    BY <1>4, <1>8, <2>1, <2>2
  <2> QED
    BY <1>5, <1>8, <2>3 DEF WalletsLocked, Past, Holds
<1>10. CASE r.op = "capture"
  <2>1. r \in Requests /\ KnowsCapture(h)
    BY <1>1, <1>10, Running, Operations
  <2>2. Quotable(req[h])' /\ seen'[h] = NewOrder(req[h], Referrer(req[h].customer))'
    BY <1>1, <1>7, <1>8, <2>1, QuoteKept DEF KnowsCapture, Past
  <2>3. KnowsCapture(h)'
    BY <1>1, <1>6, <1>8, <1>10, <2>1, <2>2 DEF KnowsCapture, Past, Holds
  <2>4. label \notin {"idle", "claim"}
    BY <1>6, <1>10
  <2> QED
    BY <1>1, <1>4, <1>7, <1>8, <1>9, <1>10, <2>1, <2>3, <2>4, RequestGoesOn, StatementTurn
<1>11. CASE r.op \in {"refund", "release", "worker"}
  <2>1. KnowsOrder(h)
    BY <1>1, <1>11, Running, Operations
  <2>2. label \in {"wallets", "commit"}
    BY <1>6, <1>11
  <2>3. KnowsOrder(h)'
    BY <1>1, <1>7, <1>8, <1>11, <2>1, <2>2 DEF KnowsOrder, Past, Holds
  <2>4. CASE r \in Requests
    BY <1>1, <1>4, <1>7, <1>8, <1>9, <1>11, <2>2, <2>3, <2>4, Operations, RequestGoesOn,
       StatementTurn
  <2>5. CASE r \in WorkerJobs
    <3>1. Knows(h)'
      BY <1>8, <1>9, <2>2, <2>3, <2>5 DEF Knows
    <3> QED
      BY <1>1, <1>4, <1>7, <3>1, StatementTurn
  <2> QED
    BY <1>1, <2>4, <2>5, Running
<1>12. CASE r.op \in {"reject", "outcome"}
  <2>1. r \in Requests /\ KnowsPayout(h)
    BY <1>1, <1>12, Running, Operations
  <2>2. label \in {"wallets", "commit", "reference"}
    BY <1>6, <1>12
  <2>3. KnowsPayout(h)'
    BY <1>1, <1>6, <1>7, <1>8, <1>12, <2>1, <2>2 DEF KnowsPayout, Past, Holds
  <2> QED
    BY <1>1, <1>4, <1>7, <1>8, <1>9, <1>12, <2>1, <2>2, <2>3, RequestGoesOn, StatementTurn
<1> QED
  BY <1>2, <1>10, <1>11, <1>12

LEMMA TakeReferenceTurn ==
  ASSUME CommInv, NEW h \in Process, TakeReference(h)
  PROVE  Turn(h)
<1> DEFINE r == req[h]
<1>1. TxInv /\ TxTypeOK /\ pc[h] = "reference" /\ Acquire(h)
  BY DEF TakeReference, CommInv, TxInv
<1>2. /\ r \in Requests /\ r.op = "outcome" /\ need[h] = {}
      /\ KnowsPayout(h) /\ WalletsLocked(h)
  BY <1>1, OperationAt, NotPosting, Running
<1>3. Statement(h, "commit") /\ "commit" \in Labels /\ need'[h] = {} /\ seen'[h] = seen[h]
  BY <1>1, <1>2 DEF TakeReference, Goto, Statement, TxTypeOK, Labels
<1>4. /\ pc'[h] = "commit" /\ req'[h] = r /\ UNCHANGED ledgerVars /\ held[h] \subseteq held'[h]
      /\ payout' = payout /\ <<"key", KeyOf(r)>> \in held'[h] /\ ~ Answered(r)
  BY <1>1, <1>2, <1>3, StatementKeeps DEF ledgerVars
<1>5. WalletsLocked(h)'
  <2>1. Touches(h)' = Touches(h)
    BY <1>3, <1>4 DEF Touches
  <2> QED
    BY <1>1, <1>2, <1>3, <1>4, <2>1 DEF WalletsLocked, Past, Holds
<1>6. KnowsPayout(h)'
  BY <1>1, <1>2, <1>3, <1>4 DEF KnowsPayout, Past, Holds
<1> QED
  BY <1>1, <1>2, <1>3, <1>4, <1>5, <1>6, RequestGoesOn, StatementTurn

-----------------------------------------------------------------------------
(* The invariant, and the refinement.                                      *)

LEMMA UnchangedGuards ==
  ASSUME NEW g \in Process, UNCHANGED ledgerVars
  PROVE  Guarded(g)
BY DEF Guarded, NoNewOrderOf, ledgerVars, Answered

\* Every step of a transaction leaves its state in order and the rows that the
\* others have locked as they were.
LEMMA StepTurn ==
  ASSUME CommInv, NEW h \in Process, Step(h) \/ Rollback(h)
  PROVE  /\ Turn(h)
         /\ \A g \in Process \ {h} : Guarded(g)
         /\ UNCHANGED ledgerVars \/ Commit(h)
<1>1. outbox \in [Jobs -> Nat]
  BY DEF CommInv, TxInv, TxTypeOK
<1>2. CASE Commit(h)
  <2>1. outbox' \in [Jobs -> Nat]
    <3>1. outbox' = [outbox EXCEPT ![req[h]] = @ + 1]
      BY <1>2 DEF Commit
    <3>2. req[h] \in Jobs
      BY <1>2, Running DEF Commit, CommInv, Jobs
    <3>3. outbox[req[h]] + 1 \in Nat
      BY <1>1, <3>2
    <3> QED
      BY <1>1, <3>1, <3>3
  <2>2. Finish(h) /\ due' = due
    BY <1>2 DEF Commit
  <2> QED
    BY <1>2, <2>1, <2>2, FinishTurn, CommitGuards
<1>3. CASE Replay(h) \/ Rollback(h)
  <2>1. Finish(h) /\ UNCHANGED <<ledgerVars, outbox>> /\ due' = due
    BY <1>3 DEF Replay, Rollback, ledgerVars
  <2> QED
    BY <1>1, <2>1, FinishTurn, UnchangedGuards
<1>4. CASE \/ Claim(h) \/ LockCustomer(h) \/ CheckFirstOrder(h) \/ Quote(h)
           \/ ReserveOrder(h) \/ LockOrder(h) \/ ReserveRefund(h) \/ PlanRelease(h) \/ LockPayout(h) \/ LockBalance(h)
           \/ ReservePayout(h) \/ LockWallet(h) \/ TakeReference(h)
  <2>1. UNCHANGED ledgerVars
    BY <1>4 DEF Claim, LockCustomer, CheckFirstOrder, Quote, ReserveOrder, LockOrder, ReserveRefund,
       PlanRelease, LockPayout, LockBalance, ReservePayout, LockWallet, TakeReference
  <2>2. Turn(h)
    BY <1>4, ClaimTurn, LockCustomerTurn, CheckFirstOrderTurn, QuoteTurn, ReserveOrderTurn, LockOrderTurn,
       ReserveRefundTurn, PlanReleaseTurn, LockPayoutTurn, LockBalanceTurn,
       ReservePayoutTurn, LockWalletTurn, TakeReferenceTurn
  <2> QED
    BY <2>1, <2>2, UnchangedGuards
<1> QED
  BY <1>2, <1>3, <1>4 DEF Step

\* The turn of one transaction and the patience of the others.
LEMMA TurnKeeps ==
  ASSUME CommInv, NEW h \in Process, Turn(h), \A g \in Process \ {h} : Guarded(g)
  PROVE  TxInv'
<1>1. ASSUME NEW g \in Process
      PROVE  Knows(g)'
  <2>1. CASE g = h
    BY <2>1 DEF Turn
  <2>2. CASE g # h
    BY <2>2, OthersKeep DEF Turn, CommInv, TxInv
  <2> QED
    BY <2>1, <2>2
<1> QED
  BY <1>1 DEF Turn, TxInv

LEMMA NextComm ==
  ASSUME CommInv, [CommissionNext]_vars
  PROVE  CommInv' /\ [LedgerNext]_ledgerVars
<1>1. TxInv' /\ [LedgerNext]_ledgerVars
  <2>1. ASSUME NEW h \in Handlers, NEW r \in Requests, Begin(h, r)
        PROVE  TxInv' /\ [LedgerNext]_ledgerVars
    <3>1. UNCHANGED ledgerVars /\ h \in Process
      BY <2>1 DEF Begin, Process
    <3> QED
      BY <2>1, <3>1, BeginTurn, TurnKeeps, UnchangedGuards
  <2>2. ASSUME NEW h \in Workers, NEW o \in Orders, PickDue(h, o)
        PROVE  TxInv' /\ [LedgerNext]_ledgerVars
    <3>1. UNCHANGED ledgerVars /\ h \in Process
      BY <2>2 DEF PickDue, Process
    <3> QED
      BY <2>2, <3>1, PickTurn, TurnKeeps, UnchangedGuards
  <2>3. ASSUME NEW h \in Process, Step(h) \/ Rollback(h)
        PROVE  TxInv' /\ [LedgerNext]_ledgerVars
    <3>1. TxInv' /\ (UNCHANGED ledgerVars \/ Commit(h))
      BY <2>3, StepTurn, TurnKeeps
    <3>2. Commit(h) => LedgerNext
      <4>1. req[h] \in WorkerJobs => req[h].order \in Orders
        BY Operations
      <4> QED
        BY <4>1, CommitRefines DEF LedgerNext
    <3> QED
      BY <3>1, <3>2
  <2>4. CASE Time
    <3>1. PICK o \in Orders : FreezeEnds(o)
      BY <2>4 DEF Time
    <3>2. UNCHANGED txVars /\ UNCHANGED outbox
      BY <2>4 DEF Time
    <3>3. /\ \A g \in Process : Unmoved(g) /\ Guarded(g)
          /\ due \subseteq due'
      BY <3>1, <3>2 DEF FreezeEnds, Unmoved, Guarded, NoNewOrderOf, txVars, Answered
    <3>4. \A g \in Process : Knows(g)'
      BY <3>3, OthersKeep DEF CommInv, TxInv
    <3>5. TxTypeOK' /\ Exclusive'
      <4>1. TxTypeOK /\ Exclusive
        BY DEF CommInv, TxInv
      <4> QED
        BY <3>2, <3>3, <4>1 DEF TxTypeOK, Exclusive, txVars
    <3> QED
      BY <3>1, <3>4, <3>5 DEF LedgerNext, TxInv
  <2>5. CASE UNCHANGED vars
    <3>1. UNCHANGED ledgerVars /\ UNCHANGED txVars /\ UNCHANGED outbox
      BY <2>5 DEF vars
    <3>2. \A g \in Process : Unmoved(g) /\ Guarded(g)
      BY <3>1, UnchangedGuards DEF Unmoved, txVars
    <3>3. \A g \in Process : Knows(g)'
      BY <3>2, OthersKeep DEF CommInv, TxInv
    <3>4. TxTypeOK /\ Exclusive /\ due' = due
      BY <3>1 DEF CommInv, TxInv, ledgerVars
    <3>5. TxTypeOK' /\ Exclusive'
      BY <3>1, <3>4 DEF TxTypeOK, Exclusive, txVars
    <3> QED
      BY <3>1, <3>3, <3>5 DEF TxInv
  <2> QED
    BY <2>1, <2>2, <2>3, <2>4, <2>5 DEF CommissionNext
<1> QED
  BY <1>1, NextCore DEF CommInv

LEMMA InitComm == CommissionInit => CommInv
<1> SUFFICES ASSUME CommissionInit
             PROVE  CommInv
  OBVIOUS
<1>1. LedgerTypeOK /\ AllocationsExact
  BY InitCore DEF CommissionInit
<1>2. TxTypeOK
  BY DEF CommissionInit, TxTypeOK, Labels
<1>3. Exclusive /\ \A h \in Process : Knows(h)
  BY DEF CommissionInit, Exclusive, Knows
<1> QED
  BY <1>1, <1>2, <1>3 DEF CommInv, TxInv

LEMMA CommInvariant == CommissionSpec => []CommInv
BY InitComm, NextComm, PTL DEF CommissionSpec

(***************************************************************************)
(* The tables and the private state of every transaction keep their shape. *)
(***************************************************************************)
THEOREM CommissionTypeCorrect == CommissionSpec => []CommissionTypeOK
<1>1. CommInv => CommissionTypeOK
  BY DEF CommInv, TxInv, TxTypeOK, CommissionTypeOK
<1> QED
  BY <1>1, CommInvariant, PTL

(***************************************************************************)
(* Whatever order or payout row a transaction goes on to write from, it is *)
(* the committed one at that moment, for any number of transactions.       *)
(***************************************************************************)
THEOREM SeenStaysCurrent == CommissionSpec => []SeenIsCurrent
<1>1. CommInv => SeenIsCurrent
  <2> SUFFICES ASSUME CommInv, NEW h \in Process
               PROVE  /\ pc[h] \in {"refund", "release", "wallets", "commit"}
                         /\ req[h].op \in {"refund", "release", "worker"}
                            => seen[h] = order[req[h].order]
                      /\ pc[h] \in {"balance", "wallets", "reference", "commit"}
                         /\ req[h].op \in {"approve", "processing", "reject", "outcome"}
                            => seen[h] = payout[req[h].payout]
    BY DEF SeenIsCurrent
  <2>1. TxInv
    BY DEF CommInv
  <2>2. ASSUME pc[h] \in {"refund", "release", "wallets", "commit"},
               req[h].op \in {"refund", "release", "worker"}
        PROVE  seen[h] = order[req[h].order]
    <3>1. KnowsOrder(h)
      BY <2>1, <2>2, Running, Operations
    <3> QED
      BY <2>2, <3>1 DEF KnowsOrder, Past
  <2>3. ASSUME pc[h] \in {"balance", "wallets", "reference", "commit"},
               req[h].op \in {"approve", "processing", "reject", "outcome"}
        PROVE  seen[h] = payout[req[h].payout]
    <3>1. KnowsPayout(h)
      BY <2>1, <2>3, Running, Operations
    <3> QED
      BY <2>3, <3>1 DEF KnowsPayout, Past
  <2> QED
    BY <2>2, <2>3
<1> QED
  BY <1>1, CommInvariant, PTL

(***************************************************************************)
(* The refinement: whatever the transactions interleave, each commit is    *)
(* one operation of Ledger on the rows that are committed at that moment,  *)
(* and no other step changes a committed row, but the passing of time.     *)
(***************************************************************************)
THEOREM TransactionsKeepLedger == CommissionSpec => KeepsLedger
<1>1. CommissionInit => LedgerInit
  BY DEF CommissionInit
<1>2. CommInv /\ [CommissionNext]_vars
        => [UNCHANGED ledgerVars \/ LedgerNext]_ledgerVars
  BY NextComm
<1> QED
  BY <1>1, <1>2, CommInvariant, PTL DEF CommissionSpec, KeepsLedger

(***************************************************************************)
(* What is proved of Ledger therefore holds of the interleaved             *)
(* transactions: exact allocations, wallets that agree with the rows, no   *)
(* account overdrawn but by refunds, four eyes, settled attribution, and   *)
(* no legal refund that ends in an internal error.                         *)
(***************************************************************************)
THEOREM TransactionsKeepBooks ==
  CommissionSpec => [](/\ AllocationsExact /\ Books /\ NeverOverdrawn
                       /\ PayoutControl /\ Attribution /\ RefundNeverStuck)
<1>1. CommissionInit => LedgerInit
  BY DEF CommissionInit
<1>2. CommInv /\ [CommissionNext]_vars => [LedgerNext]_ledgerVars
  BY NextComm
<1>3. CommissionSpec => LedgerSpec
  BY <1>1, <1>2, CommInvariant, PTL DEF CommissionSpec, LedgerSpec
<1> QED
  BY <1>3, AllocationsStayExact, BooksBalance, PayoutsCovered, PayoutsControlled,
     AttributionSettled, RefundsNeverStuck, PTL

-----------------------------------------------------------------------------
(* Exactly once.                                                           *)

Released(o) == order[o] # None /\ order[o].released

\* No operation takes a release back.
LEMMA ReleasedStays ==
  ASSUME Core, Core', [LedgerNext]_ledgerVars, NEW o \in Orders, Released(o)
  PROVE  Released(o)'
<1>1. order[o] \in OrderRow /\ None \notin OrderRow
  BY TableAssumption DEF Core, LedgerTypeOK, Released
<1>2. CASE order'[o] = order[o]
  BY <1>2 DEF Released
<1>3. ASSUME NEW x \in Orders, ReleaseRow(x, order[x]), ~ order[x].released
      PROVE  order'[o] = order[o]
  BY <1>3 DEF ReleaseRow, Core, LedgerTypeOK, Released
<1>4. ASSUME NEW r \in Requests, Refund(r), r.order = o
      PROVE  Released(o)'
  <2> DEFINE next == [order[o] EXCEPT !.refunded = order[o].refunded + r.amount,
                                      !.returned = Targets(r, order[o])]
  <2>1. r.op = "refund" /\ Exact(order[o]) /\ Refundable(r, order[o])
    BY <1>1, <1>4 DEF Refund, Core, AllocationsExact, Exact
  <2>2. next \in OrderRow
    BY <1>1, <2>1, RefundedExact
  <2>3. order'[o] = next
    BY <1>4 DEF Refund, InsertRefund, Core, LedgerTypeOK
  <2>4. order'[o].released = order[o].released /\ order'[o] \in OrderRow
    BY <1>1, <2>2, <2>3 DEF OrderRow
  <2> QED
    BY <1>1, <2>4 DEF Released
<1>5. ASSUME NEW r \in Requests, Serve(r)
      PROVE  Released(o)'
  <2>1. CASE Capture(r)
    BY <1>2, <2>1, RequestFields DEF Capture, InsertOrder, Core, LedgerTypeOK, Released
  <2>2. CASE Refund(r)
    BY <1>2, <1>4, <2>2, RequestFields DEF Refund, InsertRefund, Core, LedgerTypeOK
  <2>3. CASE Release(r)
    BY <1>2, <1>3, <2>3, RequestFields DEF Release
  <2>4. CASE UNCHANGED order
    BY <1>2, <2>4
  <2> QED
    BY <1>5, <2>1, <2>2, <2>3, <2>4
       DEF Serve, Bind, RequestPayout, Approve, Processing, Reject, Outcome
<1>6. ASSUME NEW x \in Orders, WorkerRelease(x)
      PROVE  Released(o)'
  BY <1>2, <1>3, <1>6 DEF WorkerRelease
<1> QED
  BY <1>2, <1>5, <1>6 DEF LedgerNext, ledgerVars, FreezeEnds

Job(o) == [op |-> "worker", order |-> o]

LEMMA CommitOnce ==
  ASSUME CommInv, CommInv', ExactlyOnce, NEW h \in Process, Commit(h)
  PROVE  ExactlyOnce'
<1> DEFINE r == req[h]
<1>1. /\ TxInv /\ pc[h] = "commit" /\ outbox' = [outbox EXCEPT ![r] = @ + 1]
      /\ outbox \in [Jobs -> Nat]
      /\ r \in Requests \/ r \in WorkerJobs
      /\ r \in Requests => ~ Answered(r) /\ applied' = applied \cup {r}
      /\ r \in WorkerJobs => applied' = applied
  BY AtCommit, Operations DEF CommInv, TxInv, TxTypeOK, Commit, Record
<1>2. [LedgerNext]_ledgerVars
  BY Operations, CommitRefines DEF LedgerNext
<1>3. /\ \A q \in Requests : outbox[q] = IF q \in applied THEN 1 ELSE 0
      /\ \A p, q \in applied : KeyOf(p) = KeyOf(q) => p = q
      /\ \A o \in Orders : outbox[Job(o)] <= IF Released(o) THEN 1 ELSE 0
  BY DEF ExactlyOnce, Job, Released
<1>4. Core /\ Core'
  BY DEF CommInv, Core
<1>5. /\ \A o \in Orders : Job(o) \in WorkerJobs /\ Job(o) \in Jobs /\ Job(o).order = o
      /\ \A q \in Requests : q \in Jobs /\ q \notin WorkerJobs
      /\ \A q \in WorkerJobs : q = Job(q.order) /\ q.order \in Orders /\ q \in Jobs
  BY Operations DEF Job, Jobs, WorkerJobs
<1>6. \A o \in Orders : Released(o) => Released(o)'
  BY <1>2, <1>4, ReleasedStays
<1> HIDE DEF r
<1>7. CASE r \in Requests
  <2>1. r \notin applied /\ \A q \in applied : KeyOf(q) # KeyOf(r)
    BY <1>1, <1>7 DEF Answered
  <2>2. \A q \in Requests : outbox'[q] = IF q \in applied' THEN 1 ELSE 0
    BY <1>1, <1>3, <1>5, <1>7, <2>1
  <2>3. \A p, q \in applied' : KeyOf(p) = KeyOf(q) => p = q
    BY <1>1, <1>3, <1>7, <2>1
  <2>4. \A o \in Orders : outbox'[Job(o)] = outbox[Job(o)] /\ outbox[Job(o)] \in Nat
    BY <1>1, <1>5, <1>7
  <2>5. \A o \in Orders : outbox'[Job(o)] <= IF Released(o)' THEN 1 ELSE 0
    BY <1>3, <1>6, <2>4
  <2> QED
    BY <2>2, <2>3, <2>5 DEF ExactlyOnce, Job, Released, KeyOf
<1>8. CASE r \in WorkerJobs
  <2>1. PICK x \in Orders : r = Job(x)
    BY <1>5, <1>8
  <2>2. ~ Released(x) /\ Released(x)'
    <3>1. WorkerRelease(req[h].order) /\ req[h].order = x
      BY <1>5, <1>8, <2>1, CommitRefines, Operations DEF r
    <3>2. /\ order[x] \in OrderRow /\ ~ order[x].released
          /\ order'[x] = [order[x] EXCEPT !.released = TRUE]
      BY <1>4, <3>1 DEF WorkerRelease, ReleaseRow, Core, LedgerTypeOK
    <3>3. order'[x].released /\ order'[x] \in OrderRow
      BY <3>2 DEF OrderRow
    <3> QED
      BY <3>2, <3>3, TableAssumption DEF Released
  <2>3. \A q \in Requests : outbox'[q] = outbox[q]
    BY <1>1, <1>5, <1>8
  <2>4. \A o \in Orders : outbox'[Job(o)] <= IF Released(o)' THEN 1 ELSE 0
    <3> SUFFICES ASSUME NEW o \in Orders
                 PROVE  outbox'[Job(o)] <= IF Released(o)' THEN 1 ELSE 0
      OBVIOUS
    <3>1. CASE o = x
      <4>1. outbox[r] <= 0 /\ outbox[r] \in Nat /\ r \in Jobs
        BY <1>1, <1>3, <1>5, <2>1, <2>2
      <4>2. outbox'[r] <= 1
        BY <1>1, <4>1
      <4> QED
        BY <2>1, <2>2, <3>1, <4>2
    <3>2. CASE o # x
      <4>1. Job(o) # r
        BY <1>5, <2>1, <3>2
      <4>2. outbox'[Job(o)] = outbox[Job(o)] /\ outbox[Job(o)] \in Nat
        BY <1>1, <1>5, <4>1
      <4> QED
        BY <1>3, <1>6, <4>2
    <3> QED
      BY <3>1, <3>2
  <2> QED
    BY <1>1, <1>3, <1>8, <2>3, <2>4 DEF ExactlyOnce, Job, Released, KeyOf
<1> QED
  BY <1>1, <1>7, <1>8

LEMMA NextOnce ==
  ASSUME CommInv, CommInv', ExactlyOnce, [CommissionNext]_vars
  PROVE  ExactlyOnce'
<1>1. CASE UNCHANGED <<applied, order, outbox>>
  BY <1>1 DEF ExactlyOnce, KeyOf
<1>2. ASSUME NEW h \in Process, Step(h) \/ Rollback(h), ~ Commit(h)
      PROVE  UNCHANGED <<applied, order, outbox>>
  BY <1>2 DEF Step, Rollback, Claim, Replay, LockCustomer, CheckFirstOrder, Quote,
     ReserveOrder, LockOrder, ReserveRefund, PlanRelease, LockPayout, LockBalance, ReservePayout, LockWallet,
     TakeReference, ledgerVars
<1>3. ASSUME NEW h \in Process, Commit(h)
      PROVE  ExactlyOnce'
  BY <1>3, CommitOnce
<1>4. CASE \E h \in Handlers, r \in Requests : Begin(h, r)
  BY <1>1, <1>4 DEF Begin, ledgerVars
<1>5. CASE \E w \in Workers, o \in Orders : PickDue(w, o)
  BY <1>1, <1>5 DEF PickDue, ledgerVars
<1>6. CASE Time
  BY <1>1, <1>6 DEF Time, FreezeEnds
<1>7. CASE UNCHANGED vars
  BY <1>1, <1>7 DEF vars, ledgerVars
<1> QED
  BY <1>1, <1>2, <1>3, <1>4, <1>5, <1>6, <1>7 DEF CommissionNext

(***************************************************************************)
(* However often a request is sent, to however many handlers, and wherever *)
(* they stop: its event and its stored answer are written together and     *)
(* once, and the worker releases an order at most once.                    *)
(***************************************************************************)
THEOREM WrittenExactlyOnce == CommissionSpec => []ExactlyOnce
<1>1. CommissionInit => ExactlyOnce
  <2> SUFFICES ASSUME CommissionInit
               PROVE  ExactlyOnce
    OBVIOUS
  <2>1. \A o \in Orders : [op |-> "worker", order |-> o] \in Jobs
    BY DEF Jobs, WorkerJobs
  <2> QED
    BY <2>1 DEF CommissionInit, LedgerInit, ExactlyOnce, Jobs
<1>2. CommInv /\ CommInv' /\ ExactlyOnce /\ [CommissionNext]_vars => ExactlyOnce'
  BY NextOnce
<1> QED
  BY <1>1, <1>2, CommInvariant, PTL DEF CommissionSpec

-----------------------------------------------------------------------------
(* Which deadlocks there are.                                              *)

LEMMA Levels ==
  /\ \A k : Level(<<"key", k>>) = 0
  /\ \A c : Level(<<"customer", c>>) = 1
  /\ \A o : Level(<<"order", o>>) = 2 /\ Level(<<"payout", o>>) = 2
  /\ \A x : Level(<<"refund", x>>) = 3
  /\ \A a \in Account : Level(<<"wallet", a>>) = 4 + Rank[a]
  /\ \A x \in Resource : Level(x) \in Nat
<1>1. Rank \in [Account -> Nat]
  BY ProcessAssumption
<1>2. /\ \A k : Level(<<"key", k>>) = 0
      /\ \A c : Level(<<"customer", c>>) = 1
      /\ \A o : Level(<<"order", o>>) = 2 /\ Level(<<"payout", o>>) = 2
      /\ \A x : Level(<<"refund", x>>) = 3 /\ Level(<<"reference", x>>) = 0
      /\ \A a \in Account : Level(<<"wallet", a>>) = 4 + Rank[a]
  BY DEF Level
<1>3. ASSUME NEW x \in Resource
      PROVE  Level(x) \in Nat
  <2>1. CASE \E r \in Requests : x = <<"key", KeyOf(r)>>
    BY <1>2, <2>1
  <2>2. CASE x \in {"customer"} \X Customers
    BY <1>2, <2>2
  <2>3. CASE x \in {"order"} \X Orders
    BY <1>2, <2>3
  <2>4. CASE x \in {"refund"} \X Refunds
    BY <1>2, <2>4
  <2>5. CASE x \in {"payout"} \X Payouts
    BY <1>2, <2>5
  <2>6. CASE x \in {"wallet"} \X Account
    <3>1. PICK a \in Account : x = <<"wallet", a>>
      BY <2>6
    <3> QED
      BY <1>1, <1>2, <3>1
  <2>7. CASE x \in {"reference"} \X References
    BY <1>2, <2>7
  <2> QED
    BY <2>1, <2>2, <2>3, <2>4, <2>5, <2>6, <2>7 DEF Resource
<1> QED
  BY <1>2, <1>3

EarlyLabels == {"claim", "customer", "quote", "capture", "order", "payout", "refund",
                "release", "balance"}

\* A statement before the wallets keeps the order of locks if all it holds then
\* is below n.
LEMMA StatementAscends ==
  ASSUME CommInv, LockOrderInv, NEW h \in Process, pc[h] \in EarlyLabels,
         NEW label \in Labels, Statement(h, label), need'[h] \subseteq Account, NEW n \in Nat,
         Below(pc[h]) \in Nat, Below(pc[h]) <= n,
         NextLock(h) # None => Level(NextLock(h)) < n,
         label \in EarlyLabels => Below(label) \in Nat /\ n <= Below(label),
         need'[h] # {} => n <= 4
  PROVE  Ascending(h)'
<1>1. TxTypeOK /\ pc'[h] = label
  BY DEF CommInv, TxInv, TxTypeOK, Statement
<1>2. held'[h] \subseteq Resource /\ held[h] \subseteq Resource
  <2>1. held'[h] = held[h] \/ NextLock(h) \in Resource \cup {None}
    BY LockIsResource DEF EarlyLabels
  <2> QED
    BY <1>1, <2>1, LockTaken DEF TxTypeOK, Statement, EarlyLabels
<1>3. held'[h] \subseteq held[h] \cup ({NextLock(h)} \ {None})
  BY LockTaken DEF Statement, EarlyLabels
<1>4. \A x \in held[h] : Level(x) < Below(pc[h])
  BY DEF LockOrderInv, Ascending, EarlyLabels
<1>5. \A x \in held'[h] : Level(x) \in Nat /\ Level(x) < n
  BY <1>2, <1>3, <1>4, Levels
<1>6. ASSUME NEW x \in held'[h], NEW b \in need'[h]
      PROVE  Level(x) < 4 + Rank[b]
  <2>1. Rank[b] \in Nat
    BY ProcessAssumption
  <2> QED
    BY <1>5, <2>1
<1>7. label \in EarlyLabels => \A x \in held'[h] : Level(x) < Below(label)
  BY <1>5
<1>8. \A x : Level(x)' = Level(x)
  BY DEF Level
<1> QED
  BY <1>1, <1>6, <1>7, <1>8 DEF Ascending, EarlyLabels, Below, Level

LEMMA StatementLast ==
  ASSUME CommInv, LockOrderInv, NEW h \in Process, pc[h] \in Labels \ {"idle", "commit"},
         NEW label \in Labels, Statement(h, label),
         pc[h] = "payout" => payout[req[h].payout] # None,
         pc[h] \in {"reserve", "reference"} => label = "commit"
  PROVE  LastLocks(h)'
<1>1. pc'[h] = label /\ payout' = payout
  BY DEF CommInv, TxInv, TxTypeOK, Statement, ledgerVars
<1>2. held'[h] \subseteq held[h] \cup ({NextLock(h)} \ {None})
  <2>1. pc[h] # "idle"
    OBVIOUS
  <2>2. CASE UNCHANGED held
    BY <2>2
  <2>3. CASE Acquire(h)
    BY <2>1, <2>3, LockTaken
  <2> QED
    BY <2>2, <2>3 DEF Statement
<1>3. ASSUME NEW p \in Payouts, <<"payout", p>> \in held'[h]
      PROVE  payout'[p] # None \/ pc'[h] = "commit"
  <2>1. CASE <<"payout", p>> \in held[h]
    BY <1>1, <2>1 DEF LockOrderInv, LastLocks, Holds
  <2>2. CASE <<"payout", p>> = NextLock(h) /\ NextLock(h) # None
    <3>1. pc[h] \in {"payout", "reserve"} /\ p = req[h].payout
      BY <2>2, LockIsResource DEF Labels
    <3> QED
      BY <1>1, <3>1
  <2> QED
    BY <1>2, <1>3, <2>1, <2>2
<1>4. ASSUME NEW x \in References, <<"reference", x>> \in held'[h]
      PROVE  pc'[h] = "commit"
  <2>1. <<"reference", x>> \notin held[h]
    BY DEF LockOrderInv, LastLocks, Holds
  <2>2. <<"reference", x>> = NextLock(h) /\ NextLock(h) # None
    BY <1>2, <1>4, <2>1
  <2>3. pc[h] = "reference"
    BY <2>2, LockIsResource DEF Labels
  <2> QED
    BY <1>1, <2>3
<1> QED
  BY <1>3, <1>4 DEF LastLocks, Holds

\* A transaction that takes no step keeps its place in the order.
LEMMA OthersAscend ==
  ASSUME LockOrderInv, NEW g \in Process, Unmoved(g), Guarded(g)
  PROVE  Ascending(g)' /\ LastLocks(g)'
<1>1. Ascending(g) /\ LastLocks(g)
  BY DEF LockOrderInv
<1>2. Ascending(g)'
  BY <1>1 DEF Unmoved, Ascending, Below, Level
<1>3. LastLocks(g)'
  BY <1>1 DEF Unmoved, Guarded, LastLocks, Holds
<1> QED
  BY <1>2, <1>3

LEMMA FinishAscends ==
  ASSUME TxTypeOK, NEW h \in Process, Finish(h)
  PROVE  Ascending(h)' /\ LastLocks(h)'
BY DEF TxTypeOK, Finish, Ascending, LastLocks, Holds

\* The first wallet is the least, so the ones still needed come after it.
LEMMA WalletAscends ==
  ASSUME CommInv, LockOrderInv, NEW h \in Process, LockWallet(h)
  PROVE  Ascending(h)'
<1> DEFINE first == FirstWallet(h)
<1>1. TxInv /\ TxTypeOK /\ pc[h] = "wallets" /\ Acquire(h)
  BY DEF LockWallet, CommInv, TxInv
<1>2. need[h] # {} /\ NextLock(h) = <<"wallet", first>> /\ NextLock(h)[2] = first
  BY <1>1, Running, LockIsResource DEF WalletsLocked, Past
<1>3. first \in need[h] /\ \A b \in need[h] : Rank[first] <= Rank[b]
  BY <1>1, <1>2, LeastWallet
<1>4. need[h] \subseteq Account /\ Rank \in [Account -> Nat]
      /\ \A a, b \in Account : Rank[a] = Rank[b] => a = b
  BY <1>1, ProcessAssumption DEF TxTypeOK
<1>5. held'[h] \subseteq held[h] \cup {<<"wallet", first>>}
  BY <1>1, <1>2, LockTaken
<1> HIDE DEF first
<1>6. need'[h] = need[h] \ {first} /\ pc'[h] \notin EarlyLabels
  BY <1>1, <1>2 DEF LockWallet, Goto, TxTypeOK, AfterWallets, EarlyLabels
<1>7. ASSUME NEW x \in held'[h], NEW b \in need'[h]
      PROVE  Level(x) < 4 + Rank[b]
  <2>1. CASE x \in held[h]
    BY <1>6, <2>1 DEF LockOrderInv, Ascending
  <2>2. CASE x = <<"wallet", first>>
    <3>1. Level(x) = 4 + Rank[first]
      BY <1>3, <1>4, <2>2, Levels
    <3>2. b \in need[h] /\ b # first
      BY <1>6
    <3>3. Rank[first] \in Nat /\ Rank[b] \in Nat /\ Rank[first] # Rank[b]
          /\ Rank[first] <= Rank[b]
      BY <1>3, <1>4, <3>2
    <3> QED
      BY <3>1, <3>3
  <2> QED
    BY <1>5, <2>1, <2>2
<1> QED
  BY <1>6, <1>7 DEF Ascending, EarlyLabels, Level

LEMMA StepAscends ==
  ASSUME CommInv, LockOrderInv, NEW h \in Process, Step(h) \/ Rollback(h)
  PROVE  Ascending(h)' /\ LastLocks(h)'
<1>1. TxInv /\ TxTypeOK
  BY DEF CommInv, TxInv
<1>2. Turn(h)
  BY StepTurn
<1>3. need'[h] \subseteq Account
  BY <1>2 DEF Turn, TxTypeOK
<1>4. CASE Commit(h) \/ Replay(h) \/ Rollback(h)
  BY <1>1, <1>4, FinishAscends DEF Commit, Replay, Rollback
<1>5. CASE Claim(h)
  <2> DEFINE label == FirstStep(req[h])
  <2>1. label \in {"customer", "quote", "order", "balance", "payout"}
    BY DEF FirstStep
  <2>2. pc[h] = "claim" /\ Statement(h, label) /\ NextLock(h) = <<"key", KeyOf(req[h])>>
    BY <1>1, <1>5, LockIsResource DEF Claim, Statement, Goto, Read, TxTypeOK
  <2>3. need'[h] = {}
    BY <1>1, <1>5, <2>2, NotPosting DEF Claim
  <2> HIDE DEF label
  <2>4. Below(pc[h]) = 0 /\ Below(label) \in {1, 2, 4}
    BY <2>1, <2>2 DEF Below
  <2>5. Ascending(h)'
    <3>1. Level(NextLock(h)) = 0
      BY <2>2, Levels
    <3> QED
      BY <1>3, <2>1, <2>2, <2>3, <2>4, <3>1, StatementAscends DEF EarlyLabels, Labels
  <2> QED
    BY <2>1, <2>2, <2>5, StatementLast DEF Labels
<1>6. CASE LockCustomer(h)
  <2> DEFINE label == IF req[h].op = "bind" THEN "bind" ELSE "quote"
  <2>1. pc[h] = "customer" /\ Statement(h, label) /\ label \in {"bind", "quote"}
    BY <1>1, <1>6 DEF LockCustomer, Statement, Goto, TxTypeOK
  <2>2. Level(NextLock(h)) = 1 /\ need'[h] = {}
    BY <1>1, <1>6, <2>1, LockIsResource, Levels, NotPosting DEF LockCustomer
  <2> HIDE DEF label
  <2>3. Below(pc[h]) = 1 /\ Below("quote") = 2
    BY <2>1 DEF Below
  <2>4. Ascending(h)'
    BY <1>3, <2>1, <2>2, <2>3, StatementAscends DEF EarlyLabels, Labels
  <2> QED
    BY <2>1, <2>4, StatementLast DEF Labels
<1>7. CASE Quote(h)
  <2>1. pc[h] = "quote" /\ Statement(h, "capture")
    BY <1>1, <1>7 DEF Quote, Statement, Goto, Read, TxTypeOK
  <2>2. NextLock(h) = None /\ need'[h] = {}
    BY <1>1, <1>7, <2>1, LockIsResource, NotPosting DEF Quote
  <2>3. Below(pc[h]) = 2 /\ Below("capture") = 2
    BY <2>1 DEF Below
  <2>4. Ascending(h)'
    BY <1>3, <2>1, <2>2, <2>3, StatementAscends DEF EarlyLabels, Labels
  <2> QED
    BY <2>1, <2>4, StatementLast DEF Labels
<1>8. CASE ReserveOrder(h)
  <2>1. pc[h] = "capture" /\ Statement(h, pc'[h]) /\ pc'[h] \in {"commit", "wallets"}
    BY <1>1, <1>8 DEF ReserveOrder, LockWallets, Statement, Goto, TxTypeOK
  <2>2. Level(NextLock(h)) = 2 /\ Below(pc[h]) = 2
    BY <1>1, <2>1, LockIsResource, Levels DEF Below
  <2>3. Ascending(h)'
    BY <1>3, <2>1, <2>2, StatementAscends DEF EarlyLabels, Labels
  <2> QED
    BY <2>1, <2>3, StatementLast DEF Labels
<1>9. CASE LockOrder(h)
  <2>1. pc[h] = "order" /\ Statement(h, pc'[h]) /\ pc'[h] \in {"refund", "commit", "release"}
    BY <1>1, <1>9 DEF LockOrder, Statement, Goto, Read, TxTypeOK
  <2>2. Level(NextLock(h)) = 2 /\ need'[h] = {} /\ Below(pc[h]) = 2
        /\ Below("refund") = 3 /\ Below("release") = 3
    BY <1>1, <1>9, <2>1, LockIsResource, Levels, NotPosting DEF LockOrder, Below
  <2>3. Ascending(h)'
    BY <1>3, <2>1, <2>2, StatementAscends DEF EarlyLabels, Labels
  <2> QED
    BY <2>1, <2>3, StatementLast DEF Labels
<1>10. CASE ReserveRefund(h)
  <2>1. pc[h] = "refund" /\ Statement(h, pc'[h]) /\ pc'[h] \in {"commit", "wallets"}
    BY <1>1, <1>10 DEF ReserveRefund, LockWallets, Statement, Goto, Read, TxTypeOK
  <2>2. Level(NextLock(h)) = 3 /\ Below(pc[h]) = 3
    BY <1>1, <2>1, LockIsResource, Levels DEF Below
  <2>3. Ascending(h)'
    BY <1>3, <2>1, <2>2, StatementAscends DEF EarlyLabels, Labels
  <2> QED
    BY <2>1, <2>3, StatementLast DEF Labels
<1>11. CASE PlanRelease(h)
  <2>1. pc[h] = "release" /\ Statement(h, pc'[h]) /\ pc'[h] \in {"commit", "wallets"}
    BY <1>1, <1>11 DEF PlanRelease, LockWallets, Statement, Goto, Read, TxTypeOK
  <2>2. NextLock(h) = None /\ Below(pc[h]) = 3
    BY <1>1, <2>1, LockIsResource DEF Below
  <2>3. Ascending(h)'
    BY <1>3, <2>1, <2>2, StatementAscends DEF EarlyLabels, Labels
  <2> QED
    BY <2>1, <2>3, StatementLast DEF Labels
<1>12. CASE LockPayout(h)
  <2>1. /\ pc[h] = "payout" /\ Statement(h, pc'[h]) /\ payout[req[h].payout] # None
        /\ pc'[h] \in {"balance", "commit", "wallets", "reference"}
    BY <1>1, <1>12 DEF LockPayout, LockWallets, Statement, Goto, Read, TxTypeOK
  <2>2. Level(NextLock(h)) = 2 /\ Below(pc[h]) = 2 /\ Below("balance") = 4
    BY <1>1, <2>1, LockIsResource, Levels DEF Below
  <2>3. Ascending(h)'
    BY <1>3, <2>1, <2>2, StatementAscends DEF EarlyLabels, Labels
  <2> QED
    BY <2>1, <2>3, StatementLast DEF Labels
<1>13. CASE LockBalance(h) \/ ReservePayout(h) \/ TakeReference(h) \/ CheckFirstOrder(h)
  <2>1. /\ pc[h] \in {"balance", "reserve", "reference", "bind"} /\ Statement(h, pc'[h])
        /\ pc'[h] \in {"reserve", "commit"}
        /\ pc[h] \in {"reserve", "reference"} => pc'[h] = "commit"
    BY <1>1, <1>13 DEF LockBalance, ReservePayout, TakeReference, CheckFirstOrder, Statement,
       Goto, TxTypeOK
  <2>2. need'[h] = {}
    BY <1>1, <1>13, <2>1, NotPosting
    DEF LockBalance, ReservePayout, TakeReference, CheckFirstOrder
  <2>3. Ascending(h)'
    BY <2>1, <2>2 DEF Ascending
  <2> QED
    BY <2>1, <2>3, StatementLast DEF Labels
<1>14. CASE LockWallet(h)
  <2>1. /\ pc[h] = "wallets" /\ Statement(h, pc'[h])
        /\ pc'[h] \in {"commit", "wallets", "reference"}
    BY <1>1, <1>14 DEF LockWallet, Statement, Goto, TxTypeOK, AfterWallets
  <2> QED
    BY <1>14, <2>1, WalletAscends, StatementLast DEF Labels
<1> QED
  BY <1>4, <1>5, <1>6, <1>7, <1>8, <1>9, <1>10, <1>11, <1>12, <1>13, <1>14 DEF Step

LEMMA NextAscends ==
  ASSUME CommInv, LockOrderInv, [CommissionNext]_vars
  PROVE  LockOrderInv'
<1>1. TxTypeOK
  BY DEF CommInv, TxInv
<1>2. ASSUME NEW h \in Process, Turn(h), \A g \in Process \ {h} : Guarded(g),
             Ascending(h)' /\ LastLocks(h)'
      PROVE  LockOrderInv'
  BY <1>2, OthersAscend DEF Turn, LockOrderInv
<1>3. ASSUME NEW h \in Process, Step(h) \/ Rollback(h)
      PROVE  LockOrderInv'
  BY <1>2, <1>3, StepTurn, StepAscends
<1>4. ASSUME NEW h \in Handlers, NEW r \in Requests, Begin(h, r)
      PROVE  LockOrderInv'
  <2>1. h \in Process /\ held'[h] = {} /\ need'[h] = {} /\ UNCHANGED ledgerVars
    BY <1>4 DEF Begin, Process, CommInv, TxInv, Knows
  <2>2. Ascending(h)' /\ LastLocks(h)'
    BY <2>1 DEF Ascending, LastLocks, Holds
  <2> QED
    BY <1>2, <1>4, <2>1, <2>2, BeginTurn, UnchangedGuards
<1>5. ASSUME NEW h \in Workers, NEW o \in Orders, PickDue(h, o)
      PROVE  LockOrderInv'
  <2>1. h \in Process /\ held'[h] = {<<"order", o>>} /\ need'[h] = {} /\ UNCHANGED ledgerVars
        /\ pc'[h] = "release"
    BY <1>1, <1>5 DEF PickDue, Process, CommInv, TxInv, Knows, TxTypeOK, Goto
  <2>2. Level(<<"order", o>>) = 2 /\ Below("release") = 3
    BY Levels DEF Below
  <2>3. Ascending(h)'
    BY <2>1, <2>2 DEF Ascending, Level
  <2>4. LastLocks(h)'
    BY <2>1 DEF LastLocks, Holds
  <2> QED
    BY <1>2, <1>5, <2>1, <2>3, <2>4, PickTurn, UnchangedGuards
<1>6. CASE Time
  <2>1. \A g \in Process : Unmoved(g) /\ Guarded(g)
    <3>1. PICK o \in Orders : FreezeEnds(o)
      BY <1>6 DEF Time
    <3>2. UNCHANGED txVars
      BY <1>6 DEF Time
    <3> QED
      BY <3>1, <3>2 DEF FreezeEnds, Unmoved, Guarded, NoNewOrderOf, txVars, Answered
  <2> QED
    BY <2>1, OthersAscend DEF LockOrderInv
<1>7. CASE UNCHANGED vars
  <2>1. UNCHANGED ledgerVars /\ UNCHANGED txVars
    BY <1>7 DEF vars
  <2>2. \A g \in Process : Unmoved(g) /\ Guarded(g)
    BY <2>1, UnchangedGuards DEF Unmoved, txVars
  <2> QED
    BY <2>2, OthersAscend DEF LockOrderInv
<1> QED
  BY <1>3, <1>4, <1>5, <1>6, <1>7 DEF CommissionNext

\* Who has to wait for a payout's entry waits for a transaction that is about to
\* commit.
LEMMA LastWaits ==
  ASSUME CommInv, LockOrderInv, NEW h \in Process, NEW g \in Process, WaitsFor(h, g),
         Undecided(h), pc[g] # "commit"
  PROVE  pc[h] \notin {"idle", "reserve"}
<1>1. TxInv /\ NextLock(h) \in held[g] \cup Earlier(g) /\ NextLock(h) # None
  BY DEF CommInv, TxInv, WaitsFor
<1>2. pc[h] # "idle"
  BY <1>1 DEF NextLock, LockAt
<1>3. ASSUME pc[h] = "reserve"
      PROVE  FALSE
  <2>1. NextLock(h) = <<"payout", req[h].payout>> /\ req[h].payout \in Payouts
    BY <1>1, <1>2, <1>3, LockIsResource, OperationAt, RequestFields
  <2>2. payout[req[h].payout] = None
    BY <1>3 DEF Undecided
  <2>3. NextLock(h) \notin Earlier(g)
    BY <2>1 DEF Earlier
  <2> QED
    BY <1>1, <2>1, <2>2, <2>3 DEF LockOrderInv, LastLocks, Holds
<1> QED
  BY <1>2, <1>3

\* Who has to wait for a reference waits for a transaction that is about to
\* commit or that gives up the reference of an earlier outcome.
LEMMA ReferenceWaits ==
  ASSUME CommInv, LockOrderInv, NEW h \in Process, NEW g \in Process, WaitsFor(h, g),
         pc[h] = "reference", pc[g] # "commit"
  PROVE  pc[g] = "reference" /\ Earlier(g) # {}
<1>1. TxInv /\ NextLock(h) \in held[g] \cup Earlier(g) /\ NextLock(h) # None
  BY DEF CommInv, TxInv, WaitsFor
<1>2. req[h] \in Requests /\ req[h].op = "outcome"
  BY <1>1, OperationAt
<1>3. req[h].reference \in References \cup {None}
  BY <1>2, RequestAssumption DEF OrderRequests, PayoutRequests
<1>4. NextLock(h) = <<"reference", req[h].reference>> /\ req[h].reference \in References
  BY <1>1, <1>3, LockIsResource
<1>5. NextLock(h) \in Earlier(g)
  BY <1>1, <1>4 DEF LockOrderInv, LastLocks, Holds
<1> QED
  BY <1>5 DEF Earlier

\* Who waits for a transaction that waits itself waits for a lower lock.
LEMMA WaitingAscends ==
  ASSUME CommInv, LockOrderInv, NEW h \in Process, NEW g \in Process, WaitsFor(h, g),
         NextLock(g) # None, pc[g] \notin {"idle", "reserve", "reference"}
  PROVE  Level(NextLock(h)) < Level(NextLock(g))
<1> DEFINE x == NextLock(h)
           y == NextLock(g)
<1>1. TxInv /\ TxTypeOK /\ x \in held[g] /\ x # None /\ y # None
  <2>1. TxInv /\ TxTypeOK /\ x \in held[g] \cup Earlier(g) /\ x # None
    BY DEF CommInv, TxInv, WaitsFor
  <2>2. pc[g] # "commit"
    BY LockIsResource
  <2> QED
    BY <2>1, <2>2 DEF Earlier
<1>2. Ascending(g) /\ pc[g] \in Labels
  BY <1>1 DEF LockOrderInv, TxTypeOK
<1>3. pc[g] # "claim"
  BY <1>1, Running, OperationAt DEF Claimed, Past
<1>4. pc[g] \notin {"bind", "quote", "release", "commit"}
  BY <1>1, LockIsResource
<1>5. CASE pc[g] = "wallets"
  <2>1. need[g] # {} /\ need[g] \subseteq Account
    BY <1>1, <1>5, Running DEF WalletsLocked, Past, TxTypeOK
  <2>2. FirstWallet(g) \in need[g]
    BY <1>1, <2>1, LeastWallet
  <2>3. Level(y) = 4 + Rank[FirstWallet(g)]
    BY <1>5, <2>1, <2>2, LockIsResource, Levels
  <2> QED
    BY <1>1, <1>2, <2>2, <2>3 DEF Ascending
<1>6. CASE pc[g] \in {"customer", "capture", "order", "payout", "refund", "balance"}
  <2>1. Level(x) < Below(pc[g])
    BY <1>1, <1>2, <1>6 DEF Ascending
  <2>2. x \in Resource
    BY <1>1 DEF TxTypeOK
  <2>3. Level(x) \in Nat
    BY <2>2, Levels
  <2>4. CASE pc[g] = "balance"
    <3>1. y = <<"wallet", seen[g].account>> /\ seen[g].account \in Account
      BY <2>4, LockIsResource
    <3>2. Level(y) = 4 + Rank[seen[g].account] /\ Rank[seen[g].account] \in Nat
      BY <3>1, Levels, ProcessAssumption
    <3>3. Below(pc[g]) = 4
      BY <2>4 DEF Below
    <3> QED
      BY <2>1, <2>3, <3>2, <3>3
  <2>5. CASE pc[g] = "customer"
    BY <2>1, <2>5, LockIsResource, Levels DEF Below
  <2>6. CASE pc[g] \in {"order", "capture", "payout"}
    BY <2>1, <2>6, LockIsResource, Levels DEF Below
  <2>7. CASE pc[g] = "refund"
    BY <2>1, <2>7, LockIsResource, Levels DEF Below
  <2> QED
    BY <1>6, <2>4, <2>5, <2>6, <2>7
<1> QED
  BY <1>2, <1>3, <1>4, <1>5, <1>6 DEF Labels

\* A deadlock in which nobody waits for a reference does not exist: the one that
\* waits for the highest lock waits for nobody in it.
LEMMA OrderedLocks ==
  ASSUME CommInv, LockOrderInv, NEW H \in (SUBSET Process) \ {{}}, Deadlocked(H),
         \A h \in H : pc[h] # "reference"
  PROVE  FALSE
<1>1. \A h \in H : NextLock(h) # None /\ pc[h] \notin {"idle", "commit"}
  <2> SUFFICES ASSUME NEW h \in H
               PROVE  NextLock(h) # None /\ pc[h] \notin {"idle", "commit"}
    OBVIOUS
  <2>1. NextLock(h) # None
    BY DEF Deadlocked, WaitsFor
  <2> QED
    BY <2>1 DEF NextLock, LockAt
<1>2. \A h \in H : pc[h] \notin {"idle", "reserve", "reference"}
  BY <1>1, LastWaits DEF Deadlocked
<1>3. \A h \in H : Level(NextLock(h)) \in Nat
  BY <1>1, LockIsResource, Levels
<1> DEFINE f == [h \in H |-> Level(NextLock(h))]
<1>4. IsFiniteSet(H) /\ H # {} /\ f \in [H -> Nat]
  BY <1>3, ProcessAssumption, FS_Subset
<1>5. PICK h \in H : \A g \in H : f[g] <= f[h]
  <2> HIDE DEF f
  <2> QED
    BY <1>4, GreatestValue
<1>6. PICK g \in H : WaitsFor(h, g)
  BY DEF Deadlocked
<1>7. f[h] < f[g]
  BY <1>1, <1>2, <1>6, WaitingAscends
<1> QED
  BY <1>3, <1>5, <1>7

\* The outcomes of a deadlock that give up a reference wait for each other.
LEMMA ExchangesDeadlock ==
  ASSUME CommInv, LockOrderInv, NEW H \in (SUBSET Process) \ {{}}, Deadlocked(H)
  PROVE  \E G \in (SUBSET H) \ {{}} :
            Deadlocked(G) /\ \A h \in G : pc[h] = "reference" /\ Earlier(h) # {}
<1> DEFINE G == {h \in H : pc[h] = "reference" /\ Earlier(h) # {}}
<1>1. ASSUME NEW h \in H, pc[h] = "reference"
      PROVE  \E g \in G : WaitsFor(h, g) /\ Undecided(h)
  <2>1. PICK g \in H : WaitsFor(h, g) /\ Undecided(h)
    BY DEF Deadlocked
  <2>2. NextLock(g) # None
    BY DEF Deadlocked, WaitsFor
  <2>3. pc[g] # "commit"
    BY <2>2 DEF NextLock, LockAt
  <2>4. g \in G
    BY <1>1, <2>1, <2>3, ReferenceWaits
  <2> QED
    BY <2>1, <2>4
<1>2. Deadlocked(G)
  BY <1>1 DEF Deadlocked
<1>3. G # {}
  BY <1>1, OrderedLocks
<1> QED
  BY <1>2, <1>3

(***************************************************************************)
(* However many money transactions there are, only outcomes that exchange  *)
(* the references of their payouts can deadlock: all take their other locks*)
(* in one order, the entry of a new payout is only ever taken last, and    *)
(* who has a new reference commits next.  Who gives up an earlier one may  *)
(* still have to wait for another such outcome, and for nothing else.      *)
(***************************************************************************)
THEOREM NoOtherDeadlock == CommissionSpec => []OnlyExchangesDeadlock
<1>1. CommissionInit => LockOrderInv
  BY DEF CommissionInit, LockOrderInv, Ascending, LastLocks, Holds
<1>2. CommInv /\ LockOrderInv /\ [CommissionNext]_vars => LockOrderInv'
  BY NextAscends
<1>3. CommInv /\ LockOrderInv => OnlyExchangesDeadlock
  BY ExchangesDeadlock DEF OnlyExchangesDeadlock
<1> QED
  BY <1>1, <1>2, <1>3, CommInvariant, PTL DEF CommissionSpec
=============================================================================
