----------------------------- MODULE Commission -----------------------------
(***************************************************************************)
(* The money service as it runs: HTTP handlers and the release worker, each*)
(* in its own PostgreSQL transaction (READ COMMITTED), taking the row,     *)
(* unique-index and advisory locks in the order of the source.  A read     *)
(* sees committed rows; a write takes effect at COMMIT; every lock is held *)
(* until COMMIT or ROLLBACK.  Clients send any request any number of times *)
(* and several times at once, which covers their retries and duplicates.   *)
(*                                                                         *)
(* A failed check, a lock or statement timeout, a deadlock victim, a lost  *)
(* connection and a crash of the server all end the same way: the          *)
(* transaction is rolled back with its idempotency row.  So a step whose   *)
(* check fails is just not enabled, and Rollback always is.                *)
(***************************************************************************)
EXTENDS Ledger

CONSTANTS
    Handlers,   \* request handlers that may run at once, each on a connection of
                \* the pool
    Workers,    \* processes that run release_one_due
    Rank        \* [Account -> Nat]: the order of account ids

Process == Handlers \cup Workers

\* A worker's transaction is no request: it has no idempotency row.
WorkerJobs == [op : {"worker"}, order : Orders]
Jobs == Requests \cup WorkerJobs

\* What a transaction can lock, one kind per table or advisory lock class.
Resource ==
    {<<"key", KeyOf(r)>> : r \in Requests}
    \cup ({"customer"} \X Customers) \cup ({"order"} \X Orders)
    \cup ({"refund"} \X Refunds) \cup ({"payout"} \X Payouts)
    \cup ({"wallet"} \X Account) \cup ({"reference"} \X References)

ASSUME ProcessAssumption ==
    /\ IsFiniteSet(Process)
    /\ Handlers \cap Workers = {}
    /\ None \notin Process \cup Resource
    /\ Rank \in [Account -> Nat]
    /\ \A a, b \in Account : Rank[a] = Rank[b] => a = b

VARIABLES
    pc,      \* where each transaction is
    req,     \* the request or job it serves
    now,     \* its now(): the target order, if that was due when it began
    seen,    \* the row it has read
    need,    \* the wallets post has still to lock
    held,    \* the locks it holds
    outbox   \* events written by record_event, per request or job

txVars == <<pc, req, now, seen, need, held>>
vars == <<ledgerVars, txVars, outbox>>

-----------------------------------------------------------------------------
\* Mutant of FirstWallet: a refund locks the wallets in the order of its lines,
\* the clearing account's first.
LineOrderWallet(h) ==
    IF req[h].op = "refund" /\ Clearing \in need[h] THEN Clearing
    ELSE CHOOSE a \in need[h] : \A b \in need[h] : Rank[a] <= Rank[b]

\* The first wallet post locks: SELECT ... ORDER BY account_id FOR UPDATE.
FirstWallet(h) == CHOOSE a \in need[h] : \A b \in need[h] : Rank[a] <= Rank[b]

\* The row or index entry that h has to lock at a label, None if it needs none.
LockAt(h, label) ==
    LET r == req[h]
    IN  CASE label = "claim"     -> <<"key", KeyOf(r)>>
          [] label = "customer"  -> <<"customer", r.customer>>
          [] label \in {"order", "capture"}  -> <<"order", r.order>>
          [] label = "refund"    -> <<"refund", r.refund>>
          [] label \in {"payout", "reserve"} -> <<"payout", r.payout>>
          [] label = "balance"   -> <<"wallet", seen[h].account>>
          [] label = "wallets"   -> <<"wallet", FirstWallet(h)>>
          [] label = "reference" -> IF r.reference \in {None, seen[h].reference} THEN None
                                    ELSE <<"reference", r.reference>>
          [] OTHER -> None

\* Mutants of NextLock: a statement that reads without locking.
NoKeyLock(h)      == IF pc[h] = "claim"    THEN None ELSE LockAt(h, pc[h])
NoOrderLock(h)    == IF pc[h] = "order"    THEN None ELSE LockAt(h, pc[h])
NoBalanceLock(h)  == IF pc[h] = "balance"  THEN None ELSE LockAt(h, pc[h])

NextLock(h) == LockAt(h, pc[h])

Free(h, x) == \A g \in Process \ {h} : x \notin held[g]

\* Locks what the step needs; the step waits while another transaction has it.
Acquire(h) ==
    IF NextLock(h) = None THEN UNCHANGED held
    ELSE /\ Free(h, NextLock(h))
         /\ held' = [held EXCEPT ![h] = @ \cup {NextLock(h)}]

Goto(h, label) == pc' = [pc EXCEPT ![h] = label]
Read(h, row)   == seen' = [seen EXCEPT ![h] = row]

\* Ends the transaction: its locks are gone and h can take another job.
Finish(h) ==
    /\ pc'   = [pc EXCEPT ![h] = "idle"]
    /\ req'  = [req EXCEPT ![h] = None]
    /\ now'  = [now EXCEPT ![h] = {}]
    /\ seen' = [seen EXCEPT ![h] = None]
    /\ need' = [need EXCEPT ![h] = {}]
    /\ held' = [held EXCEPT ![h] = {}]

\* post locks the wallets of the posting, if it has any line.
LockWallets(h, p, after) ==
    /\ need' = [need EXCEPT ![h] = Touched(p)]
    /\ Goto(h, IF Touched(p) = {} THEN after ELSE "wallets")

AfterWallets(r) == IF r.op = "outcome" THEN "reference" ELSE "commit"

-----------------------------------------------------------------------------
CommissionInit ==
    /\ LedgerInit
    /\ pc   = [h \in Process |-> "idle"]
    /\ req  = [h \in Process |-> None]
    /\ now  = [h \in Process |-> {}]
    /\ seen = [h \in Process |-> None]
    /\ need = [h \in Process |-> {}]
    /\ held = [h \in Process |-> {}]
    /\ outbox = [j \in Jobs |-> 0]

\* Work::begin opens the transaction, which fixes its now().
Begin(h, r) ==
    /\ pc[h] = "idle"
    /\ Goto(h, "claim")
    /\ req' = [req EXCEPT ![h] = r]
    /\ now' = [now EXCEPT ![h] = IF r.op = "release" THEN due \cap {r.order} ELSE {}]
    /\ UNCHANGED <<ledgerVars, seen, need, held, outbox>>

FirstStep(r) ==
    CASE r.op = "capture" -> IF r.customer = None THEN "quote" ELSE "customer"
      [] r.op = "bind"    -> "customer"
      [] r.op \in {"refund", "release"} -> "order"
      [] r.op = "request" -> "balance"
      [] OTHER            -> "payout"

\* Inserts the idempotency row; the insert of a second transaction with the
\* same key waits for the first one's end.
Claim(h) ==
    /\ pc[h] = "claim"
    /\ Acquire(h)
    /\ ~ Answered(req[h])
    /\ Goto(h, FirstStep(req[h]))
    /\ Read(h, IF req[h].op = "request" THEN [account |-> req[h].account] ELSE None)
    /\ UNCHANGED <<ledgerVars, req, now, need, outbox>>

\* The key has an answer: it is replayed, or refused to another body.
Replay(h) ==
    /\ pc[h] = "claim"
    /\ Free(h, NextLock(h))
    /\ Answered(req[h])
    /\ Finish(h)
    /\ UNCHANGED <<ledgerVars, outbox>>

\* The advisory lock that orders bind_referral and capture of one customer.
LockCustomer(h) ==
    /\ pc[h] = "customer"
    /\ Acquire(h)
    /\ Goto(h, IF req[h].op = "bind" THEN "bind" ELSE "quote")
    /\ UNCHANGED <<ledgerVars, req, now, seen, need, outbox>>

\* bind_referral looks for an order of the customer in a statement of its own.
CheckFirstOrder(h) ==
    /\ pc[h] = "bind"
    /\ Bindable(req[h])
    /\ Goto(h, "commit")
    /\ UNCHANGED <<ledgerVars, req, now, seen, need, held, outbox>>

\* quote_in reads the binding and splits the order.
Quote(h) ==
    /\ pc[h] = "quote"
    /\ Quotable(req[h])
    /\ Read(h, NewOrder(req[h], Referrer(req[h].customer)))
    /\ Goto(h, "capture")
    /\ UNCHANGED <<ledgerVars, req, now, need, held, outbox>>

\* INSERT INTO orders and allocations: the external id is UNIQUE.
ReserveOrder(h) ==
    /\ pc[h] = "capture"
    /\ order[req[h].order] = None
    /\ Acquire(h)
    /\ LockWallets(h, CapturePosting(seen[h]), "commit")
    /\ UNCHANGED <<ledgerVars, req, now, seen, outbox>>

\* lock_order, then the checks on the order's own columns.
LockOrder(h) ==
    /\ pc[h] = "order"
    /\ order[req[h].order] # None
    /\ Acquire(h)
    /\ Read(h, order[req[h].order])
    /\ LET row == order[req[h].order]
       IN  \/ req[h].op = "refund" /\ Refundable(req[h], row) /\ Goto(h, "refund")
           \/ req[h].op = "release" /\ row.released /\ Goto(h, "commit")
           \/ /\ req[h].op = "release" /\ ~ row.released
              /\ req[h].order \in now[h]
              /\ Goto(h, "release")
    /\ UNCHANGED <<ledgerVars, req, now, need, outbox>>

\* The allocations are read by a statement of their own.
WithAllocations(h) == [seen[h] EXCEPT !.returned = order[req[h].order].returned]

\* INSERT INTO refunds: the external id is UNIQUE.
ReserveRefund(h) ==
    /\ pc[h] = "refund"
    /\ req[h].refund \notin refunds
    /\ Acquire(h)
    /\ Read(h, WithAllocations(h))
    /\ LET row == WithAllocations(h)
       IN  /\ Reversible(req[h], row)
           /\ LockWallets(h, RefundPosting(row, Deltas(req[h], row), req[h].amount),
                          "commit")
    /\ UNCHANGED <<ledgerVars, req, now, outbox>>

\* release_locked: the posting from the net shares.
PlanRelease(h) ==
    /\ pc[h] = "release"
    /\ Read(h, WithAllocations(h))
    /\ LockWallets(h, ReleasePosting(WithAllocations(h)), "commit")
    /\ UNCHANGED <<ledgerVars, req, now, held, outbox>>

\* release_one_due: FOR UPDATE SKIP LOCKED on one due order.
PickDue(h, o) ==
    /\ pc[h] = "idle"
    /\ order[o] # None
    /\ ~ order[o].released
    /\ o \in due
    /\ Free(h, <<"order", o>>)
    /\ held' = [held EXCEPT ![h] = {<<"order", o>>}]
    /\ req' = [req EXCEPT ![h] = [op |-> "worker", order |-> o]]
    /\ Read(h, order[o])
    /\ Goto(h, "release")
    /\ UNCHANGED <<ledgerVars, now, need, outbox>>

\* lock_payout, then the checks on the payout's own columns.
LockPayout(h) ==
    /\ pc[h] = "payout"
    /\ payout[req[h].payout] # None
    /\ Acquire(h)
    /\ Read(h, payout[req[h].payout])
    /\ LET r == req[h]
           row == payout[r.payout]
           back(to) == ReservePosting(row.account, to, - row.amount)
       IN  \/ /\ r.op = "approve" /\ Approvable(r, row)
              /\ Goto(h, "balance") /\ UNCHANGED need
           \/ /\ r.op = "processing" /\ Processable(r, row)
              /\ Goto(h, "balance") /\ UNCHANGED need
           \/ /\ r.op = "reject" /\ Rejectable(row)
              /\ LockWallets(h, back(row.account), "commit")
           \/ /\ r.op = "outcome" /\ Confirmable(r, row)
              /\ \/ /\ r.status = "unknown"
                    /\ Goto(h, "reference") /\ UNCHANGED need
                 \/ /\ r.status = "succeeded"
                    /\ LockWallets(h, back(Clearing), "reference")
                 \/ /\ r.status = "failed"
                    /\ LockWallets(h, back(row.account), "reference")
    /\ UNCHANGED <<ledgerVars, req, now, outbox>>

\* lock_wallet, then the check of the balance it returns.
LockBalance(h) ==
    /\ pc[h] = "balance"
    /\ Acquire(h)
    /\ \/ req[h].op = "request" /\ Funded(req[h]) /\ Goto(h, "reserve")
       \/ req[h].op # "request" /\ NotInDebt(seen[h].account) /\ Goto(h, "commit")
    /\ UNCHANGED <<ledgerVars, req, now, seen, need, outbox>>

\* INSERT INTO payouts: the external id is UNIQUE.  post locks no other wallet.
ReservePayout(h) ==
    /\ pc[h] = "reserve"
    /\ payout[req[h].payout] = None
    /\ Acquire(h)
    /\ Goto(h, "commit")
    /\ UNCHANGED <<ledgerVars, req, now, seen, need, outbox>>

\* post locks the wallets of a posting one after the other, by account id.
LockWallet(h) ==
    /\ pc[h] = "wallets"
    /\ Acquire(h)
    /\ need' = [need EXCEPT ![h] = @ \ {NextLock(h)[2]}]
    /\ Goto(h, IF need'[h] = {} THEN AfterWallets(req[h]) ELSE "wallets")
    /\ UNCHANGED <<ledgerVars, req, now, seen, outbox>>

\* UPDATE payouts SET ... provider_reference = COALESCE($3, ...), which is UNIQUE.
\* A new value waits for whoever has it in an uncommitted row, or had it in a row
\* that its own update changes (Earlier): until that one ends the committed row
\* still has it, and ReferenceFree is false.
TakeReference(h) ==
    /\ pc[h] = "reference"
    /\ ReferenceFree(req[h])
    /\ Acquire(h)
    /\ Goto(h, "commit")
    /\ UNCHANGED <<ledgerVars, req, now, seen, need, outbox>>

-----------------------------------------------------------------------------
\* The writes of each operation, computed from the rows it has read.
Writes(h) ==
    LET r == req[h]
        row == seen[h]
    IN  \/ /\ r.op = "capture" /\ InsertOrder(r, row)
           /\ UNCHANGED <<refunds, payout, binding>>
        \/ /\ r.op = "refund" /\ InsertRefund(r, row)
           /\ UNCHANGED <<payout, binding>>
        \/ /\ r.op \in {"release", "worker"} /\ ~ row.released
           /\ ReleaseRow(r.order, row)
           /\ UNCHANGED <<refunds, payout, binding>>
        \/ /\ r.op = "release" /\ row.released
           /\ UNCHANGED <<wallet, order, refunds, payout, binding>>
        \/ /\ r.op = "bind"
           /\ binding' = [binding EXCEPT ![r.customer] = r.promoter]
           /\ UNCHANGED <<wallet, order, refunds, payout>>
        \/ /\ r.op = "request" /\ InsertPayout(r)
           /\ UNCHANGED <<order, refunds, binding>>
        \/ /\ r.op = "approve" /\ SetApproved(r)
           /\ UNCHANGED <<wallet, order, refunds, binding>>
        \/ /\ r.op = "processing" /\ SetProcessing(r)
           /\ UNCHANGED <<wallet, order, refunds, binding>>
        \/ /\ r.op = "reject" /\ SetRejected(r, row)
           /\ UNCHANGED <<order, refunds, binding>>
        \/ /\ r.op = "outcome" /\ SetOutcome(r, row)
           /\ UNCHANGED <<order, refunds, binding>>

\* Work::complete (for the worker: record_event and commit).
Commit(h) ==
    /\ pc[h] = "commit"
    /\ Writes(h)
    /\ IF req[h] \in Requests THEN Record(req[h]) ELSE UNCHANGED applied
    /\ outbox' = [outbox EXCEPT ![req[h]] = @ + 1]
    /\ Finish(h)
    /\ UNCHANGED due

Rollback(h) ==
    /\ pc[h] # "idle"
    /\ Finish(h)
    /\ UNCHANGED <<ledgerVars, outbox>>

Time ==
    /\ \E o \in Orders : o \notin due /\ FreezeEnds(o)
    /\ UNCHANGED <<txVars, outbox>>

Step(h) ==
    \/ Claim(h) \/ Replay(h) \/ LockCustomer(h) \/ CheckFirstOrder(h)
    \/ Quote(h) \/ ReserveOrder(h)
    \/ LockOrder(h) \/ ReserveRefund(h) \/ PlanRelease(h) \/ LockPayout(h)
    \/ LockBalance(h) \/ ReservePayout(h) \/ LockWallet(h) \/ TakeReference(h)
    \/ Commit(h)

CommissionNext ==
    \/ \E h \in Handlers, r \in Requests : Begin(h, r)
    \/ \E w \in Workers, o \in Orders : PickDue(w, o)
    \/ \E h \in Process : Step(h) \/ Rollback(h)
    \/ Time

CommissionSpec == CommissionInit /\ [][CommissionNext]_vars

(***************************************************************************)
(* A handler's transaction ends: lock_timeout and statement_timeout bound  *)
(* each of its statements.  The worker ticks every five seconds, so it     *)
(* meets a moment in which a due order is unlocked; which one it then      *)
(* takes is not assumed.  PostgreSQL queues the waiters of a row lock.     *)
(* And from some time on no timeout or crash aborts the worker; where one  *)
(* of its checks fails it stays, for it would only try the same again.     *)
(***************************************************************************)
Fairness ==
    /\ \A h \in Handlers : WF_vars(Step(h) \/ Rollback(h))
    /\ \A h \in Workers :
          /\ SF_vars(\E o \in Orders : PickDue(h, o))
          /\ SF_vars(LockWallet(h))
          /\ WF_vars(Step(h))
          /\ <>[][~ Rollback(h)]_vars

FairCommission == CommissionSpec /\ Fairness

-----------------------------------------------------------------------------
\* Labels and shapes of the transaction state.
Labels == {"idle", "claim", "customer", "bind", "quote", "capture", "order", "refund",
           "release", "payout", "balance", "reserve", "wallets", "reference",
           "commit"}

CommissionTypeOK ==
    /\ LedgerTypeOK
    /\ pc \in [Process -> Labels]
    /\ req \in [Process -> Jobs \cup {None}]
    /\ now \in [Process -> SUBSET Orders]
    /\ need \in [Process -> SUBSET Account]
    /\ held \in [Process -> SUBSET Resource]
    /\ outbox \in [Jobs -> Nat]

(***************************************************************************)
(* Exactly once: however often a request is sent and wherever handlers     *)
(* stop, its event is written at most once, it is written if and only if   *)
(* the key has a stored answer, and an order is released by one of the     *)
(* worker and the operator.                                                *)
(***************************************************************************)
ExactlyOnce ==
    /\ \A r \in Requests : outbox[r] = IF r \in applied THEN 1 ELSE 0
    /\ \A q, r \in applied : KeyOf(q) = KeyOf(r) => q = r
    /\ \A o \in Orders :
          outbox[[op |-> "worker", order |-> o]]
             <= IF order[o] # None /\ order[o].released THEN 1 ELSE 0

(***************************************************************************)
(* The row a transaction goes on to write from is still the committed one: *)
(* nobody has changed it since it was read under its lock.                 *)
(***************************************************************************)
SeenIsCurrent ==
    \A h \in Process :
        /\ pc[h] \in {"refund", "release", "wallets", "commit"}
           /\ req[h].op \in {"refund", "release", "worker"}
              => seen[h] = order[req[h].order]
        /\ pc[h] \in {"balance", "wallets", "reference", "commit"}
           /\ req[h].op \in {"approve", "processing", "reject", "outcome"}
              => seen[h] = payout[req[h].payout]

(***************************************************************************)
(* The frozen shares of an order reach the available balance: once its     *)
(* freeze has ended the worker releases it, whatever the handlers lock and *)
(* however much of it was refunded (all of it, too, when post has nothing  *)
(* to post).  A due order that can never be committed would also block the *)
(* orders behind it.                                                       *)
(***************************************************************************)
DueIsReleased ==
    \A o \in Orders : (o \in due) ~> (order[o] # None /\ order[o].released)

\* The reference an earlier outcome recorded stays in the row version that the
\* update of a payout leaves behind, and that is dead or alive only at its end.
Earlier(g) ==
    IF pc[g] \in {"reference", "commit"} /\ req[g].op = "outcome"
       /\ seen[g].reference # None
    THEN {<<"reference", seen[g].reference>>}
    ELSE {}

\* h waits for g.
WaitsFor(h, g) ==
    h # g /\ NextLock(h) # None /\ NextLock(h) \in held[g] \cup Earlier(g)

\* A unique-index insert waits only while no committed row decides it.
Undecided(h) ==
    /\ pc[h] = "capture" => order[req[h].order] = None
    /\ pc[h] = "refund"  => req[h].refund \notin refunds
    /\ pc[h] = "reserve" => payout[req[h].payout] = None

Deadlocked(H) == \A h \in H : \E g \in H : WaitsFor(h, g) /\ Undecided(h)

(***************************************************************************)
(* The order of the locks (key, customer, order or payout row, wallets by  *)
(* id, reference) leaves one deadlock among the money transactions: only   *)
(* outcomes that exchange the provider references of their payouts can     *)
(* wait for each other in a circle, and every other deadlock contains one  *)
(* of those.  PostgreSQL aborts one of them; it is answered with 503.      *)
(***************************************************************************)
OnlyExchangesDeadlock ==
    \A H \in (SUBSET Process) \ {{}} :
        Deadlocked(H) =>
            \E G \in (SUBSET H) \ {{}} :
                Deadlocked(G) /\ \A h \in G : pc[h] = "reference" /\ Earlier(h) # {}

(***************************************************************************)
(* The transactions implement Ledger, in which each request is one step:   *)
(* whatever they interleave, the committed rows change as if the requests  *)
(* had been served one after the other.  (The stutter is named because TLC *)
(* tries it first, and most steps change no committed row.)                *)
(***************************************************************************)
KeepsLedger == LedgerInit /\ [][UNCHANGED ledgerVars \/ LedgerNext]_ledgerVars
=============================================================================
