-------------------------------- MODULE Rules --------------------------------
(***************************************************************************)
(* Accounts and commission rules (service/catalog.rs), and which rule a    *)
(* capture gets while operators publish and disable rules.                 *)
(*                                                                         *)
(* A rule takes its version from a sequence when it is inserted, and is    *)
(* seen by others when its transaction commits; a version that is rolled   *)
(* back is lost.  A capture goes by the time its transaction began, its    *)
(* now(), but reads the rules as they are committed when quote_in runs,    *)
(* after it has waited for its locks.  effective_from defaults to the      *)
(* clock of the host that serves the operator, not to PostgreSQL's.        *)
(***************************************************************************)
EXTENDS Apportion, Accounts

CONSTANTS
    Offers,         \* rules an operator may publish: merchant (None for all),
                    \* priority, min, max, from and until (or None)
    Purchases,      \* orders that may be captured: merchant and base
    Fast, Slow,     \* how far the clock of a host may be off
    MaxVersions, MaxTime

\* A row of rules, and what a capture knows.
RuleRow == [version : Nat, from : Int, state : {"inserted", "active", "disabled"}]
CaptureRow ==
    [step : {"begun", "quoted", "captured"}, at : Nat, rule : Offers \cup {None},
     before : SUBSET Offers, gone : SUBSET Offers]

ASSUME RulesAssumption ==
    /\ None \notin Merchants \cup Promoters \cup Offers \cup RuleRow \cup CaptureRow
    /\ Parent \in [Promoters -> Promoters \cup {None}]
    /\ Offers \subseteq [merchant : Merchants \cup {None}, priority : Int, min : Nat,
                         max : Nat \cup {None}, from : Int \cup {None},
                         until : Int \cup {None}]
    /\ Purchases \subseteq [order : Nat, merchant : Merchants, base : Nat]
    /\ {Fast, Slow, MaxVersions, MaxTime} \subseteq Nat

VARIABLES
    time,      \* PostgreSQL's clock
    accounts,  \* committed rows
    sequence,  \* the last version handed out
    rules,     \* offer -> its row, or None
    capture    \* purchase -> its transaction or its order, or None

rulesVars == <<time, accounts, sequence, rules, capture>>

RulesInit ==
    /\ time = 0 /\ sequence = 0
    /\ accounts = {}
    /\ rules = [o \in Offers |-> None]
    /\ capture = [p \in Purchases |-> None]

TimePasses ==
    /\ time < MaxTime
    /\ time' = time + 1
    /\ UNCHANGED <<accounts, sequence, rules, capture>>

\* create_account: a promoter's parent is a promoter that exists.
CreateAccount(a) ==
    /\ a \notin accounts
    /\ a \in Promoters => Parent[a] \in accounts \cup {None}
    /\ accounts' = accounts \cup {a}
    /\ UNCHANGED <<time, sequence, rules, capture>>

-----------------------------------------------------------------------------
(* Publishing and disabling.                                               *)

Row(version, from, state) == [version |-> version, from |-> from, state |-> state]

\* create_rule up to its commit.
InsertRule(o) ==
    /\ rules[o] = None /\ sequence < MaxVersions
    /\ o.merchant \in accounts \cup {None}
    /\ sequence' = sequence + 1
    /\ \E from \in (IF o.from = None THEN time - Slow .. time + Fast ELSE {o.from}) :
          /\ o.until # None => from < o.until
          /\ rules' = [rules EXCEPT ![o] = Row(sequence', from, "inserted")]
    /\ UNCHANGED <<time, accounts, capture>>

Inserted(o) == rules[o] # None /\ rules[o].state = "inserted"

CommitRule(o) ==
    /\ Inserted(o)
    /\ rules' = [rules EXCEPT ![o].state = "active"]
    /\ UNCHANGED <<time, accounts, sequence, capture>>

RollbackRule(o) ==
    /\ Inserted(o)
    /\ rules' = [rules EXCEPT ![o] = None]
    /\ UNCHANGED <<time, accounts, sequence, capture>>

Active(o) == rules[o] # None /\ rules[o].state = "active"

\* disable_rule, at its commit; nothing enables a rule again.
DisableRule(o) ==
    /\ Active(o)
    /\ rules' = [rules EXCEPT ![o].state = "disabled"]
    /\ UNCHANGED <<time, accounts, sequence, capture>>

-----------------------------------------------------------------------------
(* quote_in, within a capture.                                             *)

\* Mutant: the window is compared with the time of the statement.
InForceByNow(o, at) ==
    rules[o].from <= time /\ (o.until # None => time < o.until)

\* The window [effective_from, effective_until) and now().
InForce(o, at) == rules[o].from <= at /\ (o.until # None => at < o.until)

Covers(o, p) ==
    /\ o.merchant \in {p.merchant, None}
    /\ o.min <= p.base /\ (o.max # None => p.base < o.max)

\* ORDER BY (merchant_id IS NOT NULL) DESC, priority DESC, version DESC.
Scoped(o) == o.merchant # None

Beats(o, x) ==
    \/ Scoped(o) /\ ~Scoped(x)
    \/ /\ Scoped(o) = Scoped(x)
       /\ \/ o.priority > x.priority
          \/ o.priority = x.priority /\ rules[o].version > rules[x].version

Matching(p, at) == {o \in Offers : Active(o) /\ Covers(o, p) /\ InForce(o, at)}

\* What a capture knows when it begins; before and gone are history.
Begin(p) ==
    /\ capture[p] = None
    /\ capture' = [capture EXCEPT ![p] =
         [step |-> "begun", at |-> time, rule |-> None,
          before |-> {o \in Offers : Active(o)},
          gone |-> {o \in Offers : rules[o] # None /\ rules[o].state = "disabled"}]]
    /\ UNCHANGED <<time, accounts, sequence, rules>>

Reached(p, step) == capture[p] # None /\ capture[p].step = step

\* One rule is chosen; without an account or a rule the capture fails.
Quote(p) ==
    /\ Reached(p, "begun")
    /\ p.merchant \in accounts
    /\ \E o \in Matching(p, capture[p].at) :
          /\ \A x \in Matching(p, capture[p].at) \ {o} : Beats(o, x)
          /\ capture' = [capture EXCEPT ![p].rule = o, ![p].step = "quoted"]
    /\ UNCHANGED <<time, accounts, sequence, rules>>

CommitOrder(p) ==
    /\ Reached(p, "quoted")
    /\ capture' = [capture EXCEPT ![p].step = "captured"]
    /\ UNCHANGED <<time, accounts, sequence, rules>>

\* Any error, time limit or crash; the client may try again.
AbortOrder(p) ==
    /\ Reached(p, "begun") \/ Reached(p, "quoted")
    /\ capture' = [capture EXCEPT ![p] = None]
    /\ UNCHANGED <<time, accounts, sequence, rules>>

RulesNext ==
    \/ TimePasses
    \/ \E a \in Merchants \cup Promoters : CreateAccount(a)
    \/ \E o \in Offers :
          InsertRule(o) \/ CommitRule(o) \/ RollbackRule(o) \/ DisableRule(o)
    \/ \E p \in Purchases : Begin(p) \/ Quote(p) \/ CommitOrder(p) \/ AbortOrder(p)

RulesSpec == RulesInit /\ [][RulesNext]_rulesVars

-----------------------------------------------------------------------------
\* "启用且生效、商家专属优先、priority 大者优先、version 大者优先", for captures that run while
\* rules come and go: the rule of an order was in force at captured_at, it had
\* not been disabled when the capture began (it may have been since), and no
\* rule beats it that was published before the capture began and is enabled to
\* this day (docs/ARCHITECTURE.md 34, catalog.rs 171-181, orders.rs 21-47).
RuleOfItsTime ==
    \A p \in Purchases : Reached(p, "captured") =>
        LET order == capture[p]
            Window(o) == rules[o].from .. (IF o.until = None THEN order.at ELSE o.until - 1)
        IN  /\ order.at \in Window(order.rule)
            /\ order.rule \notin order.gone
            /\ \A o \in order.before :
                  Active(o) /\ Covers(o, p) /\ order.at \in Window(o) => ~Beats(o, order.rule)
=============================================================================
