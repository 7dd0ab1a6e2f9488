----------------------------- MODULE OrderProofs -----------------------------
(***************************************************************************)
(* What one order is captured under, and what its refunds take back: the   *)
(* rule of a capture while rules come and go, for any offers, clocks and   *)
(* number of captures; and the rows of an order under the loop of          *)
(* cumulative_refund, for any amounts and any history of refunds.          *)
(***************************************************************************)
EXTENDS Reversal, Rules, ApportionProofs, SequenceTheorems

-----------------------------------------------------------------------------
(* The rule of a capture.                                                  *)

\* A row that other transactions have seen.
Published(o) == rules[o] # None /\ rules[o].state # "inserted"
Disabled(o)  == rules[o] # None /\ rules[o].state = "disabled"

RulesTyped ==
    /\ time \in Nat /\ sequence \in Nat
    /\ rules \in [Offers -> RuleRow \cup {None}]
    /\ capture \in [Purchases -> CaptureRow \cup {None}]

\* The choice of quote_in, as it looks at any later time.
Chosen(p) ==
    /\ capture[p].rule \in Offers
    /\ Published(capture[p].rule)
    /\ InForce(capture[p].rule, capture[p].at)
    /\ capture[p].rule \notin capture[p].gone
    /\ \A o \in capture[p].before :
          Active(o) /\ Covers(o, p) /\ InForce(o, capture[p].at)
             => ~ Beats(o, capture[p].rule)

CaptureOK(p) ==
    capture[p] # None =>
        /\ \A o \in capture[p].before : Published(o)
        /\ \A o \in capture[p].gone : Disabled(o)
        /\ capture[p].step # "begun" => Chosen(p)

RulesInv == RulesTyped /\ \A p \in Purchases : CaptureOK(p)

\* What was published stays, with its version and its window, and what was
\* disabled is never enabled again.
RulesKept ==
    \A o \in Offers :
        /\ Published(o) => /\ Published(o)'
                           /\ rules'[o].version = rules[o].version
                           /\ rules'[o].from = rules[o].from
                           /\ Active(o)' => Active(o)
        /\ Disabled(o) => Disabled(o)'

LEMMA OfferTypes ==
  ASSUME NEW o \in Offers
  PROVE  /\ o.priority \in Int
         /\ o.from \in Int \cup {None}
         /\ o.until \in Int \cup {None}
BY RulesAssumption

LEMMA RuleRowTypes ==
  ASSUME RulesTyped, NEW o \in Offers, rules[o] # None
  PROVE  /\ rules[o] \in RuleRow
         /\ rules[o].version \in Nat
         /\ rules[o].from \in Int
         /\ rules[o].state \in {"inserted", "active", "disabled"}
BY DEF RulesTyped, RuleRow

LEMMA CaptureTypes ==
  ASSUME RulesTyped, NEW p \in Purchases, capture[p] # None
  PROVE  /\ capture[p] \in CaptureRow
         /\ capture[p].step \in {"begun", "quoted", "captured"}
         /\ capture[p].at \in Nat
         /\ capture[p].rule \in Offers \cup {None}
         /\ capture[p].before \subseteq Offers
         /\ capture[p].gone \subseteq Offers
BY DEF RulesTyped, CaptureRow

LEMMA NoneIsNoOffer ==
  /\ None \notin Offers
  /\ None \notin RuleRow
  /\ None \notin CaptureRow
BY RulesAssumption

\* A rule that beats another is not beaten by it.
LEMMA BeatsOneWay ==
  ASSUME RulesTyped, NEW o \in Offers, NEW x \in Offers,
         rules[o] # None, rules[x] # None, Beats(o, x)
  PROVE  ~ Beats(x, o)
<1>1. /\ rules[o].version \in Nat /\ rules[x].version \in Nat
      /\ o.priority \in Int /\ x.priority \in Int
  BY RuleRowTypes, OfferTypes
<1> QED
  BY <1>1 DEF Beats, Scoped

\* Where the rules are kept, a capture that does not move keeps what it has.
LEMMA CaptureKept ==
  ASSUME RulesInv, RulesKept, NEW p \in Purchases, capture'[p] = capture[p]
  PROVE  CaptureOK(p)'
<1> SUFFICES ASSUME capture[p] # None
             PROVE  CaptureOK(p)'
  BY DEF CaptureOK
<1>1. RulesTyped /\ CaptureOK(p)
  BY DEF RulesInv
<1>2. /\ capture[p].before \subseteq Offers /\ capture[p].gone \subseteq Offers
      /\ capture[p].at \in Nat
  BY <1>1, CaptureTypes
<1>3. /\ \A o \in capture[p].before : Published(o)
      /\ \A o \in capture[p].gone : Disabled(o)
      /\ capture[p].step # "begun" => Chosen(p)
  BY <1>1 DEF CaptureOK
<1>4. /\ \A o \in capture[p].before : Published(o)'
      /\ \A o \in capture[p].gone : Disabled(o)'
  BY <1>2, <1>3 DEF RulesKept
<1>5. ASSUME capture[p].step # "begun" PROVE Chosen(p)'
  <2> DEFINE r == capture[p].rule
  <2>1. /\ r \in Offers /\ Published(r) /\ InForce(r, capture[p].at)
        /\ r \notin capture[p].gone
        /\ \A o \in capture[p].before :
              Active(o) /\ Covers(o, p) /\ InForce(o, capture[p].at) => ~ Beats(o, r)
    BY <1>3, <1>5 DEF Chosen
  <2>2. /\ rules'[r] # None /\ rules'[r].state # "inserted"
        /\ rules'[r].version = rules[r].version /\ rules'[r].from = rules[r].from
    BY <2>1 DEF RulesKept, Published
  <2>3. ASSUME NEW o \in capture[p].before,
               rules'[o] # None, rules'[o].state = "active", Covers(o, p),
               rules'[o].from <= capture[p].at,
               o.until # None => capture[p].at < o.until
        PROVE  ~ (\/ Scoped(o) /\ ~Scoped(r)
                  \/ /\ Scoped(o) = Scoped(r)
                     /\ \/ o.priority > r.priority
                        \/ /\ o.priority = r.priority
                           /\ rules'[o].version > rules'[r].version)
    <3>1. o \in Offers /\ Published(o)
      BY <1>2, <1>3
    <3>2. /\ rules'[o].version = rules[o].version /\ rules'[o].from = rules[o].from
          /\ Active(o)
      BY <2>3, <3>1 DEF RulesKept, Active
    <3>3. ~ Beats(o, r)
      BY <2>1, <2>3, <3>2 DEF InForce
    <3> QED
      BY <2>2, <3>2, <3>3 DEF Beats
  <2>4. capture'[p].rule = r /\ capture'[p].at = capture[p].at
        /\ capture'[p].before = capture[p].before /\ capture'[p].gone = capture[p].gone
    OBVIOUS
  <2> HIDE DEF r
  <2> QED
    BY <2>1, <2>2, <2>3, <2>4
       DEF Chosen, Published, Active, InForce, Beats, Covers, Scoped
<1> QED
  BY <1>3, <1>4, <1>5 DEF CaptureOK, Published, Disabled

\* A step on the row of one offer.
LEMMA RuleUpdate ==
  ASSUME RulesInv, NEW o \in Offers, NEW row \in RuleRow \cup {None},
         rules' = [rules EXCEPT ![o] = row], UNCHANGED capture,
         time' \in Nat, sequence' \in Nat,
         Published(o) => /\ row # None /\ row.state # "inserted"
                         /\ row.version = rules[o].version /\ row.from = rules[o].from
                         /\ row.state = "active" => Active(o),
         Disabled(o) => row # None /\ row.state = "disabled"
  PROVE  RulesInv'
<1>1. RulesTyped /\ rules \in [Offers -> RuleRow \cup {None}]
  BY DEF RulesInv, RulesTyped
<1>2. /\ rules' \in [Offers -> RuleRow \cup {None}]
      /\ rules'[o] = row /\ \A x \in Offers : x # o => rules'[x] = rules[x]
  BY <1>1
<1>3. RulesTyped'
  BY <1>1, <1>2 DEF RulesTyped
<1>4. RulesKept
  <2> SUFFICES ASSUME NEW x \in Offers
               PROVE  /\ Published(x) => /\ Published(x)'
                                         /\ rules'[x].version = rules[x].version
                                         /\ rules'[x].from = rules[x].from
                                         /\ Active(x)' => Active(x)
                      /\ Disabled(x) => Disabled(x)'
    BY DEF RulesKept
  <2>1. CASE x = o
    BY <1>2, <2>1 DEF Published, Disabled, Active
  <2>2. CASE x # o
    BY <1>2, <2>2 DEF Published, Disabled, Active
  <2> QED
    BY <2>1, <2>2
<1> QED
  BY <1>3, <1>4, CaptureKept DEF RulesInv

LEMMA InsertRuleInv ==
  ASSUME RulesInv, NEW o \in Offers, InsertRule(o)
  PROVE  RulesInv'
<1>1. /\ rules[o] = None /\ sequence' = sequence + 1
      /\ time \in Nat /\ sequence \in Nat
      /\ time' = time /\ UNCHANGED capture
  BY DEF InsertRule, RulesInv, RulesTyped
<1>2. PICK from \in (IF o.from = None THEN time - Slow .. time + Fast ELSE {o.from}) :
         rules' = [rules EXCEPT ![o] = Row(sequence', from, "inserted")]
  BY DEF InsertRule
<1>3. from \in Int
  <2>1. Slow \in Nat /\ Fast \in Nat
    BY RulesAssumption
  <2> QED
    BY <1>1, <1>2, <2>1, OfferTypes
<1>4. Row(sequence', from, "inserted") \in RuleRow
  BY <1>1, <1>3 DEF Row, RuleRow
<1>5. ~ Published(o) /\ ~ Disabled(o)
  BY <1>1 DEF Published, Disabled
<1>6. time' \in Nat /\ sequence' \in Nat
  BY <1>1
<1> DEFINE row == Row(sequence', from, "inserted")
<1>7. /\ row \in RuleRow \cup {None}
      /\ rules' = [rules EXCEPT ![o] = row]
  BY <1>2, <1>4
<1> HIDE DEF row
<1> QED
  BY <1>1, <1>5, <1>6, <1>7, RuleUpdate

LEMMA RowStateInv ==
  ASSUME RulesInv, NEW o \in Offers,
         CommitRule(o) \/ RollbackRule(o) \/ DisableRule(o)
  PROVE  RulesInv'
<1>1. /\ RulesTyped /\ time' \in Nat /\ sequence' \in Nat /\ UNCHANGED capture
      /\ rules \in [Offers -> RuleRow \cup {None}]
  BY DEF RulesInv, RulesTyped, CommitRule, RollbackRule, DisableRule
<1>2. ASSUME NEW state \in {"active", "disabled"}, rules[o] # None,
             rules' = [rules EXCEPT ![o].state = state]
      PROVE  /\ rules' = [rules EXCEPT ![o] = [rules[o] EXCEPT !.state = state]]
             /\ [rules[o] EXCEPT !.state = state] \in RuleRow
             /\ [rules[o] EXCEPT !.state = state] # None
             /\ [rules[o] EXCEPT !.state = state].state = state
             /\ [rules[o] EXCEPT !.state = state].version = rules[o].version
             /\ [rules[o] EXCEPT !.state = state].from = rules[o].from
  <2>1. rules[o] \in RuleRow
    BY <1>1, <1>2, RuleRowTypes
  <2>2. [rules[o] EXCEPT !.state = state] \in RuleRow
    BY <2>1 DEF RuleRow
  <2>3. rules' = [rules EXCEPT ![o] = [rules[o] EXCEPT !.state = state]]
    BY <1>1, <1>2
  <2> QED
    BY <2>1, <2>2, <2>3, NoneIsNoOffer DEF RuleRow
<1>3. CASE CommitRule(o)
  <2>1. /\ rules[o] # None /\ rules[o].state = "inserted"
        /\ rules' = [rules EXCEPT ![o].state = "active"]
    BY <1>3 DEF CommitRule, Inserted
  <2>2. ~ Published(o) /\ ~ Disabled(o)
    BY <2>1 DEF Published, Disabled
  <2> QED
    BY <1>1, <1>2, <2>1, <2>2, RuleUpdate
<1>4. CASE RollbackRule(o)
  <2>1. /\ rules[o].state = "inserted" /\ rules' = [rules EXCEPT ![o] = None]
    BY <1>4 DEF RollbackRule, Inserted
  <2>2. ~ Published(o) /\ ~ Disabled(o)
    BY <2>1 DEF Published, Disabled
  <2> QED
    BY <1>1, <2>1, <2>2, RuleUpdate
<1>5. CASE DisableRule(o)
  <2>1. rules[o] # None /\ rules' = [rules EXCEPT ![o].state = "disabled"]
    BY <1>5 DEF DisableRule, Active
  <2> DEFINE row == [rules[o] EXCEPT !.state = "disabled"]
  <2>2. /\ rules' = [rules EXCEPT ![o] = row] /\ row \in RuleRow /\ row # None
        /\ row.state = "disabled" /\ row.version = rules[o].version
        /\ row.from = rules[o].from
    BY <1>2, <2>1
  <2> HIDE DEF row
  <2> QED
    BY <1>1, <2>2, RuleUpdate
<1> QED
  BY <1>3, <1>4, <1>5

\* A step of one capture.
LEMMA CaptureUpdate ==
  ASSUME RulesInv, NEW p \in Purchases, NEW c \in CaptureRow \cup {None},
         capture' = [capture EXCEPT ![p] = c], UNCHANGED <<time, sequence, rules>>,
         CaptureOK(p)'
  PROVE  RulesInv'
<1>1. RulesTyped /\ capture \in [Purchases -> CaptureRow \cup {None}]
  BY DEF RulesInv, RulesTyped
<1>2. /\ capture' \in [Purchases -> CaptureRow \cup {None}]
      /\ \A q \in Purchases : q # p => capture'[q] = capture[q]
  BY <1>1
<1>3. RulesTyped'
  BY <1>1, <1>2 DEF RulesTyped
<1>4. RulesKept
  BY DEF RulesKept, Published, Disabled, Active
<1> QED
  BY <1>2, <1>3, <1>4, CaptureKept DEF RulesInv

LEMMA BeginCaptureInv ==
  ASSUME RulesInv, NEW p \in Purchases, Begin(p)
  PROVE  RulesInv'
<1> DEFINE c == [step |-> "begun", at |-> time, rule |-> None,
                 before |-> {o \in Offers : Active(o)},
                 gone |-> {o \in Offers : rules[o] # None /\ rules[o].state = "disabled"}]
<1>1. /\ capture' = [capture EXCEPT ![p] = c] /\ UNCHANGED <<time, sequence, rules>>
      /\ time \in Nat /\ capture \in [Purchases -> CaptureRow \cup {None}]
  BY DEF Begin, RulesInv, RulesTyped
<1>2. c \in CaptureRow
  BY <1>1 DEF CaptureRow
<1>3. /\ \A o \in c.before : Published(o)
      /\ \A o \in c.gone : Disabled(o)
      /\ c.step = "begun"
  BY DEF Published, Disabled, Active
<1> HIDE DEF c
<1>4. capture'[p] = c
  BY <1>1
<1>5. CaptureOK(p)'
  BY <1>1, <1>3, <1>4 DEF CaptureOK, Published, Disabled
<1> QED
  BY <1>1, <1>2, <1>5, CaptureUpdate

\* The rule that is chosen beats every other that matches.
LEMMA QuoteInv ==
  ASSUME RulesInv, NEW p \in Purchases, Quote(p)
  PROVE  RulesInv'
<1> DEFINE k == capture[p]
<1>1. PICK r \in Matching(p, k.at) :
         /\ \A x \in Matching(p, k.at) \ {r} : Beats(r, x)
         /\ capture' = [capture EXCEPT ![p].rule = r, ![p].step = "quoted"]
  BY DEF Quote
<1>2. /\ RulesTyped /\ UNCHANGED <<time, sequence, rules>> /\ k # None
      /\ capture \in [Purchases -> CaptureRow \cup {None}] /\ CaptureOK(p)
  BY DEF Quote, Reached, RulesInv, RulesTyped
<1>3. /\ k \in CaptureRow /\ k.at \in Nat /\ k.before \subseteq Offers
      /\ r \in Offers /\ Active(r) /\ Covers(r, p) /\ InForce(r, k.at)
  BY <1>1, <1>2, CaptureTypes DEF Matching
<1> DEFINE c == [k EXCEPT !.rule = r, !.step = "quoted"]
<1>4. c \in CaptureRow
  BY <1>3 DEF CaptureRow
<1>5. /\ c.step = "quoted" /\ c.rule = r /\ c.at = k.at
      /\ c.before = k.before /\ c.gone = k.gone
  BY <1>3 DEF CaptureRow
<1>6. capture' = [capture EXCEPT ![p] = c]
  BY <1>1, <1>2
<1> HIDE DEF c, k
<1>7. capture'[p] = c
  BY <1>2, <1>6
<1>8. Published(r) /\ ~ Disabled(r)
  BY <1>3 DEF Active, Published, Disabled
<1>9. /\ \A o \in k.before : Published(o)
      /\ \A o \in k.gone : Disabled(o)
  BY <1>2 DEF CaptureOK, k
<1>10. r \notin k.gone
  BY <1>8, <1>9
<1>11. ASSUME NEW o \in k.before, Active(o), Covers(o, p), InForce(o, k.at)
       PROVE  ~ Beats(o, r)
  <2>1. o \in Offers /\ o \in Matching(p, k.at)
    BY <1>3, <1>11 DEF Matching
  <2>2. CASE o = r
    BY <1>2, <1>3, <2>2, BeatsOneWay DEF Active
  <2>3. CASE o # r
    <3>1. Beats(r, o)
      BY <1>1, <2>1, <2>3 DEF k
    <3> QED
      BY <1>2, <1>3, <1>11, <2>1, <3>1, BeatsOneWay DEF Active
  <2> QED
    BY <2>2, <2>3
<1>12. CaptureOK(p)'
  BY <1>2, <1>3, <1>5, <1>7, <1>8, <1>9, <1>10, <1>11
     DEF CaptureOK, Chosen, Published, Disabled, Active, InForce, Beats, Covers, Scoped
<1> QED
  BY <1>2, <1>4, <1>6, <1>12, CaptureUpdate

LEMMA EndCaptureInv ==
  ASSUME RulesInv, NEW p \in Purchases, CommitOrder(p) \/ AbortOrder(p)
  PROVE  RulesInv'
<1>1. /\ RulesTyped /\ UNCHANGED <<time, sequence, rules>> /\ CaptureOK(p)
      /\ capture \in [Purchases -> CaptureRow \cup {None}]
  BY DEF CommitOrder, AbortOrder, RulesInv, RulesTyped
<1>2. CASE AbortOrder(p)
  <2>1. capture' = [capture EXCEPT ![p] = None] /\ capture'[p] = None
    BY <1>1, <1>2 DEF AbortOrder
  <2>2. CaptureOK(p)'
    BY <2>1 DEF CaptureOK
  <2> QED
    BY <1>1, <2>1, <2>2, CaptureUpdate
<1>3. CASE CommitOrder(p)
  <2> DEFINE k == capture[p]
             c == [k EXCEPT !.step = "captured"]
  <2>1. /\ k # None /\ k.step = "quoted"
        /\ capture' = [capture EXCEPT ![p].step = "captured"]
    BY <1>3 DEF CommitOrder, Reached
  <2>2. k \in CaptureRow
    BY <1>1, <2>1, CaptureTypes
  <2>3. c \in CaptureRow
    BY <2>2 DEF CaptureRow
  <2>4. /\ c.step = "captured" /\ c.rule = k.rule /\ c.at = k.at
        /\ c.before = k.before /\ c.gone = k.gone
    BY <2>2 DEF CaptureRow
  <2>5. capture' = [capture EXCEPT ![p] = c]
    BY <1>1, <2>1
  <2> HIDE DEF c
  <2>6. capture'[p] = c
    BY <1>1, <2>5
  <2>7. /\ \A o \in k.before : Published(o)
        /\ \A o \in k.gone : Disabled(o)
        /\ Chosen(p)
    BY <1>1, <2>1 DEF CaptureOK
  <2>8. CaptureOK(p)'
    BY <1>1, <2>4, <2>6, <2>7
       DEF CaptureOK, Chosen, Published, Disabled, Active, InForce, Beats, Covers, Scoped
  <2> QED
    BY <1>1, <2>3, <2>5, <2>8, CaptureUpdate
<1> QED
  BY <1>2, <1>3

LEMMA RulesStep == RulesInv /\ [RulesNext]_rulesVars => RulesInv'
<1> SUFFICES ASSUME RulesInv, [RulesNext]_rulesVars PROVE RulesInv'
  OBVIOUS
<1>1. ASSUME UNCHANGED <<rules, capture, sequence>>, time' \in Nat PROVE RulesInv'
  <2>1. RulesKept
    BY <1>1 DEF RulesKept, Published, Disabled, Active
  <2> QED
    BY <1>1, <2>1, CaptureKept DEF RulesInv, RulesTyped
<1>2. time \in Nat
  BY DEF RulesInv, RulesTyped
<1>3. CASE TimePasses
  BY <1>1, <1>2, <1>3 DEF TimePasses
<1>4. ASSUME NEW a \in Merchants \cup Promoters, CreateAccount(a) PROVE RulesInv'
  BY <1>1, <1>2, <1>4 DEF CreateAccount
<1>5. ASSUME NEW o \in Offers,
             InsertRule(o) \/ CommitRule(o) \/ RollbackRule(o) \/ DisableRule(o)
      PROVE  RulesInv'
  BY <1>5, InsertRuleInv, RowStateInv
<1>6. ASSUME NEW p \in Purchases,
             Begin(p) \/ Quote(p) \/ CommitOrder(p) \/ AbortOrder(p)
      PROVE  RulesInv'
  BY <1>6, BeginCaptureInv, QuoteInv, EndCaptureInv
<1>7. CASE UNCHANGED rulesVars
  BY <1>1, <1>2, <1>7 DEF rulesVars
<1> QED
  BY <1>3, <1>4, <1>5, <1>6, <1>7 DEF RulesNext

(***************************************************************************)
(* The rule of an order was in force at captured_at and not disabled when  *)
(* the capture began, and no rule beats it that was published before the   *)
(* capture began and is enabled to this day, for any offers, any clocks of *)
(* the hosts and any interleaving with the operators (catalog.rs 171-181,  *)
(* orders.rs 21-47).                                                       *)
(***************************************************************************)
THEOREM CapturedUnderRuleOfItsTime == RulesSpec => []RuleOfItsTime
<1>1. RulesInit => RulesInv
  BY DEF RulesInit, RulesInv, RulesTyped, CaptureOK
<1>2. RulesInv => RuleOfItsTime
  <2> SUFFICES ASSUME RulesInv, NEW p \in Purchases, Reached(p, "captured")
               PROVE  LET order == capture[p]
                          Window(o) == rules[o].from ..
                                       (IF o.until = None THEN order.at ELSE o.until - 1)
                      IN  /\ order.at \in Window(order.rule)
                          /\ order.rule \notin order.gone
                          /\ \A o \in order.before :
                                Active(o) /\ Covers(o, p) /\ order.at \in Window(o)
                                   => ~Beats(o, order.rule)
    BY DEF RuleOfItsTime
  <2> DEFINE order == capture[p]
             Window(o) == rules[o].from ..
                          (IF o.until = None THEN order.at ELSE o.until - 1)
  <2>1. RulesTyped /\ Chosen(p) /\ order # None
    BY DEF RulesInv, CaptureOK, Reached
  <2>2. order.at \in Nat /\ order.before \subseteq Offers
    BY <2>1, CaptureTypes
  <2>3. ASSUME NEW o \in Offers, rules[o] # None
        PROVE  order.at \in Window(o) <=> InForce(o, order.at)
    <3>1. rules[o].from \in Int /\ o.until \in Int \cup {None}
      BY <2>1, <2>3, RuleRowTypes, OfferTypes
    <3> QED
      BY <2>2, <3>1, NoneAssumption DEF InForce
  <2>4. \A o \in Offers : Active(o) => rules[o] # None
    BY DEF Active
  <2>5. order.rule \in Offers /\ rules[order.rule] # None
    BY <2>1 DEF Chosen, Published
  <2>6. /\ InForce(order.rule, order.at) /\ order.rule \notin order.gone
        /\ \A o \in order.before :
              Active(o) /\ Covers(o, p) /\ InForce(o, order.at) => ~ Beats(o, order.rule)
    BY <2>1 DEF Chosen
  <2>7. order.at \in Window(order.rule)
    BY <2>3, <2>5, <2>6
  <2>8. \A o \in order.before :
           Active(o) /\ Covers(o, p) /\ order.at \in Window(o) => ~Beats(o, order.rule)
    BY <2>2, <2>3, <2>4, <2>6
  <2> HIDE DEF Window
  <2>9. /\ order.at \in Window(order.rule)
        /\ order.rule \notin order.gone
        /\ \A o \in order.before :
              Active(o) /\ Covers(o, p) /\ order.at \in Window(o) => ~Beats(o, order.rule)
    BY <2>6, <2>7, <2>8
  <2> QED
    BY <2>9 DEF Window
<1> QED
  BY <1>1, <1>2, RulesStep, PTL DEF RulesSpec

-----------------------------------------------------------------------------
(* The loop of cumulative_refund over the rows of an order.                *)

\* What the last turn gives, by the numbers it reads; the others give a Part.
Remainder(total, refund) == IF total = 0 THEN 0 ELSE refund

\* The code's sum() of the original shares, for the two to four rows of an order.
RowSum(shares) ==
    LET sum[i \in 0..Len(shares)] == IF i = 0 THEN 0 ELSE sum[i - 1] + shares[i]
    IN  sum[Len(shares)]

LEMMA RowSumIs ==
  ASSUME NEW shares, Len(shares) \in 2..4
  PROVE  RowSum(shares) =
           IF Len(shares) = 2 THEN 0 + shares[1] + shares[2]
           ELSE IF Len(shares) = 3 THEN 0 + shares[1] + shares[2] + shares[3]
           ELSE 0 + shares[1] + shares[2] + shares[3] + shares[4]
<1> DEFINE L == Len(shares)
           s1 == 0 + shares[1]
           s2 == s1 + shares[2]
           s3 == s2 + shares[3]
           s4 == s3 + shares[4]
           IsSum(f) == f = [i \in 0..Len(shares) |->
                              IF i = 0 THEN 0 ELSE f[i - 1] + shares[i]]
           w == [i \in 0..L |-> IF i = 0 THEN 0 ELSE IF i = 1 THEN s1
                                ELSE IF i = 2 THEN s2 ELSE IF i = 3 THEN s3 ELSE s4]
           c == CHOOSE f : f = [i \in 0..Len(shares) |->
                                  IF i = 0 THEN 0 ELSE f[i - 1] + shares[i]]
<1>1. L \in 2..4
  OBVIOUS
<1>2. w = [i \in 0..L |-> IF i = 0 THEN 0 ELSE w[i - 1] + shares[i]]
  <2>1. ASSUME NEW i \in 0..L
        PROVE  w[i] = IF i = 0 THEN 0 ELSE w[i - 1] + shares[i]
    <3> HIDE DEF L
    <3>1. i = 0 \/ i = 1 \/ i = 2 \/ i = 3 \/ i = 4
      BY <1>1
    <3>2. i # 0 => i - 1 \in 0..L
      BY <1>1
    <3> QED
      BY <1>1, <3>1, <3>2
  <2> HIDE DEF L
  <2>2. w = [i \in 0..L |-> w[i]]
    OBVIOUS
  <2> HIDE DEF w
  <2> QED
    BY <2>1, <2>2
<1>3. IsSum(w)
  <2> HIDE DEF w
  <2> QED
    BY <1>2
<1>4. IsSum(c)
  <2> HIDE DEF w
  <2> QED
    BY <1>3
<1>5. RowSum(shares) = c[L]
  BY DEF RowSum
<1>6. ASSUME NEW i \in 0..L PROVE c[i] = IF i = 0 THEN 0 ELSE c[i - 1] + shares[i]
  <2> HIDE DEF c
  <2> QED
    BY <1>4
<1> HIDE DEF c, L
<1>7. /\ c[0] = 0
      /\ c[1] = s1
      /\ c[2] = s2
      /\ L >= 3 => c[3] = s3
      /\ L = 4 => c[4] = s4
  <2>1. c[0] = 0
    BY <1>1, <1>6
  <2>2. c[1] = s1
    BY <1>1, <1>6, <2>1
  <2>3. c[2] = s2
    BY <1>1, <1>6, <2>2
  <2>4. L >= 3 => c[3] = s3
    BY <1>1, <1>6, <2>3
  <2>5. L = 4 => c[4] = s4
    BY <1>1, <1>6, <2>4
  <2> QED
    BY <2>1, <2>2, <2>3, <2>4, <2>5
<1>8. RowSum(shares) = IF L = 2 THEN s2 ELSE IF L = 3 THEN s3 ELSE s4
  <2> HIDE DEF s2, s3, s4
  <2> QED
    BY <1>1, <1>5, <1>7
<1> QED
  BY <1>8 DEF L

\* The state of the loop after row i.
AfterRow(shares, i, left) ==
    [result |-> Append(left.result, Turn(shares, i, left)),
     total  |-> left.total - shares[i],
     refund |-> left.refund - Turn(shares, i, left)]

LEMMA LoopIs ==
  ASSUME NEW shares, NEW amount, Len(shares) \in 2..4
  PROVE  LET a0 == [result |-> <<>>, total |-> RowSum(shares), refund |-> amount]
             a1 == AfterRow(shares, 1, a0)
             a2 == AfterRow(shares, 2, a1)
             a3 == AfterRow(shares, 3, a2)
             a4 == AfterRow(shares, 4, a3)
         IN  /\ Len(shares) = 2 => RefundLoop(shares, amount) = a2.result
             /\ Len(shares) = 3 => RefundLoop(shares, amount) = a3.result
             /\ Len(shares) = 4 => RefundLoop(shares, amount) = a4.result
<1> DEFINE L == Len(shares)
           a0 == [result |-> <<>>, total |-> RowSum(shares), refund |-> amount]
           a1 == AfterRow(shares, 1, a0)
           a2 == AfterRow(shares, 2, a1)
           a3 == AfterRow(shares, 3, a2)
           a4 == AfterRow(shares, 4, a3)
           w == [i \in 0..L |-> IF i = 0 THEN a0 ELSE IF i = 1 THEN a1
                                ELSE IF i = 2 THEN a2 ELSE IF i = 3 THEN a3 ELSE a4]
           IsLoop(f) == f = [i \in 0..Len(shares) |->
                               IF i = 0 THEN a0 ELSE AfterRow(shares, i, f[i - 1])]
           c == CHOOSE f : f = [i \in 0..Len(shares) |->
                                  IF i = 0 THEN a0 ELSE AfterRow(shares, i, f[i - 1])]
<1>1. L \in 2..4
  OBVIOUS
<1>2. w = [i \in 0..L |-> IF i = 0 THEN a0 ELSE AfterRow(shares, i, w[i - 1])]
  <2>1. ASSUME NEW i \in 0..L
        PROVE  w[i] = IF i = 0 THEN a0 ELSE AfterRow(shares, i, w[i - 1])
    <3> HIDE DEF L, a0
    <3>1. i = 0 \/ i = 1 \/ i = 2 \/ i = 3 \/ i = 4
      BY <1>1
    <3>2. i # 0 => i - 1 \in 0..L
      BY <1>1
    <3> QED
      BY <1>1, <3>1, <3>2
  <2> HIDE DEF L, a0, a1, a2, a3, a4
  <2>2. w = [i \in 0..L |-> w[i]]
    OBVIOUS
  <2> HIDE DEF w
  <2> QED
    BY <2>1, <2>2
<1>3. IsLoop(w)
  <2> HIDE DEF w, a0
  <2> QED
    BY <1>2
<1>4. IsLoop(c)
  <2> HIDE DEF w, a0
  <2> QED
    BY <1>3
<1>5. RefundLoop(shares, amount) = c[L].result
  BY DEF RefundLoop, AfterRow, RowSum
<1>6. ASSUME NEW i \in 0..L PROVE c[i] = IF i = 0 THEN a0 ELSE AfterRow(shares, i, c[i - 1])
  <2> HIDE DEF c, a0
  <2> QED
    BY <1>4
<1> HIDE DEF c, L, a0
<1>7. /\ c[2] = a2
      /\ L >= 3 => c[3] = a3
      /\ L = 4 => c[4] = a4
  <2>1. c[0] = a0
    BY <1>1, <1>6
  <2>2. c[1] = a1
    BY <1>1, <1>6, <2>1
  <2>3. c[2] = a2
    BY <1>1, <1>6, <2>2
  <2>4. L >= 3 => c[3] = a3
    BY <1>1, <1>6, <2>3
  <2>5. L = 4 => c[4] = a4
    BY <1>1, <1>6, <2>4
  <2> QED
    BY <2>3, <2>4, <2>5
<1> HIDE DEF a2, a3, a4
<1>8. /\ L = 2 => RefundLoop(shares, amount) = a2.result
      /\ L = 3 => RefundLoop(shares, amount) = a3.result
      /\ L = 4 => RefundLoop(shares, amount) = a4.result
  BY <1>1, <1>5, <1>7
<1> QED
  BY <1>8 DEF L, a0, a1, a2, a3, a4

\* A sequence of numbers is its length and its elements.
LEMMA Tuples ==
  /\ \A s \in Seq(Nat) : Len(s) = 2 => s = <<s[1], s[2]>>
  /\ \A s \in Seq(Nat) : Len(s) = 3 => s = <<s[1], s[2], s[3]>>
  /\ \A s \in Seq(Nat) : Len(s) = 4 => s = <<s[1], s[2], s[3], s[4]>>
<1>1. ASSUME NEW s \in Seq(Nat), Len(s) = 2 PROVE s = <<s[1], s[2]>>
  BY <1>1
<1>2. ASSUME NEW s \in Seq(Nat), Len(s) = 3 PROVE s = <<s[1], s[2], s[3]>>
  BY <1>2
<1>3. ASSUME NEW s \in Seq(Nat), Len(s) = 4 PROVE s = <<s[1], s[2], s[3], s[4]>>
  BY <1>3
<1> QED
  BY <1>1, <1>2, <1>3

LEMMA Appended ==
  ASSUME NEW s \in Seq(Nat), NEW x \in Nat
  PROVE  /\ Append(s, x) \in Seq(Nat)
         /\ Len(Append(s, x)) = Len(s) + 1
         /\ \A i \in 1 .. Len(s) : Append(s, x)[i] = s[i]
         /\ Append(s, x)[Len(s) + 1] = x
BY AppendProperties

LEMMA AppendTwo ==
  ASSUME NEW x \in Nat, NEW y \in Nat
  PROVE  Append(Append(<<>>, x), y) = <<x, y>>
<1> DEFINE e == <<>>
           s == Append(e, x)
           u == Append(s, y)
<1>1. e \in Seq(Nat) /\ Len(e) = 0
  BY EmptySeq
<1> HIDE DEF e
<1>2. s \in Seq(Nat) /\ Len(s) = 1 /\ s[1] = x
  BY <1>1, Appended
<1> HIDE DEF s
<1>3. /\ u \in Seq(Nat) /\ Len(u) = Len(s) + 1 /\ u[Len(s) + 1] = y
      /\ \A i \in 1..Len(s) : u[i] = s[i]
  BY <1>2, Appended
<1> HIDE DEF u
<1>4. Len(u) = 2 /\ u[1] = x /\ u[2] = y
  BY <1>2, <1>3
<1>5. u = <<x, y>>
  BY <1>3, <1>4, Tuples
<1> QED
  BY <1>5 DEF u, s, e

LEMMA AppendThree ==
  ASSUME NEW x \in Nat, NEW y \in Nat, NEW z \in Nat
  PROVE  Append(<<x, y>>, z) = <<x, y, z>>
<1> DEFINE s == <<x, y>>
           w == Append(s, z)
<1>1. s \in Seq(Nat) /\ Len(s) = 2 /\ s[1] = x /\ s[2] = y
  OBVIOUS
<1> HIDE DEF s
<1>2. /\ w \in Seq(Nat) /\ Len(w) = Len(s) + 1 /\ w[Len(s) + 1] = z
      /\ \A i \in 1..Len(s) : w[i] = s[i]
  BY <1>1, Appended
<1> HIDE DEF w
<1>3. Len(w) = 3 /\ w[1] = x /\ w[2] = y /\ w[3] = z
  BY <1>1, <1>2
<1>4. w = <<x, y, z>>
  BY <1>2, <1>3, Tuples
<1> QED
  BY <1>4 DEF s, w

LEMMA AppendFour ==
  ASSUME NEW x \in Nat, NEW y \in Nat, NEW z \in Nat, NEW u \in Nat
  PROVE  Append(<<x, y, z>>, u) = <<x, y, z, u>>
<1> DEFINE s == <<x, y, z>>
           w == Append(s, u)
<1>1. s \in Seq(Nat) /\ Len(s) = 3 /\ s[1] = x /\ s[2] = y /\ s[3] = z
  OBVIOUS
<1> HIDE DEF s
<1>2. /\ w \in Seq(Nat) /\ Len(w) = Len(s) + 1 /\ w[Len(s) + 1] = u
      /\ \A i \in 1..Len(s) : w[i] = s[i]
  BY <1>1, Appended
<1> HIDE DEF w
<1>3. Len(w) = 4 /\ w[1] = x /\ w[2] = y /\ w[3] = z /\ w[4] = u
  BY <1>1, <1>2
<1>4. w = <<x, y, z, u>>
  BY <1>2, <1>3, Tuples
<1> QED
  BY <1>4 DEF s, w

\* The loop over two, three and four rows.
LEMMA LoopOfTwo ==
  ASSUME NEW shares, Len(shares) = 2, NEW amount, NEW total,
         total = RowSum(shares),
         NEW t1 \in Nat, NEW t2 \in Nat,
         t1 = Part(shares[1], total, amount),
         t2 = Remainder(total - shares[1],
                        amount - t1)
  PROVE  RefundLoop(shares, amount) = <<t1, t2>>
<1> DEFINE a0 == [result |-> <<>>, total |-> RowSum(shares), refund |-> amount]
           a1 == AfterRow(shares, 1, a0)
           a2 == AfterRow(shares, 2, a1)
<1>1. RefundLoop(shares, amount) = a2.result
  BY LoopIs
<1>2. a0.result = <<>> /\ a0.total = total /\ a0.refund = amount
  OBVIOUS
<1> HIDE DEF a0
<1>3. Turn(shares, 1, a0) = t1
  BY <1>2 DEF Turn, Part, Remainder
<1>4. /\ a1.result = Append(<<>>, t1)
      /\ a1.total = total - shares[1]
      /\ a1.refund = amount - t1
  BY <1>2, <1>3 DEF AfterRow
<1> HIDE DEF a1
<1>5. Turn(shares, 2, a1) = t2
  BY <1>4 DEF Turn, Part, Remainder
<1>6. a2.result = <<t1, t2>>
  BY <1>4, <1>5, AppendTwo DEF AfterRow
<1> QED
  BY <1>1, <1>6

LEMMA LoopOfThree ==
  ASSUME NEW shares, Len(shares) = 3, NEW amount, NEW total,
         total = RowSum(shares),
         NEW t1 \in Nat, NEW t2 \in Nat, NEW t3 \in Nat,
         t1 = Part(shares[1], total, amount),
         t2 = Part(shares[2], total - shares[1], amount - t1),
         t3 = Remainder(total - shares[1] - shares[2],
                        amount - t1 - t2)
  PROVE  RefundLoop(shares, amount) = <<t1, t2, t3>>
<1> DEFINE a0 == [result |-> <<>>, total |-> RowSum(shares), refund |-> amount]
           a1 == AfterRow(shares, 1, a0)
           a2 == AfterRow(shares, 2, a1)
           a3 == AfterRow(shares, 3, a2)
<1>1. RefundLoop(shares, amount) = a3.result
  BY LoopIs
<1>2. a0.result = <<>> /\ a0.total = total /\ a0.refund = amount
  OBVIOUS
<1> HIDE DEF a0
<1>3. Turn(shares, 1, a0) = t1
  BY <1>2 DEF Turn, Part, Remainder
<1>4. /\ a1.result = Append(<<>>, t1)
      /\ a1.total = total - shares[1]
      /\ a1.refund = amount - t1
  BY <1>2, <1>3 DEF AfterRow
<1> HIDE DEF a1
<1>5. Turn(shares, 2, a1) = t2
  BY <1>4 DEF Turn, Part, Remainder
<1>6. /\ a2.result = <<t1, t2>>
      /\ a2.total = total - shares[1] - shares[2]
      /\ a2.refund = amount - t1 - t2
  BY <1>4, <1>5, AppendTwo DEF AfterRow
<1> HIDE DEF a2
<1>7. Turn(shares, 3, a2) = t3
  BY <1>6 DEF Turn, Part, Remainder
<1>8. a3.result = <<t1, t2, t3>>
  BY <1>6, <1>7, AppendThree DEF AfterRow
<1> QED
  BY <1>1, <1>8

LEMMA LoopOfFour ==
  ASSUME NEW shares, Len(shares) = 4, NEW amount, NEW total,
         total = RowSum(shares),
         NEW t1 \in Nat, NEW t2 \in Nat, NEW t3 \in Nat, NEW t4 \in Nat,
         t1 = Part(shares[1], total, amount),
         t2 = Part(shares[2], total - shares[1], amount - t1),
         t3 = Part(shares[3], total - shares[1] - shares[2], amount - t1 - t2),
         t4 = Remainder(total - shares[1] - shares[2] - shares[3],
                        amount - t1 - t2 - t3)
  PROVE  RefundLoop(shares, amount) = <<t1, t2, t3, t4>>
<1> DEFINE a0 == [result |-> <<>>, total |-> RowSum(shares), refund |-> amount]
           a1 == AfterRow(shares, 1, a0)
           a2 == AfterRow(shares, 2, a1)
           a3 == AfterRow(shares, 3, a2)
           a4 == AfterRow(shares, 4, a3)
<1>1. RefundLoop(shares, amount) = a4.result
  BY LoopIs
<1>2. a0.result = <<>> /\ a0.total = total /\ a0.refund = amount
  OBVIOUS
<1> HIDE DEF a0
<1>3. Turn(shares, 1, a0) = t1
  BY <1>2 DEF Turn, Part, Remainder
<1>4. /\ a1.result = Append(<<>>, t1)
      /\ a1.total = total - shares[1]
      /\ a1.refund = amount - t1
  BY <1>2, <1>3 DEF AfterRow
<1> HIDE DEF a1
<1>5. Turn(shares, 2, a1) = t2
  BY <1>4 DEF Turn, Part, Remainder
<1>6. /\ a2.result = <<t1, t2>>
      /\ a2.total = total - shares[1] - shares[2]
      /\ a2.refund = amount - t1 - t2
  BY <1>4, <1>5, AppendTwo DEF AfterRow
<1> HIDE DEF a2
<1>7. Turn(shares, 3, a2) = t3
  BY <1>6 DEF Turn, Part, Remainder
<1>8. /\ a3.result = <<t1, t2, t3>>
      /\ a3.total = total - shares[1] - shares[2] - shares[3]
      /\ a3.refund = amount - t1 - t2 - t3
  BY <1>6, <1>7, AppendThree DEF AfterRow
<1> HIDE DEF a3
<1>9. Turn(shares, 4, a3) = t4
  BY <1>8 DEF Turn, Part, Remainder
<1>10. a4.result = <<t1, t2, t3, t4>>
  BY <1>8, <1>9, AppendFour DEF AfterRow
<1> QED
  BY <1>1, <1>10

\* The rows of an order under its shares, after a cumulative refund.
RowsAt(shares, slots, amount) ==
    [i \in 1..Len(slots) |->
        [slot |-> slots[i], original |-> shares[slots[i]],
         refunded |-> CumulativeRefund(shares, amount)[slots[i]]]]

Absent(shares, direct, indirect) ==
    /\ indirect => direct
    /\ ~direct => shares[Direct] = 0
    /\ ~indirect => shares[Indirect] = 0

\* Concatenation, by its length and its elements.
LEMMA Concatenated ==
  ASSUME NEW s \in Seq(Nat), NEW t \in Seq(Nat)
  PROVE  /\ s \o t \in Seq(Nat)
         /\ Len(s \o t) = Len(s) + Len(t)
         /\ \A i \in 1 .. Len(s) + Len(t) :
               (s \o t)[i] = IF i <= Len(s) THEN s[i] ELSE t[i - Len(s)]
BY ConcatProperties

LEMMA Joined ==
  ASSUME NEW s \in Seq(Nat), NEW t \in Seq(Nat)
  PROVE  /\ Len(s) = 1 /\ Len(t) = 1 => s \o t = <<s[1], t[1]>>
         /\ Len(s) = 1 /\ Len(t) = 2 => s \o t = <<s[1], t[1], t[2]>>
         /\ Len(s) = 2 /\ Len(t) = 2 => s \o t = <<s[1], s[2], t[1], t[2]>>
<1> DEFINE u == s \o t
<1>1. /\ u \in Seq(Nat)
      /\ Len(u) = Len(s) + Len(t)
      /\ \A i \in 1 .. Len(s) + Len(t) :
               u[i] = IF i <= Len(s) THEN s[i] ELSE t[i - Len(s)]
  BY Concatenated
<1> HIDE DEF u
<1>2. ASSUME Len(s) = 1, Len(t) = 1 PROVE u = <<s[1], t[1]>>
  <2>1. Len(u) = 2 /\ u[1] = s[1] /\ u[2] = t[1]
    BY <1>1, <1>2
  <2> QED
    BY <1>1, <2>1, Tuples
<1>3. ASSUME Len(s) = 1, Len(t) = 2 PROVE u = <<s[1], t[1], t[2]>>
  <2>1. Len(u) = 3 /\ u[1] = s[1] /\ u[2] = t[1] /\ u[3] = t[2]
    BY <1>1, <1>3
  <2> QED
    BY <1>1, <2>1, Tuples
<1>4. ASSUME Len(s) = 2, Len(t) = 2 PROVE u = <<s[1], s[2], t[1], t[2]>>
  <2>1. Len(u) = 4 /\ u[1] = s[1] /\ u[2] = s[2] /\ u[3] = t[1] /\ u[4] = t[2]
    BY <1>1, <1>4
  <2> QED
    BY <1>1, <2>1, Tuples
<1> QED
  BY <1>2, <1>3, <1>4 DEF u

\* The rows an order may have.
LEMMA PresentSlots ==
  /\ Present(TRUE, TRUE) = <<0, 1, 2, 3>>
  /\ Present(TRUE, FALSE) = <<0, 2, 3>>
  /\ Present(FALSE, FALSE) = <<2, 3>>
<1> DEFINE a == <<0>>
           b == <<1>>
           c == <<2, 3>>
           d == <<0, 1>>
           e == <<>>
<1>1. /\ a \in Seq(Nat) /\ Len(a) = 1 /\ a[1] = 0
      /\ b \in Seq(Nat) /\ Len(b) = 1 /\ b[1] = 1
      /\ c \in Seq(Nat) /\ Len(c) = 2 /\ c[1] = 2 /\ c[2] = 3
      /\ d \in Seq(Nat) /\ Len(d) = 2 /\ d[1] = 0 /\ d[2] = 1
      /\ e \in Seq(Nat)
  OBVIOUS
<1>2. \A s \in Seq(Nat) : s \o e = s /\ e \o s = s
  BY ConcatEmptySeq
<1> HIDE DEF a, b, c, d, e
<1>3. a \o b = <<0, 1>>
  BY <1>1, Joined
<1>4. a \o c = <<0, 2, 3>> /\ d \o c = <<0, 1, 2, 3>>
  BY <1>1, Joined
<1>5. (a \o b) \o c = <<0, 1, 2, 3>>
  BY <1>3, <1>4 DEF d
<1>6. (a \o e) \o c = <<0, 2, 3>>
  BY <1>1, <1>2, <1>4
<1>7. (e \o e) \o c = <<2, 3>>
  BY <1>1, <1>2 DEF c
<1> QED
  BY <1>5, <1>6, <1>7
     DEF a, b, c, e, Present, Direct, Indirect, Platform, Merchant

\* What a table says over such a list of slots.
LEMMA OverSlots ==
  ASSUME NEW f, f[0] \in Nat, f[1] \in Nat, f[2] \in Nat, f[3] \in Nat,
         NEW s \in Seq(0..3)
  PROVE  LET g == [i \in 1..Len(s) |-> f[s[i]]]
         IN  /\ s = <<0, 1, 2, 3>> => g = <<f[0], f[1], f[2], f[3]>>
             /\ s = <<0, 2, 3>> => g = <<f[0], f[2], f[3]>>
             /\ s = <<2, 3>> => g = <<f[2], f[3]>>
<1> DEFINE g == [i \in 1..Len(s) |-> f[s[i]]]
<1>1. \A x \in 0..3 : f[x] \in Nat
  OBVIOUS
<1>2. /\ Len(s) \in Nat
      /\ \A i \in 1..Len(s) : s[i] \in 0..3
  OBVIOUS
<1>3. /\ g \in Seq(Nat) /\ Len(g) = Len(s)
      /\ \A i \in 1..Len(s) : g[i] = f[s[i]]
  BY <1>1, <1>2
<1> HIDE DEF g
<1>4. ASSUME s = <<0, 1, 2, 3>> PROVE g = <<f[0], f[1], f[2], f[3]>>
  <2>1. Len(s) = 4 /\ s[1] = 0 /\ s[2] = 1 /\ s[3] = 2 /\ s[4] = 3
    BY <1>4
  <2>2. Len(g) = 4 /\ g[1] = f[0] /\ g[2] = f[1] /\ g[3] = f[2] /\ g[4] = f[3]
    BY <1>3, <2>1
  <2> QED
    BY <1>3, <2>2, Tuples
<1>5. ASSUME s = <<0, 2, 3>> PROVE g = <<f[0], f[2], f[3]>>
  <2>1. Len(s) = 3 /\ s[1] = 0 /\ s[2] = 2 /\ s[3] = 3
    BY <1>5
  <2>2. Len(g) = 3 /\ g[1] = f[0] /\ g[2] = f[2] /\ g[3] = f[3]
    BY <1>3, <2>1
  <2> QED
    BY <1>3, <2>2, Tuples
<1>6. ASSUME s = <<2, 3>> PROVE g = <<f[2], f[3]>>
  <2>1. Len(s) = 2 /\ s[1] = 2 /\ s[2] = 3
    BY <1>6
  <2>2. Len(g) = 2 /\ g[1] = f[2] /\ g[2] = f[3]
    BY <1>3, <2>1
  <2> QED
    BY <1>3, <2>2, Tuples
<1> QED
  BY <1>4, <1>5, <1>6 DEF g

(***************************************************************************)
(* The loop over the rows gives every row what the four-slot arithmetic    *)
(* gives its slot: a slot without a row has no share, and takes no turn.   *)
(***************************************************************************)
LEMMA LoopIsCumulative ==
  ASSUME NEW shares \in Shares, NEW amount \in 0..SumOf(shares),
         NEW direct \in BOOLEAN, NEW indirect \in BOOLEAN,
         Absent(shares, direct, indirect)
  PROVE  LET slots == Present(direct, indirect) IN
         RefundLoop([i \in 1..Len(slots) |-> shares[slots[i]]], amount) =
            [i \in 1..Len(slots) |-> CumulativeRefund(shares, amount)[slots[i]]]
<1> DEFINE got == CumulativeRefund(shares, amount)
           T == SumOf(shares)
<1>1. /\ shares[0] \in Nat /\ shares[1] \in Nat /\ shares[2] \in Nat /\ shares[3] \in Nat
      /\ T = shares[0] + shares[1] + shares[2] + shares[3]
      /\ Slot = 0..3
  BY DEF Slot, Shares, SumOf, Direct, Indirect, Platform, Merchant
<1>2. /\ got[0] \in 0..shares[0] /\ got[1] \in 0..shares[1]
      /\ got[2] \in 0..shares[2] /\ got[3] \in 0..shares[3]
      /\ got[0] = Part(shares[0], T, amount)
      /\ got[1] = Part(shares[1], T - shares[0], amount - got[0])
      /\ got[2] = Part(shares[2], T - shares[0] - shares[1], amount - got[0] - got[1])
      /\ got[3] = amount - got[0] - got[1] - got[2]
      /\ amount \in Nat
  BY <1>1, Unfolded
<1> HIDE DEF got, T
<1>3. Remainder(shares[3], got[3]) = got[3]
  BY <1>1, <1>2 DEF Remainder
<1> DEFINE slots == Present(direct, indirect)
           rows  == [i \in 1..Len(slots) |-> shares[slots[i]]]
           taken == [i \in 1..Len(slots) |-> got[slots[i]]]
<1>5. got[0] \in Nat /\ got[1] \in Nat /\ got[2] \in Nat /\ got[3] \in Nat
  BY <1>1, <1>2
<1>6. CASE direct /\ indirect
  <2>1. slots = <<0, 1, 2, 3>>
    BY <1>6, PresentSlots
  <2>2. /\ rows = <<shares[0], shares[1], shares[2], shares[3]>>
        /\ taken = <<got[0], got[1], got[2], got[3]>>
    <3>1. <<0, 1, 2, 3>> \in Seq(0..3)
      OBVIOUS
    <3>2. slots \in Seq(0..3)
      BY <2>1, <3>1
    <3> HIDE DEF slots
    <3> QED
      BY <1>1, <1>5, <2>1, <3>2, OverSlots
  <2> HIDE DEF rows, taken, slots
  <2>3. /\ Len(rows) = 4 /\ rows[1] = shares[0] /\ rows[2] = shares[1]
        /\ rows[3] = shares[2] /\ rows[4] = shares[3]
    BY <2>2
  <2>4. T = RowSum(rows)
    <3>1. RowSum(rows) = 0 + rows[1] + rows[2] + rows[3] + rows[4]
      BY <2>3, RowSumIs
    <3> QED
      BY <1>1, <2>3, <3>1
  <2>5. /\ got[0] = Part(rows[1], T, amount)
        /\ got[1] = Part(rows[2], T - rows[1], amount - got[0])
        /\ got[2] = Part(rows[3], T - rows[1] - rows[2], amount - got[0] - got[1])
    BY <1>2, <2>3
  <2>6. got[3] = Remainder(T - rows[1] - rows[2] - rows[3],
                           amount - got[0] - got[1] - got[2])
    <3>1. T - rows[1] - rows[2] - rows[3] = shares[3]
      BY <1>1, <2>3
    <3> QED
      BY <1>2, <1>3, <2>3, <3>1
  <2>7. RefundLoop(rows, amount) = <<got[0], got[1], got[2], got[3]>>
    BY <1>5, <2>3, <2>4, <2>5, <2>6, LoopOfFour
  <2>8. RefundLoop(rows, amount) = taken
    BY <2>2, <2>7
  <2> QED
    BY <2>8 DEF rows, taken, slots, got
<1>7. CASE direct /\ ~indirect
  <2>0. shares[1] = 0 /\ got[1] = 0
    BY <1>2, <1>7 DEF Absent, Indirect
  <2>1. slots = <<0, 2, 3>>
    BY <1>7, PresentSlots
  <2>2. rows = <<shares[0], shares[2], shares[3]>> /\ taken = <<got[0], got[2], got[3]>>
    <3>1. <<0, 2, 3>> \in Seq(0..3)
      OBVIOUS
    <3>2. slots \in Seq(0..3)
      BY <2>1, <3>1
    <3> HIDE DEF slots
    <3> QED
      BY <1>1, <1>5, <2>1, <3>2, OverSlots
  <2> HIDE DEF rows, taken, slots
  <2>3. /\ Len(rows) = 3 /\ rows[1] = shares[0] /\ rows[2] = shares[2]
        /\ rows[3] = shares[3]
    BY <2>2
  <2>4. T = RowSum(rows)
    <3>1. RowSum(rows) = 0 + rows[1] + rows[2] + rows[3]
      BY <2>3, RowSumIs
    <3> QED
      BY <1>1, <2>0, <2>3, <3>1
  <2>5. /\ got[0] = Part(rows[1], T, amount)
        /\ got[2] = Part(rows[2], T - rows[1], amount - got[0])
    <3>1. /\ T - shares[0] - shares[1] = T - shares[0]
          /\ amount - got[0] - got[1] = amount - got[0]
      BY <1>1, <1>2, <1>5, <2>0
    <3>2. got[2] = Part(shares[2], T - shares[0], amount - got[0])
      BY <1>2, <3>1
    <3> QED
      BY <1>2, <2>3, <3>2
  <2>6. got[3] = Remainder(T - rows[1] - rows[2], amount - got[0] - got[2])
    <3>1. T - rows[1] - rows[2] = shares[3] /\ amount - got[0] - got[2] = got[3]
      BY <1>1, <1>2, <1>5, <2>0, <2>3
    <3> QED
      BY <1>3, <2>3, <3>1
  <2>7. RefundLoop(rows, amount) = <<got[0], got[2], got[3]>>
    BY <1>5, <2>3, <2>4, <2>5, <2>6, LoopOfThree
  <2>8. RefundLoop(rows, amount) = taken
    BY <2>2, <2>7
  <2> QED
    BY <2>8 DEF rows, taken, slots, got
<1>8. CASE ~direct
  <2>0. shares[0] = 0 /\ got[0] = 0 /\ shares[1] = 0 /\ got[1] = 0 /\ ~indirect
    BY <1>2, <1>8 DEF Absent, Direct, Indirect
  <2>1. slots = <<2, 3>>
    BY <1>8, <2>0, PresentSlots
  <2>2. rows = <<shares[2], shares[3]>> /\ taken = <<got[2], got[3]>>
    <3>1. <<2, 3>> \in Seq(0..3)
      OBVIOUS
    <3>2. slots \in Seq(0..3)
      BY <2>1, <3>1
    <3> HIDE DEF slots
    <3> QED
      BY <1>1, <1>5, <2>1, <3>2, OverSlots
  <2> HIDE DEF rows, taken, slots
  <2>3. Len(rows) = 2 /\ rows[1] = shares[2] /\ rows[2] = shares[3]
    BY <2>2
  <2>4. T = RowSum(rows)
    <3>1. RowSum(rows) = 0 + rows[1] + rows[2]
      BY <2>3, RowSumIs
    <3> QED
      BY <1>1, <2>0, <2>3, <3>1
  <2>5. got[2] = Part(rows[1], T, amount)
    <3>1. T - shares[0] - shares[1] = T /\ amount - got[0] - got[1] = amount
      BY <1>1, <1>2, <2>0
    <3>2. got[2] = Part(shares[2], T, amount)
      BY <1>2, <3>1
    <3> QED
      BY <2>3, <3>2
  <2>6. got[3] = Remainder(T - rows[1], amount - got[2])
    <3>1. T - rows[1] = shares[3] /\ amount - got[2] = got[3]
      BY <1>1, <1>2, <1>5, <2>0, <2>3
    <3> QED
      BY <1>3, <2>3, <3>1
  <2>7. RefundLoop(rows, amount) = <<got[2], got[3]>>
    BY <1>5, <2>3, <2>4, <2>5, <2>6, LoopOfTwo
  <2>8. RefundLoop(rows, amount) = taken
    BY <2>2, <2>7
  <2> QED
    BY <2>8 DEF rows, taken, slots, got
<1> QED
  BY <1>6, <1>7, <1>8

-----------------------------------------------------------------------------
(* The order over any history of refunds.                                  *)

\* The rows are those of the shares after the refunds so far.
OrderAt(direct, indirect, shares) ==
    /\ Absent(shares, direct, indirect)
    /\ SumOf(shares) = paid
    /\ refunded \in 0..paid
    /\ parts = RowsAt(shares, Present(direct, indirect), refunded)

OrderInv ==
    /\ paid \in Nat \ {0}
    /\ \E direct, indirect \in BOOLEAN, shares \in Shares :
          OrderAt(direct, indirect, shares)

\* Each slot has one row, except those of the referrers that do not exist.
LEMMA SlotOfRow ==
  ASSUME NEW direct \in BOOLEAN, NEW indirect \in BOOLEAN, indirect => direct
  PROVE  LET slots == Present(direct, indirect)
         IN  /\ slots \in Seq(0..3)
             /\ Len(slots) \in 2..4
             /\ \A i \in 1..Len(slots) : slots[i] \in Slot
             /\ \A s \in Slot : \/ \E i \in 1..Len(slots) : slots[i] = s
                                \/ s = Direct /\ ~direct
                                \/ s = Indirect /\ ~indirect
<1> DEFINE slots == Present(direct, indirect)
<1>1. Slot = 0..3 /\ Direct = 0 /\ Indirect = 1
  BY DEF Slot, Direct, Indirect, Merchant
<1>2. /\ <<0, 1, 2, 3>> \in Seq(0..3)
      /\ <<0, 2, 3>> \in Seq(0..3)
      /\ <<2, 3>> \in Seq(0..3)
  OBVIOUS
<1>3. CASE direct /\ indirect
  <2>1. slots = <<0, 1, 2, 3>>
    BY <1>3, PresentSlots
  <2>2. Len(slots) = 4 /\ slots[1] = 0 /\ slots[2] = 1 /\ slots[3] = 2 /\ slots[4] = 3
    BY <2>1
  <2>3. slots \in Seq(0..3)
    BY <1>2, <2>1
  <2> HIDE DEF slots
  <2>4. /\ Len(slots) \in 2..4
        /\ \A i \in 1..Len(slots) : slots[i] \in Slot
        /\ \A s \in Slot : \E i \in 1..Len(slots) : slots[i] = s
    BY <1>1, <2>2
  <2> QED
    BY <2>3, <2>4 DEF slots
<1>4. CASE direct /\ ~indirect
  <2>1. slots = <<0, 2, 3>>
    BY <1>4, PresentSlots
  <2>2. Len(slots) = 3 /\ slots[1] = 0 /\ slots[2] = 2 /\ slots[3] = 3
    BY <2>1
  <2>3. slots \in Seq(0..3)
    BY <1>2, <2>1
  <2> HIDE DEF slots
  <2>4. /\ Len(slots) \in 2..4
        /\ \A i \in 1..Len(slots) : slots[i] \in Slot
        /\ \A s \in Slot : s = Indirect \/ \E i \in 1..Len(slots) : slots[i] = s
    BY <1>1, <2>2
  <2> QED
    BY <1>4, <2>3, <2>4 DEF slots
<1>5. CASE ~direct
  <2>1. slots = <<2, 3>>
    BY <1>5, PresentSlots
  <2>2. Len(slots) = 2 /\ slots[1] = 2 /\ slots[2] = 3
    BY <2>1
  <2>3. slots \in Seq(0..3)
    BY <1>2, <2>1
  <2> HIDE DEF slots
  <2>4. /\ Len(slots) \in 2..4
        /\ \A i \in 1..Len(slots) : slots[i] \in Slot
        /\ \A s \in Slot : \/ s = Direct \/ s = Indirect
                           \/ \E i \in 1..Len(slots) : slots[i] = s
    BY <1>1, <2>2
  <2> QED
    BY <1>5, <2>3, <2>4 DEF slots
<1> QED
  BY <1>3, <1>4, <1>5

LEMMA RowsOf ==
  ASSUME NEW shares \in Shares, NEW amount \in 0..SumOf(shares), NEW slots \in Seq(0..3),
         \A i \in 1..Len(slots) : slots[i] \in Slot
  PROVE  LET rows == RowsAt(shares, slots, amount)
         IN  /\ Len(rows) = Len(slots) /\ DOMAIN rows = 1..Len(slots)
             /\ \A i \in 1..Len(slots) :
                   /\ rows[i].slot = slots[i]
                   /\ rows[i].original = shares[slots[i]]
                   /\ rows[i].refunded = CumulativeRefund(shares, amount)[slots[i]]
<1> DEFINE rows == RowsAt(shares, slots, amount)
           got  == CumulativeRefund(shares, amount)
           R    == [slot : Slot, original : Nat, refunded : Nat]
           row(i) == [slot |-> slots[i], original |-> shares[slots[i]],
                      refunded |-> got[slots[i]]]
<1>1. \A s \in Slot : shares[s] \in Nat /\ got[s] \in Nat
  BY RefundExact DEF Shares
<1>2. Len(slots) \in Nat
  OBVIOUS
<1>3. rows = [i \in 1..Len(slots) |-> row(i)]
  BY DEF RowsAt
<1>4. \A i \in 1..Len(slots) : row(i) \in R
  BY <1>1
<1>5. \A i \in 1..Len(slots) :
         /\ row(i).slot = slots[i]
         /\ row(i).original = shares[slots[i]]
         /\ row(i).refunded = got[slots[i]]
  OBVIOUS
<1> HIDE DEF rows, row, R, got
<1>6. rows \in Seq(R) /\ Len(rows) = Len(slots) /\ DOMAIN rows = 1..Len(slots)
  BY <1>2, <1>3, <1>4
<1> QED
  BY <1>3, <1>5, <1>6 DEF rows, got

LEMMA OrderInit == Init => OrderInv
<1> SUFFICES ASSUME Init PROVE OrderInv
  OBVIOUS
<1>1. PICK amount \in 1..MaxPaid, base \in 0..MaxPaid, t \in SomeTerms,
           direct \in BOOLEAN, indirect \in BOOLEAN :
        /\ Splittable(amount, base, direct, indirect)
        /\ paid = amount
        /\ parts = Rows(Split(amount, base, t, direct, indirect),
                        Present(direct, indirect))
        /\ refunded = 0
  BY DEF Init
<1> DEFINE shares == Split(amount, base, t, direct, indirect)
           slots  == Present(direct, indirect)
<1>2. t \in Terms /\ amount \in Nat \ {0} /\ base \in Nat
  BY InstanceAssumption, MaxOperationAssumption
<1>3. shares \in Shares /\ SumOf(shares) = paid
  BY <1>1, <1>2, SplitConserves
<1>4. indirect => direct
  BY <1>1 DEF Splittable
<1>5. /\ ~direct => shares[Direct] = 0
      /\ ~indirect => shares[Indirect] = 0
  BY DEF Split, Referral, Slot, Direct, Indirect, Platform, Merchant
<1> HIDE DEF shares
<1>6. \A s \in Slot : CumulativeRefund(shares, 0)[s] = 0
  BY <1>3, FullRefundReverses
<1>7. \A i \in 1..Len(slots) : CumulativeRefund(shares, 0)[slots[i]] = 0
  BY <1>4, <1>6, SlotOfRow
<1>8. parts = RowsAt(shares, slots, 0)
  <2>1. parts = [i \in 1..Len(slots) |-> [slot |-> slots[i], original |-> shares[slots[i]],
                                          refunded |-> 0]]
    BY <1>1 DEF Rows, shares
  <2> HIDE DEF slots
  <2> QED
    BY <1>7, <2>1 DEF RowsAt
<1>9. OrderAt(direct, indirect, shares)
  BY <1>1, <1>2, <1>3, <1>4, <1>5, <1>8 DEF OrderAt, Absent
<1> QED
  BY <1>1, <1>2, <1>3, <1>9 DEF OrderInv

LEMMA OrderStep == OrderInv /\ [Next]_orderVars => OrderInv'
<1> SUFFICES ASSUME OrderInv, [Next]_orderVars PROVE OrderInv'
  OBVIOUS
<1>1. PICK direct \in BOOLEAN, indirect \in BOOLEAN, shares \in Shares :
         OrderAt(direct, indirect, shares)
  BY DEF OrderInv
<1>2. /\ paid \in Nat \ {0}
      /\ Absent(shares, direct, indirect) /\ SumOf(shares) = paid /\ refunded \in 0..paid
      /\ parts = RowsAt(shares, Present(direct, indirect), refunded)
  BY <1>1 DEF OrderAt, OrderInv
<1>3. ASSUME NEW amount \in 1..MaxPaid, PartialRefund(amount) PROVE OrderInv'
  <2> DEFINE slots == Present(direct, indirect)
             r     == refunded + amount
             targets == RefundLoop(Originals(parts), r)
             got   == CumulativeRefund(shares, r)
  <2>1. /\ r \in 0..SumOf(shares) /\ r \in 0..paid
        /\ refunded' = r /\ paid' = paid
        /\ parts' = [i \in DOMAIN parts |-> [parts[i] EXCEPT !.refunded = targets[i]]]
    BY <1>2, <1>3 DEF PartialRefund
  <2>2. /\ slots \in Seq(0..3) /\ Len(slots) \in Nat
        /\ \A i \in 1..Len(slots) : slots[i] \in Slot
    BY <1>2, SlotOfRow DEF Absent
  <2> HIDE DEF slots, r
  <2>3. /\ Len(parts) = Len(slots) /\ DOMAIN parts = 1..Len(slots)
        /\ \A i \in 1..Len(slots) : parts[i].original = shares[slots[i]]
    BY <1>2, <2>2, RowsOf DEF slots
  <2>4. Originals(parts) = [i \in 1..Len(slots) |-> shares[slots[i]]]
    BY <2>3 DEF Originals
  <2>5. targets = [i \in 1..Len(slots) |-> got[slots[i]]]
    <3>1. RefundLoop([i \in 1..Len(slots) |-> shares[slots[i]]], r) =
             [i \in 1..Len(slots) |-> got[slots[i]]]
      BY <1>2, <2>1, LoopIsCumulative DEF slots
    <3> HIDE DEF got
    <3> QED
      BY <2>4, <3>1
  <2> HIDE DEF targets, got
  <2>6. parts = [i \in 1..Len(slots) |->
                    [slot |-> slots[i], original |-> shares[slots[i]],
                     refunded |-> CumulativeRefund(shares, refunded)[slots[i]]]]
    BY <1>2 DEF RowsAt, slots
  <2>7. ASSUME NEW i \in 1..Len(slots)
        PROVE  [parts[i] EXCEPT !.refunded = targets[i]] =
                 [slot |-> slots[i], original |-> shares[slots[i]], refunded |-> got[slots[i]]]
    <3>1. targets[i] = got[slots[i]]
      BY <2>5
    <3>2. parts[i] = [slot |-> slots[i], original |-> shares[slots[i]],
                      refunded |-> CumulativeRefund(shares, refunded)[slots[i]]]
      BY <2>6
    <3> QED
      BY <3>1, <3>2
  <2>8. parts' = RowsAt(shares, slots, r)
    BY <2>1, <2>3, <2>7 DEF RowsAt, got
  <2>9. OrderAt(direct, indirect, shares)'
    BY <1>2, <2>1, <2>8 DEF OrderAt, Absent, slots
  <2> QED
    BY <1>2, <2>1, <2>9 DEF OrderInv
<1>4. CASE UNCHANGED orderVars
  BY <1>4 DEF OrderInv, OrderAt, orderVars
<1> QED
  BY <1>3, <1>4 DEF Next

(***************************************************************************)
(* After any history of refunds the rows of an order hold what the four-   *)
(* slot arithmetic computes from the totals, for every amount, every rule  *)
(* and every set of referrers (domain.rs 103-132, orders.rs 133-178).      *)
(***************************************************************************)
THEOREM RowsFollowSlots == Spec => []LoopAgrees
<1>1. OrderInv => LoopAgrees
  <2> SUFFICES ASSUME OrderInv PROVE LoopAgrees
    OBVIOUS
  <2>1. PICK direct \in BOOLEAN, indirect \in BOOLEAN, shares \in Shares :
           OrderAt(direct, indirect, shares)
    BY DEF OrderInv
  <2> DEFINE slots == Present(direct, indirect)
             got   == CumulativeRefund(shares, refunded)
  <2>2. /\ Absent(shares, direct, indirect) /\ refunded \in 0..SumOf(shares)
        /\ parts = RowsAt(shares, slots, refunded)
    BY <2>1 DEF OrderAt
  <2>3. /\ slots \in Seq(0..3)
        /\ \A i \in 1..Len(slots) : slots[i] \in Slot
        /\ \A s \in Slot : \/ \E i \in 1..Len(slots) : slots[i] = s
                           \/ s = Direct /\ ~direct
                           \/ s = Indirect /\ ~indirect
    BY <2>2, SlotOfRow DEF Absent
  <2> HIDE DEF slots
  <2>4. /\ DOMAIN parts = 1..Len(slots)
        /\ \A i \in 1..Len(slots) :
              /\ parts[i].slot = slots[i]
              /\ parts[i].original = shares[slots[i]]
              /\ parts[i].refunded = got[slots[i]]
    BY <2>2, <2>3, RowsOf
  <2>5. /\ \A s \in Slot : shares[s] \in Nat /\ got[s] \in 0..shares[s]
        /\ shares \in [Slot -> Nat] /\ got \in [Slot -> Nat]
    BY <2>2, Unfolded DEF Shares
  <2> HIDE DEF got
  <2>6. ASSUME NEW s \in Slot, ~ \E i \in 1..Len(slots) : slots[i] = s
        PROVE  shares[s] = 0 /\ got[s] = 0
    <3>1. shares[s] = 0
      BY <2>2, <2>3, <2>6 DEF Absent
    <3> QED
      BY <2>5, <3>1
  <2>7. ASSUME NEW s \in Slot
        PROVE  /\ Slots(Share)[s] = shares[s]
               /\ Slots(Returned)[s] = got[s]
    <3> DEFINE i == CHOOSE i \in DOMAIN parts : parts[i].slot = s
    <3>1. CASE \E j \in 1..Len(slots) : slots[j] = s
      <4>1. \E j \in DOMAIN parts : parts[j].slot = s
        BY <2>4, <3>1
      <4>2. i \in DOMAIN parts /\ parts[i].slot = s
        BY <4>1
      <4>3. /\ Slots(Share)[s] = parts[i].original
            /\ Slots(Returned)[s] = parts[i].refunded
        BY <4>1 DEF Slots, Share, Returned
      <4> QED
        BY <2>4, <4>2, <4>3
    <3>2. CASE ~ \E j \in 1..Len(slots) : slots[j] = s
      <4>1. ~ \E j \in DOMAIN parts : parts[j].slot = s
        BY <2>4, <3>2
      <4>2. Slots(Share)[s] = 0 /\ Slots(Returned)[s] = 0
        BY <4>1 DEF Slots
      <4> QED
        BY <2>6, <3>2, <4>2
    <3> QED
      BY <3>1, <3>2
  <2>8. Slots(Share) = shares
    <3>1. Slots(Share) = [s \in Slot |-> Slots(Share)[s]]
      BY DEF Slots
    <3> QED
      BY <2>5, <2>7, <3>1
  <2>9. Slots(Returned) = got
    <3>1. Slots(Returned) = [s \in Slot |-> Slots(Returned)[s]]
      BY DEF Slots
    <3> QED
      BY <2>5, <2>7, <3>1
  <2> QED
    BY <2>8, <2>9 DEF LoopAgrees, got
<1> QED
  BY <1>1, OrderInit, OrderStep, PTL DEF Spec

\* What q of an order of P is ahead of the share s of its proportion after a
\* refund of R, scaled by P.
Ahead(q, P, s, R) == q * P - R * s

(***************************************************************************)
(* The drift of one turn.  d is what the refund that reaches the turn is   *)
(* ahead of the proportion of the total that reaches it, e is what the     *)
(* turn's part is ahead of its own proportion, both scaled by the amount P *)
(* of the order: the part takes at most the whole drift, and falls behind  *)
(* by less than one fen; the drift of the next turn is d - e.              *)
(***************************************************************************)
LEMMA Drift ==
  ASSUME NEW s \in Nat, NEW T \in Nat, NEW r \in Nat, NEW P \in Nat, NEW R \in Nat,
         s <= T, r <= T, P > 0, Ahead(r, P, T, R) >= 0, NEW q, q = Part(s, T, r)
  PROVE  /\ Ahead(q, P, s, R) \in Int
         /\ Ahead(q, P, s, R) <= Ahead(r, P, T, R)
         /\ -P < Ahead(q, P, s, R)
         /\ Ahead(r - q, P, T - s, R) = Ahead(r, P, T, R) - Ahead(q, P, s, R)
<1> DEFINE d == r * P - R * T
           e == q * P - R * s
<1>0. d >= 0 /\ d \in Int
  BY DEF Ahead
<1>1. q \in Nat
  <2>1. q \in 0..s
    BY PartBounds
  <2> QED
    BY <2>1
<1>2. CASE T = 0
  <2>1. s = 0 /\ r = 0 /\ q = 0
    BY <1>2 DEF Part
  <2> QED
    BY <1>2, <2>1 DEF Ahead
<1>3. CASE T > 0
  <2>1. q = (r * s) \div T
    BY <1>3 DEF Part
  <2>2. q * T <= r * s /\ r * s < (q + 1) * T
    <3>1. r * s \in Nat
      OBVIOUS
    <3> QED
      BY <1>3, <2>1, <3>1, Quotient
  <2> DEFINE A == q * T
             B == r * s
             C == R * T
             D == r * P
  <2>3. /\ A \in Nat /\ B \in Nat /\ C \in Nat /\ D \in Nat
        /\ A <= B /\ B < A + T /\ C <= D
    BY <1>0, <1>1, <2>2
  <2>4. e * T = A * P - s * C
    BY <1>1
  <2>5. s * (D - C) = B * P - s * C
    OBVIOUS
  <2>6. d = D - C
    OBVIOUS
  <2>7. e \in Int
    BY <1>1
  <2> HIDE DEF A, B, C, D, e, d
  <2>8. s * (D - C) <= T * (D - C)
    <3>1. D - C \in Nat
      BY <2>3
    <3> QED
      BY <3>1, ScaleLe
  <2>9. e <= d
    <3>1. A * P <= B * P
      BY <2>3, ScaleLe
    <3>2. e * T <= d * T
      <4>1. A * P \in Int /\ B * P \in Int /\ s * C \in Int
        BY <2>3
      <4>2. e * T <= s * (D - C)
        BY <2>4, <2>5, <3>1, <4>1
      <4>3. T * (D - C) = d * T
        BY <2>3, <2>6
      <4>4. e * T \in Int /\ s * (D - C) \in Int /\ d * T \in Int
        BY <2>3, <2>6, <2>7
      <4> QED
        BY <2>8, <4>2, <4>3, <4>4
    <3>3. ASSUME d < e PROVE FALSE
      <4>1. d + 1 <= e /\ d \in Int /\ d + 1 \in Int
        BY <2>3, <2>6, <2>7, <3>3
      <4>2. (d + 1) * T <= e * T
        BY <2>7, <4>1, ScaleLe
      <4>3. (d + 1) * T = d * T + T
        BY <4>1
      <4>4. d * T \in Int /\ e * T \in Int
        BY <2>7, <4>1
      <4> QED
        BY <1>3, <3>2, <4>2, <4>3, <4>4
    <3> QED
      BY <2>3, <2>6, <2>7, <3>3
  <2>10. -P < e
    <3>1. B * P < (A + T) * P
      <4>1. B + 1 <= A + T /\ B + 1 \in Int /\ A + T \in Int
        BY <2>3
      <4>2. (B + 1) * P <= (A + T) * P
        BY <4>1, ScaleLe
      <4>3. (B + 1) * P = B * P + P
        BY <2>3
      <4>4. B * P \in Int /\ (A + T) * P \in Int
        BY <2>3
      <4> QED
        BY <4>2, <4>3, <4>4
    <3>2. (e + P) * T = (A + T) * P - s * C
      <4>1. (e + P) * T = e * T + T * P
        BY <2>7
      <4>2. (A + T) * P = A * P + T * P
        BY <2>3
      <4>3. A * P \in Int /\ s * C \in Int /\ T * P \in Int
        BY <2>3
      <4> QED
        BY <2>4, <4>1, <4>2, <4>3
    <3>3. 0 <= s * (D - C)
      <4>1. D - C \in Nat
        BY <2>3
      <4> QED
        BY <4>1
    <3>4. 0 * T < (e + P) * T
      <4>1. B * P \in Int /\ (A + T) * P \in Int /\ s * C \in Int /\ 0 * T = 0
        BY <2>3
      <4> QED
        BY <2>5, <3>1, <3>2, <3>3, <4>1
    <3>5. 0 < e + P
      BY <2>7, <3>4, UnscaleLt
    <3> QED
      BY <2>7, <3>5
  <2>11. (r - q) * P - R * (T - s) = d - e
    BY <1>1 DEF d, e
  <2> QED
    BY <1>0, <2>7, <2>9, <2>10, <2>11 DEF Ahead, d, e
<1> QED
  BY <1>2, <1>3

\* The drift of the four slots, in their order.
LEMMA SlotDrift ==
  ASSUME NEW shares \in Shares, NEW R \in 0..SumOf(shares), SumOf(shares) > 0
  PROVE  LET P     == SumOf(shares)
             ahead == [s \in Slot |-> Ahead(CumulativeRefund(shares, R)[s], P, shares[s], R)]
             d1    == 0 - ahead[0]
             d2    == d1 - ahead[1]
             d3    == d2 - ahead[2]
         IN  /\ P \in Nat
             /\ \A s \in Slot : ahead[s] \in Int /\ (shares[s] = 0 => ahead[s] = 0)
             /\ d1 \in Nat /\ d1 < P /\ - P < ahead[0]
             /\ d2 \in Nat /\ d2 < d1 + P /\ - P < ahead[1]
             /\ d3 \in Nat /\ d3 < d2 + P /\ - P < ahead[2]
             /\ ahead[3] = d3
<1> DEFINE P   == SumOf(shares)
           got == CumulativeRefund(shares, R)
           ahead == [s \in Slot |-> Ahead(got[s], P, shares[s], R)]
           T1  == P - shares[0]
           T2  == T1 - shares[1]
           r1  == R - got[0]
           r2  == r1 - got[1]
           e0  == Ahead(got[0], P, shares[0], R)
           e1  == Ahead(got[1], P, shares[1], R)
           e2  == Ahead(got[2], P, shares[2], R)
           e3  == Ahead(got[3], P, shares[3], R)
<1>1. /\ Slot = 0..3
      /\ shares[0] \in Nat /\ shares[1] \in Nat /\ shares[2] \in Nat /\ shares[3] \in Nat
      /\ P = shares[0] + shares[1] + shares[2] + shares[3]
  BY DEF Slot, Shares, SumOf, Direct, Indirect, Platform, Merchant
<1>2. /\ \A s \in Slot : got[s] \in 0..shares[s]
      /\ r1 \in 0..T1
      /\ r2 \in 0..T2
      /\ got[0] = Part(shares[0], P, R)
      /\ got[1] = Part(shares[1], T1, r1)
      /\ got[2] = Part(shares[2], T2, r2)
      /\ got[3] = r2 - got[2]
  BY Unfolded
<1>3. /\ P \in Nat /\ P > 0 /\ T1 \in Nat /\ T2 \in Nat
      /\ R \in Nat /\ R <= P
      /\ shares[0] <= P /\ shares[1] <= T1 /\ shares[2] <= T2
      /\ shares[3] = T2 - shares[2]
  BY <1>1
<1>4. /\ r1 \in Nat /\ r1 <= T1 /\ r2 \in Nat /\ r2 <= T2
      /\ got[0] \in Nat /\ got[1] \in Nat /\ got[2] \in Nat /\ got[3] \in Nat
  BY <1>1, <1>2, <1>3
<1>5. ASSUME NEW s \in Slot
      PROVE  ahead[s] \in Int /\ (shares[s] = 0 => ahead[s] = 0)
  <2>1. shares[s] \in Nat /\ got[s] \in 0..shares[s]
    BY <1>1, <1>2
  <2>2. got[s] \in Nat /\ (shares[s] = 0 => got[s] = 0)
    BY <2>1
  <2> HIDE DEF P, got
  <2>3. ahead[s] = got[s] * P - R * shares[s]
    BY DEF Ahead
  <2> QED
    BY <1>3, <2>1, <2>2, <2>3
<1>6. /\ ahead[0] = e0 /\ ahead[1] = e1 /\ ahead[2] = e2 /\ ahead[3] = e3
  <2>1. 0 \in Slot /\ 1 \in Slot /\ 2 \in Slot /\ 3 \in Slot
    BY <1>1
  <2> HIDE DEF P, got
  <2> QED
    BY <2>1
<1> HIDE DEF P, got, T1, T2, r1, r2, e0, e1, e2, e3
<1>7. e0 \in Int /\ e0 <= 0 /\ -P < e0 /\ Ahead(r1, P, T1, R) = 0 - e0
  <2>1. Ahead(R, P, P, R) = 0
    BY <1>3 DEF Ahead
  <2>2. /\ shares[0] \in Nat /\ P \in Nat /\ R \in Nat /\ got[0] = Part(shares[0], P, R)
        /\ shares[0] <= P /\ R <= P /\ P > 0 /\ Ahead(R, P, P, R) >= 0
    BY <1>1, <1>2, <1>3, <2>1
  <2>3. /\ Ahead(got[0], P, shares[0], R) \in Int
        /\ Ahead(got[0], P, shares[0], R) <= Ahead(R, P, P, R)
        /\ -P < Ahead(got[0], P, shares[0], R)
        /\ Ahead(R - got[0], P, P - shares[0], R) =
             Ahead(R, P, P, R) - Ahead(got[0], P, shares[0], R)
    BY <2>2, Drift
  <2> QED
    BY <2>1, <2>3 DEF r1, T1, e0
<1>8. e1 \in Int /\ e1 <= 0 - e0 /\ -P < e1 /\ Ahead(r2, P, T2, R) = 0 - e0 - e1
  <2>1. /\ shares[1] \in Nat /\ T1 \in Nat /\ r1 \in Nat /\ P \in Nat /\ R \in Nat
        /\ got[1] = Part(shares[1], T1, r1)
        /\ shares[1] <= T1 /\ r1 <= T1 /\ P > 0 /\ Ahead(r1, P, T1, R) >= 0
    BY <1>1, <1>2, <1>3, <1>4, <1>7
  <2>2. /\ Ahead(got[1], P, shares[1], R) \in Int
        /\ Ahead(got[1], P, shares[1], R) <= Ahead(r1, P, T1, R)
        /\ -P < Ahead(got[1], P, shares[1], R)
        /\ Ahead(r1 - got[1], P, T1 - shares[1], R) =
             Ahead(r1, P, T1, R) - Ahead(got[1], P, shares[1], R)
    BY <2>1, Drift
  <2> QED
    BY <1>7, <2>2 DEF r2, T2, e1
<1>9. e2 \in Int /\ e2 <= 0 - e0 - e1 /\ -P < e2 /\ e3 = 0 - e0 - e1 - e2
  <2>1. /\ shares[2] \in Nat /\ T2 \in Nat /\ r2 \in Nat /\ P \in Nat /\ R \in Nat
        /\ got[2] = Part(shares[2], T2, r2)
        /\ shares[2] <= T2 /\ r2 <= T2 /\ P > 0 /\ Ahead(r2, P, T2, R) >= 0
    BY <1>1, <1>2, <1>3, <1>4, <1>7, <1>8
  <2>2. /\ Ahead(got[2], P, shares[2], R) \in Int
        /\ Ahead(got[2], P, shares[2], R) <= Ahead(r2, P, T2, R)
        /\ -P < Ahead(got[2], P, shares[2], R)
        /\ Ahead(r2 - got[2], P, T2 - shares[2], R) =
             Ahead(r2, P, T2, R) - Ahead(got[2], P, shares[2], R)
    BY <2>1, Drift
  <2>3. got[3] = r2 - got[2] /\ shares[3] = T2 - shares[2]
    BY <1>2, <1>3
  <2> QED
    BY <1>8, <2>2, <2>3 DEF e2, e3
<1> HIDE DEF ahead
<1>10. /\ 0 - e0 \in Nat /\ 0 - e0 < P
       /\ 0 - e0 - e1 \in Nat /\ 0 - e0 - e1 < 0 - e0 + P
       /\ 0 - e0 - e1 - e2 \in Nat /\ 0 - e0 - e1 - e2 < 0 - e0 - e1 + P
  BY <1>3, <1>6, <1>7, <1>8, <1>9
<1>11. /\ P \in Nat
       /\ \A s \in Slot : ahead[s] \in Int /\ (shares[s] = 0 => ahead[s] = 0)
  BY <1>3, <1>5
<1>12. /\ 0 - ahead[0] \in Nat /\ 0 - ahead[0] < P /\ - P < ahead[0]
       /\ 0 - ahead[0] - ahead[1] \in Nat /\ 0 - ahead[0] - ahead[1] < 0 - ahead[0] + P
       /\ - P < ahead[1]
       /\ 0 - ahead[0] - ahead[1] - ahead[2] \in Nat
       /\ 0 - ahead[0] - ahead[1] - ahead[2] < 0 - ahead[0] - ahead[1] + P
       /\ - P < ahead[2]
       /\ ahead[3] = 0 - ahead[0] - ahead[1] - ahead[2]
  BY <1>6, <1>7, <1>8, <1>9, <1>10
<1> QED
  BY <1>11, <1>12 DEF ahead, got, P

(***************************************************************************)
(* Rounding stays bounded after any history of refunds, for every amount,  *)
(* rule and set of referrers: no party falls behind its proportion by a    *)
(* whole fen, the merchant is never behind, and a row is ahead by less     *)
(* than a fen for each row before it (domain.rs 99-131).                   *)
(***************************************************************************)
THEOREM RefundsNearlyProportional == Spec => []NearlyProportional
<1>1. OrderInv => NearlyProportional
  <2> SUFFICES ASSUME OrderInv PROVE NearlyProportional
    OBVIOUS
  <2>1. PICK direct \in BOOLEAN, indirect \in BOOLEAN, shares \in Shares :
           OrderAt(direct, indirect, shares)
    BY DEF OrderInv
  <2> DEFINE slots == Present(direct, indirect)
             R     == refunded
             got   == CumulativeRefund(shares, R)
             P     == SumOf(shares)
             ahead == [s \in Slot |-> Ahead(got[s], P, shares[s], R)]
             d1    == 0 - ahead[0]
             d2    == d1 - ahead[1]
             d3    == d2 - ahead[2]
             n     == Len(slots)
             Bounded(i, x) ==
                /\ 0 - ahead[x] < (IF i = n THEN 1 ELSE P)
                /\ ahead[x] < (IF i = 1 THEN 1 ELSE (i - 1) * P)
  <2>2. /\ Absent(shares, direct, indirect) /\ refunded \in 0..P /\ P = paid /\ P > 0
        /\ parts = RowsAt(shares, slots, refunded)
    BY <2>1 DEF OrderAt, OrderInv
  <2>3. /\ slots \in Seq(0..3)
        /\ \A i \in 1..Len(slots) : slots[i] \in Slot
    BY <2>2, SlotOfRow DEF Absent
  <2>4. /\ P \in Nat /\ P > 0
        /\ \A s \in Slot : ahead[s] \in Int /\ (shares[s] = 0 => ahead[s] = 0)
        /\ d1 \in Nat /\ d1 < P /\ - P < ahead[0]
        /\ d2 \in Nat /\ d2 < d1 + P /\ - P < ahead[1]
        /\ d3 \in Nat /\ d3 < d2 + P /\ - P < ahead[2]
        /\ ahead[3] = d3
    BY <2>2, SlotDrift
  <2>5. Slot = 0..3 /\ Direct = 0 /\ Indirect = 1
    BY DEF Slot, Direct, Indirect, Merchant
  <2> HIDE DEF P, got, ahead
  <2>6. /\ ahead[0] \in Int /\ ahead[1] \in Int /\ ahead[2] \in Int /\ ahead[3] \in Int
        /\ ahead[0] <= 0 /\ - P < ahead[0]
        /\ ahead[1] <= d1 /\ - P < ahead[1] /\ d1 < P
        /\ ahead[2] <= d2 /\ - P < ahead[2] /\ d2 < d1 + P
        /\ ahead[3] = d3 /\ d3 < d2 + P /\ d3 >= 0
        /\ d1 \in Nat /\ d2 \in Nat /\ d3 \in Nat
    BY <2>4, <2>5
  <2>7. /\ 1 * P = P /\ 2 * P = P + P /\ 3 * P = P + P + P
        /\ P \in Nat /\ P > 0
    BY <2>4
  <2>8. /\ ~direct => ahead[0] = 0 /\ ahead[1] = 0
        /\ ~indirect => ahead[1] = 0
    BY <2>2, <2>4, <2>5 DEF Absent
  <2>9. \A i \in 1..n : Bounded(i, slots[i])
    <3>1. CASE direct /\ indirect
      <4>1. slots = <<0, 1, 2, 3>>
        BY <3>1, PresentSlots
      <4>2. n = 4 /\ slots[1] = 0 /\ slots[2] = 1 /\ slots[3] = 2 /\ slots[4] = 3
        BY <4>1
      <4> HIDE DEF slots, n
      <4>3. Bounded(1, 0) /\ Bounded(2, 1) /\ Bounded(3, 2) /\ Bounded(4, 3)
        <5> HIDE DEF d1, d2, d3
        <5> QED
          BY <2>6, <2>7, <4>2
      <4> HIDE DEF Bounded
      <4> QED
        BY <4>2, <4>3
    <3>2. CASE direct /\ ~indirect
      <4>1. slots = <<0, 2, 3>>
        BY <3>2, PresentSlots
      <4>2. n = 3 /\ slots[1] = 0 /\ slots[2] = 2 /\ slots[3] = 3
        BY <4>1
      <4>3. d2 = d1
        BY <2>6, <2>8, <3>2
      <4> HIDE DEF slots, n
      <4>4. Bounded(1, 0) /\ Bounded(2, 2) /\ Bounded(3, 3)
        <5> HIDE DEF d1, d2, d3
        <5> QED
          BY <2>6, <2>7, <4>2, <4>3
      <4> HIDE DEF Bounded
      <4> QED
        BY <4>2, <4>4
    <3>3. CASE ~direct
      <4>1. slots = <<2, 3>>
        BY <2>2, <3>3, PresentSlots DEF Absent
      <4>2. n = 2 /\ slots[1] = 2 /\ slots[2] = 3
        BY <4>1
      <4>3. d2 = 0
        BY <2>6, <2>8, <3>3
      <4> HIDE DEF slots, n
      <4>4. Bounded(1, 2) /\ Bounded(2, 3)
        <5> HIDE DEF d1, d2, d3
        <5> QED
          BY <2>6, <2>7, <4>2, <4>3
      <4> HIDE DEF Bounded
      <4> QED
        BY <4>2, <4>4
    <3> QED
      BY <3>1, <3>2, <3>3
  <2> HIDE DEF slots, n
  <2>10. /\ Len(parts) = n /\ DOMAIN parts = 1..n
         /\ \A i \in 1..n :
               /\ parts[i].original = shares[slots[i]]
               /\ parts[i].refunded = got[slots[i]]
    BY <2>2, <2>3, RowsOf DEF P, got, n
  <2>11. \A s \in Slot : shares[s] \in Nat /\ got[s] \in 0..shares[s]
    BY <2>2, Unfolded DEF Shares, P, got
  <2>12. ASSUME NEW i \in 1..n
         PROVE  LET exact == parts[i].original * refunded
                    taken == parts[i].refunded * paid
                IN  /\ exact - taken < (IF i = Len(parts) THEN 1 ELSE paid)
                    /\ taken - exact < (IF i = 1 THEN 1 ELSE (i - 1) * paid)
                    /\ parts[i].refunded \in 0..parts[i].original
    <3> DEFINE x == slots[i]
               exact == parts[i].original * refunded
               taken == parts[i].refunded * paid
    <3> HIDE DEF Bounded
    <3>1. /\ x \in Slot /\ Bounded(i, x)
          /\ parts[i].original = shares[x] /\ parts[i].refunded = got[x]
          /\ shares[x] \in Nat /\ got[x] \in 0..shares[x] /\ got[x] \in Nat
      <4>1. x \in Slot
        BY <2>3 DEF n
      <4>2. Bounded(i, x) /\ parts[i].original = shares[x] /\ parts[i].refunded = got[x]
        BY <2>9, <2>10
      <4>3. shares[x] \in Nat /\ got[x] \in 0..shares[x]
        BY <2>11, <4>1
      <4> HIDE DEF x
      <4> QED
        BY <4>1, <4>2, <4>3
    <3> HIDE DEF x
    <3>2. ahead[x] = got[x] * P - refunded * shares[x]
      BY <3>1 DEF ahead, Ahead
    <3>3. refunded \in Nat /\ P = paid /\ P \in Nat
      BY <2>2, <2>4
    <3>4. taken - exact = ahead[x] /\ exact - taken = 0 - ahead[x]
      BY <3>1, <3>2, <3>3
    <3> HIDE DEF taken, exact
    <3>5. /\ exact - taken < (IF i = Len(parts) THEN 1 ELSE paid)
          /\ taken - exact < (IF i = 1 THEN 1 ELSE (i - 1) * paid)
          /\ parts[i].refunded \in 0..parts[i].original
      BY <2>10, <3>1, <3>3, <3>4 DEF Bounded
    <3> QED
      BY <3>5 DEF taken, exact
  <2> QED
    BY <2>10, <2>12 DEF NearlyProportional
<1> QED
  BY <1>1, OrderInit, OrderStep, PTL DEF Spec
=============================================================================
