---------------------------- MODULE ClientProofs ----------------------------
(***************************************************************************)
(* Proofs about Console for any number of actors and keys: its type        *)
(* invariant for any number of tabs, and, for a single tab, whichever      *)
(* storage calls fail and whether or not the record is deleted, that the   *)
(* console implements WriteSlot and never has two writes with an open      *)
(* outcome other than those it lost sight of.  With a second tab this is   *)
(* false (MCTabs.cfg).                                                     *)
(*                                                                         *)
(* OneWrite is not inductive by itself: it says nothing of the writes of   *)
(* the past.  Tracked ties every write with an open outcome to the local   *)
(* storage or to unguarded, and Certain says in which phases no write that *)
(* the storage guards has one.                                             *)
(*                                                                         *)
(* Then about Panels: what is displayed, for any number of selections and  *)
(* answers in any order.                                                   *)
(*                                                                         *)
(* Proofs about NativeBridge for any number of servers, actors, keys,      *)
(* restarts and requests: what memory keeps, that a key is sent under one  *)
(* identity only, and that the recovery file remembers every write that    *)
(* was sent and not answered for good.                                     *)
(*                                                                         *)
(* Three invariants lean on each other.  Memory relates the session, the   *)
(* recovery and the calls; Identity, whatever names a key anywhere: in     *)
(* memory, in both files, in what a power cut would leave of them, and in  *)
(* the requests; Remembered, the requests to the files and to memory.      *)
(***************************************************************************)
EXTENDS Console, Panels, NativeBridge, FiniteSetTheorems, TLAPS

\* The key of the stored write was handed out; a key that a tab waits for was
\* sent.
Issued ==
    /\ storage # None => storage.key \in issued
    /\ \A t \in Tabs : call[t] # None => call[t] \in transmitted

\* Keys with an open outcome that the client answers for.
Guarded == transmitted \ (settled \cup unguarded)

\* A guarded write is the stored one, and what the storage calls unsent was not
\* sent.
Tracked ==
    /\ storage # None /\ ~storage.attempted => storage.key \notin transmitted
    /\ \A k \in Guarded : storage # None /\ k = storage.key

\* A tab that offers to give a write up guards no open outcome; the request a
\* tab waits for is open; nobody has logged out in the middle of a write.
Certain ==
    \A t \in Tabs :
        /\ phase[t] \in {"Prepared", "Rejected", "Succeeded"} => Guarded = {}
        /\ call[t] # None => call[t] \in transmitted \ settled
        /\ ~LoggedIn(t) => phase[t] = "Editing"

ConsoleInv == ConsoleTypeOK /\ Issued /\ OneWrite /\ Tracked /\ Certain

-----------------------------------------------------------------------------
(* The steps of a tab.  What a page shows is of no concern to the write.   *)

Discards(t, h) ==
    /\ LoggedIn(t) /\ phase[t] \in MayGiveUp /\ pending[t][h] # None
    /\ Discarded(t, h)

Browses == UNCHANGED <<actor, phase, pending, call, storage, history>>

WriteStep(t, h) ==
    \/ \E k \in Keys : PrepareIn(t, h, k)
    \/ SendFrom(t, h)
    \/ SendFails(t, h)
    \/ Discards(t, h)
    \/ \E after \in {"Rejected", "Unknown"} : DiscardFails(t, h, after)

TabStep(t) ==
    \/ \E a \in Actors : Login(t, a)
    \/ Leave(t)
    \/ OpenDetail(t)
    \/ Browses
    \/ \E h \in Holders : WriteStep(t, h)
    \/ \E status \in Answers : Answer(t, status)

\* A form, or the recovery panel, only takes the steps of a holder.
LEMMA FormSteps ==
    ASSUME NEW t \in Tabs, NEW h \in Holders,
           \/ Form(t, h) \/ Sends(t, h)
           \/ DiscardFrom(t, h) \/ DiscardFails(t, h, "Rejected")
           \/ DiscardFails(t, h, "Unknown")
           \/ Complete(t, h)
           \/ \E k \in Keys : PrepareIn(t, h, k)
    PROVE  WriteStep(t, h)
<1>1. "Succeeded" \in MayGiveUp
  BY DEF MayGiveUp, MayEdit, Phase, Unresolved
<1>2. DiscardFrom(t, h) \/ Complete(t, h) => Discards(t, h)
  BY <1>1 DEF DiscardFrom, Complete, Discards
<1> QED
  BY <1>2 DEF Form, Sends, WriteStep

\* Every step of the console but Clear is the step of a tab.
LEMMA Steps ==
    ASSUME ConsoleNext, ~Clear
    PROVE  \E t \in Tabs : TabStep(t)
<1>1. PICK t \in Tabs :
        \/ \E a \in Actors : Login(t, a)
        \/ SignOut(t) \/ Reload(t)
        \/ \E p \in Pages : Navigate(t, p)
        \/ OpenDetail(t) \/ CloseDetail(t) \/ Quote(t)
        \/ RecoveryPanel(t) \/ CaptureForm(t) \/ RefundForm(t)
        \/ PayoutRequest(t) \/ PayoutAction(t) \/ Operations(t)
        \/ \E status \in Answers : Answer(t, status)
  BY DEF ConsoleNext
<1>2. CASE SignOut(t) \/ Reload(t)
  BY <1>2 DEF SignOut, Reload, TabStep
<1>3. CASE (\E p \in Pages : Navigate(t, p)) \/ CloseDetail(t) \/ Quote(t)
  <2>1. Browses
    BY <1>3 DEF Navigate, CloseDetail, Quote, SetQuoted, Browses
  <2> QED BY <2>1 DEF TabStep
<1>4. CASE RecoveryPanel(t) \/ CaptureForm(t) \/ RefundForm(t)
           \/ PayoutRequest(t) \/ PayoutAction(t) \/ Operations(t)
  <2>1. PICK h \in Holders :
          \/ Form(t, h) \/ Sends(t, h)
          \/ DiscardFrom(t, h) \/ DiscardFails(t, h, "Rejected")
          \/ DiscardFails(t, h, "Unknown")
          \/ Complete(t, h)
          \/ \E k \in Keys : PrepareIn(t, h, k)
    <3>1. CASE RecoveryPanel(t)
      BY <3>1 DEF RecoveryPanel, Holders
    <3>2. CASE CaptureForm(t)
      BY <3>2 DEF CaptureForm, Holders, Forms
    <3>3. CASE RefundForm(t)
      BY <3>3 DEF RefundForm, Holders, Forms
    <3>4. CASE PayoutRequest(t)
      BY <3>4 DEF PayoutRequest, Holders, Forms
    <3>5. CASE PayoutAction(t)
      BY <3>5 DEF PayoutAction, Holders, Forms
    <3>6. CASE Operations(t)
      BY <3>6 DEF Operations, Holders, Forms
    <3> QED BY <1>4, <3>1, <3>2, <3>3, <3>4, <3>5, <3>6
  <2>2. WriteStep(t, h)
    BY <2>1, FormSteps
  <2> QED BY <2>2 DEF TabStep
<1> QED BY <1>1, <1>2, <1>3, <1>4 DEF TabStep

-----------------------------------------------------------------------------
(* Types.                                                                  *)

ViewTypes ==
    /\ page \in [Tabs -> Pages]
    /\ detail \in [Tabs -> BOOLEAN]
    /\ quoted \in [Tabs -> {"no", "busy", "yes"}]

LEMMA ViewsTyped ==
    ASSUME ViewTypes, ConsoleNext, ~Clear
    PROVE  ViewTypes'
<1>1. PICK t \in Tabs :
        \/ \E a \in Actors : Login(t, a)
        \/ SignOut(t) \/ Reload(t)
        \/ \E p \in Pages : Navigate(t, p)
        \/ OpenDetail(t) \/ CloseDetail(t) \/ Quote(t)
        \/ RecoveryPanel(t) \/ CaptureForm(t) \/ RefundForm(t)
        \/ PayoutRequest(t) \/ PayoutAction(t) \/ Operations(t)
        \/ \E status \in Answers : Answer(t, status)
  BY DEF ConsoleNext
<1>2. ASSUME NEW p \in Pages, Show(t, p) PROVE ViewTypes'
  BY <1>2 DEF Show, ViewTypes
<1>3. ASSUME UNCHANGED <<page, detail, quoted>> PROVE ViewTypes'
  BY <1>3 DEF ViewTypes
<1>4. {"resource", "quote", "orders", "payouts"} = Pages
  BY DEF Pages
<1>5. ASSUME NEW h \in Holders, Form(t, h) \/ Sends(t, h) PROVE UNCHANGED <<page, detail, quoted>>
  BY <1>5 DEF Form, Sends, SendFrom, SendFails, PrepareIn, DiscardFrom, DiscardFails
<1>6. CASE (\E a \in Actors : Login(t, a)) \/ SignOut(t) \/ Reload(t)
           \/ \E p \in Pages : Navigate(t, p)
  <2>1. \E p \in Pages : Show(t, p)
    BY <1>6, <1>4 DEF Login, SignOut, Reload, Leave, Navigate
  <2> QED BY <2>1, <1>2
<1>7. CASE OpenDetail(t) \/ CloseDetail(t)
  BY <1>7 DEF OpenDetail, CloseDetail, ViewTypes
<1>8. CASE Quote(t)
  BY <1>8 DEF Quote, SetQuoted, ViewTypes
<1>9. CASE CaptureForm(t)
  <2>1. CASE Form(t, "capture")
    BY <2>1, <1>3, <1>5 DEF Holders, Forms
  <2>2. CASE Show(t, "orders")
    BY <2>2, <1>2, <1>4
  <2> QED BY <1>9, <2>1, <2>2 DEF CaptureForm
<1>10. CASE RecoveryPanel(t) \/ RefundForm(t) \/ PayoutRequest(t)
            \/ PayoutAction(t) \/ Operations(t)
  <2>1. UNCHANGED <<page, detail, quoted>>
    <3>1. CASE RecoveryPanel(t)
      BY <3>1, <1>5 DEF RecoveryPanel, Holders, DiscardFrom, DiscardFails
    <3>2. CASE RefundForm(t)
      BY <3>2, <1>5 DEF RefundForm, Holders, Forms
    <3>3. CASE PayoutRequest(t)
      BY <3>3, <1>5 DEF PayoutRequest, Holders, Forms
    <3>4. CASE PayoutAction(t)
      BY <3>4, <1>5 DEF PayoutAction, Holders, Forms
    <3>5. CASE Operations(t)
      BY <3>5, <1>5 DEF Operations, Holders, Forms, PrepareIn, DiscardFrom, DiscardFails
    <3> QED BY <1>10, <3>1, <3>2, <3>3, <3>4, <3>5
  <2> QED BY <2>1, <1>3
<1>11. CASE \E status \in Answers : Answer(t, status)
  BY <1>11, <1>3 DEF Answer
<1> QED BY <1>1, <1>6, <1>7, <1>8, <1>9, <1>10, <1>11

\* What PhaseAfter and RecoveredPhase may be.
LEMMA PhaseAfterTyped ==
    ASSUME NEW status \in Answers
    PROVE  /\ PhaseAfter(status) \in {"Succeeded", "Rejected", "Unknown"}
           /\ PhaseAfter(status) # "Unknown" <=> status \in Final
BY DEF PhaseAfter, Answers, Final

\* The type invariant with Issued is inductive, whatever the number of tabs: a
\* key that is sent was handed out because it is the stored one, and a key that
\* is answered was sent because a tab waits for it.
TypeInv == ConsoleTypeOK /\ Issued

LEMMA TypeStep ==
    ASSUME TypeInv, [ConsoleNext]_consoleVars
    PROVE  TypeInv'
<1>1. CASE UNCHANGED consoleVars
  BY <1>1 DEF TypeInv, Issued, ConsoleTypeOK, consoleVars, tabState, history
<1>2. CASE ConsoleNext /\ ~Clear
  <2>1. ViewTypes'
    BY <1>2, ViewsTyped DEF TypeInv, ConsoleTypeOK, ViewTypes
  <2>2. PICK t \in Tabs : TabStep(t)
    BY <1>2, Steps
  <2>3. ASSUME actor' \in [Tabs -> Actors \cup {None}],
               phase' \in [Tabs -> Phase \ {"Preparing"}],
               pending' \in [Tabs -> [Holders -> Keys \cup {None}]],
               call' \in [Tabs -> Keys \cup {None}],
               storage' \in Stored \cup {None},
               issued' \subseteq Keys, transmitted' \subseteq issued',
               settled' \subseteq transmitted', unguarded' \subseteq Keys,
               Issued'
        PROVE  TypeInv'
    BY <2>1, <2>3 DEF TypeInv, ConsoleTypeOK, ViewTypes
  <2> USE DEF TypeInv, Issued
  <2>4. Empty \in [Holders -> Keys \cup {None}]
    BY DEF Empty
  <2>5. ASSUME NEW a \in Actors, Login(t, a) PROVE TypeInv'
    <3>1. "recovery" \in Holders
      BY DEF Holders
    <3>2. CASE Recoverable(a)
               /\ phase' = [phase EXCEPT ![t] = RecoveredPhase]
               /\ pending' = [pending EXCEPT ![t] = [Empty EXCEPT !["recovery"] = storage.key]]
      <4>1. RecoveredPhase \in Phase \ {"Preparing"}
        BY DEF RecoveredPhase, Phase
      <4>2. storage.key \in Keys
        BY <3>2 DEF Recoverable, ConsoleTypeOK, Stored
      <4>3. [Empty EXCEPT !["recovery"] = storage.key] \in [Holders -> Keys \cup {None}]
        BY <4>2, <3>1, <2>4
      <4>4. unguarded' \subseteq Keys
        BY <2>5 DEF Login, ConsoleTypeOK
      <4> QED BY <2>3, <2>5, <3>2, <4>1, <4>3, <4>4 DEF Login, ConsoleTypeOK
    <3>3. CASE /\ phase' = [phase EXCEPT ![t] = "Editing"]
               /\ pending' = [pending EXCEPT ![t] = Empty]
      <4>1. unguarded' \subseteq Keys
        BY <2>5 DEF Login, ConsoleTypeOK
      <4> QED BY <2>3, <2>4, <2>5, <3>3, <4>1 DEF Login, ConsoleTypeOK, Phase
    <3> QED BY <2>5, <3>2, <3>3 DEF Login
  <2>6. CASE Leave(t)
    BY <2>3, <2>4, <2>6 DEF Leave, ConsoleTypeOK, history, Phase
  <2>7. CASE OpenDetail(t)
    BY <2>3, <2>7 DEF OpenDetail, ConsoleTypeOK, history
  <2>8. CASE Browses
    BY <2>3, <2>8 DEF Browses, ConsoleTypeOK, history
  <2>9. ASSUME NEW h \in Holders, NEW k \in Keys, PrepareIn(t, h, k) PROVE TypeInv'
    <3>1. storage' \in Stored
      BY <2>9 DEF PrepareIn, LoggedIn, ConsoleTypeOK, Stored
    <3>2. pending' \in [Tabs -> [Holders -> Keys \cup {None}]]
      <4>1. [pending[t] EXCEPT ![h] = k] \in [Holders -> Keys \cup {None}]
        BY DEF ConsoleTypeOK
      <4> QED BY <2>9, <4>1 DEF PrepareIn, ConsoleTypeOK
    <3>3. Issued'
      BY <2>9 DEF PrepareIn
    <3>4. /\ issued' \subseteq Keys /\ transmitted' \subseteq issued' /\ settled' \subseteq transmitted'
          /\ unguarded' \subseteq Keys
      BY <2>9 DEF PrepareIn, ConsoleTypeOK
    <3> QED BY <2>3, <2>9, <3>1, <3>2, <3>3, <3>4 DEF PrepareIn, ConsoleTypeOK, Phase
  <2>10. ASSUME NEW h \in Holders, SendFrom(t, h) PROVE TypeInv'
    <3> DEFINE k == pending[t][h]
    <3>1. k \in Keys /\ k \in issued /\ storage # None /\ storage.key = k
      BY <2>10 DEF SendFrom, Holds, ConsoleTypeOK
    <3>2. storage' \in Stored /\ storage'.key = storage.key
      BY <2>10 DEF SendFrom, Marked, Holds, ConsoleTypeOK, Stored
    <3>3. transmitted' \subseteq issued' /\ settled' \subseteq transmitted'
      BY <2>10, <3>1 DEF SendFrom, ConsoleTypeOK
    <3>4. Issued'
      BY <2>10, <3>1, <3>2 DEF SendFrom, ConsoleTypeOK
    <3>5. call' \in [Tabs -> Keys \cup {None}]
      BY <2>10, <3>1 DEF SendFrom, ConsoleTypeOK
    <3>6. phase' \in [Tabs -> Phase \ {"Preparing"}]
      BY <2>10 DEF SendFrom, ConsoleTypeOK, Phase
    <3>7. /\ actor' \in [Tabs -> Actors \cup {None}]
          /\ pending' \in [Tabs -> [Holders -> Keys \cup {None}]]
          /\ issued' \subseteq Keys /\ unguarded' \subseteq Keys
      BY <2>10 DEF SendFrom, ConsoleTypeOK
    <3> QED BY <2>3, <3>2, <3>3, <3>4, <3>5, <3>6, <3>7
  <2>11. ASSUME NEW h \in Holders, SendFails(t, h) PROVE TypeInv'
    <3>1. unguarded' \subseteq Keys
      BY <2>11 DEF SendFails, ConsoleTypeOK
    <3> QED BY <2>3, <2>11, <3>1 DEF SendFails, ConsoleTypeOK, Phase
  <2>12. ASSUME NEW h \in Holders, Discards(t, h) PROVE TypeInv'
    BY <2>3, <2>12 DEF Discards, Discarded, ConsoleTypeOK, Phase, history
  <2>13. ASSUME NEW h \in Holders, NEW after \in {"Rejected", "Unknown"},
                DiscardFails(t, h, after)
         PROVE  TypeInv'
    BY <2>3, <2>13 DEF DiscardFails, ConsoleTypeOK, Phase, history
  <2>14. ASSUME NEW status \in Answers, Answer(t, status) PROVE TypeInv'
    <3>1. PhaseAfter(status) \in Phase \ {"Preparing"}
      BY PhaseAfterTyped DEF Phase
    <3>2. phase' \in [Tabs -> Phase \ {"Preparing"}] /\ call' \in [Tabs -> Keys \cup {None}]
      BY <2>14, <3>1 DEF Answer, ConsoleTypeOK
    <3>3. settled' \subseteq transmitted'
      BY <2>14 DEF Answer, ConsoleTypeOK
    <3>4. Issued'
      BY <2>14 DEF Answer, ConsoleTypeOK
    <3> QED BY <2>3, <2>14, <3>2, <3>3, <3>4 DEF Answer, ConsoleTypeOK
  <2> QED
    BY <2>2, <2>5, <2>6, <2>7, <2>8, <2>9, <2>10, <2>11, <2>12, <2>13, <2>14
       DEF TabStep, WriteStep
<1>3. CASE Clear
  BY <1>3 DEF Clear, tabState, TypeInv, Issued, ConsoleTypeOK, Stored
<1> QED BY <1>1, <1>2, <1>3

LEMMA TypeInvariant == ConsoleSpec => []TypeInv
<1>1. ConsoleInit => TypeInv
  BY DEF ConsoleInit, TypeInv, Issued, ConsoleTypeOK, Phase, Pages, Empty
<1>2. TypeInv /\ [ConsoleNext]_consoleVars => TypeInv'
  BY TypeStep
<1> QED BY <1>1, <1>2, PTL DEF ConsoleSpec

\* The tabs, the local storage and the history keep their types.
THEOREM ConsoleTypeCorrect == ConsoleSpec => []ConsoleTypeOK
<1>1. TypeInv => ConsoleTypeOK
  BY DEF TypeInv
<1> QED BY <1>1, TypeInvariant, PTL

-----------------------------------------------------------------------------
(* A single tab.                                                           *)

SingleTab == \A t, u \in Tabs : t = u

\* OneWrite and Certain, for one tab.
TabInv(t) ==
    /\ \A h \in Holders : pending[t][h] # None =>
          /\ phase[t] # "Editing" /\ Kept(t, pending[t][h])
          /\ phase[t] = "Prepared" => pending[t][h] \notin transmitted
          /\ \A g \in Holders : pending[t][g] # None => g = h
    /\ call[t] # None <=> phase[t] = "Sending"
    /\ call[t] # None => Kept(t, call[t]) /\ (storage # None => storage.attempted)
    /\ phase[t] \in {"Prepared", "Rejected", "Succeeded"} => Guarded = {}
    /\ call[t] # None => call[t] \in transmitted \ settled
    /\ ~LoggedIn(t) => phase[t] = "Editing"

LEMMA Tabwise == OneWrite /\ Certain <=> \A t \in Tabs : TabInv(t)
BY DEF OneWrite, Certain, TabInv

\* A tab that may give its write up guards no open outcome.
LEMMA GivingUp ==
    ASSUME NEW t \in Tabs, NEW h \in Holders, TabInv(t), ConsoleTypeOK,
           phase[t] \in MayGiveUp, pending[t][h] # None
    PROVE  /\ Guarded = {}
           /\ call[t] = None
           /\ \A g \in Holders \ {h} : pending[t][g] = None
<1>1. phase[t] \in {"Prepared", "Rejected", "Succeeded"}
  BY DEF TabInv, ConsoleTypeOK, MayGiveUp, MayEdit, Unresolved, Phase
<1> QED
  BY <1>1 DEF TabInv

\* A retry that sends nothing leaves no guarded write: its own becomes
\* unguarded, and there was no other.
LEMMA RetryFails ==
    ASSUME NEW t \in Tabs, NEW h \in Holders, SendFails(t, h), TabInv(t), Tracked
    PROVE  Guarded' = {} /\ call[t] = None /\ Kept(t, pending[t][h])
<1>1. /\ phase[t] \in {"Prepared", "Unknown"} /\ pending[t][h] # None
      /\ UNCHANGED <<transmitted, settled>>
  BY DEF SendFails, MaySend
<1>2. call[t] = None /\ Kept(t, pending[t][h])
  BY <1>1 DEF TabInv
<1>3. CASE phase[t] = "Prepared"
  BY <1>1, <1>3 DEF SendFails, TabInv, Guarded
<1>4. CASE phase[t] = "Unknown"
  <2>1. unguarded' = unguarded \cup {pending[t][h]}
    BY <1>4 DEF SendFails
  <2>2. \A k \in Guarded : k = pending[t][h]
    BY <1>2 DEF Tracked, Kept, Holds
  <2> QED BY <1>1, <1>2, <2>1, <2>2 DEF Guarded
<1> QED BY <1>1, <1>2, <1>3, <1>4

\* Every step of the only tab keeps what ties it to the storage.
LEMMA TabKeeps ==
    ASSUME NEW t \in Tabs, TabStep(t), TabInv(t), Tracked, TypeInv
    PROVE  TabInv(t)' /\ Tracked'
<1> USE DEF TypeInv, ConsoleTypeOK
<1>1. ASSUME NEW a \in Actors, Login(t, a) PROVE TabInv(t)' /\ Tracked'
  <2>1. "recovery" \in Holders
    BY DEF Holders
  <2>2. call[t] = None /\ call' = call
    BY <1>1 DEF Login, TabInv
  <2>3. UNCHANGED <<storage, transmitted, settled>> /\ actor'[t] = a
    BY <1>1 DEF Login
  <2>4. actor'[t] # None
    BY <2>3, ConsoleAssumption
  <2>5. CASE Recoverable(a)
             /\ phase' = [phase EXCEPT ![t] = RecoveredPhase]
             /\ pending' = [pending EXCEPT ![t] = [Empty EXCEPT !["recovery"] = storage.key]]
             /\ unguarded' = unguarded \ {storage.key}
    <3>1. /\ phase'[t] = RecoveredPhase
          /\ \A h \in Holders : pending'[t][h] = IF h = "recovery" THEN storage.key ELSE None
      BY <2>1, <2>5 DEF Empty
    <3>2. /\ phase'[t] \in {"Unknown", "Prepared"}
          /\ phase'[t] = "Prepared" => ~storage.attempted
      BY <3>1 DEF RecoveredPhase
    <3>3. \A k \in Guarded' : k = storage.key
      BY <2>3, <2>5 DEF Tracked, Guarded
    <3>4. Tracked'
      BY <2>3, <2>5, <3>3 DEF Tracked, Recoverable
    <3>5. phase'[t] = "Prepared" => storage.key \notin transmitted
      BY <2>5, <3>2 DEF Tracked, Recoverable
    <3>6. phase'[t] = "Prepared" => Guarded' = {}
      BY <2>3, <3>3, <3>5 DEF Guarded
    <3>7. Holds(t, storage.key)'
      BY <2>3, <2>5 DEF Recoverable, Holds
    <3>8. \A h \in Holders : pending'[t][h] # None =>
            /\ phase'[t] # "Editing" /\ Kept(t, pending[t][h])'
            /\ phase'[t] = "Prepared" => pending'[t][h] \notin transmitted'
            /\ \A g \in Holders : pending'[t][g] # None => g = h
      BY <2>3, <3>1, <3>2, <3>5, <3>7 DEF Kept, Holds
    <3> QED BY <2>2, <2>4, <3>2, <3>4, <3>6, <3>8 DEF TabInv, LoggedIn
  <2>6. CASE /\ phase' = [phase EXCEPT ![t] = "Editing"]
             /\ pending' = [pending EXCEPT ![t] = Empty]
             /\ UNCHANGED unguarded
    <3>1. phase'[t] = "Editing" /\ \A h \in Holders : pending'[t][h] = None
      BY <2>6 DEF Empty
    <3>2. Tracked'
      BY <2>3, <2>6 DEF Tracked, Guarded
    <3> QED BY <2>2, <3>1, <3>2 DEF TabInv
  <2> QED BY <1>1, <2>5, <2>6 DEF Login
<1>2. CASE Leave(t)
  <2>1. /\ phase'[t] = "Editing" /\ call'[t] = None
        /\ \A h \in Holders : pending'[t][h] = None
    BY <1>2 DEF Leave, Empty
  <2> QED BY <1>2, <2>1 DEF Leave, history, TabInv, Tracked, Guarded
<1>3. CASE OpenDetail(t)
  <2>1. \A h \in Holders : pending'[t][h] # None => pending'[t][h] = pending[t][h]
    BY <1>3 DEF OpenDetail
  <2> QED
    BY <1>3, <2>1 DEF OpenDetail, history, TabInv, Tracked, Guarded, Kept, Holds, LoggedIn
<1>4. CASE Browses
  BY <1>4 DEF Browses, history, TabInv, Tracked, Guarded, Kept, Holds, LoggedIn
<1>5. ASSUME NEW h \in Holders, NEW k \in Keys, PrepareIn(t, h, k)
      PROVE  TabInv(t)' /\ Tracked'
  <2>1. /\ phase'[t] = "Prepared" /\ call'[t] = None /\ actor'[t] # None
        /\ \A g \in Holders : pending'[t][g] = IF g = h THEN k ELSE None
    BY <1>5 DEF PrepareIn, TabInv, LoggedIn
  <2>2. Guarded' = {} /\ k \notin transmitted'
    BY <1>5 DEF PrepareIn, Tracked, Guarded
  <2>3. storage' # None
    <3>1. storage' \in Stored
      BY <1>5 DEF PrepareIn, LoggedIn, Stored
    <3> QED BY <3>1, ConsoleAssumption
  <2>4. Holds(t, k)'
    BY <1>5, <2>3 DEF PrepareIn, Holds
  <2>5. Tracked'
    BY <1>5, <2>2 DEF PrepareIn, Tracked
  <2> QED BY <2>1, <2>2, <2>4, <2>5 DEF TabInv, Kept, Holds, LoggedIn
<1>6. ASSUME NEW h \in Holders, SendFrom(t, h) PROVE TabInv(t)' /\ Tracked'
  <2> DEFINE k == pending[t][h]
  <2>1. /\ storage # None /\ storage.key = k /\ storage.actor = actor[t]
        /\ k \in Keys /\ k # None
    BY <1>6 DEF SendFrom, Holds
  <2>2. /\ storage' \in Stored /\ storage'.key = k /\ storage'.actor = actor[t]
        /\ storage'.attempted
    BY <1>6, <2>1 DEF SendFrom, Marked, Stored
  <2>3. storage' # None
    BY <2>2, ConsoleAssumption
  <2>4. /\ phase'[t] = "Sending" /\ call'[t] = k
        /\ pending' = pending /\ actor' = actor /\ actor[t] # None
        /\ transmitted' = transmitted \cup {k} /\ settled' = settled \ {k}
        /\ unguarded' = unguarded \ {k}
    BY <1>6 DEF SendFrom, LoggedIn
  <2>5. Holds(t, k)'
    BY <2>2, <2>3, <2>4 DEF Holds
  <2>6. \A g \in Holders : pending[t][g] # None => g = h
    BY <1>6, <2>1 DEF TabInv
  <2>7. \A j \in Guarded' : j = k
    BY <2>1, <2>4 DEF Tracked, Guarded
  <2>8. Tracked'
    BY <2>2, <2>3, <2>7 DEF Tracked
  <2> QED BY <2>1, <2>2, <2>3, <2>4, <2>5, <2>6, <2>8 DEF TabInv, Kept, LoggedIn
<1>7. ASSUME NEW h \in Holders, SendFails(t, h) PROVE TabInv(t)' /\ Tracked'
  <2>1. Guarded' = {} /\ call[t] = None
    BY <1>7, RetryFails
  <2>2. /\ phase'[t] = "Rejected" /\ unguarded \subseteq unguarded'
        /\ UNCHANGED <<actor, pending, call, storage, transmitted>>
        /\ LoggedIn(t)
    BY <1>7 DEF SendFails
  <2>3. Tracked'
    BY <2>1, <2>2 DEF Tracked
  <2> QED BY <2>1, <2>2, <2>3 DEF TabInv, Kept, Holds, LoggedIn
<1>8. ASSUME NEW h \in Holders, Discards(t, h) PROVE TabInv(t)' /\ Tracked'
  <2>1. /\ Guarded = {}
        /\ call[t] = None
        /\ \A g \in Holders \ {h} : pending[t][g] = None
    BY <1>8, GivingUp DEF Discards
  <2>2. /\ phase'[t] = "Editing" /\ call'[t] = None
        /\ \A g \in Holders : pending'[t][g] = None
    BY <1>8, <2>1 DEF Discards, Discarded
  <2> QED BY <1>8, <2>1, <2>2 DEF Discards, Discarded, TabInv, Tracked, Guarded, history
<1>9. ASSUME NEW h \in Holders, NEW after \in {"Rejected", "Unknown"},
             DiscardFails(t, h, after)
      PROVE  TabInv(t)' /\ Tracked'
  <2>1. Guarded = {} /\ call[t] = None
    BY <1>9, GivingUp DEF DiscardFails
  <2>2. /\ phase'[t] = after /\ LoggedIn(t)
        /\ UNCHANGED <<actor, pending, call, storage, history>>
    BY <1>9 DEF DiscardFails
  <2>3. Guarded' = {} /\ Tracked'
    BY <2>1, <2>2 DEF Tracked, Guarded, history
  <2> QED BY <2>1, <2>2, <2>3 DEF TabInv, Kept, Holds, history, LoggedIn
<1>10. ASSUME NEW status \in Answers, Answer(t, status) PROVE TabInv(t)' /\ Tracked'
  <2>1. /\ PhaseAfter(status) \in {"Succeeded", "Rejected", "Unknown"}
        /\ PhaseAfter(status) # "Unknown" <=> status \in Final
    BY PhaseAfterTyped
  <2>2. /\ phase'[t] = PhaseAfter(status) /\ call'[t] = None
        /\ UNCHANGED <<actor, pending, storage, transmitted, unguarded>>
    BY <1>10 DEF Answer
  <2>3. call[t] # None /\ Kept(t, call[t])
    BY <1>10 DEF Answer, TabInv
  <2>4. Guarded' \subseteq Guarded
    BY <1>10 DEF Answer, Guarded
  <2>5. \A k \in Guarded : k = call[t]
    BY <2>3 DEF Tracked, Kept, Holds
  <2>6. status \in Final => Guarded' = {}
    BY <1>10, <2>4, <2>5 DEF Answer, Guarded
  <2>7. Tracked'
    BY <2>2, <2>4 DEF Tracked
  <2>8. LoggedIn(t)
    BY <1>10, <2>3 DEF Answer, TabInv
  <2> QED BY <2>1, <2>2, <2>6, <2>7, <2>8 DEF TabInv, Kept, Holds, LoggedIn
<1> QED
  BY <1>1, <1>2, <1>3, <1>4, <1>5, <1>6, <1>7, <1>8, <1>9, <1>10 DEF TabStep, WriteStep

\* So does the deletion of the stored write.
LEMMA ClearKeeps ==
    ASSUME NEW t \in Tabs, Clear, TabInv(t), Tracked
    PROVE  TabInv(t)' /\ Tracked'
<1>1. /\ storage # None /\ storage' = None
      /\ unguarded' = unguarded \cup {storage.key}
      /\ UNCHANGED <<actor, phase, pending, call, transmitted, settled>>
  BY DEF Clear, tabState
<1>2. Guarded' = {}
  BY <1>1 DEF Tracked, Guarded
<1>4. \A k : Kept(t, k) => Kept(t, k)'
  BY <1>1 DEF Kept, Holds
<1>5. Tracked'
  BY <1>1, <1>2 DEF Tracked
<1> QED
  BY <1>1, <1>2, <1>4, <1>5 DEF TabInv, LoggedIn

\* What holds of the only tab, the storage and the history in every state.
Safe == TypeInv /\ Tracked /\ \A t \in Tabs : TabInv(t)

LEMMA SafeInvariant ==
    ASSUME SingleTab
    PROVE  ConsoleSpec => []Safe
<1>1. ConsoleInit => Safe
  <2> SUFFICES ASSUME ConsoleInit PROVE Safe
    OBVIOUS
  <2>1. TypeInv
    BY DEF ConsoleInit, TypeInv, Issued, ConsoleTypeOK, Phase, Pages, Empty
  <2>2. Tracked
    BY DEF ConsoleInit, Tracked, Guarded
  <2>3. \A t \in Tabs : TabInv(t)
    BY DEF ConsoleInit, TabInv, Empty
  <2> QED BY <2>1, <2>2, <2>3 DEF Safe
<1>2. Safe /\ [ConsoleNext]_consoleVars => Safe'
  <2> SUFFICES ASSUME Safe, [ConsoleNext]_consoleVars PROVE Safe'
    OBVIOUS
  <2>1. TypeInv'
    BY TypeStep DEF Safe
  <2>2. CASE UNCHANGED consoleVars
    BY <2>1, <2>2 DEF Safe, TabInv, Tracked, Guarded, Kept, Holds, LoggedIn,
                      consoleVars, tabState, history
  <2>3. CASE ConsoleNext /\ ~Clear
    <3>1. PICK t \in Tabs : TabStep(t)
      BY <2>3, Steps
    <3>2. TabInv(t)' /\ Tracked'
      BY <3>1, TabKeeps DEF Safe
    <3>3. \A u \in Tabs : TabInv(u)'
      BY <3>2 DEF SingleTab
    <3> QED BY <2>1, <3>2, <3>3 DEF Safe
  <2>4. CASE Clear
    <3>1. \A t \in Tabs : TabInv(t)' /\ Tracked'
      BY <2>4, ClearKeeps DEF Safe
    <3>2. Tracked'
      BY <2>4 DEF Clear, Safe, Tracked, Guarded
    <3> QED BY <2>1, <3>1, <3>2 DEF Safe
  <2> QED BY <2>2, <2>3, <2>4
<1> QED BY <1>1, <1>2, PTL DEF ConsoleSpec

\* With one tab, at most one form holds a write, the stored one of the actor
\* who is logged in unless it was deleted, and a write shown as Prepared was
\* never sent: whichever storage calls fail.
THEOREM OneWriteAtATime ==
    ASSUME SingleTab
    PROVE  ConsoleSpec => []OneWrite
<1>1. Safe => OneWrite
  BY Tabwise DEF Safe
<1> QED BY <1>1, SafeInvariant, PTL

\* With one tab, no two keys have an open outcome beside those whose retry
\* could not be sent or whose record was deleted: every other such key is that
\* of the stored write.
THEOREM NoKeySilentlyReplaced ==
    ASSUME SingleTab
    PROVE  ConsoleSpec => []NoSilentReplacement
<1>1. Safe => NoSilentReplacement
  <2> SUFFICES ASSUME Safe PROVE NoSilentReplacement
    OBVIOUS
  <2>1. transmitted \ (settled \cup unguarded) \subseteq {storage.key}
    BY DEF Safe, Tracked, Guarded
  <2>2. IsFiniteSet({storage.key}) /\ Cardinality({storage.key}) = 1
    BY FS_Singleton
  <2>3. Cardinality(transmitted \ (settled \cup unguarded)) <= Cardinality({storage.key})
    BY <2>1, <2>2, FS_Subset
  <2> QED BY <2>2, <2>3 DEF NoSilentReplacement
<1> QED BY <1>1, SafeInvariant, PTL

-----------------------------------------------------------------------------
(* The local storage of a single tab implements WriteSlot.                 *)

LEMMA SlotTyped ==
    ASSUME TypeInv, storage # None
    PROVE  /\ Slot # None
           /\ Slot.actor = storage.actor /\ Slot.key = storage.key
           /\ Slot.state = IF storage.key \notin transmitted THEN "prepared"
                           ELSE IF storage.key \in settled THEN "concluded" ELSE "open"
<1>1. storage \in Stored
  BY DEF TypeInv, ConsoleTypeOK
<1>2. Slot = [actor |-> storage.actor, key |-> storage.key,
              state |-> IF storage.key \notin transmitted THEN "prepared"
                        ELSE IF storage.key \in settled THEN "concluded" ELSE "open"]
  BY DEF Slot
<1>3. Slot \in Slots
  BY <1>1, <1>2 DEF Stored, Slots
<1> QED
  BY <1>2, <1>3, ConsoleAssumption

\* Every step of the only tab is a step of the slot, or none.
LEMMA SlotStep ==
    ASSUME NEW t \in Tabs, TabStep(t), Safe
    PROVE  [Promise!SlotNext]_<<Slot, issued, unguarded>>
<1>1. TypeInv /\ Tracked /\ TabInv(t)
  BY DEF Safe
<1> DEFINE Stays == UNCHANGED <<Slot, issued, unguarded>>
<1>2. ASSUME UNCHANGED <<storage, history>> PROVE Stays
  BY <1>2 DEF Slot, history
<1>3. CASE \/ Leave(t) \/ OpenDetail(t) \/ Browses
           \/ \E h \in Holders, after \in {"Rejected", "Unknown"} : DiscardFails(t, h, after)
  <2>1. UNCHANGED <<storage, history>>
    BY <1>3 DEF Leave, OpenDetail, Browses, DiscardFails
  <2> QED BY <2>1, <1>2
<1>4. ASSUME NEW h \in Holders, NEW k \in Keys, PrepareIn(t, h, k)
      PROVE  Promise!SlotNext
  <2>1. actor[t] \in Actors
    BY <1>1, <1>4 DEF PrepareIn, LoggedIn, TypeInv, ConsoleTypeOK
  <2>2. storage' \in Stored
    BY <1>4, <2>1 DEF PrepareIn, Stored
  <2>3. storage' # None
    BY <2>2, ConsoleAssumption
  <2>4. storage'.key \notin transmitted'
    BY <1>1, <1>4 DEF PrepareIn, TypeInv, ConsoleTypeOK
  <2>5. Slot = None
    BY <1>4 DEF PrepareIn, Slot
  <2>6. Slot' = [actor |-> actor[t], key |-> k, state |-> "prepared"]
    BY <1>4, <2>3, <2>4 DEF PrepareIn, Slot
  <2>7. Promise!Prepare(actor[t], k)
    BY <1>4, <2>5, <2>6 DEF PrepareIn, Promise!Prepare, Promise!Write
  <2> QED BY <2>1, <2>7 DEF Promise!SlotNext
<1>5. ASSUME NEW h \in Holders, SendFrom(t, h) PROVE Promise!SlotNext
  <2> DEFINE k == pending[t][h]
  <2>1. storage # None /\ storage.key = k /\ storage \in Stored
    BY <1>1, <1>5 DEF SendFrom, Holds, TypeInv, ConsoleTypeOK
  <2>2. /\ storage' \in Stored /\ storage'.key = k /\ storage'.actor = storage.actor
    BY <1>5, <2>1 DEF SendFrom, Marked, Stored
  <2>3. storage' # None
    BY <2>2, ConsoleAssumption
  <2>4. /\ k \in transmitted' /\ k \notin settled' /\ issued' = issued
        /\ unguarded' = unguarded \ {k}
    BY <1>5 DEF SendFrom
  <2>5. Slot' = [actor |-> storage.actor, key |-> k, state |-> "open"]
    BY <2>2, <2>3, <2>4 DEF Slot
  <2>6. Slot # None /\ Slot.actor = storage.actor /\ Slot.key = k
    BY <1>1, <2>1, SlotTyped
  <2>7. Promise!Send
    BY <2>4, <2>5, <2>6 DEF Promise!Send, Promise!Write
  <2> QED BY <2>7 DEF Promise!SlotNext
<1>6. ASSUME NEW h \in Holders, Discards(t, h) PROVE Promise!SlotNext \/ Stays
  <2>1. Guarded = {}
    BY <1>1, <1>6, GivingUp DEF Discards, TypeInv
  <2>2. storage' = None /\ UNCHANGED <<issued, unguarded>>
    BY <1>6 DEF Discards, Discarded, history
  <2>3. Slot' = None
    BY <2>2 DEF Slot
  <2>4. CASE storage = None
    BY <2>2, <2>3, <2>4 DEF Slot
  <2>5. CASE storage # None
    <3>1. Slot # None /\ (Slot.state # "open" \/ Slot.key \in unguarded)
      BY <1>1, <2>1, <2>5, SlotTyped DEF Guarded
    <3>2. Promise!Drop
      BY <2>2, <2>3, <3>1 DEF Promise!Drop
    <3> QED BY <3>2 DEF Promise!SlotNext
  <2> QED BY <2>4, <2>5
<1>7. ASSUME NEW status \in Answers, Answer(t, status) PROVE Promise!SlotNext \/ Stays
  <2>1. UNCHANGED <<storage, issued, transmitted, unguarded>>
    BY <1>7 DEF Answer
  <2>2. CASE status \notin Final
    <3>1. settled' = settled
      BY <1>7, <2>2 DEF Answer
    <3> QED BY <2>1, <3>1, <1>2 DEF history
  <2>3. CASE status \in Final /\ storage = None
    BY <2>1, <2>3 DEF Slot
  <2>4. CASE status \in Final /\ storage # None
    <3>1. storage.key = call[t] /\ call[t] \in transmitted \ settled
      BY <1>1, <1>7, <2>4 DEF Answer, TabInv, Kept, Holds
    <3>2. settled' = settled \cup {call[t]}
      BY <1>7, <2>4 DEF Answer
    <3>3. /\ Slot # None /\ Slot.state = "open"
          /\ Slot.actor = storage.actor /\ Slot.key = storage.key
      BY <1>1, <2>4, <3>1, SlotTyped
    <3>4. Slot' = [actor |-> storage.actor, key |-> storage.key, state |-> "concluded"]
      BY <2>1, <2>4, <3>1, <3>2 DEF Slot
    <3>5. Promise!Conclude
      BY <2>1, <3>3, <3>4 DEF Promise!Conclude, Promise!Write
    <3> QED BY <3>5 DEF Promise!SlotNext
  <2> QED BY <2>2, <2>3, <2>4
<1>8. ASSUME NEW h \in Holders, SendFails(t, h) PROVE Promise!SlotNext \/ Stays
  <2>1. /\ UNCHANGED <<storage, issued, transmitted, settled>>
        /\ unguarded' = unguarded \/ unguarded' = unguarded \cup {pending[t][h]}
    BY <1>8 DEF SendFails
  <2>2. UNCHANGED Slot
    BY <2>1 DEF Slot
  <2>3. Kept(t, pending[t][h])
    BY <1>1, <1>8, RetryFails
  <2>4. CASE storage = None
    BY <2>1, <2>2, <2>3, <2>4 DEF Kept, Holds
  <2>5. CASE storage # None
    <3>1. Slot # None /\ Slot.key = pending[t][h]
      BY <1>1, <2>3, <2>5, SlotTyped DEF Kept, Holds
    <3> QED BY <2>1, <2>2, <3>1 DEF Promise!Refuse, Promise!SlotNext
  <2> QED BY <2>4, <2>5
<1>9. ASSUME NEW a \in Actors, Login(t, a) PROVE Promise!SlotNext \/ Stays
  <2>1. UNCHANGED <<storage, issued, transmitted, settled>>
    BY <1>9 DEF Login
  <2>2. UNCHANGED Slot
    BY <2>1 DEF Slot
  <2>3. CASE UNCHANGED unguarded
    BY <2>1, <2>2, <2>3
  <2>4. CASE Recoverable(a) /\ unguarded' = unguarded \ {storage.key}
    <3>1. Slot # None /\ Slot.key = storage.key
      BY <1>1, <2>4, SlotTyped DEF Recoverable
    <3> QED BY <2>1, <2>2, <2>4, <3>1 DEF Promise!Resume, Promise!SlotNext
  <2> QED BY <1>9, <2>3, <2>4 DEF Login
<1>10. Promise!SlotNext \/ Stays
  BY <1>3, <1>4, <1>5, <1>6, <1>7, <1>8, <1>9 DEF TabStep, WriteStep
<1> QED
  BY <1>10

\* A record that is deleted empties the slot from outside.
LEMMA ClearedSlot ==
    ASSUME Clear, Safe
    PROVE  Promise!Lose
<1>1. Slot # None /\ Slot.key = storage.key
  BY SlotTyped DEF Clear, Safe
<1>2. Slot' = None
  BY DEF Clear, Slot
<1> QED
  BY <1>1, <1>2 DEF Clear, Promise!Lose

\* With one tab, the local storage keeps what WriteSlot promises whichever of
\* its calls fail: a write that was sent and not answered for good is neither
\* dropped nor replaced, except after a retry that could not be sent or when its
\* record is deleted.
THEOREM ConsoleImplementsSlot ==
    ASSUME SingleTab
    PROVE  ConsoleSpec => KeepsWrite
<1>1. ConsoleInit => Promise!SlotInit
  BY DEF ConsoleInit, Promise!SlotInit, Slot
<1>2. Safe /\ [ConsoleNext]_consoleVars => [Promise!SlotNext]_<<Slot, issued, unguarded>>
  <2>1. ASSUME Safe, ConsoleNext PROVE [Promise!SlotNext]_<<Slot, issued, unguarded>>
    <3>1. CASE Clear
      BY <2>1, <3>1, ClearedSlot DEF Promise!SlotNext
    <3>2. CASE ~Clear
      <4>1. PICK t \in Tabs : TabStep(t)
        BY <2>1, <3>2, Steps
      <4> QED BY <2>1, <4>1, SlotStep
    <3> QED BY <3>1, <3>2
  <2>2. UNCHANGED consoleVars => UNCHANGED <<Slot, issued, unguarded>>
    BY DEF consoleVars, history, Slot
  <2> QED BY <2>1, <2>2
<1> QED
  BY <1>1, <1>2, SafeInvariant, PTL DEF ConsoleSpec, KeepsWrite, Promise!SlotSpec

-----------------------------------------------------------------------------
(* The panels.                                                             *)

Newest == [panel |-> panel, version |-> version, query |-> selected]

\* The reads on their way are older than the newest one, or are it, and then
\* something is selected.
PanelsInv ==
    /\ panel \in Nat /\ version \in Nat
    /\ \A r \in reads :
          /\ r.panel \in Nat /\ r.version \in Nat /\ r.panel <= panel
          /\ r.panel = panel => r.version <= version
          /\ IsCurrent(r) => selected # Blank /\ r = Newest
    /\ ShownIsSelected

LEMMA EffectKeeps ==
    ASSUME NEW p \in Nat, NEW g \in Nat, NEW q \in Queries \cup {Blank},
           PanelsInv, RunEffect(p, g, q), panel' = p,
           \A r \in reads : r.panel < p \/ (r.panel = p /\ r.version < g)
    PROVE  PanelsInv'
<1> DEFINE new == [panel |-> p, version |-> g, query |-> q]
<1>1. /\ selected' = q /\ version' = g /\ shown' = Blank
      /\ reads' = IF q = Blank THEN reads ELSE reads \cup {new}
  BY DEF RunEffect
<1>2. Newest' = new
  BY <1>1 DEF Newest
<1>3. new.panel = p /\ new.version = g
  OBVIOUS
<1>4. ASSUME NEW r \in reads'
      PROVE  /\ r.panel \in Nat /\ r.version \in Nat /\ r.panel <= p
             /\ r.panel = p => r.version <= g
             /\ r.panel = p /\ r.version = g => q # Blank /\ r = new
  <2>1. CASE r \in reads
    BY <2>1 DEF PanelsInv
  <2>2. CASE q # Blank /\ r = new
    BY <1>3, <2>2
  <2> QED BY <1>1, <1>4, <2>1, <2>2
<1>5. ShownIsSelected'
  BY <1>1 DEF ShownIsSelected
<1> HIDE DEF new
<1> QED
  BY <1>1, <1>2, <1>4, <1>5 DEF PanelsInv, IsCurrent

\* A panel displays what this mounting has read for what is selected now.
THEOREM DisplayIsCurrent == PanelsSpec => []ShownIsSelected
<1>1. PanelsInit => PanelsInv
  BY DEF PanelsInit, PanelsInv, ShownIsSelected
<1>2. PanelsInv /\ [PanelsNext]_panelVars => PanelsInv'
  <2> SUFFICES ASSUME PanelsInv, [PanelsNext]_panelVars PROVE PanelsInv'
    OBVIOUS
  <2>1. ASSUME NEW q \in Queries \cup {Blank}, Mount(q) PROVE PanelsInv'
    <3>1. /\ RunEffect(panel + 1, 1, q) /\ panel' = panel + 1 /\ panel + 1 \in Nat
          /\ \A r \in reads : r.panel < panel + 1
      BY <2>1 DEF Mount, PanelsInv
    <3> QED BY <3>1, EffectKeeps
  <2>2. ASSUME NEW q \in Queries \cup {Blank}, Select(q) PROVE PanelsInv'
    <3>1. /\ RunEffect(panel, version + 1, q) /\ panel' = panel
          /\ panel \in Nat /\ version + 1 \in Nat
          /\ \A r \in reads : r.panel < panel \/ (r.panel = panel /\ r.version < version + 1)
      BY <2>2 DEF Select, PanelsInv
    <3> QED BY <3>1, EffectKeeps
  <2>3. ASSUME NEW r \in reads, Arrive(r) PROVE PanelsInv'
    <3>1. /\ reads' = reads \ {r} /\ UNCHANGED <<panel, selected, version>>
          /\ shown' = IF IsCurrent(r) THEN r ELSE shown
      BY <2>3 DEF Arrive
    <3>2. IsCurrent(r) => selected # Blank /\ r = Newest
      BY DEF PanelsInv
    <3>3. IsCurrent(Newest)
      BY DEF Newest, IsCurrent
    <3>4. IF selected = Blank THEN shown' = Blank
          ELSE shown' = Newest \/ (shown' = Blank /\ Newest \in reads')
      <4>1. IF selected = Blank THEN shown = Blank
            ELSE shown = Newest \/ (shown = Blank /\ Newest \in reads)
        BY DEF PanelsInv, ShownIsSelected, Newest
      <4> QED BY <3>1, <3>2, <3>3, <4>1
    <3>5. ShownIsSelected'
      BY <3>1, <3>4 DEF ShownIsSelected, Newest
    <3> QED BY <3>1, <3>5 DEF PanelsInv, IsCurrent, Newest
  <2>4. CASE UNCHANGED panelVars
    BY <2>4 DEF panelVars, PanelsInv, ShownIsSelected, IsCurrent, Newest
  <2> QED BY <2>1, <2>2, <2>3, <2>4 DEF PanelsNext
<1>3. PanelsInv => ShownIsSelected
  BY DEF PanelsInv
<1> QED
  BY <1>1, <1>2, <1>3, PTL DEF PanelsSpec


-----------------------------------------------------------------------------
(* The recovery file.                                                      *)

Files == [path : StoredPending \cup {Absent}, next : StoredPending \cup {Absent, Torn}]

\* However far write_store gets, the files hold nothing but what they held and
\* the new write, and a file that is lost is replaced by the new write or torn.
LEMMA WriteFiles ==
    ASSUME NEW f \in Files, NEW stored \in StoredPending, NEW w \in WriteOutcomes(f, stored)
    PROVE  /\ w.files \in Files /\ w.older \in Files
           /\ w.result \in {"ok", "err", "crash"}
           /\ {w.files.path, w.files.next, w.older.path, w.older.next}
                 \subseteq {f.path, f.next, stored, Absent, Torn}
           /\ w.result = "ok" => LoadStore(w.files) = stored
           /\ LoadStore(f) \in {stored, Torn} => LoadStore(w.files) \in {stored, Torn}
<1> DEFINE torn == [f EXCEPT !.next = Torn]
           written == [f EXCEPT !.next = stored]
           removed == [path |-> Absent, next |-> stored]
           done    == [path |-> stored, next |-> Absent]
<1>1. \/ \E g \in {f, torn, written, removed}, r \in {"err", "crash"} : w = Outcome(g, g, r)
      \/ \E r \in {"ok", "crash"} : w = Outcome(done, written, r)
  BY DEF WriteOutcomes
<1>2. /\ torn \in Files /\ torn.path = f.path /\ torn.next = Torn
      /\ written \in Files /\ written.path = f.path /\ written.next = stored
      /\ removed \in Files /\ removed.path = Absent /\ removed.next = stored
      /\ done \in Files /\ done.path = stored /\ done.next = Absent
  BY DEF Files
<1>3. stored # Absent /\ Absent # Torn
  BY ClientAssumption
<1> HIDE DEF torn, written, removed, done
<1>4. ASSUME NEW g \in {f, torn, written, removed}
      PROVE  /\ g \in Files /\ {g.path, g.next} \subseteq {f.path, f.next, stored, Absent, Torn}
             /\ LoadStore(f) \in {stored, Torn} => LoadStore(g) \in {stored, Torn}
  BY <1>2, <1>3 DEF LoadStore
<1>5. CASE \E g \in {f, torn, written, removed}, r \in {"err", "crash"} : w = Outcome(g, g, r)
  <2>1. PICK g \in {f, torn, written, removed}, r \in {"err", "crash"} : w = Outcome(g, g, r)
    BY <1>5
  <2>2. w.files = g /\ w.older = g /\ w.result = r
    BY <2>1 DEF Outcome
  <2> QED BY <1>4, <2>2
<1>6. CASE \E r \in {"ok", "crash"} : w = Outcome(done, written, r)
  <2>1. w.files = done /\ w.older = written /\ w.result \in {"ok", "crash"}
    BY <1>6 DEF Outcome
  <2>2. LoadStore(done) = stored
    BY <1>2, <1>3 DEF LoadStore
  <2> QED BY <1>2, <2>1, <2>2
<1> QED
  BY <1>1, <1>5, <1>6

LEMMA ClearFiles ==
    ASSUME NEW f \in Files, NEW w \in ClearOutcomes(f)
    PROVE  /\ w.files \in Files /\ w.older \in Files
           /\ w.result \in {"ok", "err", "crash"}
           /\ {w.files.path, w.files.next, w.older.path, w.older.next}
                 \subseteq {f.path, f.next, Absent}
<1> DEFINE removed == [f EXCEPT !.path = Absent]
           done    == [path |-> Absent, next |-> Absent]
<1>1. \/ \E g \in {f, removed}, r \in {"err", "crash"} : w = Outcome(g, f, r)
      \/ \E r \in {"ok", "crash"} : w = Outcome(done, f, r)
  BY DEF ClearOutcomes
<1>2. /\ removed \in Files /\ removed.path = Absent /\ removed.next = f.next
      /\ done \in Files /\ done.path = Absent /\ done.next = Absent
  BY DEF Files
<1> HIDE DEF removed, done
<1>3. w.older = f /\ w.result \in {"ok", "err", "crash"} /\ w.files \in {f, removed, done}
  BY <1>1 DEF Outcome
<1> QED
  BY <1>2, <1>3

-----------------------------------------------------------------------------
(* The invariants.                                                         *)

\* Who named a key: the stores, and the requests.
Stores == {recovery, files.path, files.next, unflushed.path, unflushed.next} \cap StoredPending

Same(x, y) == x.key = y.key => x.origin = y.origin /\ x.actor = y.actor

Identity ==
    \A x \in Stores \cup sent :
        x.key \in used /\ \A y \in Stores \cup sent : Same(x, y)

Mark(r) == [origin |-> r.origin, actor |-> r.actor, key |-> r.key, attempted |-> TRUE]

\* An open write is the stored one, marked, in the file and in memory.
Remembered ==
    ~cut => \A r \in sent : r.key \notin answered =>
        /\ LoadStore(files) \in {Mark(r), Torn}
        /\ up => recovery = Mark(r)

\* Only the newest login may open a session, there is none yet, and the write
\* to be resumed is one of its server.
LoginsInv ==
    \A l \in logins :
        /\ l.id <= generation
        /\ l.id = generation =>
              /\ session = None
              /\ recovery # None => recovery.origin = l.origin
              /\ \A m \in logins : m.id = generation => m = l

\* A process that is down remembers nothing; a write shown as Prepared was not
\* marked, one that may be dropped otherwise was answered for good.
Memory ==
    /\ OneWriteInMemory
    /\ LoginsInv
    /\ ~up => session = None /\ recovery = None /\ logins = {} /\ calls = {}
    /\ Pending # None =>
          /\ Pending.phase = "Prepared" => ~recovery.attempted
          /\ Pending.phase \in {"Succeeded", "Rejected"} => Pending.key \in answered
    /\ \A c \in calls : c.request \in sent

Types == BridgeTypeOK /\ IsFiniteSet(sent)

BridgeInv == Types /\ Memory /\ Identity /\ Remembered

-----------------------------------------------------------------------------
(* What keeps the parts of the invariant, whichever action does it.        *)

LEMMA IdentityKept ==
    ASSUME Identity, used \subseteq used', Stores' \cup sent' \subseteq Stores \cup sent
    PROVE  Identity'
BY DEF Identity

\* A key is named anew, or again by whom it belongs to.
LEMMA IdentityExtended ==
    ASSUME Identity, used \subseteq used', NEW k \in used', NEW o, NEW a,
           \A z \in Stores' \cup sent' :
               z \in Stores \cup sent \/ (z.key = k /\ z.origin = o /\ z.actor = a),
           \/ k \notin used
           \/ \E y \in Stores \cup sent : y.key = k /\ y.origin = o /\ y.actor = a
    PROVE  Identity'
<1>1. ASSUME NEW z \in Stores' \cup sent' PROVE z.key \in used'
  BY <1>1 DEF Identity
<1>2. ASSUME NEW x \in Stores' \cup sent', NEW y \in Stores' \cup sent' PROVE Same(x, y)
  <2>1. CASE k \notin used
    BY <1>2, <2>1 DEF Identity, Same
  <2>2. CASE \E z \in Stores \cup sent : z.key = k /\ z.origin = o /\ z.actor = a
    BY <1>2, <2>2 DEF Identity, Same
  <2> QED BY <2>1, <2>2
<1> QED
  BY <1>1, <1>2 DEF Identity

LEMMA StoresKept ==
    ASSUME UNCHANGED <<files, unflushed>>, recovery' \in {recovery, None}
    PROVE  Stores' \subseteq Stores
BY ClientAssumption DEF Stores

LEMMA StoresTouched ==
    ASSUME NEW w, Touch(w), NEW stored,
           {w.files.path, w.files.next, w.older.path, w.older.next}
               \subseteq {files.path, files.next, stored, Absent, Torn},
           recovery' \in {recovery, None, stored}
    PROVE  Stores' \subseteq Stores \cup {stored}
BY ClientAssumption DEF Touch, Stores

LEMMA MemoryDies ==
    ASSUME Die
    PROVE  Memory'
BY DEF Die, Memory, OneWriteInMemory, LoginsInv, Pending

LEMMA MemoryKept ==
    ASSUME Memory, UNCHANGED <<up, generation, session, recovery, calls>>,
           logins' \subseteq logins, sent \subseteq sent', answered \subseteq answered'
    PROVE  Memory'
<1>1. Pending' = Pending
  BY DEF Pending
<1>2. OneWriteInMemory'
  BY <1>1 DEF Memory, OneWriteInMemory, AwaitedBy
<1>3. LoginsInv'
  BY DEF Memory, LoginsInv
<1> QED
  BY <1>1, <1>2, <1>3 DEF Memory

LEMMA RememberedKept ==
    ASSUME Remembered, UNCHANGED <<files, cut, sent>>, answered \subseteq answered',
           up' => up /\ recovery' = recovery
    PROVE  Remembered'
BY DEF Remembered, Mark

\* While a session has no write, or one that may be dropped, none is open.
LEMMA NothingOpen ==
    ASSUME BridgeInv, up, ~cut,
           recovery = None \/ (Pending # None /\ Pending.phase \in {"Prepared", "Succeeded", "Rejected"})
    PROVE  \A r \in sent : r.key \in answered
<1> SUFFICES ASSUME NEW r \in sent, r.key \notin answered PROVE FALSE
  OBVIOUS
<1>1. recovery = Mark(r) /\ Mark(r).attempted /\ Mark(r).key = r.key
  BY DEF BridgeInv, Remembered, Mark
<1>2. recovery # None
  <2>1. Mark(r) \in StoredPending
    BY DEF BridgeInv, Types, BridgeTypeOK, Request, Mark, StoredPending
  <2> QED BY <1>1, <2>1, ClientAssumption
<1>3. Pending # None /\ recovery.key = Pending.key
  BY <1>2 DEF BridgeInv, Memory, OneWriteInMemory
<1>4. Pending.phase = "Prepared" => ~recovery.attempted
  BY <1>3 DEF BridgeInv, Memory
<1>5. Pending.phase \in {"Succeeded", "Rejected"} => Pending.key \in answered
  BY <1>3 DEF BridgeInv, Memory
<1> QED
  BY <1>1, <1>2, <1>3, <1>4, <1>5

\* A write in memory is one of an open session of a process that runs.
LEMMA PendingTyped ==
    ASSUME BridgeInv, Pending # None
    PROVE  /\ session # None /\ session \in Session /\ Pending = session.pending
           /\ Pending \in PendingWrite /\ up
           /\ recovery \in StoredPending /\ recovery.key = Pending.key
           /\ recovery.origin = session.origin /\ recovery.actor = session.actor
<1>1. session # None /\ Pending = session.pending
  BY DEF Pending
<1>2. session \in Session
  BY <1>1 DEF BridgeInv, Types, BridgeTypeOK
<1>3. Pending \in PendingWrite
  BY <1>1, <1>2 DEF Session
<1>4. recovery # None
  BY <1>1 DEF BridgeInv, Memory, OneWriteInMemory
<1>5. recovery \in StoredPending
  BY <1>4 DEF BridgeInv, Types, BridgeTypeOK
<1>6. up
  BY <1>1 DEF BridgeInv, Memory
<1>7. /\ recovery.key = Pending.key
      /\ recovery.origin = session.origin /\ recovery.actor = session.actor
  BY DEF BridgeInv, Memory, OneWriteInMemory
<1> QED
  BY <1>1, <1>2, <1>3, <1>5, <1>6, <1>7

-----------------------------------------------------------------------------
(* The process, the sessions, the service.                                 *)

LEMMA ProcessKeeps ==
    ASSUME BridgeInv, Crash \/ PowerCut \/ Flush
    PROVE  BridgeInv'
<1>1. UNCHANGED <<starts, used, sent, network, server, answered>>
  BY DEF Crash, PowerCut, Flush
<1>2. Memory'
  <2>1. CASE Die
    BY <2>1, MemoryDies
  <2>2. CASE Flush
    BY <2>2, MemoryKept DEF Flush, memory, BridgeInv
  <2> QED BY <2>1, <2>2 DEF Crash, PowerCut
<1>3. Types'
  <2>1. CASE Flush
    BY <2>1 DEF Flush, memory, server, BridgeInv, Types, BridgeTypeOK
  <2>2. CASE Crash \/ PowerCut
    <3>1. /\ Die /\ files' \in {files, unflushed} /\ unflushed' = unflushed /\ cut' \in {cut, TRUE}
      BY <2>2 DEF Crash, PowerCut, disk
    <3>2. /\ up' = FALSE /\ generation' = 0 /\ session' = None /\ recovery' = None
          /\ logins' = {} /\ calls' = {} /\ replies' = {}
      BY <3>1 DEF Die
    <3>3. 0 \in 0 .. MaxGenerations
      BY ClientAssumption
    <3>4. {files', unflushed'} \subseteq {files, unflushed}
      BY <3>1
    <3>5. cut' \in BOOLEAN
      BY <3>1 DEF BridgeInv, Types, BridgeTypeOK
    <3> QED BY <1>1, <3>2, <3>3, <3>4, <3>5 DEF server, BridgeInv, Types, BridgeTypeOK
  <2> QED BY <2>1, <2>2
<1>4. Stores' \subseteq Stores
  BY ClientAssumption DEF Crash, PowerCut, Flush, Die, memory, disk, Stores
<1>5. Identity'
  BY <1>1, <1>4, IdentityKept DEF BridgeInv
<1>6. Remembered'
  BY <1>1 DEF Crash, PowerCut, Flush, Die, memory, disk, BridgeInv, Remembered, Mark
<1> QED
  BY <1>2, <1>3, <1>5, <1>6 DEF BridgeInv

LEMMA StartKeeps ==
    ASSUME BridgeInv, Start
    PROVE  BridgeInv'
<1>1. /\ ~up /\ up' /\ starts' = starts + 1 /\ starts < MaxStarts
      /\ LoadStore(files) # Torn
      /\ recovery' = IF LoadStore(files) = Absent THEN None ELSE LoadStore(files)
      /\ UNCHANGED <<generation, session, logins, calls, replies, disk, used,
                     sent, network, server, answered>>
  BY DEF Start
<1>2. files \in Files
  BY DEF BridgeInv, Types, BridgeTypeOK, Files
<1>3. /\ LoadStore(files) \in StoredPending \cup {Absent}
      /\ LoadStore(files) \in {files.path, files.next}
  BY <1>1, <1>2 DEF LoadStore, Files
<1>4. session = None /\ logins = {} /\ calls = {} /\ Pending' = None
  BY <1>1 DEF BridgeInv, Memory, Pending
<1>5. Memory'
  BY <1>1, <1>4 DEF Memory, OneWriteInMemory, LoginsInv
<1>6. Types'
  <2>1. recovery' \in StoredPending \cup {None}
    BY <1>1, <1>3
  <2>2. starts' \in 0 .. MaxStarts
    BY <1>1, ClientAssumption DEF BridgeInv, Types, BridgeTypeOK
  <2> QED BY <1>1, <2>1, <2>2 DEF disk, server, BridgeInv, Types, BridgeTypeOK
<1>7. Stores' \subseteq Stores
  BY <1>1, <1>3, ClientAssumption DEF disk, Stores
<1>8. Identity'
  BY <1>1, <1>7, IdentityKept DEF BridgeInv
<1>9. Remembered'
  <2> SUFFICES ASSUME ~cut, NEW r \in sent, r.key \notin answered
               PROVE  LoadStore(files) = Mark(r) /\ recovery' = Mark(r)
    BY <1>1 DEF Remembered, Mark, disk
  <2>1. LoadStore(files) = Mark(r)
    BY <1>1 DEF BridgeInv, Remembered
  <2>2. Mark(r) \in StoredPending
    BY DEF BridgeInv, Types, BridgeTypeOK, Request, Mark, StoredPending
  <2>3. Mark(r) # Absent
    BY <2>2, ClientAssumption
  <2> QED BY <1>1, <2>1, <2>3
<1> QED
  BY <1>5, <1>6, <1>8, <1>9 DEF BridgeInv

LEMMA ServiceKeeps ==
    ASSUME BridgeInv,
           (\E r \in network : Serve(r)) \/ (\E credential \in Credentials : Revoke(credential))
    PROVE  BridgeInv'
<1>1. UNCHANGED <<up, generation, session, recovery, logins, calls, starts, disk, used,
                  sent, answered>>
  BY DEF Serve, Revoke, memory
<1>2. Memory'
  BY <1>1, MemoryKept DEF BridgeInv
<1>3. Identity'
  BY <1>1, StoresKept, IdentityKept DEF BridgeInv, disk
<1>4. Remembered'
  BY <1>1, RememberedKept DEF BridgeInv, disk
<1>5. Types'
  <2>1. ASSUME NEW r \in network, Serve(r) PROVE Types'
    <3>1. PICK response \in Responses(r) :
            /\ applied' = response[2]
            /\ replies' = IF \E c \in calls : c.request = r
                          THEN replies \cup {[attempt |-> r.attempt, status |-> response[1]]}
                          ELSE replies
      BY <2>1 DEF Serve
    <3>2. r \in Request
      BY DEF BridgeInv, Types, BridgeTypeOK
    <3>3. Effect(r) \in Origins \X Actors \X Keys /\ r.attempt \in Nat
      BY <3>2 DEF Effect, Request
    <3>4. /\ response[1] \in Final \cup {"busy"}
          /\ response[2] \subseteq applied \cup {Effect(r)}
      BY <3>1 DEF Responses, Final
    <3>5. applied' \subseteq Origins \X Actors \X Keys
      BY <3>1, <3>3, <3>4 DEF BridgeInv, Types, BridgeTypeOK
    <3>6. replies' \subseteq [attempt : Nat, status : Final \cup {"busy"}]
      BY <3>1, <3>3, <3>4 DEF BridgeInv, Types, BridgeTypeOK
    <3>7. network' \subseteq network /\ valid' = valid
      BY <2>1 DEF Serve
    <3> QED BY <1>1, <3>5, <3>6, <3>7 DEF disk, BridgeInv, Types, BridgeTypeOK
  <2>2. ASSUME NEW credential \in Credentials, Revoke(credential) PROVE Types'
    BY <1>1, <2>2 DEF Revoke, memory, disk, BridgeInv, Types, BridgeTypeOK
  <2> QED BY <2>1, <2>2
<1> QED
  BY <1>2, <1>3, <1>4, <1>5 DEF BridgeInv

LEMMA LoginBeginKeeps ==
    ASSUME BridgeInv, NEW o \in Origins, NEW a \in Actors, LoginBegin(o, a)
    PROVE  BridgeInv'
<1> DEFINE login == [id |-> generation + 1, origin |-> o, actor |-> a]
<1>1. /\ up /\ generation < MaxGenerations /\ Pending = None
      /\ recovery # None => recovery.origin = o
      /\ generation' = generation + 1 /\ session' = None
      /\ logins' \subseteq logins \cup {login}
      /\ UNCHANGED <<up, recovery, calls, replies, starts, disk, used, sent,
                     network, server, answered>>
  BY DEF LoginBegin
<1>2. generation \in Nat
  BY ClientAssumption DEF BridgeInv, Types, BridgeTypeOK
<1>3. calls = {} /\ Pending' = None
  BY <1>1 DEF BridgeInv, Memory, OneWriteInMemory, Pending
<1>4. LoginsInv'
  <2>1. login.id = generation' /\ login.origin = o
    BY <1>1
  <2>2. \A l \in logins : l.id <= generation /\ l.id \in Nat
    BY DEF BridgeInv, Memory, LoginsInv, Types, BridgeTypeOK
  <2>3. \A l \in logins : l.id <= generation' /\ l.id # generation'
    BY <1>1, <1>2, <2>2
  <2>4. generation' <= generation'
    BY <1>1, <1>2
  <2> HIDE DEF login
  <2> QED BY <1>1, <2>1, <2>3, <2>4 DEF LoginsInv
<1>5. Memory'
  BY <1>1, <1>3, <1>4 DEF BridgeInv, Memory, OneWriteInMemory
<1>6. Types'
  <2>1. generation' \in 0 .. MaxGenerations
    BY <1>1, <1>2, ClientAssumption
  <2>2. login \in [id : Nat, origin : Origins, actor : Actors]
    BY <1>2
  <2> QED BY <1>1, <2>1, <2>2 DEF disk, server, BridgeInv, Types, BridgeTypeOK
<1>7. Identity'
  BY <1>1, StoresKept, IdentityKept DEF BridgeInv, disk
<1>8. Remembered'
  BY <1>1, RememberedKept DEF BridgeInv, disk
<1> QED
  BY <1>5, <1>6, <1>7, <1>8 DEF BridgeInv

\* The session that a login opens has the stored write, unsent or unknown.
LEMMA LoginReturnKeeps ==
    ASSUME BridgeInv, NEW l \in logins, LoginReturn(l) \/ LoginFail(l)
    PROVE  BridgeInv'
<1> DEFINE opened == [id |-> l.id, origin |-> l.origin, actor |-> l.actor,
                      pending |-> RestoredPending]
<1>1. /\ logins' = logins \ {l}
      /\ UNCHANGED <<up, generation, recovery, calls, replies, starts, disk, used,
                     sent, network, server, answered>>
      /\ session' = session \/ (LoginCurrent(l) /\ session' = opened)
  BY DEF LoginReturn, LoginFail
<1>2. Identity'
  BY <1>1, StoresKept, IdentityKept DEF BridgeInv, disk
<1>3. Remembered'
  BY <1>1, RememberedKept DEF BridgeInv, disk
<1>4. CASE session' = session
  <2>1. Memory'
    BY <1>1, <1>4, MemoryKept DEF BridgeInv
  <2>2. Types'
    BY <1>1, <1>4 DEF disk, server, BridgeInv, Types, BridgeTypeOK
  <2> QED BY <1>2, <1>3, <2>1, <2>2 DEF BridgeInv
<1>5. CASE LoginCurrent(l) /\ session' = opened
  <2>1. l \in [id : Nat, origin : Origins, actor : Actors]
    BY DEF BridgeInv, Types, BridgeTypeOK
  <2>2. /\ l.id = generation /\ session = None /\ calls = {}
        /\ recovery # None => recovery.origin = l.origin /\ recovery.actor = l.actor
        /\ \A m \in logins : m.id = generation => m = l
    BY <1>5 DEF LoginCurrent, BridgeInv, Memory, LoginsInv, OneWriteInMemory, Pending
  <2>3. recovery \in StoredPending \cup {None}
    BY DEF BridgeInv, Types, BridgeTypeOK
  <2>4. CASE recovery = None
    <3>1. RestoredPending = None
      BY <2>4 DEF RestoredPending
    <3>2. opened \in Session /\ opened.pending = None
      BY <2>1, <3>1 DEF Session
    <3>3. session' # None /\ Pending' = None
      BY <1>5, <3>2, ClientAssumption DEF Pending
    <3>4. LoginsInv'
      BY <1>1, <2>2 DEF BridgeInv, Memory, LoginsInv
    <3>5. up
      BY DEF BridgeInv, Memory
    <3>6. Memory'
      BY <1>1, <2>2, <2>4, <3>3, <3>4, <3>5 DEF Memory, OneWriteInMemory
    <3>7. Types'
      BY <1>1, <1>5, <3>2 DEF disk, server, BridgeInv, Types, BridgeTypeOK
    <3> QED BY <1>2, <1>3, <3>6, <3>7 DEF BridgeInv
  <2>5. CASE recovery # None
    <3> DEFINE ending == IF recovery.attempted THEN "Unknown" ELSE "Prepared"
    <3>1. RestoredPending = [key |-> recovery.key, phase |-> ending]
      BY <2>5 DEF RestoredPending
    <3>2. ending \in BridgePhase /\ recovery.key \in Keys
      BY <2>3, <2>5 DEF BridgePhase, Phase, StoredPending
    <3>3. /\ ending \in {"Unknown", "Prepared"}
          /\ ending = "Prepared" <=> ~recovery.attempted
      OBVIOUS
    <3> HIDE DEF ending
    <3>4. RestoredPending \in PendingWrite
      BY <3>1, <3>2 DEF PendingWrite
    <3>5. opened \in Session /\ opened.pending = RestoredPending
      BY <2>1, <3>4 DEF Session
    <3>6. /\ session' # None /\ Pending' = RestoredPending /\ Pending' # None
          /\ session'.origin = l.origin /\ session'.actor = l.actor
      BY <1>5, <3>4, <3>5, ClientAssumption DEF Pending
    <3>7. Pending'.key = recovery.key /\ Pending'.phase = ending
      BY <3>1, <3>6
    <3>8. LoginsInv'
      BY <1>1, <2>2 DEF BridgeInv, Memory, LoginsInv
    <3>9. up
      BY DEF BridgeInv, Memory
    <3>10. OneWriteInMemory'
      BY <1>1, <2>2, <2>5, <3>3, <3>6, <3>7 DEF OneWriteInMemory
    <3>11. Memory'
      BY <1>1, <2>2, <3>3, <3>6, <3>7, <3>8, <3>9, <3>10 DEF Memory
    <3>12. Types'
      BY <1>1, <1>5, <3>5 DEF disk, server, BridgeInv, Types, BridgeTypeOK
    <3> QED BY <1>2, <1>3, <3>11, <3>12 DEF BridgeInv
  <2> QED BY <2>4, <2>5
<1> QED
  BY <1>1, <1>4, <1>5

LEMMA LogoutKeeps ==
    ASSUME BridgeInv, Logout
    PROVE  BridgeInv'
<1>1. /\ session # None /\ Pending = None /\ generation < MaxGenerations
      /\ generation' = generation + 1 /\ session' = None
      /\ UNCHANGED <<up, recovery, logins, calls, replies, starts, disk, used,
                     sent, network, server, answered>>
  BY DEF Logout
<1>2. generation \in Nat /\ generation' \in 0 .. MaxGenerations
  BY <1>1, ClientAssumption DEF BridgeInv, Types, BridgeTypeOK
<1>3. recovery = None /\ calls = {} /\ up /\ Pending' = None
  BY <1>1 DEF BridgeInv, Memory, OneWriteInMemory, Pending
<1>4. LoginsInv'
  <2>1. \A l \in logins : l.id <= generation /\ l.id \in Nat
    BY DEF BridgeInv, Memory, LoginsInv, Types, BridgeTypeOK
  <2>2. \A l \in logins : l.id <= generation' /\ l.id # generation'
    BY <1>1, <1>2, <2>1
  <2> QED BY <1>1, <1>2, <2>2 DEF LoginsInv
<1>5. Memory'
  BY <1>1, <1>3, <1>4 DEF BridgeInv, Memory, OneWriteInMemory
<1>6. Types'
  BY <1>1, <1>2 DEF disk, server, BridgeInv, Types, BridgeTypeOK
<1>7. Identity'
  BY <1>1, StoresKept, IdentityKept DEF BridgeInv, disk
<1>8. Remembered'
  BY <1>1, RememberedKept DEF BridgeInv, disk
<1> QED
  BY <1>5, <1>6, <1>7, <1>8 DEF BridgeInv

-----------------------------------------------------------------------------
(* The pending write.                                                      *)

LEMMA FilesTouched ==
    ASSUME NEW w, Touch(w), w.files \in Files, w.older \in Files
    PROVE  /\ {files', unflushed'} \subseteq Files
           /\ files' = w.files /\ unflushed' = w.older /\ cut' = cut
BY DEF Touch

\* Nothing was open before, so nothing is lost if the file is not written.
LEMMA PrepareKeeps ==
    ASSUME BridgeInv, NEW k \in Keys, Prepare(k)
    PROVE  BridgeInv'
<1> DEFINE stored == [origin |-> session.origin, actor |-> session.actor,
                      key |-> k, attempted |-> FALSE]
           write  == [key |-> k, phase |-> "Prepared"]
<1>1. /\ session # None /\ recovery = None /\ Pending = None /\ k \notin used
      /\ used' = used \cup {k}
      /\ UNCHANGED <<starts, sent, network, server, answered>>
  BY DEF Prepare, MayPrepare
<1>2. PICK w \in WriteOutcomes(files, stored) :
        /\ Touch(w)
        /\ CASE w.result = "crash" -> Die
             [] w.result = "err"   -> UNCHANGED memory
             [] w.result = "ok"    ->
                  /\ recovery' = stored
                  /\ session' = [session EXCEPT !.pending = write]
                  /\ UNCHANGED <<up, generation, logins, calls, replies>>
  BY DEF Prepare
<1>3. session \in Session /\ up /\ calls = {}
  BY <1>1 DEF BridgeInv, Types, BridgeTypeOK, Memory, OneWriteInMemory
<1>4. stored \in StoredPending /\ stored # None /\ stored.key = k /\ ~stored.attempted
  <2>1. stored \in StoredPending
    BY <1>3 DEF Session, StoredPending
  <2> QED BY <2>1, ClientAssumption
<1>5. files \in Files
  BY DEF BridgeInv, Types, BridgeTypeOK, Files
<1>6. /\ w.files \in Files /\ w.older \in Files
      /\ w.result \in {"ok", "err", "crash"}
      /\ {w.files.path, w.files.next, w.older.path, w.older.next}
            \subseteq {files.path, files.next, stored, Absent, Torn}
  BY <1>4, <1>5, WriteFiles
<1>7. {files', unflushed'} \subseteq Files /\ cut' = cut
  BY <1>2, <1>6, FilesTouched
<1>8. \/ Die \/ UNCHANGED memory
      \/ /\ recovery' = stored /\ session' = [session EXCEPT !.pending = write]
         /\ UNCHANGED <<up, generation, logins, calls, replies>>
  BY <1>2, <1>6
<1>9. recovery' \in {recovery, None, stored}
  BY <1>8 DEF Die, memory
<1>10. Identity'
  <2>1. Stores' \subseteq Stores \cup {stored}
    BY <1>2, <1>6, <1>9, StoresTouched
  <2>2. \A z \in Stores' \cup sent' :
           z \in Stores \cup sent \/ (z.key = k /\ z.origin = session.origin /\ z.actor = session.actor)
    BY <1>1, <2>1
  <2>3. Identity /\ k \in used' /\ used \subseteq used'
    BY <1>1 DEF BridgeInv
  <2> QED BY <1>1, <2>2, <2>3, IdentityExtended
<1>11. Remembered'
  <2>1. ~cut => \A r \in sent : r.key \in answered
    BY <1>1, <1>3, NothingOpen
  <2> QED BY <1>1, <1>7, <2>1 DEF Remembered
<1> HIDE DEF stored
<1>12. CASE recovery' = stored /\ session' = [session EXCEPT !.pending = write]
            /\ UNCHANGED <<up, generation, logins, calls, replies>>
  <2>1. write \in PendingWrite /\ write.key = k /\ write.phase = "Prepared"
    BY DEF PendingWrite, BridgePhase, Phase
  <2> HIDE DEF write
  <2>2. /\ session' \in Session /\ session'.pending = write
        /\ session'.origin = session.origin /\ session'.actor = session.actor
    BY <1>3, <1>12, <2>1 DEF Session
  <2>3. session' # None /\ Pending' = write /\ write # None
    BY <2>1, <2>2, ClientAssumption DEF Pending
  <2>4. stored.origin = session.origin /\ stored.actor = session.actor
    BY DEF stored
  <2>5. LoginsInv'
    BY <1>1, <1>12 DEF BridgeInv, Memory, LoginsInv
  <2>6. OneWriteInMemory'
    BY <1>3, <1>4, <1>12, <2>1, <2>2, <2>3, <2>4 DEF OneWriteInMemory
  <2>7. Memory'
    BY <1>3, <1>4, <1>12, <2>1, <2>3, <2>5, <2>6 DEF Memory
  <2>8. Types'
    BY <1>1, <1>4, <1>7, <1>12, <2>2 DEF server, BridgeInv, Types, BridgeTypeOK, Files
  <2> QED BY <1>10, <1>11, <2>7, <2>8 DEF BridgeInv
<1>13. CASE UNCHANGED memory
  <2>1. Memory'
    BY <1>1, <1>13, MemoryKept DEF memory, BridgeInv
  <2>2. Types'
    BY <1>1, <1>7, <1>13 DEF memory, server, BridgeInv, Types, BridgeTypeOK, Files
  <2> QED BY <1>10, <1>11, <2>1, <2>2 DEF BridgeInv
<1>14. CASE Die
  <2>1. Memory'
    BY <1>14, MemoryDies
  <2>2. 0 \in 0 .. MaxGenerations
    BY ClientAssumption
  <2>3. Types'
    BY <1>1, <1>7, <1>14, <2>2 DEF Die, server, BridgeInv, Types, BridgeTypeOK, Files
  <2> QED BY <1>10, <1>11, <2>1, <2>3 DEF BridgeInv
<1> QED
  BY <1>8, <1>12, <1>13, <1>14

LEMMA DiscardKeeps ==
    ASSUME BridgeInv, Discard
    PROVE  BridgeInv'
<1>1. /\ Pending # None /\ Pending.phase \in MayEdit
      /\ UNCHANGED <<starts, used, sent, network, server, answered>>
  BY DEF Discard, MayDiscard
<1>2. PICK w \in ClearOutcomes(files) :
        /\ Touch(w)
        /\ CASE w.result = "crash" -> Die
             [] w.result = "err"   -> UNCHANGED memory
             [] w.result = "ok"    ->
                  /\ recovery' = None
                  /\ session' = [session EXCEPT !.pending = None]
                  /\ UNCHANGED <<up, generation, logins, calls, replies>>
  BY DEF Discard
<1>3. /\ session # None /\ session \in Session /\ Pending = session.pending
      /\ Pending \in PendingWrite /\ up
  BY <1>1, PendingTyped
<1>4. Pending.phase \in {"Prepared", "Succeeded", "Rejected"}
  BY <1>1, <1>3 DEF PendingWrite, BridgePhase, MayEdit, Phase, Unresolved
<1>5. calls = {}
  BY <1>4 DEF BridgeInv, Memory, OneWriteInMemory
<1>6. files \in Files
  BY DEF BridgeInv, Types, BridgeTypeOK, Files
<1>7. /\ w.files \in Files /\ w.older \in Files
      /\ w.result \in {"ok", "err", "crash"}
      /\ {w.files.path, w.files.next, w.older.path, w.older.next}
            \subseteq {files.path, files.next, Absent}
  BY <1>6, ClearFiles
<1>8. {files', unflushed'} \subseteq Files /\ cut' = cut
  BY <1>2, <1>7, FilesTouched
<1>9. \/ Die \/ UNCHANGED memory
      \/ /\ recovery' = None /\ session' = [session EXCEPT !.pending = None]
         /\ UNCHANGED <<up, generation, logins, calls, replies>>
  BY <1>2, <1>7
<1>10. Identity'
  <2>1. recovery' \in {recovery, None}
    BY <1>9 DEF Die, memory
  <2>2. Stores' \subseteq Stores
    BY <1>2, <1>7, <2>1, ClientAssumption DEF Touch, Stores
  <2> QED BY <1>1, <2>2, IdentityKept DEF BridgeInv
<1>11. Remembered'
  <2>1. ~cut => \A r \in sent : r.key \in answered
    BY <1>1, <1>3, <1>4, NothingOpen
  <2> QED BY <1>1, <1>8, <2>1 DEF Remembered
<1>12. CASE recovery' = None /\ session' = [session EXCEPT !.pending = None]
            /\ UNCHANGED <<up, generation, logins, calls, replies>>
  <2>1. session' \in Session /\ session'.pending = None
    BY <1>3, <1>12 DEF Session
  <2>2. session' # None /\ Pending' = None
    BY <2>1, ClientAssumption DEF Pending
  <2>3. LoginsInv'
    BY <1>3, <1>12 DEF BridgeInv, Memory, LoginsInv
  <2>4. Memory'
    BY <1>3, <1>5, <1>12, <2>2, <2>3 DEF Memory, OneWriteInMemory
  <2>5. Types'
    BY <1>1, <1>8, <1>12, <2>1 DEF server, BridgeInv, Types, BridgeTypeOK, Files
  <2> QED BY <1>10, <1>11, <2>4, <2>5 DEF BridgeInv
<1>13. CASE UNCHANGED memory
  <2>1. Memory'
    BY <1>1, <1>13, MemoryKept DEF memory, BridgeInv
  <2>2. Types'
    BY <1>1, <1>8, <1>13 DEF memory, server, BridgeInv, Types, BridgeTypeOK, Files
  <2> QED BY <1>10, <1>11, <2>1, <2>2 DEF BridgeInv
<1>14. CASE Die
  <2>1. Memory'
    BY <1>14, MemoryDies
  <2>2. 0 \in 0 .. MaxGenerations
    BY ClientAssumption
  <2>3. Types'
    BY <1>1, <1>8, <1>14, <2>2 DEF Die, server, BridgeInv, Types, BridgeTypeOK, Files
  <2> QED BY <1>10, <1>11, <2>1, <2>3 DEF BridgeInv
<1> QED
  BY <1>9, <1>12, <1>13, <1>14

\* The mark reaches the file before the request reaches the network; the files
\* of an interrupted mark still name the same write.
LEMMA ExecuteKeeps ==
    ASSUME BridgeInv, Execute
    PROVE  BridgeInv'
<1> DEFINE request == [attempt |-> Cardinality(sent) + 1, origin |-> session.origin,
                       actor |-> session.actor, key |-> session.pending.key]
           stored  == MarkAttempted(recovery)
           awaited == [session |-> session.id, request |-> request]
<1>1. /\ Pending # None /\ Pending.phase \in MaySend
      /\ UNCHANGED <<starts, used, server, answered>>
  BY DEF Execute, MayExecute
<1>2. PICK w \in WriteOutcomes(files, stored) :
        /\ Touch(w)
        /\ CASE w.result = "crash" -> Die /\ UNCHANGED <<sent, network>>
             [] w.result = "err"   -> UNCHANGED <<memory, sent, network>>
             [] w.result = "ok"    ->
                  /\ recovery' = stored
                  /\ session' = [session EXCEPT !.pending.phase = "Sending"]
                  /\ calls' = calls \cup {awaited}
                  /\ sent' = sent \cup {request}
                  /\ network' = network \cup {request}
                  /\ UNCHANGED <<up, generation, logins, replies>>
  BY DEF Execute
<1>3. /\ session # None /\ session \in Session /\ Pending = session.pending
      /\ Pending \in PendingWrite /\ up
      /\ recovery \in StoredPending /\ recovery.key = Pending.key
      /\ recovery.origin = session.origin /\ recovery.actor = session.actor
  BY <1>1, PendingTyped
<1>4. calls = {}
  BY <1>1 DEF BridgeInv, Memory, OneWriteInMemory, MaySend
<1>5. /\ stored \in StoredPending /\ stored # None /\ stored.attempted
      /\ stored.key = recovery.key /\ stored.origin = recovery.origin
      /\ stored.actor = recovery.actor
  <2>1. /\ stored \in StoredPending /\ stored.attempted
        /\ stored.key = recovery.key /\ stored.origin = recovery.origin
        /\ stored.actor = recovery.actor
    BY <1>3 DEF StoredPending, MarkAttempted
  <2> QED BY <2>1, ClientAssumption
<1>6. /\ request \in Request /\ request.key = recovery.key
      /\ request.origin = recovery.origin /\ request.actor = recovery.actor
  <2>1. Cardinality(sent) \in Nat
    BY FS_CardinalityType DEF BridgeInv, Types
  <2> QED BY <1>3, <2>1 DEF Session, PendingWrite, Request
<1>7. Mark(request) = stored
  BY <1>3, <1>5, <1>6 DEF Mark, StoredPending
<1>8. files \in Files
  BY DEF BridgeInv, Types, BridgeTypeOK, Files
<1>9. /\ w.files \in Files /\ w.older \in Files
      /\ w.result \in {"ok", "err", "crash"}
      /\ {w.files.path, w.files.next, w.older.path, w.older.next}
            \subseteq {files.path, files.next, stored, Absent, Torn}
      /\ w.result = "ok" => LoadStore(w.files) = stored
      /\ LoadStore(files) \in {stored, Torn} => LoadStore(w.files) \in {stored, Torn}
  BY <1>5, <1>8, WriteFiles
<1>10. {files', unflushed'} \subseteq Files /\ files' = w.files /\ cut' = cut
  BY <1>2, <1>9, FilesTouched
<1>11. recovery \in Stores
  BY <1>3 DEF Stores
<1>12. recovery.key \in used
  BY <1>11 DEF BridgeInv, Identity
<1>13. \/ (Die \/ UNCHANGED memory) /\ UNCHANGED <<sent, network>>
       \/ /\ w.result = "ok"
          /\ recovery' = stored
          /\ session' = [session EXCEPT !.pending.phase = "Sending"]
          /\ calls' = calls \cup {awaited}
          /\ sent' = sent \cup {request} /\ network' = network \cup {request}
          /\ UNCHANGED <<up, generation, logins, replies>>
  BY <1>2, <1>9
<1> HIDE DEF stored, request, awaited
<1>14. recovery' \in {recovery, None, stored} /\ sent' \subseteq sent \cup {request}
  BY <1>13 DEF Die, memory
<1>15. Identity'
  <2>1. Stores' \subseteq Stores \cup {stored}
    BY <1>2, <1>9, <1>14, StoresTouched
  <2>2. \A z \in Stores' \cup sent' :
           \/ z \in Stores \cup sent
           \/ z.key = recovery.key /\ z.origin = recovery.origin /\ z.actor = recovery.actor
    BY <1>5, <1>6, <1>14, <2>1
  <2>3. Identity /\ recovery.key \in used' /\ used \subseteq used'
    BY <1>1, <1>12 DEF BridgeInv
  <2> QED BY <1>11, <2>2, <2>3, IdentityExtended
<1>16. ASSUME ~cut, NEW r \in sent, r.key \notin answered
       PROVE  Mark(r) = stored /\ LoadStore(w.files) \in {stored, Torn}
  <2>1. recovery = Mark(r) /\ LoadStore(files) \in {Mark(r), Torn}
    BY <1>3, <1>16 DEF BridgeInv, Remembered
  <2>2. r.key = recovery.key /\ r.origin = recovery.origin /\ r.actor = recovery.actor
    BY <2>1 DEF Mark
  <2>3. Mark(r) = Mark(request)
    BY <1>6, <2>2 DEF Mark
  <2>4. Mark(r) = stored
    BY <1>7, <2>3
  <2> QED BY <1>9, <2>1, <2>4
<1>17. CASE UNCHANGED <<sent, network>> /\ (Die \/ UNCHANGED memory)
  <2>1. Remembered'
    <3> SUFFICES ASSUME ~cut, NEW r \in sent, r.key \notin answered
                 PROVE  LoadStore(w.files) \in {Mark(r), Torn} /\ (up' => recovery' = Mark(r))
      BY <1>1, <1>10, <1>17 DEF Remembered, Mark
    <3>1. LoadStore(w.files) \in {Mark(r), Torn}
      BY <1>16
    <3>2. recovery = Mark(r)
      BY <1>3 DEF BridgeInv, Remembered
    <3> QED BY <1>17, <3>1, <3>2 DEF Die, memory
  <2>2. Memory'
    <3>1. CASE Die
      BY <3>1, MemoryDies
    <3>2. CASE UNCHANGED memory
      BY <1>1, <1>17, <3>2, MemoryKept DEF memory, BridgeInv
    <3> QED BY <1>17, <3>1, <3>2
  <2>3. Types'
    <3>1. CASE Die
      <4>1. 0 \in 0 .. MaxGenerations
        BY ClientAssumption
      <4> QED BY <1>1, <1>10, <1>17, <3>1, <4>1 DEF Die, server, BridgeInv, Types, BridgeTypeOK, Files
    <3>2. CASE UNCHANGED memory
      BY <1>1, <1>10, <1>17, <3>2 DEF memory, server, BridgeInv, Types, BridgeTypeOK, Files
    <3> QED BY <1>17, <3>1, <3>2
  <2> QED BY <1>15, <2>1, <2>2, <2>3 DEF BridgeInv
<1>18. CASE /\ w.result = "ok"
            /\ recovery' = stored
            /\ session' = [session EXCEPT !.pending.phase = "Sending"]
            /\ calls' = calls \cup {awaited}
            /\ sent' = sent \cup {request} /\ network' = network \cup {request}
            /\ UNCHANGED <<up, generation, logins, replies>>
  <2>1. Remembered'
    <3>1. LoadStore(files') = stored
      BY <1>9, <1>10, <1>18
    <3>2. ASSUME ~cut, NEW r \in sent', r.key \notin answered PROVE Mark(r) = stored
      BY <1>7, <1>16, <1>18, <3>2
    <3> QED BY <1>1, <1>10, <1>18, <3>1, <3>2 DEF Remembered, Mark
  <2>2. /\ session' \in Session /\ session'.pending \in PendingWrite
        /\ session'.pending.key = Pending.key /\ session'.pending.phase = "Sending"
        /\ session'.id = session.id
        /\ session'.origin = session.origin /\ session'.actor = session.actor
    BY <1>3, <1>18 DEF Session, PendingWrite, BridgePhase, Phase
  <2>3. session' # None /\ Pending' = session'.pending /\ Pending' # None
    BY <2>2, ClientAssumption DEF Pending
  <2>4. LoginsInv'
    BY <1>3, <1>18 DEF BridgeInv, Memory, LoginsInv
  <2>5. calls' = {awaited} /\ awaited.session = session.id /\ awaited.request = request
    BY <1>4, <1>18 DEF awaited
  <2>6. OneWriteInMemory'
    <3>1. \A c \in calls' : AwaitedBy(c)' /\ \A d \in calls' : c = d
      BY <1>3, <1>6, <2>2, <2>3, <2>5 DEF AwaitedBy
    <3> QED BY <1>3, <1>5, <1>18, <2>2, <2>3, <2>5, <3>1 DEF OneWriteInMemory
  <2>7. Memory'
    BY <1>3, <1>18, <2>2, <2>3, <2>4, <2>5, <2>6 DEF Memory
  <2>8. Types'
    <3>1. sent' \subseteq Request /\ network' \subseteq sent' /\ IsFiniteSet(sent')
      BY <1>6, <1>18, FS_AddElement DEF BridgeInv, Types, BridgeTypeOK
    <3>2. calls' \subseteq [session : Nat, request : Request]
      BY <1>3, <1>6, <2>5 DEF awaited, Session
    <3> QED BY <1>1, <1>5, <1>10, <1>18, <2>2, <3>1, <3>2 DEF server, BridgeInv, Types, BridgeTypeOK, Files
  <2> QED BY <1>15, <2>1, <2>7, <2>8 DEF BridgeInv
<1> QED
  BY <1>13, <1>17, <1>18

\* Every answer ends the wait; only a final one makes the write droppable.
LEMMA ExecuteReturnKeeps ==
    ASSUME BridgeInv, NEW c \in calls, NEW status \in Answers, ExecuteReturn(c, status)
    PROVE  BridgeInv'
<1> DEFINE ending == PhaseAfter(status)
<1>1. /\ calls' = calls \ {c}
      /\ replies' \subseteq replies
      /\ UNCHANGED <<up, generation, recovery, logins, starts, disk, used, sent,
                     network, server>>
  BY DEF ExecuteReturn
<1>2. /\ AwaitedBy(c) /\ calls = {c}
      /\ Pending # None /\ Pending.phase = "Sending" /\ recovery.attempted
      /\ c.request \in sent
  BY DEF BridgeInv, Memory, OneWriteInMemory
<1>3. /\ session' = [session EXCEPT !.pending.phase = ending]
      /\ answered' = IF status \in Final THEN answered \cup {c.request.key} ELSE answered
  BY <1>2 DEF ExecuteReturn
<1>4. /\ ending \in {"Succeeded", "Rejected", "Unknown"}
      /\ ending # "Unknown" <=> status \in Final
  BY DEF PhaseAfter, Answers, Final
<1> HIDE DEF ending
<1>5. /\ session # None /\ session \in Session /\ Pending = session.pending
      /\ Pending \in PendingWrite /\ up
      /\ recovery \in StoredPending /\ recovery.key = Pending.key
      /\ recovery.origin = session.origin /\ recovery.actor = session.actor
  BY <1>2, PendingTyped
<1>6. c.request.key = Pending.key
  BY <1>2 DEF AwaitedBy
<1>7. c.request.key \in used
  BY <1>2 DEF BridgeInv, Identity
<1>8. answered \subseteq answered' /\ answered' \subseteq used
  BY <1>3, <1>7 DEF BridgeInv, Types, BridgeTypeOK
<1>9. Identity'
  BY <1>1, StoresKept, IdentityKept DEF BridgeInv, disk
<1>10. Remembered'
  BY <1>1, <1>8, RememberedKept DEF BridgeInv, disk
<1>11. /\ session' \in Session /\ session'.pending \in PendingWrite
       /\ session'.pending.key = Pending.key /\ session'.pending.phase = ending
       /\ session'.origin = session.origin /\ session'.actor = session.actor
  BY <1>3, <1>4, <1>5 DEF Session, PendingWrite, BridgePhase, Phase
<1>12. session' # None /\ Pending' = session'.pending /\ Pending' # None
  BY <1>11, ClientAssumption DEF Pending
<1>13. LoginsInv'
  BY <1>1, <1>5 DEF BridgeInv, Memory, LoginsInv
<1>14. calls' = {}
  BY <1>1, <1>2
<1>15. OneWriteInMemory'
  BY <1>1, <1>2, <1>4, <1>5, <1>11, <1>12, <1>14, ClientAssumption DEF OneWriteInMemory
<1>16. Memory'
  BY <1>1, <1>3, <1>4, <1>5, <1>6, <1>11, <1>12, <1>13, <1>14, <1>15 DEF Memory
<1>17. Types'
  BY <1>1, <1>8, <1>11, <1>14 DEF disk, server, BridgeInv, Types, BridgeTypeOK
<1> QED
  BY <1>9, <1>10, <1>16, <1>17 DEF BridgeInv

-----------------------------------------------------------------------------
(* The theorems.                                                           *)

LEMMA BridgeStarts ==
    ASSUME BridgeInit PROVE BridgeInv
<1>1. Types
  <2>1. 0 \in 0 .. MaxStarts /\ 0 \in 0 .. MaxGenerations
    BY ClientAssumption
  <2>2. {files, unflushed} \subseteq Files
    BY DEF BridgeInit, Files
  <2>3. IsFiniteSet(sent)
    BY FS_EmptySet DEF BridgeInit
  <2>4. BridgeTypeOK
    BY <2>1, <2>2 DEF BridgeInit, BridgeTypeOK, Files
  <2> QED BY <2>3, <2>4 DEF Types
<1>2. Memory
  BY DEF BridgeInit, Memory, OneWriteInMemory, LoginsInv, Pending
<1>3. Identity
  BY ClientAssumption DEF BridgeInit, Identity, Stores
<1> QED
  BY <1>1, <1>2, <1>3 DEF BridgeInit, BridgeInv, Remembered

LEMMA BridgeSteps ==
    ASSUME BridgeInv, [BridgeNext]_bridgeVars PROVE BridgeInv'
<1>1. CASE Crash \/ PowerCut \/ Flush
  BY <1>1, ProcessKeeps
<1>2. CASE Start
  BY <1>2, StartKeeps
<1>3. CASE Logout
  BY <1>3, LogoutKeeps
<1>4. CASE Execute
  BY <1>4, ExecuteKeeps
<1>5. CASE Discard
  BY <1>5, DiscardKeeps
<1>6. CASE \E o \in Origins, a \in Actors : LoginBegin(o, a)
  BY <1>6, LoginBeginKeeps
<1>7. CASE \E l \in logins : LoginReturn(l) \/ LoginFail(l)
  BY <1>7, LoginReturnKeeps
<1>8. CASE \E k \in Keys : Prepare(k)
  BY <1>8, PrepareKeeps
<1>9. CASE Returns
  BY <1>9, ExecuteReturnKeeps DEF Returns
<1>10. CASE (\E r \in network : Serve(r)) \/ (\E credential \in Credentials : Revoke(credential))
  BY <1>10, ServiceKeeps
<1>11. CASE UNCHANGED bridgeVars
  <2>1. UNCHANGED <<memory, starts, disk, used, sent, network, server, answered>>
    BY <1>11 DEF bridgeVars
  <2>2. Types'
    BY <2>1 DEF memory, disk, server, BridgeInv, Types, BridgeTypeOK
  <2>3. Memory'
    BY <2>1, MemoryKept DEF memory, BridgeInv
  <2>4. Identity'
    BY <2>1, StoresKept, IdentityKept DEF memory, disk, BridgeInv
  <2>5. Remembered'
    BY <2>1, RememberedKept DEF memory, disk, BridgeInv
  <2> QED BY <2>2, <2>3, <2>4, <2>5 DEF BridgeInv
<1> QED
  BY <1>1, <1>2, <1>3, <1>4, <1>5, <1>6, <1>7, <1>8, <1>9, <1>10, <1>11 DEF BridgeNext

LEMMA BridgeInvariant == BridgeSpec => []BridgeInv
<1>1. BridgeInit => BridgeInv
  BY BridgeStarts
<1>2. BridgeInv /\ [BridgeNext]_bridgeVars => BridgeInv'
  BY BridgeSteps
<1> QED
  BY <1>1, <1>2, PTL DEF BridgeSpec

\* The client, its file and the requests in flight have their types
\* (native.rs 26-104, bridge.rs 6-27).
THEOREM BridgeTypeCorrect == BridgeSpec => []BridgeTypeOK
<1>1. BridgeInv => BridgeTypeOK
  BY DEF BridgeInv, Types
<1> QED
  BY <1>1, BridgeInvariant, PTL

\* Whatever the order of logins, answers, failures and restarts, memory keeps
\* one write, known to the session and to recovery alike, and waits for at most
\* one answer, that write's (native.rs 183-229, 319-364).
THEOREM WriteInMemory == BridgeSpec => []OneWriteInMemory
<1>1. BridgeInv => OneWriteInMemory
  BY DEF BridgeInv, Memory
<1> QED
  BY <1>1, BridgeInvariant, PTL

\* No key is ever sent to two servers, or under two credentials: neither a
\* login after a restart nor a file that a power cut brought back changes
\* whose write it is (native.rs 176-198).
THEOREM OneIdentity == BridgeSpec => []SentUnderOneIdentity
<1>1. BridgeInv => SentUnderOneIdentity
  BY DEF BridgeInv, Identity, Same, SentUnderOneIdentity
<1> QED
  BY <1>1, BridgeInvariant, PTL

\* At every moment the recovery file names the write that was sent and not
\* answered for good, as one that was attempted, or is torn and refused; a
\* power cut excepted (native.rs 106-161, 311-357).
THEOREM WriteIsRemembered == BridgeSpec => []SentIsRemembered
<1>1. BridgeInv => SentIsRemembered
  BY DEF BridgeInv, Remembered, Mark, SentIsRemembered
<1> QED
  BY <1>1, BridgeInvariant, PTL
=============================================================================
