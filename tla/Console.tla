------------------------------- MODULE Console -------------------------------
(***************************************************************************)
(* The console in browser tabs (apps/console/src): one write at a time,    *)
(* whichever form prepares it, under one phase that all forms of a tab     *)
(* share.  The write is kept in the local storage, which all tabs share,   *)
(* so that a later login can resume it under its key.                      *)
(*                                                                         *)
(* Recovering, preparing and discarding touch only the local storage and   *)
(* end within one task of the event loop: one step.  Sending awaits the    *)
(* network; until it returns the user goes on clicking, and may reload the *)
(* tab, which loses all of its memory.  Left out: the fields of a form and *)
(* their validation (an invalid form changes nothing), the checkbox that   *)
(* confirms a write, roles, and what the server does (any answer, or none, *)
(* may come).  A storage call that fails changes nothing; where the code   *)
(* goes on differently after it, Faulty says whether it may.  Faulty also  *)
(* says whether the stored write may be deleted from outside.              *)
(***************************************************************************)
EXTENDS WritePhases, Naturals, FiniteSets

CONSTANTS
    Tabs,
    Faulty   \* operations whose storage calls may fail, and "clear"

\* Where a write is held: the recovery panel and the six forms.
Forms   == {"capture", "refund", "request", "advance", "reject", "operations"}
Holders == Forms \cup {"recovery"}
Pages   == {"resource", "quote", "orders", "payouts"}
Stored  == [actor : Actors, key : Keys, attempted : BOOLEAN]
Slots   == [actor : Actors, key : Keys, state : {"prepared", "open", "concluded"}]

ASSUME ConsoleAssumption ==
    /\ None \notin Actors \cup Keys \cup Stored \cup Slots
    /\ Faulty \subseteq {"recover", "send", "retry", "discard", "clear"}

VARIABLES
    actor,    \* tab -> who is logged in, or None
    phase,    \* tab -> the phase shared by its forms
    page,     \* tab -> the page shown
    detail,   \* tab -> whether an order or a payout is opened on the page
    quoted,   \* tab -> "no", "busy" or "yes": the trial quote of a capture
    pending,  \* tab -> holder -> the key of the write it holds, or None
    call,     \* tab -> the key of the write being sent, or None
    storage,  \* the write in the local storage, or None
    issued, transmitted,  \* keys handed out, keys ever sent
    settled,  \* keys whose last request was answered for good
    unguarded \* keys that the client lost sight of since they were last sent or
              \* recovered: a retry could not be sent, or the record was deleted

tabState    == <<actor, phase, page, detail, quoted, pending, call>>
history     == <<issued, transmitted, settled, unguarded>>
consoleVars == <<tabState, storage, history>>

Empty == [h \in Holders |-> None]

ConsoleInit ==
    /\ actor = [t \in Tabs |-> None] /\ phase = [t \in Tabs |-> "Editing"]
    /\ page = [t \in Tabs |-> "resource"] /\ detail = [t \in Tabs |-> FALSE]
    /\ quoted = [t \in Tabs |-> "no"] /\ pending = [t \in Tabs |-> Empty]
    /\ call = [t \in Tabs |-> None]
    /\ storage = None
    /\ issued = {} /\ transmitted = {} /\ settled = {} /\ unguarded = {}

LoggedIn(t) == actor[t] # None

Show(t, p) ==
    /\ page' = [page EXCEPT ![t] = p]
    /\ detail' = [detail EXCEPT ![t] = FALSE]
    /\ quoted' = [quoted EXCEPT ![t] = "no"]

-----------------------------------------------------------------------------
(* Logging in and out.                                                     *)

\* Mutants: a write that was sent is resumed as if it had not been; the phase
\* is not set once the write has been recovered.
AsPrepared     == "Prepared"
StaysPreparing == "Preparing"

RecoveredPhase == IF storage.attempted THEN "Unknown" ELSE "Prepared"

Recoverable(a) == storage # None /\ storage.actor = a

\* Login, then Client::recover as the first thing of the new Shell: a write
\* that is not this actor's, or cannot be read, leaves the forms editable.
Login(t, a) ==
    /\ ~LoggedIn(t)
    /\ actor' = [actor EXCEPT ![t] = a]
    /\ Show(t, "resource")
    /\ \/ /\ Recoverable(a)
          /\ phase' = [phase EXCEPT ![t] = RecoveredPhase]
          /\ pending' = [pending EXCEPT ![t] = [Empty EXCEPT !["recovery"] = storage.key]]
          /\ unguarded' = unguarded \ {storage.key}
       \/ /\ ~Recoverable(a) \/ "recover" \in Faulty
          /\ phase' = [phase EXCEPT ![t] = "Editing"]
          /\ pending' = [pending EXCEPT ![t] = Empty]
          /\ UNCHANGED unguarded
    /\ UNCHANGED <<call, storage, issued, transmitted, settled>>

Leave(t) ==
    /\ actor' = [actor EXCEPT ![t] = None]
    /\ phase' = [phase EXCEPT ![t] = "Editing"]
    /\ pending' = [pending EXCEPT ![t] = Empty]
    /\ call' = [call EXCEPT ![t] = None]
    /\ Show(t, "resource")
    /\ UNCHANGED <<storage, history>>

SignOut(t) == LoggedIn(t) /\ phase[t] = "Editing" /\ Leave(t)

\* The tab is reloaded, or closed and opened again.
Reload(t) == LoggedIn(t) /\ Leave(t)

-----------------------------------------------------------------------------
(* What is on the page.                                                    *)

Navigate(t, p) ==
    /\ LoggedIn(t) /\ phase[t] = "Editing"
    /\ Show(t, p)
    /\ UNCHANGED <<actor, phase, pending, call, storage, history>>

DetailForms == {"refund", "advance", "reject"}

\* The rows of a list stay clickable in every phase.  The forms of the detail
\* shown before are disposed of, and with them the write one of them held.
OpenDetail(t) ==
    /\ LoggedIn(t) /\ page[t] \in {"orders", "payouts"}
    /\ detail' = [detail EXCEPT ![t] = TRUE]
    /\ pending' = [pending EXCEPT ![t] =
                     [h \in Holders |-> IF h \in DetailForms THEN None ELSE @[h]]]
    /\ UNCHANGED <<actor, phase, page, quoted, call, storage, history>>

CloseDetail(t) ==
    /\ LoggedIn(t) /\ detail[t] /\ phase[t] = "Editing"
    /\ detail' = [detail EXCEPT ![t] = FALSE]
    /\ UNCHANGED <<actor, phase, page, quoted, pending, call, storage, history>>

SetQuoted(t, q) ==
    /\ quoted' = [quoted EXCEPT ![t] = q]
    /\ UNCHANGED <<actor, phase, page, detail, pending, call, storage, history>>

\* The trial quote: asked for and edited only in Editing, answered any time.
Quote(t) ==
    /\ LoggedIn(t) /\ page[t] = "quote"
    /\ \/ quoted[t] = "no" /\ phase[t] = "Editing" /\ SetQuoted(t, "busy")
       \/ quoted[t] = "busy" /\ \E q \in {"no", "yes"} : SetQuoted(t, q)
       \/ quoted[t] = "yes" /\ phase[t] = "Editing" /\ SetQuoted(t, "no")

Mounted(t) ==
    {"operations"}
    \cup (IF page[t] = "quote" /\ quoted[t] = "yes" THEN {"capture"} ELSE {})
    \cup (IF page[t] = "orders" /\ detail[t] THEN {"refund"} ELSE {})
    \cup (IF page[t] = "payouts" THEN {"request"} ELSE {})
    \cup (IF page[t] = "payouts" /\ detail[t] THEN {"advance", "reject"} ELSE {})

-----------------------------------------------------------------------------
(* Client::prepare, execute and discard, as every holder calls them.       *)

\* prepare: a storage that is taken or fails leaves everything as it was.
PrepareIn(t, h, k) ==
    /\ LoggedIn(t) /\ phase[t] = "Editing" /\ h \in Mounted(t)
    /\ storage = None /\ k \notin issued
    /\ storage' = [actor |-> actor[t], key |-> k, attempted |-> FALSE]
    /\ issued' = issued \cup {k}
    /\ pending' = [pending EXCEPT ![t][h] = k]
    /\ phase' = [phase EXCEPT ![t] = "Prepared"]
    /\ UNCHANGED <<actor, page, detail, quoted, call, transmitted, settled, unguarded>>

\* Mutant: the storage keeps saying that the write was never sent.
NotMarked == storage

Marked == [storage EXCEPT !.attempted = TRUE]

Holds(t, k) == storage # None /\ storage.actor = actor[t] /\ storage.key = k

\* execute up to its await: marked in the storage, then sent.
SendFrom(t, h) ==
    LET k == pending[t][h]
    IN  /\ LoggedIn(t) /\ phase[t] \in MaySend /\ k # None
        /\ Holds(t, k)
        /\ storage' = Marked
        /\ phase' = [phase EXCEPT ![t] = "Sending"]
        /\ call' = [call EXCEPT ![t] = k]
        /\ transmitted' = transmitted \cup {k}
        /\ settled' = settled \ {k} /\ unguarded' = unguarded \ {k}
        /\ UNCHANGED <<actor, page, detail, quoted, pending, issued>>

\* execute that sends nothing: the storage fails, or the write is not in it any
\* more.  Such an error does not count as an unknown outcome, whatever was sent
\* before.
SendFails(t, h) ==
    /\ LoggedIn(t) /\ phase[t] \in MaySend /\ pending[t][h] # None
    /\ \/ ~Holds(t, pending[t][h])
       \/ (IF phase[t] = "Unknown" THEN "retry" ELSE "send") \in Faulty
    /\ phase' = [phase EXCEPT ![t] = "Rejected"]
    /\ unguarded' = IF phase[t] = "Unknown" THEN unguarded \cup {pending[t][h]} ELSE unguarded
    /\ UNCHANGED <<actor, page, detail, quoted, pending, call, storage,
                   issued, transmitted, settled>>

\* execute after its await.
Answer(t, status) ==
    /\ call[t] # None
    /\ call' = [call EXCEPT ![t] = None]
    /\ phase' = [phase EXCEPT ![t] = PhaseAfter(status)]
    /\ settled' = IF status \in Final THEN settled \cup {call[t]} ELSE settled
    /\ UNCHANGED <<actor, page, detail, quoted, pending, storage,
                   issued, transmitted, unguarded>>

\* discard: only the key is compared, not what happened to the write since.
Discarded(t, h) ==
    /\ storage = None \/ Holds(t, pending[t][h])
    /\ storage' = None
    /\ pending' = [pending EXCEPT ![t][h] = None]
    /\ phase' = [phase EXCEPT ![t] = "Editing"]
    /\ UNCHANGED <<actor, call, history>>

\* Mutant: a write whose outcome is unknown may be given up.
UnlessSending == Phase \ {"Preparing", "Sending"}

MayGiveUp == MayEdit

DiscardFrom(t, h) ==
    /\ LoggedIn(t) /\ phase[t] \in MayGiveUp /\ pending[t][h] # None
    /\ Discarded(t, h)
    /\ UNCHANGED <<page, detail, quoted>>

DiscardFails(t, h, after) ==
    /\ LoggedIn(t) /\ phase[t] \in MayGiveUp /\ pending[t][h] # None
    /\ "discard" \in Faulty \/ (storage # None /\ ~Holds(t, pending[t][h]))
    /\ phase' = [phase EXCEPT ![t] = after]
    /\ UNCHANGED <<actor, page, detail, quoted, pending, call, storage, history>>

\* The "done" button of a form; when it fails the phase stays Succeeded.
Complete(t, h) ==
    /\ LoggedIn(t) /\ phase[t] = "Succeeded" /\ pending[t][h] # None
    /\ Discarded(t, h)

-----------------------------------------------------------------------------
(* The components of the user interface.                                   *)

Sends(t, h) == SendFrom(t, h) \/ SendFails(t, h)

RecoveryPanel(t) ==
    Sends(t, "recovery") \/ DiscardFrom(t, "recovery") \/ DiscardFails(t, "recovery", "Rejected")

\* The button to go back is hidden once a write has succeeded.
Form(t, h) ==
    \/ \E k \in Keys : PrepareIn(t, h, k)
    \/ Sends(t, h)
    \/ phase[t] # "Succeeded" /\ (DiscardFrom(t, h) \/ DiscardFails(t, h, "Rejected"))

CaptureForm(t) ==
    \/ Form(t, "capture")
    \/ Complete(t, "capture") /\ Show(t, "orders")

RefundForm(t) ==
    \/ Form(t, "refund")
    \/ Complete(t, "refund") /\ UNCHANGED <<page, detail, quoted>>

PayoutRequest(t) ==
    \/ Form(t, "request")
    \/ Complete(t, "request") /\ UNCHANGED <<page, detail, quoted>>

PayoutAction(t) ==
    \E h \in {"advance", "reject"} :
        \/ Form(t, h)
        \/ Complete(t, h) /\ UNCHANGED <<page, detail, quoted>>

Operations(t) ==
    \/ \E k \in Keys : PrepareIn(t, "operations", k)
    \/ Sends(t, "operations") \/ DiscardFrom(t, "operations")
    \/ DiscardFails(t, "operations", "Unknown")

\* The local storage is cleared by the user or by the browser.
Clear ==
    /\ storage # None /\ "clear" \in Faulty
    /\ storage' = None
    /\ unguarded' = unguarded \cup {storage.key}
    /\ UNCHANGED <<tabState, issued, transmitted, settled>>

ConsoleNext ==
    \/ \E t \in Tabs :
          \/ \E a \in Actors : Login(t, a)
          \/ SignOut(t) \/ Reload(t)
          \/ \E p \in Pages : Navigate(t, p)
          \/ OpenDetail(t) \/ CloseDetail(t) \/ Quote(t)
          \/ RecoveryPanel(t) \/ CaptureForm(t) \/ RefundForm(t)
          \/ PayoutRequest(t) \/ PayoutAction(t) \/ Operations(t)
          \/ \E status \in Answers : Answer(t, status)
    \/ Clear

ConsoleSpec == ConsoleInit /\ [][ConsoleNext]_consoleVars

-----------------------------------------------------------------------------
(* Properties.                                                             *)

\* Type invariant of the tabs, the local storage and the history; Preparing
\* never outlives the task that entered it.
ConsoleTypeOK ==
    /\ actor \in [Tabs -> Actors \cup {None}]
    /\ phase \in [Tabs -> Phase \ {"Preparing"}]
    /\ page \in [Tabs -> Pages] /\ detail \in [Tabs -> BOOLEAN]
    /\ quoted \in [Tabs -> {"no", "busy", "yes"}]
    /\ pending \in [Tabs -> [Holders -> Keys \cup {None}]]
    /\ call \in [Tabs -> Keys \cup {None}]
    /\ storage \in Stored \cup {None}
    /\ issued \subseteq Keys /\ transmitted \subseteq issued /\ settled \subseteq transmitted
    /\ unguarded \subseteq Keys

\* Where the write k of a tab is: in the storage, or deleted from it.
Kept(t, k) == Holds(t, k) \/ (storage = None /\ k \in unguarded)

\* However many forms share the phase, at most one of them holds a write, and
\* it is the stored one of the actor who is logged in unless it was deleted;
\* none does in Editing.  A tab that sends is in Sending and its write is marked
\* in the storage; a write shown as Prepared was never sent (app.rs 79-101,
\* platform.rs 155-337).
OneWrite ==
    \A t \in Tabs :
        /\ \A h \in Holders : pending[t][h] # None =>
              /\ phase[t] # "Editing" /\ Kept(t, pending[t][h])
              /\ phase[t] = "Prepared" => pending[t][h] \notin transmitted
              /\ \A g \in Holders : pending[t][g] # None => g = h
        /\ call[t] # None <=> phase[t] = "Sending"
        /\ call[t] # None => Kept(t, call[t]) /\ (storage # None => storage.attempted)

\* "结果未知时不能另建请求": while the outcome of a request that was sent is not
\* known, no request with another key is sent, whatever is reloaded, whoever
\* logs in and whatever becomes of the storage (app.rs 140, OPERATIONS.md 59,
\* ARCHITECTURE.md 105, CROSS_PLATFORM.md 50-54).  Two tabs break it, and so
\* does a retry that finds the storage failing (bridge.rs 33-43, platform.rs
\* 282-299): see MCTabs.cfg and MCRetry.cfg.
NoReplacement == Cardinality(transmitted \ settled) <= 1

\* What is left of it in one tab: beside the writes that a failed retry or a
\* deleted record took from the client's sight, no two have an open outcome.
NoSilentReplacement == Cardinality(transmitted \ (settled \cup unguarded)) <= 1

\* The local storage of one tab is the slot of WriteSlot.
Slot ==
    IF storage = None THEN None
    ELSE [actor |-> storage.actor, key |-> storage.key,
          state |-> IF storage.key \notin transmitted THEN "prepared"
                    ELSE IF storage.key \in settled THEN "concluded" ELSE "open"]

Promise == INSTANCE WriteSlot WITH slot <- Slot, lost <- unguarded

\* The console keeps what WriteSlot promises: a write that was sent and not
\* answered for good is neither dropped nor replaced, except after a retry of it
\* that could not be sent or when its record is deleted from outside; and every
\* new one has a fresh key (platform.rs 155-337).
KeepsWrite == Promise!SlotSpec
=============================================================================
