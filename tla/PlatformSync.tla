---------------------------- MODULE PlatformSync ----------------------------
(***************************************************************************)
(* The pull synchronisation of one platform connection: sync_next of       *)
(* taobao/sync.rs (meituan/sync.rs differs in the length of its window),   *)
(* driven by the workers of several processes and by manual calls.         *)
(*                                                                         *)
(* Upstream, one fact happens in the course of every minute and becomes   *)
(* visible at most Lag minutes later.  A window [start, end) is read page  *)
(* by page; the cursor is the first minute not yet returned.  The          *)
(* questions are whether every fact is read once the checkpoint has moved  *)
(* past it, and whether one worker can undo the progress of another.       *)
(***************************************************************************)
EXTENDS Connections, Integers

CONSTANTS
    Workers,
    Window, Overlap,   \* minutes of a window, and what it repeats of the last
    Lag,               \* minutes until a fact is visible upstream
    Ahead, Behind,     \* how far `now` of a worker may be off upstream's clock
    MaxClock,
    NoRow,
    InitialRow         \* the checkpoint before the modelled history

ASSUME SyncAssumption ==
    /\ {Window, Overlap, Lag, Ahead, Behind, MaxClock} \subseteq Nat
    /\ Window > 0
    /\ Lag + Ahead <= Overlap
    /\ None \notin Int
    /\ NoRow \notin [cursor : Int \cup {None}, start : Int \cup {None},
                     end : Int \cup {None}]

\* A checkpoint as next_window sees it.  record_failure creates EmptyRow.
EmptyRow == [cursor |-> None, start |-> None, end |-> None]
Row == [cursor : Int \cup {None}, start : Int, end : Int] \cup {EmptyRow}

ASSUME RowAssumption == InitialRow \in {NoRow, EmptyRow}

VARIABLES
    clock,       \* upstream's clock
    checkpoint,  \* the row of platform_sync_checkpoints, or NoRow
    pc,          \* where a worker is in sync_next
    seen,        \* the checkpoint it read
    query,       \* the window it asks for
    page,        \* what it fetched
    locked,      \* whether its transaction holds the row lock
    stored,      \* facts with an observation
    first        \* the start of the first window stored, or None

syncVars == <<clock, checkpoint, pc, seen, query, page, locked, stored, first>>
vars == <<connectionVars, syncVars>>

Earlier(x, y) == IF x < y THEN x ELSE y

Recent(now) == [start |-> now - Window, end |-> now, from |-> now - Window]
Resumed(row) == [start |-> row.start, end |-> row.end, from |-> row.cursor]
Following(start, now) ==
    [start |-> start, end |-> Earlier(start + Window, now), from |-> start]

\* Mutant: the next window starts where the last one ended.
NoOverlap(row, now) ==
    IF row \in {NoRow, EmptyRow} THEN Recent(now)
    ELSE IF row.cursor # None THEN Resumed(row)
    ELSE IF now > row.end THEN Following(row.end, now) ELSE Recent(now)

\* Mutant: a host clock that went back inverts the window.
AnyNow(row, now) ==
    IF row \in {NoRow, EmptyRow} THEN Recent(now)
    ELSE IF row.cursor # None THEN Resumed(row)
    ELSE Following(row.end - Overlap, now)

\* Mutant: the next window repeats all of the last one.
FullOverlap(row, now) ==
    IF row \in {NoRow, EmptyRow} THEN Recent(now)
    ELSE IF row.cursor # None THEN Resumed(row)
    ELSE IF now > row.end - Window THEN Following(row.end - Window, now) ELSE Recent(now)

\* next_window; `from` is the first minute the page may return.
NextWindow(row, now) ==
    IF row \in {NoRow, EmptyRow} THEN Recent(now)
    ELSE IF row.cursor # None THEN Resumed(row)
    ELSE IF now > row.end - Overlap THEN Following(row.end - Overlap, now)
    ELSE Recent(now)

Visible(t) == t + 1 + Lag <= clock

-----------------------------------------------------------------------------
Init ==
    /\ ConnectionInit
    /\ clock = 0
    /\ checkpoint = InitialRow
    /\ pc = [w \in Workers |-> "idle"]
    /\ seen = [w \in Workers |-> NoRow]
    /\ query = [w \in Workers |-> None]
    /\ page = [w \in Workers |-> None]
    /\ locked = [w \in Workers |-> FALSE]
    /\ stored = {} /\ first = None

Tick ==
    /\ clock < MaxClock
    /\ clock' = clock + 1
    /\ UNCHANGED <<checkpoint, pc, seen, query, page, locked, stored, first, connectionVars>>

\* ensure_connection and checkpoint.  A cycle takes `now` once for all its
\* pages, so it may be old; hosts may also disagree about the time.
Begin(w) ==
    /\ Enabled
    /\ pc[w] = "idle"
    /\ \E now \in clock - Behind .. clock + Ahead :
          query' = [query EXCEPT ![w] = NextWindow(checkpoint, now)]
    /\ seen' = [seen EXCEPT ![w] = checkpoint]
    /\ pc' = [pc EXCEPT ![w] = "fetching"]
    /\ UNCHANGED <<clock, checkpoint, page, locked, stored, first, connectionVars>>

\* The page that ends before minute upto; a cursor is left when more follows.
PageOf(q, upto) ==
    [facts |-> {t \in q.from .. upto - 1 : Visible(t)},
     cursor |-> IF upto < q.end THEN upto ELSE None]

\* fetch_orders and persist_raw.
Fetch(w) ==
    /\ pc[w] = "fetching"
    /\ \E upto \in query[w].from + 1 .. query[w].end :
          page' = [page EXCEPT ![w] = PageOf(query[w], upto)]
    /\ pc' = [pc EXCEPT ![w] = "fetched"]
    /\ UNCHANGED <<clock, checkpoint, seen, query, locked, stored, first, connectionVars>>

Idle(w) ==
    /\ pc' = [pc EXCEPT ![w] = "idle"]
    /\ seen' = [seen EXCEPT ![w] = NoRow]
    /\ query' = [query EXCEPT ![w] = None]
    /\ page' = [page EXCEPT ![w] = None]
    /\ locked' = [locked EXCEPT ![w] = FALSE]

Free(w) == \A v \in Workers \ {w} : ~locked[v]

\* Network, normalisation and lock errors end in record_failure: it waits for
\* the row and inserts it when there is none, but moves no cursor or window.
\* Without a free row, its own statement fails too.
Fail(w) ==
    /\ pc[w] # "idle"
    /\ Idle(w)
    /\ checkpoint' = IF checkpoint = NoRow /\ Free(w) THEN EmptyRow ELSE checkpoint
    /\ UNCHANGED <<clock, stored, first, connectionVars>>

\* The process stops, or its cycle is cancelled at shutdown.
Crash(w) ==
    /\ pc[w] # "idle"
    /\ Idle(w)
    /\ UNCHANGED <<clock, checkpoint, stored, first, connectionVars>>

\* Mutant: the row is locked but not compared.
Anything(w) == TRUE

SameCheckpoint(w) == checkpoint = seen[w]

\* lock_checkpoint: SELECT ... FOR UPDATE locks the row if there is one.
Lock(w) ==
    /\ pc[w] = "fetched"
    /\ Free(w)
    /\ SameCheckpoint(w)
    /\ locked' = [locked EXCEPT ![w] = checkpoint # NoRow]
    /\ pc' = [pc EXCEPT ![w] = "locked"]
    /\ UNCHANGED <<clock, checkpoint, seen, query, page, stored, first, connectionVars>>

\* ConcurrentSync: the fetched RawEvent stays, nothing else happens.
Concurrent(w) ==
    /\ pc[w] = "fetched"
    /\ Free(w)
    /\ ~SameCheckpoint(w)
    /\ Idle(w)
    /\ UNCHANGED <<clock, checkpoint, stored, first, connectionVars>>

\* The observations and INSERT ... ON CONFLICT DO UPDATE of the checkpoint.
Commit(w) ==
    /\ pc[w] = "locked"
    /\ Free(w)
    /\ stored' = stored \cup page[w].facts
    /\ first' = IF first = None THEN query[w].start ELSE first
    /\ checkpoint' = [cursor |-> page[w].cursor,
                      start  |-> query[w].start, end |-> query[w].end]
    /\ Idle(w)
    /\ UNCHANGED <<clock, connectionVars>>

Next ==
    \/ Tick
    \/ ConnectionNext /\ UNCHANGED syncVars
    \/ \E w \in Workers :
          Begin(w) \/ Fetch(w) \/ Fail(w) \/ Crash(w)
          \/ Lock(w) \/ Concurrent(w) \/ Commit(w)

SyncSpec == Init /\ [][Next]_vars

\* The cycles run on, and their steps do not fail forever.
CyclesRun ==
    /\ WF_vars(Tick)
    /\ WF_vars(\E w \in Workers : Begin(w))
    /\ SF_vars(\E w \in Workers : Fetch(w))
    /\ SF_vars(\E w \in Workers : Lock(w))
    /\ SF_vars(\E w \in Workers : Commit(w))

-----------------------------------------------------------------------------
(* Properties.                                                             *)

Windows == [start : Int, end : Int, from : Int]
Fetched == [facts : SUBSET Int, cursor : Int \cup {None}]

\* Type invariant: every window that is asked for is one (start before end),
\* and at most one transaction has the row.
SyncTypeOK ==
    /\ clock \in 0 .. MaxClock
    /\ checkpoint \in Row \cup {NoRow}
    /\ pc \in [Workers -> {"idle", "fetching", "fetched", "locked"}]
    /\ seen \in [Workers -> Row \cup {NoRow}]
    /\ query \in [Workers -> Windows \cup {None}]
    /\ \A w \in Workers :
          IF pc[w] = "idle" THEN query[w] = None
          ELSE /\ query[w] \in Windows
               /\ query[w].start < query[w].end
               /\ query[w].from \in query[w].start .. query[w].end - 1
    /\ page \in [Workers -> Fetched \cup {None}]
    /\ locked \in [Workers -> BOOLEAN]
    /\ \A w \in Workers : locked[w] => pc[w] = "locked" /\ Free(w)
    /\ stored \subseteq Int /\ first \in Int \cup {None}

\* Everything before this minute counts as read.
Reached(row) ==
    IF row.cursor = None THEN row.end - Overlap
    ELSE Earlier(row.cursor, row.end - Overlap)

\* No gap: every fact from the first window on, up to where the next window
\* will start or the cursor stands, has been stored, whatever pages, failures,
\* crashes, late facts and clock differences there were
\* (taobao/sync.rs 62-72, 128-161, 284-308).
NoGap ==
    first # None =>
        \A t \in first .. Reached(checkpoint) - 1 : t \in stored

\* "若发现 checkpoint 已被其他 worker 推进 ... 拒绝覆盖新 checkpoint": a commit never
\* replaces progress that its page was not fetched for
\* (docs/VERIFICATION.md 31, taobao/sync.rs 92-95).
OverwritesSeen ==
    [][\A w \in Workers :
          Commit(w) /\ checkpoint' # checkpoint =>
             checkpoint \in {seen[w], NoRow, EmptyRow}]_vars

\* The checkpoint does not stand still: when the workers go on and the platform
\* answers, every visible fact since the first window is stored, also after an
\* outage longer than a window, unless the connection is suspended or revoked
\* (runtime.rs 248-302, taobao/sync.rs 299-304).
CatchesUp ==
    (first # None) ~>
        IF first = None THEN FALSE
        ELSE ~Enabled \/ \A t \in first .. MaxClock - 1 - Lag - Behind : t \in stored
=============================================================================
