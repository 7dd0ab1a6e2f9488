----------------------------- MODULE SyncProofs -----------------------------
(***************************************************************************)
(* Proofs about PlatformSync and Connections for any number of workers and *)
(* integrators and for windows of any length: types, that a revoked        *)
(* connection stays revoked, and, once the checkpoint row exists, that no  *)
(* fact is skipped and no progress overwritten.  Without the row the last  *)
(* is false (OverwritesSeen in MCFirstSync.cfg).                           *)
(*                                                                         *)
(* WorkerOK says what a worker's window and page are worth by themselves,  *)
(* as of the checkpoint it has read; SafeRow, that a worker which is about *)
(* to commit still has the newest checkpoint, so its page continues what   *)
(* is stored.                                                              *)
(***************************************************************************)
EXTENDS PlatformSync, TLAPS

-----------------------------------------------------------------------------
(* The status of a connection.                                             *)

\* At most one change is under way, and it goes by the status as it is.
ConnectionInv ==
    /\ change \in [Integrators -> Statuses \cup {None}]
    /\ \A i \in Integrators : change[i] # None =>
          RowFree(i) /\ (status = "revoked" => change[i] = "revoked")

LEMMA ConnectionStep ==
    ASSUME ConnectionInv, ConnectionNext
    PROVE  ConnectionInv' /\ (status = "revoked" => status' = "revoked")
<1>1. CASE CreateConnection
  BY <1>1 DEF CreateConnection, ConnectionInv, RowFree
<1>2. ASSUME NEW i \in Integrators, LockConnection(i)
      PROVE  ConnectionInv' /\ (status = "revoked" => status' = "revoked")
  <2>1. PICK to \in Statuses : MayChange(to) /\ change' = [change EXCEPT ![i] = to]
    BY <1>2 DEF LockConnection
  <2>2. /\ change'[i] = to /\ RowFree(i) /\ status' = status
        /\ \A j \in Integrators \ {i} : change'[j] = None
    BY <1>2, <2>1 DEF LockConnection, ConnectionInv, RowFree
  <2>3. change' \in [Integrators -> Statuses \cup {None}]
    BY <2>1 DEF ConnectionInv
  <2> QED BY <2>1, <2>2, <2>3 DEF ConnectionInv, RowFree, MayChange
<1>3. ASSUME NEW i \in Integrators, CommitStatus(i) \/ AbortStatus(i)
      PROVE  ConnectionInv' /\ (status = "revoked" => status' = "revoked")
  <2>1. /\ change' = [change EXCEPT ![i] = None] /\ change[i] # None
        /\ status' \in {status, change[i]}
    BY <1>3 DEF CommitStatus, AbortStatus
  <2>2. \A j \in Integrators : change'[j] = None
    BY <2>1 DEF ConnectionInv, RowFree
  <2>3. change' \in [Integrators -> Statuses \cup {None}]
    BY <2>1 DEF ConnectionInv
  <2> QED BY <2>1, <2>2, <2>3 DEF ConnectionInv
<1> QED
  BY <1>1, <1>2, <1>3 DEF ConnectionNext

\* No interleaving of status changes, with the synchronisation running beside
\* them, brings a revoked connection back.
THEOREM RevokedStays == SyncSpec => RevokedForever
<1>1. Init => ConnectionInv
  BY DEF Init, ConnectionInit, ConnectionInv
<1>2. ConnectionInv /\ [Next]_vars => ConnectionInv'
      /\ [status = "revoked" => status' = "revoked"]_connectionVars
  <2> SUFFICES ASSUME ConnectionInv, [Next]_vars
               PROVE  /\ ConnectionInv'
                      /\ (status = "revoked" => status' = "revoked") \/ UNCHANGED connectionVars
    OBVIOUS
  <2>1. UNCHANGED connectionVars \/ ConnectionNext
    BY DEF Next, vars, Tick, Begin, Fetch, Fail, Crash, Lock, Concurrent, Commit
  <2>2. CASE UNCHANGED connectionVars
    BY <2>2 DEF connectionVars, ConnectionInv, RowFree
  <2>3. CASE ConnectionNext
    BY <2>3, ConnectionStep
  <2> QED BY <2>1, <2>2, <2>3
<1> QED
  BY <1>1, <1>2, PTL DEF SyncSpec, RevokedForever

-----------------------------------------------------------------------------
(* Windows and pages.                                                      *)

NoProgress == {NoRow, EmptyRow}
Real == [cursor : Int \cup {None}, start : Int, end : Int]

\* A window, as hosts may ask for it at minute c of the upstream clock.
Spans(start, end, c) == start < end /\ end <= c + Ahead

RowOK(row, c) ==
    \/ row \in NoProgress
    \/ /\ row \in Real /\ Spans(row.start, row.end, c)
       /\ row.cursor = None \/ row.cursor \in row.start + 1 .. row.end - 1

\* Window q asks for nothing beyond what row has reached, but for minutes too
\* young to count.
Continues(row, q) ==
    IF row \in NoProgress THEN q.from = q.start
    ELSE Earlier(q.from, q.end - Overlap) <= Reached(row)

WindowOK(row, q, c) ==
    /\ q \in Windows /\ Spans(q.start, q.end, c)
    /\ q.from \in q.start .. q.end - 1
    /\ Continues(row, q)

RowAfter(q, p) == [cursor |-> p.cursor, start |-> q.start, end |-> q.end]

\* Page p has every fact of window q that will count as read after it.
PageOK(q, p) ==
    /\ p \in Fetched
    /\ p.cursor = None \/ p.cursor \in q.from + 1 .. q.end - 1
    /\ \A t \in q.from .. Reached(RowAfter(q, p)) - 1 : t \in p.facts

WorkerOK(w) ==
    IF pc[w] = "idle" THEN query[w] = None /\ ~locked[w]
    ELSE /\ RowOK(seen[w], clock) /\ WindowOK(seen[w], query[w], clock)
         /\ pc[w] # "fetching" => PageOK(query[w], page[w])
         /\ locked[w] => pc[w] = "locked" /\ Free(w)

SyncTypes ==
    /\ clock \in 0 .. MaxClock
    /\ pc \in [Workers -> {"idle", "fetching", "fetched", "locked"}]
    /\ seen \in [Workers -> Row \cup {NoRow}]
    /\ query \in [Workers -> Windows \cup {None}]
    /\ page \in [Workers -> Fetched \cup {None}]
    /\ locked \in [Workers -> BOOLEAN]
    /\ stored \subseteq Int /\ first \in Int \cup {None}

SyncInv == SyncTypes /\ RowOK(checkpoint, clock) /\ \A w \in Workers : WorkerOK(w)

\* A checkpoint with a window is neither of the rows without one.
LEMMA RealHasWindow ==
    ASSUME NEW row \in Real
    PROVE  row \notin NoProgress
<1>1. row # NoRow
  BY SyncAssumption DEF Real
<1>2. row.start # EmptyRow.start
  BY SyncAssumption DEF Real, EmptyRow
<1> QED
  BY <1>1, <1>2 DEF NoProgress

LEMMA RowTyped ==
    ASSUME NEW c, NEW row, RowOK(row, c)
    PROVE  row \in Row \cup {NoRow}
BY DEF RowOK, Real, Row, NoProgress

\* next_window of any checkpoint: a window that continues it.
LEMMA NextWindowOK ==
    ASSUME NEW c \in Nat, NEW row, RowOK(row, c), NEW now \in Int, now <= c + Ahead
    PROVE  WindowOK(row, NextWindow(row, now), c)
<1>1. /\ Window \in Nat /\ Overlap \in Nat /\ Ahead \in Nat /\ Window > 0
  BY SyncAssumption
<1>2. /\ Recent(now) \in Windows /\ Spans(Recent(now).start, Recent(now).end, c)
      /\ Recent(now).from = Recent(now).start /\ Recent(now).from = now - Window
      /\ Recent(now).end = now
      /\ Recent(now).from \in Recent(now).start .. Recent(now).end - 1
  <2> DEFINE from == now - Window
  <2>1. Recent(now) = [start |-> from, end |-> now, from |-> from]
    BY DEF Recent
  <2>2. from \in Int /\ from < now /\ from \in from .. now - 1 /\ now <= c + Ahead
    BY <1>1
  <2> HIDE DEF from
  <2>3. Recent(now) \in Windows
    BY <2>1, <2>2 DEF Windows
  <2>4. Spans(from, now, c)
    BY <2>2 DEF Spans
  <2>5. from = now - Window
    BY DEF from
  <2> QED BY <2>1, <2>2, <2>3, <2>4, <2>5
<1>3. CASE row \in NoProgress
  <2>1. NextWindow(row, now) = Recent(now)
    BY <1>3 DEF NextWindow, NoProgress
  <2>2. Continues(row, Recent(now))
    BY <1>2, <1>3 DEF Continues
  <2> QED BY <1>2, <2>1, <2>2 DEF WindowOK
<1>4. CASE row \notin NoProgress
  <2>1. /\ row \in Real /\ Spans(row.start, row.end, c)
        /\ row.cursor = None \/ row.cursor \in row.start + 1 .. row.end - 1
    BY <1>4 DEF RowOK
  <2>2. row.start \in Int /\ row.end \in Int
    BY <2>1 DEF Real
  <2>3. CASE row.cursor # None
    <3>1. NextWindow(row, now) = [start |-> row.start, end |-> row.end, from |-> row.cursor]
      BY <1>4, <2>3 DEF NextWindow, NoProgress, Resumed
    <3>2. row.cursor \in row.start + 1 .. row.end - 1
      BY <2>1, <2>3
    <3>3. Reached(row) = Earlier(row.cursor, row.end - Overlap)
      BY <2>3 DEF Reached
    <3>4. Reached(row) \in Int
      BY <3>2, <3>3, <2>2, <1>1 DEF Earlier
    <3> QED BY <1>1, <1>4, <2>1, <2>2, <3>1, <3>2, <3>3, <3>4 DEF WindowOK, Continues, Windows
  <2>4. CASE row.cursor = None
    <3>1. Reached(row) = row.end - Overlap
      BY <2>4 DEF Reached
    <3>2. CASE now > row.end - Overlap
      <4> DEFINE from == row.end - Overlap
                 end == Earlier(from + Window, now)
      <4>1. NextWindow(row, now) = [start |-> from, end |-> end, from |-> from]
        BY <1>4, <2>4, <3>2 DEF NextWindow, NoProgress, Following
      <4>2. from \in Int /\ end \in Int /\ from < end /\ end <= now
        BY <1>1, <2>2, <3>2 DEF Earlier
      <4>3. Spans(from, end, c)
        BY <4>2, <1>1 DEF Spans
      <4>4. Earlier(from, end - Overlap) <= from
        BY <4>2, <1>1 DEF Earlier
      <4> HIDE DEF from, end
      <4>5. NextWindow(row, now) \in Windows
        BY <4>1, <4>2 DEF Windows
      <4>6. Reached(row) = from
        BY <3>1 DEF from
      <4> QED BY <1>4, <4>1, <4>2, <4>3, <4>4, <4>5, <4>6 DEF WindowOK, Continues
    <3>3. CASE ~(now > row.end - Overlap)
      <4>1. NextWindow(row, now) = Recent(now)
        BY <1>4, <2>4, <3>3 DEF NextWindow, NoProgress
      <4>2. Earlier(now - Window, now - Overlap) <= row.end - Overlap
        BY <1>1, <2>2, <3>3 DEF Earlier
      <4>3. Continues(row, Recent(now))
        BY <1>2, <1>4, <3>1, <4>2 DEF Continues
      <4> QED BY <1>2, <4>1, <4>3 DEF WindowOK
    <3> QED BY <3>2, <3>3
  <2> QED BY <2>3, <2>4
<1> QED
  BY <1>3, <1>4

\* A page of such a window: what counts as read after it was visible upstream.
LEMMA PageOfOK ==
    ASSUME NEW row, NEW q, clock \in Nat, WindowOK(row, q, clock),
           NEW upto \in q.from + 1 .. q.end
    PROVE  PageOK(q, PageOf(q, upto))
<1> DEFINE p == PageOf(q, upto)
<1>1. /\ Overlap \in Nat /\ Ahead \in Nat /\ Lag \in Nat /\ Lag + Ahead <= Overlap
      /\ None \notin Int
  BY SyncAssumption
<1>2. /\ q.from \in Int /\ q.end \in Int /\ q.start \in Int /\ upto \in Int
      /\ upto > q.from /\ upto <= q.end /\ q.end <= clock + Ahead
  BY DEF WindowOK, Windows, Spans
<1>3. /\ p.facts = {t \in q.from .. upto - 1 : Visible(t)}
      /\ p.cursor = IF upto < q.end THEN upto ELSE None
  BY DEF PageOf
<1>4. p \in Fetched
  BY <1>2 DEF PageOf, Fetched
<1>5. p.cursor = None \/ p.cursor \in q.from + 1 .. q.end - 1
  BY <1>2, <1>3
<1>6. /\ Reached(RowAfter(q, p)) \in Int
      /\ Reached(RowAfter(q, p)) <= upto /\ Reached(RowAfter(q, p)) <= q.end - Overlap
  <2>1. CASE upto < q.end
    <3>1. p.cursor = upto /\ upto # None
      BY <1>1, <1>2, <1>3, <2>1
    <3> QED BY <1>1, <1>2, <3>1 DEF Reached, RowAfter, Earlier
  <2>2. CASE ~(upto < q.end)
    <3>1. p.cursor = None
      BY <1>3, <2>2
    <3> QED BY <1>1, <1>2, <2>2, <3>1 DEF Reached, RowAfter
  <2> QED BY <2>1, <2>2
<1> HIDE DEF p
<1>7. ASSUME NEW t \in q.from .. Reached(RowAfter(q, p)) - 1 PROVE t \in p.facts
  <2>1. t \in Int /\ t >= q.from /\ t < upto /\ t < q.end - Overlap
    BY <1>1, <1>2, <1>6
  <2>2. Visible(t)
    BY <1>1, <1>2, <2>1 DEF Visible
  <2> QED BY <1>2, <1>3, <2>1, <2>2
<1> QED
  BY <1>4, <1>5, <1>7 DEF PageOK, p

\* Time passes.
LEMMA Later ==
    ASSUME NEW c \in Nat, NEW d \in Nat, c <= d, NEW row
    PROVE  /\ RowOK(row, c) => RowOK(row, d)
           /\ \A q : WindowOK(row, q, c) => WindowOK(row, q, d)
<1>1. Ahead \in Nat
  BY SyncAssumption
<1>2. ASSUME NEW start \in Int, NEW end \in Int, Spans(start, end, c)
      PROVE  Spans(start, end, d)
  BY <1>1, <1>2 DEF Spans
<1>3. RowOK(row, c) => RowOK(row, d)
  BY <1>2 DEF RowOK, Real
<1>4. ASSUME NEW q, WindowOK(row, q, c) PROVE WindowOK(row, q, d)
  BY <1>2, <1>4 DEF WindowOK, Windows
<1> QED
  BY <1>3, <1>4

-----------------------------------------------------------------------------
(* The types, and what workers know, are kept by every step.               *)

\* A worker that does not move, while nobody locks the row beside it.
LEMMA OtherWorkers ==
    ASSUME NEW v \in Workers, WorkerOK(v), clock \in Nat, clock' \in Nat, clock <= clock',
           pc'[v] = pc[v], seen'[v] = seen[v], query'[v] = query[v],
           page'[v] = page[v], locked'[v] = locked[v],
           locked[v] => Free(v)'
    PROVE  WorkerOK(v)'
<1>1. CASE pc[v] = "idle"
  BY <1>1 DEF WorkerOK
<1>2. CASE pc[v] # "idle"
  <2>1. /\ RowOK(seen[v], clock) => RowOK(seen[v], clock')
        /\ WindowOK(seen[v], query[v], clock) => WindowOK(seen[v], query[v], clock')
    BY Later
  <2> QED BY <1>2, <2>1 DEF WorkerOK
<1> QED
  BY <1>1, <1>2

\* A worker that ends, for whatever reason.
LEMMA IdleKeeps ==
    ASSUME NEW w \in Workers, SyncInv, Idle(w), clock' = clock,
           RowOK(checkpoint', clock), stored' \subseteq Int, first' \in Int \cup {None}
    PROVE  SyncInv'
<1>1. /\ pc'[w] = "idle" /\ query'[w] = None /\ ~locked'[w]
      /\ \A v \in Workers \ {w} :
            /\ pc'[v] = pc[v] /\ seen'[v] = seen[v] /\ query'[v] = query[v]
            /\ page'[v] = page[v] /\ locked'[v] = locked[v]
  BY DEF Idle, SyncInv, SyncTypes
<1>2. clock \in Nat
  BY SyncAssumption DEF SyncInv, SyncTypes
<1>3. ASSUME NEW v \in Workers \ {w} PROVE WorkerOK(v)'
  <2>1. WorkerOK(v) /\ (locked[v] => Free(v)')
    BY <1>1, <1>3 DEF SyncInv, WorkerOK, Free
  <2> QED BY <1>1, <1>2, <1>3, <2>1, OtherWorkers
<1>4. WorkerOK(w)'
  BY <1>1 DEF WorkerOK
<1>5. SyncTypes'
  <2>1. pc' \in [Workers -> {"idle", "fetching", "fetched", "locked"}]
    BY DEF Idle, SyncInv, SyncTypes
  <2>2. seen' \in [Workers -> Row \cup {NoRow}]
    BY DEF Idle, SyncInv, SyncTypes
  <2>3. query' \in [Workers -> Windows \cup {None}] /\ page' \in [Workers -> Fetched \cup {None}]
    BY DEF Idle, SyncInv, SyncTypes
  <2>4. locked' \in [Workers -> BOOLEAN]
    BY DEF Idle, SyncInv, SyncTypes
  <2> QED BY <2>1, <2>2, <2>3, <2>4 DEF SyncInv, SyncTypes
<1> QED
  BY <1>3, <1>4, <1>5 DEF SyncInv

\* What a commit leaves: a checkpoint with a window, and facts.
LEMMA CommitRow ==
    ASSUME NEW w \in Workers, SyncInv, Commit(w)
    PROVE  /\ checkpoint' = RowAfter(query[w], page[w])
           /\ checkpoint' \in Real /\ RowOK(checkpoint', clock)
           /\ stored' \subseteq Int /\ first' \in Int \cup {None}
           /\ query[w].start \in Int
<1>1. /\ WindowOK(seen[w], query[w], clock) /\ PageOK(query[w], page[w])
  BY DEF Commit, SyncInv, WorkerOK
<1>2. checkpoint' = RowAfter(query[w], page[w])
  BY DEF Commit, RowAfter
<1>3. /\ query[w].start \in Int /\ query[w].end \in Int /\ query[w].from \in Int
      /\ query[w].from >= query[w].start
  BY <1>1 DEF WindowOK, Windows
<1>4. checkpoint' \in Real
  BY <1>1, <1>2, <1>3 DEF PageOK, Fetched, RowAfter, Real
<1>5. page[w].cursor = None \/ page[w].cursor \in query[w].start + 1 .. query[w].end - 1
  BY <1>1, <1>3 DEF PageOK
<1>6. RowOK(checkpoint', clock)
  BY <1>1, <1>2, <1>4, <1>5 DEF RowOK, RowAfter, WindowOK
<1>7. stored' \subseteq Int
  BY <1>1 DEF Commit, PageOK, Fetched, SyncInv, SyncTypes
<1>8. first' \in Int \cup {None}
  BY <1>3 DEF Commit, SyncInv, SyncTypes
<1> QED
  BY <1>2, <1>3, <1>4, <1>6, <1>7, <1>8

LEMMA SyncStep ==
    ASSUME SyncInv, [Next]_vars
    PROVE  SyncInv'
<1>1. clock \in Nat
  BY SyncAssumption DEF SyncInv, SyncTypes
<1>2. CASE Tick
  <2>1. clock' \in 0 .. MaxClock /\ clock' \in Nat /\ clock <= clock'
    BY <1>1, <1>2, SyncAssumption DEF Tick, SyncInv, SyncTypes
  <2>2. UNCHANGED <<checkpoint, pc, seen, query, page, locked, stored, first>>
    BY <1>2 DEF Tick
  <2>3. RowOK(checkpoint', clock')
    BY <1>1, <2>1, <2>2, Later DEF SyncInv
  <2>4. ASSUME NEW v \in Workers PROVE WorkerOK(v)'
    <3>1. WorkerOK(v) /\ (locked[v] => Free(v)')
      BY <2>2 DEF SyncInv, WorkerOK, Free
    <3> QED BY <1>1, <2>1, <2>2, <3>1, OtherWorkers
  <2> QED BY <2>1, <2>2, <2>3, <2>4 DEF SyncInv, SyncTypes
<1>3. CASE UNCHANGED syncVars
  BY <1>3 DEF syncVars, SyncInv, SyncTypes, WorkerOK, Free
<1>4. ASSUME NEW w \in Workers, Begin(w) PROVE SyncInv'
  <2>1. PICK now \in clock - Behind .. clock + Ahead :
          query' = [query EXCEPT ![w] = NextWindow(checkpoint, now)]
    BY <1>4 DEF Begin
  <2>2. now \in Int /\ now <= clock + Ahead
    BY <1>1, <2>1, SyncAssumption
  <2>3. WindowOK(checkpoint, NextWindow(checkpoint, now), clock)
    BY <1>1, <2>2, NextWindowOK DEF SyncInv
  <2>4. checkpoint \in Row \cup {NoRow}
    BY RowTyped DEF SyncInv
  <2>5. /\ pc' = [pc EXCEPT ![w] = "fetching"] /\ seen' = [seen EXCEPT ![w] = checkpoint]
        /\ UNCHANGED <<clock, checkpoint, page, locked, stored, first>> /\ pc[w] = "idle"
    BY <1>4 DEF Begin
  <2>6. SyncTypes'
    BY <2>1, <2>3, <2>4, <2>5 DEF SyncInv, SyncTypes, WindowOK
  <2>7. WorkerOK(w)'
    <3>1. /\ pc'[w] = "fetching" /\ seen'[w] = checkpoint
          /\ query'[w] = NextWindow(checkpoint, now) /\ ~locked'[w]
      BY <2>1, <2>5 DEF SyncInv, SyncTypes, WorkerOK
    <3> QED BY <2>3, <2>5, <3>1 DEF SyncInv, WorkerOK
  <2>8. ASSUME NEW v \in Workers \ {w} PROVE WorkerOK(v)'
    <3>1. /\ pc'[v] = pc[v] /\ seen'[v] = seen[v] /\ query'[v] = query[v]
          /\ page'[v] = page[v] /\ locked'[v] = locked[v]
      BY <2>1, <2>5, <2>8 DEF SyncInv, SyncTypes
    <3>2. WorkerOK(v) /\ (locked[v] => Free(v)')
      BY <2>5 DEF SyncInv, WorkerOK, Free
    <3> QED BY <1>1, <2>5, <3>1, <3>2, OtherWorkers
  <2> QED BY <2>5, <2>6, <2>7, <2>8 DEF SyncInv
<1>5. ASSUME NEW w \in Workers, Fetch(w) PROVE SyncInv'
  <2>1. PICK upto \in query[w].from + 1 .. query[w].end :
          page' = [page EXCEPT ![w] = PageOf(query[w], upto)]
    BY <1>5 DEF Fetch
  <2>2. WindowOK(seen[w], query[w], clock) /\ ~locked[w]
    BY <1>5 DEF Fetch, SyncInv, WorkerOK
  <2>3. PageOK(query[w], PageOf(query[w], upto))
    BY <1>1, <2>2, PageOfOK
  <2>4. /\ pc' = [pc EXCEPT ![w] = "fetched"] /\ pc[w] = "fetching"
        /\ UNCHANGED <<clock, checkpoint, seen, query, locked, stored, first>>
    BY <1>5 DEF Fetch
  <2>5. SyncTypes'
    BY <2>1, <2>3, <2>4 DEF SyncInv, SyncTypes, PageOK
  <2>6. WorkerOK(w)'
    <3>1. pc'[w] = "fetched" /\ page'[w] = PageOf(query[w], upto)
      BY <2>1, <2>4 DEF SyncInv, SyncTypes
    <3> QED BY <2>2, <2>3, <2>4, <3>1 DEF SyncInv, WorkerOK
  <2>7. ASSUME NEW v \in Workers \ {w} PROVE WorkerOK(v)'
    <3>1. pc'[v] = pc[v] /\ page'[v] = page[v]
      BY <2>1, <2>4, <2>7 DEF SyncInv, SyncTypes
    <3>2. WorkerOK(v) /\ (locked[v] => Free(v)')
      BY <2>4 DEF SyncInv, WorkerOK, Free
    <3> QED BY <1>1, <2>4, <3>1, <3>2, OtherWorkers
  <2> QED BY <2>4, <2>5, <2>6, <2>7 DEF SyncInv
<1>6. ASSUME NEW w \in Workers, Fail(w) \/ Crash(w) \/ Concurrent(w) PROVE SyncInv'
  <2>1. /\ Idle(w) /\ UNCHANGED <<clock, stored, first>>
        /\ checkpoint' \in {checkpoint, EmptyRow}
    BY <1>6 DEF Fail, Crash, Concurrent
  <2>2. RowOK(checkpoint', clock)
    BY <2>1 DEF SyncInv, RowOK, NoProgress
  <2>3. stored' \subseteq Int /\ first' \in Int \cup {None}
    BY <2>1 DEF SyncInv, SyncTypes
  <2> QED BY <2>1, <2>2, <2>3, IdleKeeps
<1>7. ASSUME NEW w \in Workers, Lock(w) PROVE SyncInv'
  <2>1. /\ locked' = [locked EXCEPT ![w] = checkpoint # NoRow]
        /\ pc' = [pc EXCEPT ![w] = "locked"] /\ pc[w] = "fetched" /\ Free(w)
        /\ UNCHANGED <<clock, checkpoint, seen, query, page, stored, first>>
    BY <1>7 DEF Lock
  <2>2. /\ pc'[w] = "locked" /\ Free(w)'
        /\ \A v \in Workers \ {w} : pc'[v] = pc[v] /\ locked'[v] = locked[v] /\ ~locked[v]
    BY <2>1 DEF SyncInv, SyncTypes, Free
  <2>3. SyncTypes'
    BY <2>1 DEF SyncInv, SyncTypes
  <2>4. WorkerOK(w)'
    BY <2>1, <2>2 DEF SyncInv, WorkerOK
  <2>5. ASSUME NEW v \in Workers \ {w} PROVE WorkerOK(v)'
    <3>1. WorkerOK(v)
      BY DEF SyncInv
    <3> QED BY <1>1, <2>1, <2>2, <3>1, OtherWorkers
  <2> QED BY <2>1, <2>3, <2>4, <2>5 DEF SyncInv
<1>8. ASSUME NEW w \in Workers, Commit(w) PROVE SyncInv'
  <2>1. Idle(w) /\ clock' = clock
    BY <1>8 DEF Commit
  <2>2. /\ RowOK(checkpoint', clock) /\ stored' \subseteq Int /\ first' \in Int \cup {None}
    BY <1>8, CommitRow
  <2> QED BY <2>1, <2>2, IdleKeeps
<1>9. CASE UNCHANGED vars
  BY <1>3, <1>9 DEF vars, syncVars
<1> QED
  BY <1>2, <1>3, <1>4, <1>5, <1>6, <1>7, <1>8, <1>9 DEF Next

LEMMA SyncInvariant == SyncSpec => []SyncInv
<1>1. Init => SyncInv
  <2> SUFFICES ASSUME Init PROVE SyncInv
    OBVIOUS
  <2>1. SyncTypes
    BY SyncAssumption DEF Init, SyncTypes
  <2>2. RowOK(checkpoint, clock)
    BY RowAssumption DEF Init, RowOK, NoProgress
  <2>3. \A w \in Workers : WorkerOK(w)
    BY DEF Init, WorkerOK
  <2> QED BY <2>1, <2>2, <2>3 DEF SyncInv
<1>2. SyncInv /\ [Next]_vars => SyncInv'
  BY SyncStep
<1> QED
  BY <1>1, <1>2, PTL DEF SyncSpec

\* Every window that is asked for is one, and one transaction has the row.
THEOREM SyncTypeCorrect == SyncSpec => []SyncTypeOK
<1>1. SyncInv => SyncTypeOK
  <2> SUFFICES ASSUME SyncInv PROVE SyncTypeOK
    OBVIOUS
  <2>1. checkpoint \in Row \cup {NoRow}
    BY RowTyped DEF SyncInv
  <2>2. ASSUME NEW w \in Workers
        PROVE  /\ IF pc[w] = "idle" THEN query[w] = None
                  ELSE /\ query[w] \in Windows
                       /\ query[w].start < query[w].end
                       /\ query[w].from \in query[w].start .. query[w].end - 1
               /\ locked[w] => pc[w] = "locked" /\ Free(w)
    BY DEF SyncInv, WorkerOK, WindowOK, Spans
  <2> QED BY <2>1, <2>2 DEF SyncInv, SyncTypes, SyncTypeOK
<1> QED
  BY <1>1, SyncInvariant, PTL

-----------------------------------------------------------------------------
(* Once the row of the checkpoint exists.                                  *)

\* A worker that is about to commit holds the row, with the checkpoint it has
\* read; before the first commit the row has no window.
SafeRow ==
    /\ checkpoint # NoRow
    /\ \A w \in Workers : pc[w] = "locked" => locked[w] /\ checkpoint = seen[w]
    /\ IF first = None THEN checkpoint = EmptyRow ELSE checkpoint \in Real
    /\ NoGap

\* Steps that neither commit nor take the lock.
LEMMA RowRests ==
    ASSUME SafeRow, UNCHANGED <<checkpoint, stored, first>>,
           \A w \in Workers : pc'[w] = "locked" =>
               pc[w] = "locked" /\ locked'[w] = locked[w] /\ seen'[w] = seen[w]
    PROVE  SafeRow'
<1>1. NoGap'
  BY DEF SafeRow, NoGap
<1> QED
  BY <1>1 DEF SafeRow

\* A commit continues what is stored: its window starts where the checkpoint it
\* has read stands, and that is still the newest one.
LEMMA CommitFillsGap ==
    ASSUME NEW w \in Workers, SyncInv, SafeRow, Commit(w)
    PROVE  NoGap'
<1>1. /\ checkpoint = seen[w] /\ WindowOK(checkpoint, query[w], clock)
      /\ PageOK(query[w], page[w])
  BY DEF Commit, SyncInv, SafeRow, WorkerOK
<1>2. /\ checkpoint' = RowAfter(query[w], page[w]) /\ stored' = stored \cup page[w].facts
      /\ first' = IF first = None THEN query[w].start ELSE first
  BY DEF Commit, RowAfter
<1>3. /\ query[w].start \in Int /\ query[w].from \in Int /\ query[w].end \in Int
      /\ Overlap \in Nat /\ None \notin Int
  BY <1>1, SyncAssumption DEF WindowOK, Windows
<1> DEFINE reached == Reached(checkpoint')
<1>4. reached \in Int /\ reached <= query[w].end - Overlap
  <2>1. page[w].cursor \in Int \cup {None}
    BY <1>1 DEF PageOK, Fetched
  <2>2. reached = IF page[w].cursor = None THEN query[w].end - Overlap
                  ELSE Earlier(page[w].cursor, query[w].end - Overlap)
    BY <1>2 DEF Reached, RowAfter
  <2> HIDE DEF reached
  <2> QED BY <1>3, <2>1, <2>2 DEF Earlier
<1>5. \A t \in query[w].from .. reached - 1 : t \in page[w].facts
  BY <1>1, <1>2 DEF PageOK
<1> HIDE DEF reached
<1>6. CASE first = None
  <2>1. query[w].from = query[w].start
    BY <1>1, <1>6 DEF SafeRow, WindowOK, Continues, NoProgress
  <2>2. \A t \in first' .. reached - 1 : t \in stored'
    BY <1>2, <1>5, <1>6, <2>1
  <2> QED BY <2>2 DEF NoGap, reached
<1>7. CASE first # None
  <2>1. /\ checkpoint \in Real /\ checkpoint \notin NoProgress
        /\ first' = first /\ first \in Int
    BY <1>2, <1>7, RealHasWindow DEF SafeRow, SyncInv, SyncTypes
  <2>2. Earlier(query[w].from, query[w].end - Overlap) <= Reached(checkpoint)
    BY <1>1, <2>1 DEF WindowOK, Continues
  <2>3. Reached(checkpoint) \in Int
    <3>1. checkpoint.end \in Int /\ checkpoint.cursor \in Int \cup {None}
      BY <2>1 DEF Real
    <3> QED BY <1>3, <3>1 DEF Reached, Earlier
  <2>4. ASSUME NEW t \in first .. reached - 1 PROVE t \in stored'
    <3>1. t \in Int /\ t >= first /\ t < reached
      BY <1>4, <2>1
    <3>2. CASE t >= query[w].from
      BY <1>2, <1>3, <1>4, <1>5, <3>1, <3>2
    <3>3. CASE t < query[w].from
      <4>1. t < Reached(checkpoint)
        BY <1>3, <1>4, <2>2, <2>3, <3>1, <3>3 DEF Earlier
      <4>2. t \in first .. Reached(checkpoint) - 1
        BY <2>1, <2>3, <3>1, <4>1
      <4> QED BY <1>2, <1>7, <4>2 DEF SafeRow, NoGap
    <3> QED BY <1>3, <3>1, <3>2, <3>3
  <2> QED BY <2>1, <2>4 DEF NoGap, reached
<1> QED
  BY <1>6, <1>7

LEMMA SafeRowStep ==
    ASSUME SyncInv, SafeRow, [Next]_vars
    PROVE  SafeRow'
<1>1. CASE Tick \/ UNCHANGED syncVars \/ UNCHANGED vars
  BY <1>1, RowRests DEF Tick, syncVars, vars
<1>2. ASSUME NEW w \in Workers, Begin(w) PROVE SafeRow'
  <2>1. /\ UNCHANGED <<checkpoint, stored, first, locked>>
        /\ pc' = [pc EXCEPT ![w] = "fetching"] /\ seen' = [seen EXCEPT ![w] = checkpoint]
    BY <1>2 DEF Begin
  <2>2. \A v \in Workers : pc'[v] = "locked" => v # w /\ pc[v] = "locked" /\ seen'[v] = seen[v]
    BY <2>1 DEF SyncInv, SyncTypes
  <2> QED BY <2>1, <2>2, RowRests
<1>3. ASSUME NEW w \in Workers, Fetch(w) PROVE SafeRow'
  <2>1. UNCHANGED <<checkpoint, stored, first, locked, seen>> /\ pc' = [pc EXCEPT ![w] = "fetched"]
    BY <1>3 DEF Fetch
  <2>2. \A v \in Workers : pc'[v] = "locked" => pc[v] = "locked"
    BY <2>1 DEF SyncInv, SyncTypes
  <2> QED BY <2>1, <2>2, RowRests
<1>4. ASSUME NEW w \in Workers, Idle(w)
      PROVE  \A v \in Workers : pc'[v] = "locked" =>
                /\ v # w /\ pc[v] = "locked" /\ locked'[v] = locked[v] /\ seen'[v] = seen[v]
  BY <1>4 DEF Idle, SyncInv, SyncTypes
<1>5. ASSUME NEW w \in Workers, Fail(w) \/ Crash(w) \/ Concurrent(w) PROVE SafeRow'
  <2>1. Idle(w) /\ UNCHANGED <<checkpoint, stored, first>>
    BY <1>5 DEF Fail, Crash, Concurrent, SafeRow
  <2> QED BY <1>4, <2>1, RowRests
<1>6. ASSUME NEW w \in Workers, Lock(w) PROVE SafeRow'
  <2>1. /\ locked' = [locked EXCEPT ![w] = TRUE] /\ pc' = [pc EXCEPT ![w] = "locked"]
        /\ checkpoint = seen[w] /\ UNCHANGED <<checkpoint, stored, first, seen>>
    BY <1>6 DEF Lock, SafeRow, SameCheckpoint
  <2>2. \A v \in Workers : pc'[v] = "locked" =>
           v = w \/ (pc[v] = "locked" /\ locked'[v] = locked[v])
    BY <2>1 DEF SyncInv, SyncTypes
  <2>3. locked'[w]
    BY <2>1 DEF SyncInv, SyncTypes
  <2>4. NoGap'
    BY <2>1 DEF SafeRow, NoGap
  <2> QED BY <2>1, <2>2, <2>3, <2>4 DEF SafeRow
<1>7. ASSUME NEW w \in Workers, Commit(w) PROVE SafeRow'
  <2>1. Idle(w) /\ Free(w)
    BY <1>7 DEF Commit
  <2>2. \A v \in Workers : pc'[v] # "locked"
    BY <1>4, <2>1 DEF Free, SafeRow
  <2>3. checkpoint' \in Real /\ checkpoint' \notin NoProgress /\ query[w].start \in Int
    BY <1>7, CommitRow, RealHasWindow
  <2>4. first' # None
    BY <1>7, <2>3, SyncAssumption DEF Commit
  <2>5. NoGap'
    BY <1>7, CommitFillsGap
  <2> QED BY <2>2, <2>3, <2>4, <2>5 DEF SafeRow, NoProgress
<1> QED
  BY <1>1, <1>2, <1>3, <1>5, <1>6, <1>7 DEF Next

LEMMA SafeRowInvariant ==
    ASSUME InitialRow = EmptyRow
    PROVE  SyncSpec => [](SyncInv /\ SafeRow)
<1>1. Init => SafeRow
  BY SyncAssumption DEF Init, SafeRow, NoGap, EmptyRow
<1>2. SyncInv /\ SafeRow /\ [Next]_vars => SafeRow'
  BY SafeRowStep
<1> QED
  BY <1>1, <1>2, SyncInvariant, PTL DEF SyncSpec

\* Whatever pages, failures, crashes and clock differences there were, every
\* fact up to where the next window starts has been stored.
THEOREM NothingSkipped ==
    ASSUME InitialRow = EmptyRow
    PROVE  SyncSpec => []NoGap
<1>1. SafeRow => NoGap
  BY DEF SafeRow
<1> QED
  BY <1>1, SafeRowInvariant, PTL

\* Once the row exists, a commit replaces only the checkpoint it has read.
THEOREM ProgressKept ==
    ASSUME InitialRow = EmptyRow
    PROVE  SyncSpec => OverwritesSeen
<1>1. SafeRow =>
        [\A w \in Workers : Commit(w) /\ checkpoint' # checkpoint =>
            checkpoint \in {seen[w], NoRow, EmptyRow}]_vars
  BY DEF SafeRow, Commit
<1> QED
  BY <1>1, SafeRowInvariant, PTL DEF OverwritesSeen
=============================================================================
