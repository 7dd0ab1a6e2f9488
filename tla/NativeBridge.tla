---------------------------- MODULE NativeBridge ----------------------------
(***************************************************************************)
(* The desktop client's session owner (commission-client/src/native.rs)    *)
(* and its recovery file, against a service that may answer late, twice or *)
(* not at all.  A write is sent under an idempotency key; the bridge keeps *)
(* at most one and has to remember it across lost answers and restarts.    *)
(*                                                                         *)
(* The mutex makes every handler one step up to its await.  Writing and    *)
(* clearing the recovery file happen under the mutex, but may stop at any  *)
(* system call, by an error or by the death of the process.  An operation, *)
(* its target and its body are one with the key; a request handle is the   *)
(* session together with the key.  Calls refused without an effect (an old *)
(* handle, a role, a cached result) are left out.                          *)
(***************************************************************************)
EXTENDS WritePhases, Naturals, FiniteSets

CONSTANTS
    Origins,         \* servers
    Absent, Torn,
    MaxGenerations,  \* session ids issued by one process
    MaxStarts,       \* processes after the first
    MaxSends,        \* requests sent over the whole behaviour
    Revocable        \* credentials that may be revoked or expire

Credentials == Origins \X Actors

StoredPending ==
    [origin : Origins, actor : Actors, key : Keys, attempted : BOOLEAN]

\* Editing and Preparing are phases of the forms; the bridge never enters them.
BridgePhase == Phase \ {"Editing", "Preparing"}

PendingWrite == [key : Keys, phase : BridgePhase]
Session == [id : Nat, origin : Origins, actor : Actors,
            pending : PendingWrite \cup {None}]
Request == [attempt : Nat, origin : Origins, actor : Actors, key : Keys]

ASSUME ClientAssumption ==
    /\ None \notin StoredPending \cup PendingWrite \cup Session
    /\ Absent # Torn /\ {Absent, Torn} \cap StoredPending = {}
    /\ {MaxGenerations, MaxStarts, MaxSends} \subseteq Nat
    /\ Revocable \subseteq Credentials

VARIABLES
    up,          \* the process runs and its bridge was built
    starts,
    generation,  \* the last session id issued, 0 before any
    session,     \* the open session, or None
    recovery,    \* the stored write as memory knows it, or None
    logins,      \* login calls awaiting the answer of /me
    calls,       \* execute calls awaiting an answer
    files,       \* path and path.next
    unflushed,   \* what a power cut would leave of them
    cut,         \* whether the machine, not only the process, ever stopped
    used,        \* keys handed out by prepare
    sent,        \* every request sent
    network,     \* requests the service has not read
    replies,     \* answers on their way
    valid,       \* credentials the service accepts
    applied,     \* <<origin, actor, key>> with a committed effect
    answered     \* keys whose final answer reached the bridge

memory == <<up, generation, session, recovery, logins, calls, replies>>
disk   == <<files, unflushed, cut>>
server == <<valid, applied>>
bridgeVars == <<memory, starts, disk, used, sent, network, server, answered>>

-----------------------------------------------------------------------------
(* The recovery file.                                                      *)

\* load_store: path wins; path.next is read when path does not exist.
LoadStore(f) == IF f.path # Absent THEN f.path ELSE f.next

Outcome(now, older, result) == [files |-> now, older |-> older, result |-> result]

\* write_store: truncate path.next, write and sync it, rename it to path;
\* when the rename fails, remove path and rename again.  Renames are not
\* synced: a power cut can show the directory as it was before the rename.
WriteOutcomes(f, stored) ==
    LET written == [f EXCEPT !.next = stored]
        removed == [path |-> Absent, next |-> stored]
        done    == [path |-> stored, next |-> Absent]
    IN  {Outcome(g, g, r) : g \in {f, [f EXCEPT !.next = Torn], written, removed},
                            r \in {"err", "crash"}}
        \cup {Outcome(done, written, r) : r \in {"ok", "crash"}}

\* clear_store: remove path, then path.next.
ClearOutcomes(f) ==
    LET removed == [f EXCEPT !.path = Absent]
        done    == [path |-> Absent, next |-> Absent]
    IN  {Outcome(g, f, r) : g \in {f, removed}, r \in {"err", "crash"}}
        \cup {Outcome(done, f, r) : r \in {"ok", "crash"}}

Touch(w) ==
    /\ files' = w.files
    /\ unflushed' = w.older
    /\ UNCHANGED cut

-----------------------------------------------------------------------------
(* The process.                                                            *)

BridgeInit ==
    /\ up = TRUE /\ starts = 0
    /\ generation = 0 /\ session = None /\ recovery = None
    /\ logins = {} /\ calls = {} /\ replies = {}
    /\ files = [path |-> Absent, next |-> Absent]
    /\ unflushed = files /\ cut = FALSE
    /\ used = {} /\ sent = {} /\ network = {} /\ answered = {}
    /\ valid = Credentials /\ applied = {}

Die ==
    /\ up' = FALSE
    /\ generation' = 0 /\ session' = None /\ recovery' = None
    /\ logins' = {} /\ calls' = {} /\ replies' = {}

Crash ==
    /\ up
    /\ Die
    /\ UNCHANGED <<starts, disk, used, sent, network, server, answered>>

PowerCut ==
    /\ up
    /\ Die
    /\ files' = unflushed
    /\ cut' = TRUE
    /\ UNCHANGED <<starts, unflushed, used, sent, network, server, answered>>

\* The file system writes its directories back in its own time.
Flush ==
    /\ unflushed # files
    /\ unflushed' = files
    /\ UNCHANGED <<memory, starts, files, cut, used, sent, network, server, answered>>

\* persistent: a torn store makes setup fail, and the client does not start.
Start ==
    /\ ~up /\ starts < MaxStarts
    /\ LoadStore(files) # Torn
    /\ up' = TRUE
    /\ starts' = starts + 1
    /\ recovery' = IF LoadStore(files) = Absent THEN None ELSE LoadStore(files)
    /\ UNCHANGED <<generation, session, logins, calls, replies, disk, used,
                   sent, network, server, answered>>

-----------------------------------------------------------------------------
(* Sessions.                                                               *)

Pending == IF session = None THEN None ELSE session.pending

\* login up to its await.  A credential the service does not accept can only
\* fail, so its call is not followed further.
LoginBegin(o, a) ==
    /\ up /\ generation < MaxGenerations
    /\ Pending = None
    /\ recovery # None => recovery.origin = o
    /\ generation' = generation + 1
    /\ session' = None
    /\ logins' = IF <<o, a>> \in valid
                 THEN logins \cup {[id |-> generation + 1, origin |-> o, actor |-> a]}
                 ELSE logins
    /\ UNCHANGED <<up, recovery, calls, replies, starts, disk, used, sent,
                   network, server, answered>>

RestoredPending ==
    IF recovery = None THEN None
    ELSE [key |-> recovery.key,
          phase |-> IF recovery.attempted THEN "Unknown" ELSE "Prepared"]

\* Mutants: the answer of an older login counts; any actor may resume.
LateLogin(l) == recovery # None => recovery.actor = l.actor
AnyActor(l)  == l.id = generation

LoginCurrent(l) ==
    /\ l.id = generation
    /\ recovery # None => recovery.actor = l.actor

\* login after its await, when the service named the actor.
LoginReturn(l) ==
    /\ l \in logins
    /\ logins' = logins \ {l}
    /\ session' = IF LoginCurrent(l)
                  THEN [id |-> l.id, origin |-> l.origin, actor |-> l.actor,
                        pending |-> RestoredPending]
                  ELSE session
    /\ UNCHANGED <<up, generation, recovery, calls, replies, starts, disk, used,
                   sent, network, server, answered>>

LoginFail(l) ==
    /\ l \in logins
    /\ logins' = logins \ {l}
    /\ UNCHANGED <<up, generation, session, recovery, calls, replies, starts,
                   disk, used, sent, network, server, answered>>

Logout ==
    /\ session # None /\ Pending = None
    /\ generation < MaxGenerations
    /\ generation' = generation + 1
    /\ session' = None
    /\ UNCHANGED <<up, recovery, logins, calls, replies, starts, disk, used,
                   sent, network, server, answered>>

-----------------------------------------------------------------------------
(* The pending write.                                                      *)

MayPrepare == session # None /\ recovery = None /\ Pending = None

Prepare(k) ==
    LET stored == [origin |-> session.origin, actor |-> session.actor,
                   key |-> k, attempted |-> FALSE]
    IN  /\ MayPrepare /\ k \notin used
        /\ used' = used \cup {k}
        /\ \E w \in WriteOutcomes(files, stored) :
              /\ Touch(w)
              /\ CASE w.result = "crash" -> Die
                   [] w.result = "err"   -> UNCHANGED memory
                   [] w.result = "ok"    ->
                        /\ recovery' = stored
                        /\ session' = [session EXCEPT !.pending =
                                         [key |-> k, phase |-> "Prepared"]]
                        /\ UNCHANGED <<up, generation, logins, calls, replies>>
        /\ UNCHANGED <<starts, sent, network, server, answered>>

\* Mutant: the file keeps saying that the write was never sent.
Unmarked(stored) == stored

MarkAttempted(stored) == [stored EXCEPT !.attempted = TRUE]

MayExecute ==
    /\ Pending # None
    /\ Pending.phase \in MaySend
    /\ recovery # None
    /\ recovery.key = Pending.key

\* execute up to its await: attempted is on disk before anything is sent.
Execute ==
    LET request == [attempt |-> Cardinality(sent) + 1, origin |-> session.origin,
                    actor |-> session.actor, key |-> session.pending.key]
        stored  == MarkAttempted(recovery)
    IN  /\ MayExecute /\ Cardinality(sent) < MaxSends
        /\ \E w \in WriteOutcomes(files, stored) :
              /\ Touch(w)
              /\ CASE w.result = "crash" -> Die /\ UNCHANGED <<sent, network>>
                   [] w.result = "err"   -> UNCHANGED <<memory, sent, network>>
                   [] w.result = "ok"    ->
                        /\ recovery' = stored
                        /\ session' = [session EXCEPT !.pending.phase = "Sending"]
                        /\ calls' = calls \cup {[session |-> session.id,
                                                 request |-> request]}
                        /\ sent' = sent \cup {request}
                        /\ network' = network \cup {request}
                        /\ UNCHANGED <<up, generation, logins, replies>>
        /\ UNCHANGED <<starts, used, server, answered>>

AwaitedBy(c) ==
    session # None /\ session.id = c.session
    /\ Pending # None /\ Pending.key = c.request.key

\* execute after its await, with an answer or with none: a broken connection,
\* an unreadable body, or the 30 seconds of ApiClient.
ExecuteReturn(c, status) ==
    /\ c \in calls
    /\ \/ status = "none"
       \/ [attempt |-> c.request.attempt, status |-> status] \in replies
    /\ calls' = calls \ {c}
    /\ replies' = {r \in replies : r.attempt # c.request.attempt}
    /\ IF AwaitedBy(c)
       THEN /\ session' = [session EXCEPT !.pending.phase = PhaseAfter(status)]
            /\ answered' = IF status \in Final THEN answered \cup {c.request.key}
                           ELSE answered
       ELSE UNCHANGED <<session, answered>>
    /\ UNCHANGED <<up, generation, recovery, logins, starts, disk, used, sent,
                   network, server>>

MayDiscard == Pending # None /\ Pending.phase \in MayEdit

Discard ==
    /\ MayDiscard
    /\ \E w \in ClearOutcomes(files) :
          /\ Touch(w)
          /\ CASE w.result = "crash" -> Die
               [] w.result = "err"   -> UNCHANGED memory
               [] w.result = "ok"    ->
                    /\ recovery' = None
                    /\ session' = [session EXCEPT !.pending = None]
                    /\ UNCHANGED <<up, generation, logins, calls, replies>>
    /\ UNCHANGED <<starts, used, sent, network, server, answered>>

-----------------------------------------------------------------------------
(* The service, as far as a client can tell: it authenticates every        *)
(* request, replays what it committed, and otherwise commits, refuses by a *)
(* business rule, or fails with a 5xx before or after its commit.          *)

Effect(r) == <<r.origin, r.actor, r.key>>

Responses(r) ==
    IF <<r.origin, r.actor>> \notin valid THEN {<<"unauthorized", applied>>}
    ELSE IF Effect(r) \in applied THEN {<<"ok", applied>>, <<"busy", applied>>}
    ELSE {<<"ok", applied \cup {Effect(r)}>>, <<"refused", applied>>,
          <<"busy", applied>>, <<"busy", applied \cup {Effect(r)}>>}

\* A request may wait in the network beyond the client's patience.
Serve(r) ==
    /\ r \in network
    /\ network' = network \ {r}
    /\ \E response \in Responses(r) :
          /\ applied' = response[2]
          /\ replies' = IF \E c \in calls : c.request = r
                        THEN replies \cup {[attempt |-> r.attempt,
                                            status |-> response[1]]}
                        ELSE replies
    /\ UNCHANGED <<up, generation, session, recovery, logins, calls, starts,
                   disk, used, sent, valid, answered>>

Revoke(credential) ==
    /\ credential \in valid \cap Revocable
    /\ valid' = valid \ {credential}
    /\ UNCHANGED <<memory, starts, disk, used, sent, network, applied, answered>>

-----------------------------------------------------------------------------
Returns ==
    \E c \in calls, status \in Answers : ExecuteReturn(c, status)

BridgeNext ==
    \/ Crash \/ PowerCut \/ Flush \/ Start \/ Logout \/ Execute \/ Discard
    \/ \E o \in Origins, a \in Actors : LoginBegin(o, a)
    \/ \E l \in logins : LoginReturn(l) \/ LoginFail(l)
    \/ \E k \in Keys : Prepare(k)
    \/ Returns
    \/ \E r \in network : Serve(r)
    \/ \E credential \in Credentials : Revoke(credential)

BridgeSpec == BridgeInit /\ [][BridgeNext]_bridgeVars

-----------------------------------------------------------------------------
(* Properties.                                                             *)

\* Type invariant of the client, its file and the requests in flight.
BridgeTypeOK ==
    /\ up \in BOOLEAN /\ starts \in 0..MaxStarts
    /\ generation \in 0..MaxGenerations
    /\ session \in Session \cup {None}
    /\ recovery \in StoredPending \cup {None}
    /\ logins \subseteq [id : Nat, origin : Origins, actor : Actors]
    /\ calls \subseteq [session : Nat, request : Request]
    /\ {files, unflushed} \subseteq [path : StoredPending \cup {Absent},
                                    next : StoredPending \cup {Absent, Torn}]
    /\ used \subseteq Keys /\ answered \subseteq used
    /\ sent \subseteq Request /\ network \subseteq sent
    /\ replies \subseteq [attempt : Nat, status : Final \cup {"busy"}]
    /\ valid \subseteq Credentials /\ cut \in BOOLEAN
    /\ applied \subseteq Origins \X Actors \X Keys

\* A write that was sent and never answered for good is never forgotten: a
\* restart at this very moment loads it, marked as attempted and bound to the
\* server and the credential it was sent with, or refuses to start on a torn
\* file; it never starts free to prepare another (native.rs 106-161, 311-357).
\* This holds for the death of the process.  A power cut may undo the rename
\* that wrote the mark, because the directory is never synced.
SentIsRemembered ==
    \A r \in sent : ~cut /\ r.key \notin answered =>
        LoadStore(files) \in {[origin |-> r.origin, actor |-> r.actor,
                               key |-> r.key, attempted |-> TRUE], Torn}

\* A key is only ever sent to one server under one credential, whatever the
\* logins and restarts in between (native.rs 176-198).
SentUnderOneIdentity ==
    \A r1, r2 \in sent :
        r1.key = r2.key => r1.origin = r2.origin /\ r1.actor = r2.actor

\* Memory keeps one write, known to the session and to recovery alike, and
\* drops both together; an open session without a write may prepare one.  An
\* unresolved write is marked in memory whatever happened to its file.  At most
\* one execute waits for the network, it is the one of the open session and of
\* its write, and the write is Sending exactly as long as it waits: no late
\* login answer slips a second session under it (native.rs 183-229, 319-364).
OneWriteInMemory ==
    /\ session # None => (Pending = None <=> recovery = None)
    /\ Pending # None =>
          /\ recovery.key = Pending.key
          /\ recovery.origin = session.origin /\ recovery.actor = session.actor
          /\ Pending.phase # "Prepared" => recovery.attempted
    /\ \A c \in calls : AwaitedBy(c) /\ \A d \in calls : c = d
    /\ calls # {} <=> Pending # None /\ Pending.phase = "Sending"

\* "服务器已明确拒绝请求；可清除本地恢复记录": a write shown as Rejected has no
\* effect on the server (apps/console/src/app.rs 195, native.rs 376-380).
RejectedHasNoEffect ==
    Pending # None /\ Pending.phase = "Rejected" =>
        <<session.origin, session.actor, Pending.key>> \notin applied
=============================================================================
