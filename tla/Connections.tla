---------------------------- MODULE Connections ----------------------------
(***************************************************************************)
(* One platform connection and its status: create_connection and           *)
(* set_connection_status of service/platforms.rs, called by several        *)
(* integrators at once, and the check every synchronisation starts with.   *)
(* A change reads the status under the row lock (SELECT ... FOR UPDATE),   *)
(* decides, and writes; until it commits nobody else sees it.              *)
(***************************************************************************)
CONSTANTS Integrators, None

VARIABLES
    status,   \* of the committed row, "absent" before it is created
    change    \* the open transaction of an integrator: the status it will write

connectionVars == <<status, change>>

Statuses == {"active", "suspended", "revoked"}

ConnectionInit ==
    /\ status = "absent"
    /\ change = [i \in Integrators |-> None]

\* create_connection: a new row is active.
CreateConnection ==
    /\ status = "absent"
    /\ status' = "active"
    /\ UNCHANGED change

\* Mutant: the status is read without FOR UPDATE.
NoRowLock(i) == TRUE

\* Nobody else has an open change of the row.
RowFree(i) == \A j \in Integrators \ {i} : change[j] = None

\* A revoked connection cannot be enabled again.
MayChange(to) == status = "revoked" => to = "revoked"

\* The first half of set_connection_status: lock the row, read, decide.
LockConnection(i) ==
    /\ status # "absent"
    /\ change[i] = None
    /\ RowFree(i)
    /\ \E to \in Statuses :
          /\ MayChange(to)
          /\ change' = [change EXCEPT ![i] = to]
    /\ UNCHANGED status

\* The second half: UPDATE and commit.
CommitStatus(i) ==
    /\ change[i] # None
    /\ status' = change[i]
    /\ change' = [change EXCEPT ![i] = None]

\* The transaction fails, or its process stops.
AbortStatus(i) ==
    /\ change[i] # None
    /\ change' = [change EXCEPT ![i] = None]
    /\ UNCHANGED status

ConnectionNext ==
    \/ CreateConnection
    \/ \E i \in Integrators :
          LockConnection(i) \/ CommitStatus(i) \/ AbortStatus(i)

ConnectionSpec == ConnectionInit /\ [][ConnectionNext]_connectionVars

\* ensure_connection: only an active connection is synchronised.
Enabled == status = "active"

-----------------------------------------------------------------------------
\* "revoked 为终态，不能重新启用": no interleaving of status changes brings a revoked
\* connection back (docs/API.md 228, service/platforms.rs 111-131).
RevokedForever == [][status = "revoked" => status' = "revoked"]_connectionVars
=============================================================================
