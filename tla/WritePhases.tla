----------------------------- MODULE WritePhases -----------------------------
(***************************************************************************)
(* The phases of one financial write (commission-client/src/bridge.rs),    *)
(* shared by the desktop bridge and by the console's forms, and the phase  *)
(* an answer leads to.                                                     *)
(***************************************************************************)
CONSTANTS
    Actors,  \* credential ids
    Keys,    \* idempotency keys
    None

Phase == {"Editing", "Preparing", "Prepared", "Sending", "Unknown",
          "Succeeded", "Rejected"}
MaySend    == {"Prepared", "Unknown"}
Unresolved == {"Preparing", "Sending", "Unknown"}
MayEdit    == Phase \ Unresolved

\* ClientError::outcome_unknown: no usable answer, or a 5xx.
Final   == {"ok", "refused", "unauthorized"}
Answers == Final \cup {"busy", "none"}

PhaseAfter(status) ==
    CASE status = "ok" -> "Succeeded"
      [] status \in Final \ {"ok"} -> "Rejected"
      [] OTHER -> "Unknown"
=============================================================================
