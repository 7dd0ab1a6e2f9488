--------------------------- MODULE MCPlatformSync ---------------------------
(***************************************************************************)
(* Small instances of PlatformSync: windows of two minutes that repeat     *)
(* one, or of three that repeat two.  Either two workers synchronise a     *)
(* connection that stays active ("windows"), or one does while integrators *)
(* change the status of the connection ("status").                         *)
(***************************************************************************)
EXTENDS PlatformSync

CONSTANTS w1, w2, i1, i2

VARIABLE scenario

MCNoRow == NoRow

WindowsStep == status' \in {status, "active"} /\ change' = change
StatusStep == pc'[w2] = "idle"

MCNext ==
    /\ Next
    /\ scenario = "windows" => WindowsStep
    /\ scenario = "status" => StatusStep
    /\ UNCHANGED scenario

MCInit == Init /\ scenario \in {"windows", "status"}

MCSpec ==
    /\ MCInit
    /\ [][MCNext]_<<vars, scenario>>
    /\ CyclesRun
=============================================================================
