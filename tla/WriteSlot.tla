------------------------------ MODULE WriteSlot ------------------------------
(***************************************************************************)
(* What the client promises about its one pending write, wherever it keeps *)
(* it: a write that has been sent stays in the slot, under its actor and   *)
(* its key, until the server has answered it for good; only then, or while *)
(* nothing was sent, may it make room for another one with a fresh key.    *)
(* There are two exceptions, and lost holds the keys they concern until    *)
(* they are sent or resumed again: a write that could not be sent again is *)
(* shown as refused and may be dropped, and the slot may be emptied from   *)
(* outside.                                                                *)
(***************************************************************************)
CONSTANTS Actors, Keys, None

VARIABLES
    slot,    \* the pending write, or None
    issued,  \* keys handed out so far
    lost     \* keys the client no longer answers for

States == {"prepared", "open", "concluded"}
Write(a, k, s) == [actor |-> a, key |-> k, state |-> s]

SlotInit == slot = None /\ issued = {} /\ lost = {}

Prepare(a, k) ==
    /\ slot = None /\ k \notin issued
    /\ slot' = Write(a, k, "prepared")
    /\ issued' = issued \cup {k}
    /\ UNCHANGED lost

Send ==
    /\ slot # None
    /\ slot' = Write(slot.actor, slot.key, "open")
    /\ lost' = lost \ {slot.key}
    /\ UNCHANGED issued

Conclude ==
    /\ slot # None /\ slot.state = "open"
    /\ slot' = Write(slot.actor, slot.key, "concluded")
    /\ UNCHANGED <<issued, lost>>

Drop ==
    /\ slot # None /\ (slot.state # "open" \/ slot.key \in lost)
    /\ slot' = None
    /\ UNCHANGED <<issued, lost>>

\* A retry that could not be sent.
Refuse ==
    /\ slot # None
    /\ lost' = lost \cup {slot.key}
    /\ UNCHANGED <<slot, issued>>

\* A later session takes the write over.
Resume ==
    /\ slot # None
    /\ lost' = lost \ {slot.key}
    /\ UNCHANGED <<slot, issued>>

\* The slot is emptied from outside.
Lose ==
    /\ slot # None
    /\ slot' = None
    /\ lost' = lost \cup {slot.key}
    /\ UNCHANGED issued

SlotNext ==
    \/ \E a \in Actors, k \in Keys : Prepare(a, k)
    \/ Send \/ Conclude \/ Drop \/ Refuse \/ Resume \/ Lose

SlotSpec == SlotInit /\ [][SlotNext]_<<slot, issued, lost>>
=============================================================================
