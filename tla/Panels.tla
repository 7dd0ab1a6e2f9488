------------------------------- MODULE Panels -------------------------------
(***************************************************************************)
(* How a panel of the console reads from the server: the page of a list,   *)
(* or the record selected in it.  Every change of the selection and every  *)
(* refresh starts a read, answers come back in any order, and only the     *)
(* answer to the newest read of a panel that is still mounted may appear.  *)
(***************************************************************************)
EXTENDS Naturals

CONSTANTS
    Queries,    \* what can be selected: pages, or records
    Blank,      \* nothing selected, nothing shown
    MaxPanels,  \* panels mounted one after the other
    MaxReads    \* selections and refreshes of one panel

ASSUME PanelAssumption == Blank \notin Queries /\ {MaxPanels, MaxReads} \subseteq Nat

VARIABLES
    panel,       \* which mounting of the panel is on the page, 0 before any
    selected,
    version,  \* the reads this mounting has started
    shown,       \* the read whose answer is displayed, or Blank
    reads        \* reads awaiting their answer

panelVars == <<panel, selected, version, shown, reads>>

PanelsInit ==
    panel = 0 /\ selected = Blank /\ version = 0 /\ shown = Blank /\ reads = {}

\* The effect that runs on a new selection: nothing is shown until the answer.
RunEffect(p, g, q) ==
    /\ selected' = q /\ version' = g /\ shown' = Blank
    /\ reads' = IF q = Blank THEN reads
                ELSE reads \cup {[panel |-> p, version |-> g, query |-> q]}

\* A page of the console is opened, or a session: the panel starts anew.
Mount(q) ==
    /\ panel < MaxPanels
    /\ panel' = panel + 1
    /\ RunEffect(panel + 1, 1, q)

\* Another page of the list, another record, the same again, or none.
Select(q) ==
    /\ panel > 0 /\ version < MaxReads
    /\ UNCHANGED panel
    /\ RunEffect(panel, version + 1, q)

\* Mutant: an answer is displayed whenever it comes.
Whenever(r) == r.panel = panel

\* The generation of a panel that was disposed of compares with nothing.
IsCurrent(r) == r.panel = panel /\ r.version = version

Arrive(r) ==
    /\ r \in reads
    /\ reads' = reads \ {r}
    /\ shown' = IF IsCurrent(r) THEN r ELSE shown
    /\ UNCHANGED <<panel, selected, version>>

PanelsNext ==
    \/ \E q \in Queries \cup {Blank} : Mount(q) \/ Select(q)
    \/ \E r \in reads : Arrive(r)

PanelsSpec == PanelsInit /\ [][PanelsNext]_panelVars

-----------------------------------------------------------------------------
(* Properties.                                                             *)

\* "An old request must never overwrite a newer page or a new session": what a
\* panel displays was read by this very mounting for what is selected now, and
\* while it displays nothing the read of what is selected is still on its way
\* (app.rs 266-284, orders.rs 24-58, payouts.rs 26-60).
ShownIsSelected ==
    LET newest == [panel |-> panel, version |-> version, query |-> selected]
    IN  IF selected = Blank THEN shown = Blank
        ELSE shown = newest \/ (shown = Blank /\ newest \in reads)
=============================================================================
