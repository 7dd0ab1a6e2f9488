------------------------------ MODULE MCClients ------------------------------
(***************************************************************************)
(* Small instances of the client: the desktop bridge with two credentials  *)
(* on two servers, browser tabs with two actors, and the panels that read. *)
(* They share nothing, so a behaviour is one of them: scenario.            *)
(***************************************************************************)
EXTENDS NativeBridge, Console, Panels, TLC

CONSTANTS o1, o2, a, b, k1, k2, t1, t2, q1, q2

VARIABLE scenario

MCRevocable == {<<o1, a>>}
MCSymmetry  == Permutations(Keys)

MCInit(scenarios) ==
    scenario \in scenarios /\ BridgeInit /\ ConsoleInit /\ PanelsInit

MCNext ==
    /\ UNCHANGED scenario
    /\ \/ scenario = "desktop" /\ BridgeNext /\ UNCHANGED <<consoleVars, panelVars>>
       \/ scenario = "browser" /\ ConsoleNext /\ UNCHANGED <<bridgeVars, panelVars>>
       \/ scenario = "pages" /\ PanelsNext /\ UNCHANGED <<bridgeVars, consoleVars>>

MCVars == <<scenario, bridgeVars, consoleVars, panelVars>>

ClientsSpec == MCInit({"desktop", "browser", "pages"}) /\ [][MCNext]_MCVars
DesktopSpec == MCInit({"desktop"}) /\ [][MCNext]_MCVars
BrowserSpec == MCInit({"browser"}) /\ [][MCNext]_MCVars
=============================================================================
