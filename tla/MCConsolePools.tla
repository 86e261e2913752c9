--------------------------- MODULE MCConsolePools ---------------------------
(***************************************************************************)
(* The parts of the console around a pool: its page, the sheet of an         *)
(* account, the cards that are dragged, the drawer that adds accounts, with  *)
(* the login that one can begin there and the server's login sessions behind *)
(* it, and the sidebar.  They share no state in the browser but the          *)
(* dataVersion each of them follows, so one part moves in a behaviour while  *)
(* the others wait in their first states.                                    *)
(***************************************************************************)
EXTENDS PoolPage, Sidebar, AccountSheet, DragSort, ImportDrawer, DeviceLogin

VARIABLE part

Parts == {"page", "sidebar", "sheet", "drag", "drawer", "login", "server"}

\* Two visits of the drawer, or one with a step more.
MCLimits == {[visits |-> 2, picks |-> 3], [visits |-> 1, picks |-> 4]}

\* One login of the drawer: two visits, or one with a failure and a restart.
MCBudgets == {[sessions |-> 1, opens |-> 2, fails |-> 0, restarts |-> 0],
              [sessions |-> 1, opens |-> 1, fails |-> 1, restarts |-> 1]}

Init ==
  /\ part \in Parts
  /\ PageInit /\ SidebarInit /\ SheetInit /\ DragInit /\ WizInit /\ LoginInit
  \* A part that waits waits in one of its first states.
  /\ part # "page" => asked = CHOOSE p \in Pools : TRUE
  /\ part # "drawer" => atServer = {[id |-> 1, label |-> "rec"]} /\ tally.limit.visits = 2
  /\ part # "login" => left = CHOOSE b \in MCBudgets : TRUE
  /\ part # "drag" => enabledCards = {} /\ order = CHOOSE s \in SetToSeqs(Tiles) : TRUE

Next ==
  /\ UNCHANGED part
  /\ \/ /\ part = "page" /\ PageNext
        /\ UNCHANGED <<sideVars, sheetVars, dragVars, wizVars, loginVars>>
     \/ /\ part = "sidebar" /\ SidebarNext
        /\ UNCHANGED <<pageVars, sheetVars, dragVars, wizVars, loginVars>>
     \/ /\ part = "sheet" /\ SheetNext
        /\ UNCHANGED <<pageVars, sideVars, dragVars, wizVars, loginVars>>
     \/ /\ part = "drag" /\ DragNext
        /\ UNCHANGED <<pageVars, sideVars, sheetVars, wizVars, loginVars>>
     \/ /\ part = "drawer" /\ WizNext
        /\ UNCHANGED <<pageVars, sideVars, sheetVars, dragVars, loginVars>>
     \/ /\ part = "login" /\ LoginNext
        /\ UNCHANGED <<pageVars, sideVars, sheetVars, dragVars, wizVars>>
     \/ /\ part = "server" /\ SessNext
        /\ UNCHANGED <<pageVars, sideVars, sheetVars, dragVars, wizVars, drawerVars>>

Spec == Init /\ [][Next]_<<part, pageVars, sideVars, sheetVars, dragVars, wizVars, loginVars>>

=============================================================================
