-------------------------- MODULE MCConsoleSettings -------------------------
(***************************************************************************)
(* The sections of the settings page and the log of the activity page.  Each *)
(* has its own state and its own endpoints, so one of them moves in a        *)
(* behaviour while the others wait in their first states.                    *)
(***************************************************************************)
EXTENDS SettingsFields, Notifications, TokenTable, ActivityLogs

VARIABLE part

Parts == {"fields", "notes", "tokens", "logs"}

Init ==
  /\ part \in Parts
  /\ FieldsInit /\ NotesInit /\ TableInit /\ LogsInit
  \* A part that waits waits in one of its first states.
  /\ part # "fields" => stored = [f \in Fields |-> 1]
  /\ part # "notes" => /\ ~server.robot.enabled
                       /\ server.robot.url = CHOOSE u \in Urls : TRUE
                       /\ server.sub.body = CHOOSE b \in Bodies : TRUE

Next ==
  /\ UNCHANGED part
  /\ \/ part = "fields" /\ FieldsNext /\ UNCHANGED <<noteVars, tokenVars, logsVars>>
     \/ part = "notes" /\ NotesNext /\ UNCHANGED <<settingsVars, tokenVars, logsVars>>
     \/ part = "tokens" /\ TableNext /\ UNCHANGED <<settingsVars, noteVars, logsVars>>
     \/ part = "logs" /\ LogsNext /\ UNCHANGED <<settingsVars, noteVars, tokenVars>>

Spec == Init /\ [][Next]_<<part, settingsVars, noteVars, tokenVars, logsVars>>

=============================================================================
