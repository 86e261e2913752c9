--------------------------- MODULE MCConsoleFlows ---------------------------
(***************************************************************************)
(* What runs over several steps of the user and the server (the login by     *)
(* device code, with the server it runs at, the tokens of a pool and its     *)
(* self-check), and what the console derives and shows (alerts, digest,      *)
(* charts).  One part moves in a behaviour while the others wait in their    *)
(* first states.                                                             *)
(***************************************************************************)
EXTENDS DeviceLogin, PoolTokens, ActivityDigest, TrendBuckets, OverviewAlerts

VARIABLE part

Parts == {"login", "tokens", "digest", "trend", "alerts"}

\* One login, in one visit of the drawer, with a failure and a restart.
MCBudgets == {[sessions |-> 1, opens |-> 1, fails |-> 1, restarts |-> 1]}
MCTally == [plain |-> 21, saved |-> 2, refused |-> 1, err1 |-> 2, err2 |-> 1]
MCLeapHours == {98, 99, 122}

Init ==
  /\ part \in Parts
  /\ LoginInit /\ TokensInit /\ DigestInit /\ TrendInit /\ OverInit
  \* A part that waits waits in one of its first states.
  /\ part # "login" => left = CHOOSE b \in MCBudgets : TRUE
  /\ part # "trend" => leapAt = 99 /\ leap = 0
  /\ part # "alerts" => readMarks = {}

Next ==
  /\ UNCHANGED part
  /\ \/ /\ part = "login" /\ LoginNext
        /\ UNCHANGED <<tokenVars, digestVars, trendVars, overVars>>
     \/ /\ part = "tokens" /\ TokensNext
        /\ UNCHANGED <<loginVars, digestVars, trendVars, overVars>>
     \/ /\ part = "digest" /\ DigestNext
        /\ UNCHANGED <<loginVars, tokenVars, trendVars, overVars>>
     \/ /\ part = "trend" /\ TrendNext
        /\ UNCHANGED <<loginVars, tokenVars, digestVars, overVars>>
     \/ /\ part = "alerts" /\ OverNext
        /\ UNCHANGED <<loginVars, tokenVars, digestVars, trendVars>>

vars == <<part, loginVars, tokenVars, digestVars, trendVars, overVars>>

\* The fair actions of a part that waits are disabled in its first states.
Spec == Init /\ [][Next]_vars /\ LoginFairness /\ TokensFairness

=============================================================================
