---------------------------- MODULE MCRetryWalk ----------------------------
(***************************************************************************)
(* What the gateway makes of the account rows, and what the console says of  *)
(* them.  The walk of the router: three members whose rows range over one    *)
(* account of every penalty, and one that is skipped.  The console: one row  *)
(* whose columns change, and a pool.  One of the two parts moves.            *)
(***************************************************************************)
EXTENDS RetryWalk, ConsoleView

VARIABLE part

CONSTANTS a1, a2, a3, m1, m2

Healthy ==
  [enabled |-> TRUE, status |-> "healthy", kind |-> "openai_compat", codex |-> FALSE,
   serving |-> "healthy", cooldown |-> "none", quota |-> "ok", qerr |-> "none",
   cred |-> "ok", access |-> "eligible", diagnosed |-> TRUE, stable |-> "usable",
   sched |-> "eligible", override |-> FALSE]
Warned(row) == [row EXCEPT !.stable = "quota_probe_auth_failed_but_usable",
                           !.sched = "eligible_with_warning"]
Cpa     == [Healthy EXCEPT !.kind = "cpa", !.codex = TRUE]
Suspect == [Cpa EXCEPT !.cred = "auth_suspect", !.quota = "unknown"]
Cooling == [Cpa EXCEPT !.serving = "cooldown", !.cooldown = "future"]

MCAccounts == {a1, a2, a3}
MCModels   == {m1, m2}
MCOrder    == <<a1, a2, a3>>
MCRows     == {Healthy, Warned(Healthy), Suspect, Warned(Suspect), Cooling}
MCLists    == {{}, {m1}, {m2}}
MCOff      == {{}, {a2}}
MCGone     == {{}, {a3}}
MCTargets  == {NoAccount, a1, a2}

\* Members of the pool: a direct account, well, ailing, failed, switched off (and on
\* again) and banned, and a Codex account with a subscription in place of access.
MCPoolRows ==
  {DirectRow, [DirectRow EXCEPT !.status = "degraded"], [DirectRow EXCEPT !.status = "error"],
   DisableAccount(DirectRow), [DirectRow EXCEPT !.status = "disabled"],
   [DirectRow EXCEPT !.stable = "banned", !.sched = "ineligible"],
   [CodexRow EXCEPT !.access = "unknown"], CodexRow}
MCStables == {"usable", "banned", "unknown"}
MCSubs    == {"active", "expired", "unknown"}

MCInit ==
  /\ part \in {"walk", "console"}
  /\ Init /\ ConsoleInit
  \* A part that waits waits in one of its first states.
  /\ part = "walk" => acct = CodexRow /\ pinned
  /\ part = "console" => /\ ~s.enabled /\ ~s.loaded /\ s.policy = "ordered"
                         /\ \A a \in MCAccounts : s.accounts[a] = Healthy /\ s.index[a] = {}
                         /\ ~diagnostic /\ target = NoAccount

MCNext ==
  /\ UNCHANGED part
  /\ \/ part = "walk" /\ Next /\ UNCHANGED consoleVars
     \/ part = "console" /\ ConsoleNext /\ UNCHANGED walkVars

MCSpec == MCInit /\ [][MCNext]_<<part, walkVars, consoleVars>>
=============================================================================
