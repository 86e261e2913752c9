---------------------------- MODULE Routability ----------------------------
(***************************************************************************)
(* May an account serve a request?  The answer exists twice in the code:   *)
(* EvaluateAccountRoutability (store/routability.go), which the router     *)
(* asks on its cached snapshot, and the SQL condition of store/pools.go    *)
(* behind every routable count the overview and the pools show.            *)
(*                                                                         *)
(* An account is a record of the columns either of them looks at.  Times   *)
(* are abstracted to their order with the clock (cooldown), error texts to *)
(* the prefixes the code tests for (qerr).                                 *)
(***************************************************************************)
EXTENDS Naturals

StatusValues   == {"healthy", "degraded", "error", "disabled"}
ServingValues  == {"healthy", "cooldown", "error"}
CooldownValues == {"none", "past", "future"}
QuotaValues    == {"ok", "blocked", "error", "unknown", "pending"}
QerrValues     == {"none", "model429", "probeAuth", "other"}
CredValues     == {"ok", "auth_suspect", "needs_login", "refresh_failed",
                   "runtime_pending", "runtime_error", "unknown"}
AccessValues   == {"eligible", "ineligible", "unknown"}
StableValues   == {"usable", "banned", "quota_exhausted", "auth_invalid",
                   "quota_probe_auth_failed_but_usable", "unknown"}
SchedValues    == {"eligible", "eligible_with_warning", "ineligible"}

\* What the router reads of a row of accounts and its account_diagnostics.
RowTyped(acc) ==
  /\ acc.enabled \in BOOLEAN /\ acc.codex \in BOOLEAN
  /\ acc.diagnosed \in BOOLEAN /\ acc.override \in BOOLEAN
  /\ acc.kind \in {"openai_compat", "cpa"}
  /\ acc.status \in StatusValues
  /\ acc.serving \in ServingValues /\ acc.cooldown \in CooldownValues
  /\ acc.quota \in QuotaValues /\ acc.qerr \in QerrValues
  /\ acc.cred \in CredValues /\ acc.access \in AccessValues
  /\ acc.stable \in StableValues /\ acc.sched \in SchedValues

StableBlocks     == {"banned", "quota_exhausted", "auth_invalid"}
CredentialBlocks == {"needs_login", "refresh_failed", "runtime_pending",
                     "runtime_error", "unknown"}

-----------------------------------------------------------------------------
(* The Go decision *)

Blocked     == [routable |-> FALSE, penalty |-> 0, binding |-> FALSE]
Routable(p) == [routable |-> TRUE, penalty |-> p, binding |-> FALSE]
One(cond)   == IF cond THEN 1 ELSE 0

diagnosticStableStatusRequiresIneligible(acc) ==
  ~acc.override /\ acc.stable \in StableBlocks

diagnosticWarningShouldPenalize(acc) ==
  acc.sched = "eligible_with_warning" /\ acc.stable # "unknown"

\* loaded is FALSE when the query for the diagnostics of all accounts failed.
evaluateDiagnosticRoutability(acc, loaded) ==
  IF ~loaded THEN Blocked
  ELSE IF ~acc.diagnosed THEN Routable(0)
  ELSE IF acc.sched = "ineligible"
          \/ diagnosticStableStatusRequiresIneligible(acc) THEN Blocked
  ELSE Routable(One(diagnosticWarningShouldPenalize(acc)))

model429(acc) == acc.codex /\ acc.quota = "error" /\ acc.qerr = "model429"

evaluateCpaRoutability(acc, diagnostic) ==
  IF diagnostic THEN Routable(0)
  ELSE IF \/ acc.quota = "blocked"
          \/ model429(acc)
          \/ acc.cred \in CredentialBlocks
          \/ acc.codex /\ acc.access # "eligible" THEN Blocked
  ELSE Routable(One(acc.cred = "auth_suspect")
                + One(acc.quota \in {"error", "unknown", "pending"}))

\* diagnostic skips every check that only protects ordinary traffic; pinning
\* is Options.CpaRuntimeBindingSupported.
EvaluateAccountRoutability(acc, diagnostic, pinning, loaded) ==
  LET diag == IF diagnostic THEN Routable(0)
              ELSE evaluateDiagnosticRoutability(acc, loaded)
      cpa  == evaluateCpaRoutability(acc, diagnostic)
      cooling == acc.serving = "cooldown" /\ acc.cooldown # "past"
  IN IF \/ ~acc.enabled
        \/ acc.status \notin {"healthy", "degraded"}
        \/ ~diag.routable
        \/ ~diagnostic /\ (cooling \/ acc.serving = "error") THEN Blocked
     ELSE IF acc.kind # "cpa" THEN diag
     ELSE IF ~cpa.routable THEN cpa
     ELSE [routable |-> pinning,
           penalty  |-> cpa.penalty + diag.penalty,
           binding  |-> ~pinning]

-----------------------------------------------------------------------------
(* The SQL twin *)

\* Faulty variant: the condition on cpa_access_status is forgotten.
accountRoutableWhereSQL_NoAccess(acc, pinning) ==
  /\ acc.enabled
  /\ acc.status \in {"healthy", "degraded"}
  /\ acc.serving # "error"
  /\ acc.serving # "cooldown" \/ acc.cooldown = "past"
  /\ ~ /\ acc.diagnosed
       /\ \/ acc.sched \notin {"eligible", "eligible_with_warning"}
          \/ ~acc.override /\ acc.stable \in StableBlocks
  /\ \/ acc.kind # "cpa"
     \/ /\ pinning
        /\ acc.cred \notin CredentialBlocks
        /\ acc.quota # "blocked"
        /\ ~model429(acc)

\* accountRoutableBaseWhereSQL; pinning is the system_config row that app.go
\* writes at startup from the flag the router gets.
accountRoutableWhereSQL(acc, pinning) ==
  /\ acc.enabled
  /\ acc.status \in {"healthy", "degraded"}
  /\ acc.serving # "error"
  /\ acc.serving # "cooldown" \/ acc.cooldown = "past"
  /\ ~ /\ acc.diagnosed
       /\ \/ acc.sched \notin {"eligible", "eligible_with_warning"}
          \/ ~acc.override /\ acc.stable \in StableBlocks
  /\ \/ acc.kind # "cpa"
     \/ /\ pinning
        /\ acc.cred \notin CredentialBlocks
        /\ acc.quota # "blocked"
        /\ ~model429(acc)
        /\ ~acc.codex \/ acc.access = "eligible"
=============================================================================
