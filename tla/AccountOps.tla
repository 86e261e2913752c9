----------------------------- MODULE AccountOps -----------------------------
(***************************************************************************)
(* The UPDATE statements of internal/store that change what the router     *)
(* decides about an account, each as an operator from the row before to    *)
(* the row after.  One statement (or one transaction) is atomic.           *)
(*                                                                         *)
(* Beside the columns of Routability a row has err (accounts.last_error,   *)
(* by who wrote it), checked (last_checked_at, against the grace period of *)
(* the discovery), accessReason, expiry (cpa_subscription_expires_at),     *)
(* quotaJSON (the last usage snapshot) and probe (last_probe_status of the *)
(* diagnostic).                                                            *)
(***************************************************************************)
EXTENDS Routability

ErrValues          == {"none", "gateway", "discovery", "http", "slow", "credential"}
CheckedValues      == {"never", "old", "recent"}
AccessReasons      == {"none", "subscription_active", "subscription_expired",
                       "evidence"}
Expiries           == {"none", "future", "past"}
QuotaJSONValues    == {"none", "allowed", "blocked"}
ProbeValues        == {"not_run", "succeeded", "transient_error", "banned",
                       "auth_invalid", "quota_exhausted", "quota_probe_auth_failed"}

\* A row of accounts with its row of account_diagnostics.
AccountRows ==
  [enabled : BOOLEAN, status : StatusValues, kind : {"openai_compat", "cpa"}, codex : BOOLEAN,
   serving : ServingValues, cooldown : CooldownValues, quota : QuotaValues, qerr : QerrValues,
   cred : CredValues, access : AccessValues, diagnosed : BOOLEAN, stable : StableValues,
   sched : SchedValues, override : BOOLEAN, err : ErrValues, checked : CheckedValues,
   accessReason : AccessReasons, expiry : Expiries, quotaJSON : QuotaJSONValues,
   probe : ProbeValues]

-----------------------------------------------------------------------------
(* accounts *)

initialSchedulerStatusForAccount(enabled) ==
  IF enabled THEN "eligible_with_warning" ELSE "ineligible"

\* A new row; CreateAccount writes its diagnostic in the same transaction.
CreateAccount(kind, codex, enabled, cred, access) ==
  [enabled |-> enabled, status |-> "healthy", kind |-> kind, codex |-> codex,
   serving |-> "healthy", cooldown |-> "none",
   quota |-> "unknown", qerr |-> "none", cred |-> cred, access |-> access,
   diagnosed |-> TRUE, stable |-> "unknown",
   sched |-> initialSchedulerStatusForAccount(enabled), override |-> FALSE,
   err |-> "none", checked |-> "never",
   accessReason |-> IF access = "unknown" THEN "none" ELSE "subscription_active",
   expiry |-> IF access = "eligible" THEN "future" ELSE "none",
   quotaJSON |-> "none", probe |-> "not_run"]

EnableAccount(row)  == [row EXCEPT !.enabled = TRUE]
DisableAccount(row) == [row EXCEPT !.enabled = FALSE, !.status = "disabled"]

UpdateAccountHealth(row, status, err) ==
  [row EXCEPT !.status = status, !.err = err, !.checked = "recent"]

MarkAccountServingSuccess(row) ==
  [row EXCEPT !.serving = "healthy", !.cooldown = "none", !.status = "healthy",
              !.err = "none", !.checked = "recent"]

MarkAccountServingFailure(row) ==
  [row EXCEPT !.serving = "cooldown", !.cooldown = "future",
              !.err = "gateway", !.checked = "recent"]

UpdateAccountCpaCredentialStatus(row, cred) == [row EXCEPT !.cred = cred]

UpdateAccountCpaAccessStatus(row, access) ==
  [row EXCEPT !.access = access, !.accessReason = "evidence"]

UpdateAccountCodexQuotaStatus(row, quota, qerr) ==
  [row EXCEPT !.quota = quota, !.qerr = qerr]

\* A usage snapshot does not outweigh the evidence of a rate limited request.
UpdateAccountCodexQuota(row, json) ==
  [row EXCEPT !.quotaJSON = json,
              !.quota = IF row.qerr = "model429" THEN @ ELSE "ok",
              !.qerr  = IF row.qerr = "model429" THEN @ ELSE "none"]

ClearAccountCodexModelRequestQuotaEvidence(row) ==
  [row EXCEPT !.quota = IF @ \in {"error", "blocked"} /\ row.qerr = "model429"
                        THEN "ok" ELSE @,
              !.qerr  = IF @ = "model429" THEN "none" ELSE @]

\* Without an expiry the status is pending, unknown or error: access stays.
deriveCpaSubscriptionStatus(expiry) ==
  CASE expiry = "future" -> "active"
    [] expiry = "past"   -> "expired"
    [] expiry = "none"   -> "pending"

UpdateAccountCpaSubscription(row, expiry) ==
  LET status == deriveCpaSubscriptionStatus(expiry)
      lapse  == /\ status = "expired"
                /\ row.access # "eligible" \/ row.accessReason = "subscription_active"
  IN [row EXCEPT
        !.expiry = expiry,
        !.access = IF status = "active" THEN "eligible"
                   ELSE IF lapse THEN "ineligible" ELSE @,
        !.accessReason = IF status = "active" THEN "subscription_active"
                         ELSE IF lapse THEN "subscription_expired" ELSE @]

-----------------------------------------------------------------------------
(* account_diagnostics *)

\* Faulty variant: a value that neither the router nor the SQL knows.
SchedulerStatusForStableDiagnostic_Warning(stable) ==
  IF stable = "usable" THEN "eligible"
  ELSE IF stable \in StableBlocks THEN "ineligible" ELSE "warning"

SchedulerStatusForStableDiagnostic(stable) ==
  IF stable = "usable" THEN "eligible"
  ELSE IF stable \in StableBlocks THEN "ineligible"
  ELSE "eligible_with_warning"

\* Faulty variant: the value read before the transaction is written back.
UpdateAccountDiagnosticTx_Stale(row, stable, probe, preserve) ==
  [row EXCEPT !.probe = probe, !.stable = stable, !.override = FALSE,
              !.sched = SchedulerStatusForStableDiagnostic(stable)]

\* Faulty variant: the scheduler status is derived from the caller's value.
UpdateAccountDiagnosticTx_Caller(row, stable, probe, preserve) ==
  [row EXCEPT !.probe = probe, !.stable = IF preserve THEN @ ELSE stable,
              !.override = @ /\ preserve,
              !.sched = SchedulerStatusForStableDiagnostic(stable)]

\* The transaction of UpdateAccountDiagnosticWithEvidence.  With preserve the
\* stable status is the one in the row now, whatever the caller read before;
\* without, the override is the caller's, and no caller gives one.
UpdateAccountDiagnosticTx(row, stable, probe, preserve) ==
  IF preserve THEN [row EXCEPT !.probe = probe]
  ELSE [row EXCEPT !.probe = probe, !.stable = stable, !.override = FALSE,
                   !.sched = SchedulerStatusForStableDiagnostic(stable)]

-----------------------------------------------------------------------------
(* Time *)

Expire(row) == [row EXCEPT !.cooldown = IF @ = "future" THEN "past" ELSE @]
Age(row)    == [row EXCEPT !.checked = IF @ = "recent" THEN "old" ELSE @]
Lapse(row)  == [row EXCEPT !.expiry = IF @ = "future" THEN "past" ELSE @]
=============================================================================
