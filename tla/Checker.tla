------------------------------ MODULE Checker ------------------------------
(***************************************************************************)
(* The health checker (internal/health/checker.go) as it acts on an        *)
(* account: the round of checkAll, with model discovery, the sync of the   *)
(* auth file, the quota and the subscription refresh, and RefreshAccount   *)
(* called by an administrator.  Both work on a copy of the account read    *)
(* when they start, and write one SQLite statement at a time while the     *)
(* gateway (and each other) write the same row.                            *)
(***************************************************************************)
EXTENDS AccountOps, Sequences

CONSTANTS
  Accounts,
  Discoveries,  \* what GET /models may bring
  Files,        \* what reading the auth file may bring
  Tokens,       \* subscription expiry in the tokens of the file
  Metas,        \* what the CPA management API may say of the auth index
  Fetches,      \* what wham/usage may bring
  MaxRounds, MaxRefreshes, MaxEdits,  \* bounds on what starts
  Endless       \* are the rounds not bounded?

AllDiscoveries == {"service_down", "unreachable", "http_error", "ok", "slow"}
AllFiles       == {"ok", "older", "missing", "disabled", "no_service"}
AllMetas       == {"ready", "pending", "unreachable"}
AllFetches     == {"no_answer", "http_auth", "http_error", "empty", "allowed", "blocked"}

VARIABLES
  rows,         \* the accounts in SQLite, shared with the gateway
  job,          \* for each account the round at work on it, and a refresh
  started       \* how many rounds, refreshes and edits there have been

checkerVars == <<rows, job, started>>

Workers == {"round", "admin"}

Rest == [pc |-> "idle", copy |-> <<>>, cur |-> <<>>, before |-> "unknown", slow |-> FALSE,
         quota |-> FALSE, sub |-> FALSE, token |-> "none", pending |-> FALSE,
         diag |-> <<>>, todo |-> <<>>]

CheckerInit ==
  /\ job = [a \in Accounts |-> [w \in Workers |-> Rest]]
  /\ started = [round |-> 0, admin |-> 0, edit |-> 0]

-----------------------------------------------------------------------------
(* Statements *)

Stmt(op, x, y)  == <<[op |-> op, x |-> x, y |-> y]>>
When(cond, ops) == IF cond THEN ops ELSE <<>>

Apply(st, row, j) ==
  CASE st.op = "health"  -> UpdateAccountHealth(row, st.x, st.y)
    [] st.op = "cred"    -> UpdateAccountCpaCredentialStatus(row, st.x)
    [] st.op = "access"  -> UpdateAccountCpaAccessStatus(row, st.x)
    [] st.op = "sub"     -> UpdateAccountCpaSubscription(row, st.x)
    [] st.op = "quota"   -> UpdateAccountCodexQuota(row, st.x)
    [] st.op = "qstatus" -> UpdateAccountCodexQuotaStatus(row, st.x, st.y)
    [] st.op = "diag_tx" -> UpdateAccountDiagnosticTx(row, j.diag.stable,
                              "quota_probe_auth_failed", j.diag.preserve)

SubWrites(row, token) == When(row.codex /\ token # "none", Stmt("sub", token, ""))

NeedsLogin == Stmt("health", "error", "credential") \o Stmt("cred", "needs_login", "")

hasFreshUsableDiagnostic(row) ==
  row.stable \in {"usable", "quota_probe_auth_failed_but_usable"} /\ row.probe = "succeeded"

\* Faulty variant: the usage endpoint's 401 is taken for an invalid token.
QuotaProbeDiagnostic_Invalid(row) == [stable |-> "auth_invalid", preserve |-> FALSE]

\* What recordCodexQuotaProbeDiagnostic decides: an account that was usable
\* at its last probe stays so, with a warning.
QuotaProbeDiagnostic(row) ==
  IF hasFreshUsableDiagnostic(row)
  THEN [stable |-> "quota_probe_auth_failed_but_usable", preserve |-> FALSE]
  ELSE [stable |-> row.stable, preserve |-> TRUE]

\* fetchOneCodexQuota; the snapshot that decides on "blocked" is the copy's.
FetchWrites(out, copy) ==
  LET failed == IF copy.quotaJSON = "blocked" THEN "blocked" ELSE "error"
  IN CASE out = "no_answer"  -> <<>>
       [] out = "http_auth"  -> Stmt("qstatus", failed, "probeAuth")
                                  \o Stmt("diag_read", "", "") \o Stmt("diag_tx", "", "")
       [] out = "http_error" -> Stmt("qstatus", failed, "other")
       [] out = "empty"      -> Stmt("qstatus", "error", "other")
       [] out = "allowed"    -> Stmt("quota", "allowed", "") \o Stmt("access", "eligible", "")
       [] out = "blocked"    -> Stmt("quota", "blocked", "")
                                  \o Stmt("qstatus", "blocked", "other")

-----------------------------------------------------------------------------
(* Steps of a worker *)

At(a, w, pc) == job[a][w].pc = pc /\ job[a][w].todo = <<>>

Move(a, w, j) == job' = [job EXCEPT ![a][w] = j]

\* Where RefreshAccount returns to: the round goes on with the next phase.
Done(w, j) ==
  [Rest EXCEPT !.pc = IF w = "round" /\ j.quota THEN "subs_phase" ELSE "idle",
               !.todo = j.todo, !.diag = j.diag]

\* One statement.
Write(a, w) ==
  LET j  == job[a][w]
      st == Head(j.todo)
      rest == [j EXCEPT !.todo = Tail(@)]
  IN /\ j.todo # <<>>
     /\ IF st.op = "diag_read"
        THEN /\ Move(a, w, [rest EXCEPT !.diag = QuotaProbeDiagnostic(rows[a])])
             /\ UNCHANGED rows
        ELSE /\ rows' = [rows EXCEPT ![a] = Apply(st, @, j)]
             /\ Move(a, w, IF st.op = "diag_tx" THEN [rest EXCEPT !.diag = <<>>] ELSE rest)
     /\ UNCHANGED started

Counted(what) == started' = IF Endless THEN started ELSE [started EXCEPT ![what] = @ + 1]

\* Faulty variant: an account that was disabled is not looked at again.
StartRound_SkipDisabled(a) ==
  /\ At(a, "round", "idle")
  /\ rows[a].status # "disabled"
  /\ Endless \/ started.round < MaxRounds
  /\ Counted("round")
  /\ Move(a, "round", [Rest EXCEPT !.copy = rows[a],
                                   !.pc = IF rows[a].enabled THEN "discover" ELSE "sync"])
  /\ UNCHANGED rows

\* checkAll takes the accounts from the routing cache.
StartRound(a) ==
  /\ At(a, "round", "idle")
  /\ Endless \/ started.round < MaxRounds
  /\ Counted("round")
  /\ Move(a, "round", [Rest EXCEPT !.copy = rows[a],
                                   !.pc = IF rows[a].enabled THEN "discover" ELSE "sync"])
  /\ UNCHANGED rows

Discover(a, out) ==
  LET j == job[a]["round"]
      failed(err) == [Rest EXCEPT !.pc = "sync", !.todo = Stmt("health", "error", err)]
  IN /\ At(a, "round", "discover")
     /\ out = "service_down" => j.copy.kind = "cpa"
     /\ Move(a, "round",
          CASE out \in {"service_down", "unreachable"} -> failed("discovery")
            [] out = "http_error" -> failed("http")
            [] out \in {"ok", "slow"} -> [j EXCEPT !.pc = "reread", !.slow = (out = "slow")])
     /\ UNCHANGED <<rows, started>>

\* An error the discovery did not find itself outlives it for a grace period.
shouldPreserveAccountErrorDuringDiscovery(row) ==
  row.status = "error" /\ row.err # "discovery" /\ row.checked = "recent"

\* GetAccount, or the copy when it fails.
Reread(a, read) ==
  LET j   == job[a]["round"]
      cur == IF read THEN rows[a] ELSE j.copy
  IN /\ At(a, "round", "reread")
     /\ Move(a, "round",
          IF shouldPreserveAccountErrorDuringDiscovery(cur)
          THEN [Rest EXCEPT !.pc = "sync"]
          ELSE [j EXCEPT !.pc = "cas", !.cur = cur])
     /\ UNCHANGED <<rows, started>>

\* Faulty variant: the UPDATE has no condition.
Unchanged_Always(row, cur) == TRUE

\* The WHERE of UpdateAccountHealthIfUnchanged.
Unchanged(row, cur) ==
  row.status = cur.status /\ row.err = cur.err /\ row.checked = cur.checked

UpdateAccountHealthIfUnchanged(a) ==
  LET j == job[a]["round"]
  IN /\ At(a, "round", "cas")
     /\ Unchanged(rows[a], j.cur)
     /\ rows' = [rows EXCEPT ![a] =
          IF j.slow THEN UpdateAccountHealth(@, "degraded", "slow")
          ELSE UpdateAccountHealth(@, "healthy", "none")]
     /\ Move(a, "round", [Rest EXCEPT !.pc = "sync"])
     /\ UNCHANGED started

\* The row was written since; times of the same second cannot be told apart,
\* so both outcomes are possible when it was written with the same values.
HealthWasChanged(a) ==
  LET j == job[a]["round"]
  IN /\ At(a, "round", "cas")
     /\ ~Unchanged(rows[a], j.cur) \/ rows[a] # j.cur
     /\ Move(a, "round", [Rest EXCEPT !.pc = "sync"])
     /\ UNCHANGED <<rows, started>>

syncCpaMetadata(a, file, token) ==
  LET row == rows[a]
      writes == CASE file = "missing"  -> NeedsLogin
                  [] file = "disabled" -> SubWrites(row, token) \o NeedsLogin
                  [] file = "older"    -> <<>>
                  [] file \in {"ok", "no_service"} -> SubWrites(row, token)
  IN /\ At(a, "round", "sync")
     /\ Move(a, "round", [Rest EXCEPT !.pc = "quota_phase",
                                      !.todo = When(row.kind = "cpa", writes)])
     /\ UNCHANGED <<rows, started>>

\* The phases of the round that refresh Codex accounts which are due.
Phase(a, pc, next, quota, due) ==
  /\ At(a, "round", pc)
  /\ Move(a, "round",
       IF due /\ rows[a].kind = "cpa" /\ rows[a].codex /\ rows[a].enabled
       THEN [Rest EXCEPT !.pc = "resolve", !.copy = rows[a], !.quota = quota, !.sub = ~quota]
       ELSE [Rest EXCEPT !.pc = next])
  /\ UNCHANGED <<rows, started>>

fetchCodexQuotas(a, due)        == Phase(a, "quota_phase", "subs_phase", TRUE, due)
fetchCodexSubscriptions(a, due) == Phase(a, "subs_phase", "idle", FALSE, due)

\* POST /accounts/{id}/refresh, or the refresh after an import or a login.
StartRefresh(a) ==
  /\ At(a, "admin", "idle")
  /\ rows[a].kind = "cpa"
  /\ started.admin < MaxRefreshes
  /\ started' = [started EXCEPT !.admin = @ + 1]
  /\ Move(a, "admin", [Rest EXCEPT !.pc = "resolve", !.copy = rows[a],
                                   !.quota = rows[a].codex, !.sub = rows[a].codex])
  /\ UNCHANGED rows

-----------------------------------------------------------------------------
(* RefreshAccount *)

\* What resolveCpaRuntime writes before it needs the auth index.
ResolveWrites(row, file, token) ==
  CASE file = "no_service" -> Stmt("cred", "runtime_error", "")
    [] file = "missing"  -> NeedsLogin
    [] file = "disabled" -> NeedsLogin
    [] file \in {"ok", "older"} -> SubWrites(row, token)

Resolved(file) == file \in {"ok", "older"}

resolveCpaRuntime(a, w, file, token) ==
  LET j == job[a][w]
      next == [j EXCEPT !.todo = ResolveWrites(j.copy, file, token), !.token = token]
  IN /\ At(a, w, "resolve")
     /\ Move(a, w, IF ~Resolved(file) \/ (~j.sub /\ ~j.quota) THEN Done(w, next)
                   ELSE [next EXCEPT !.pc = IF j.sub THEN "subscribe" ELSE "before"])
     /\ UNCHANGED <<rows, started>>

\* refreshCodexSubscriptionResolved before the metadata is known: without an
\* expiry in the tokens the copy's is written back.
Subscribe(a, w) ==
  LET j == job[a][w]
      known == j.token # "none"
      next == [j EXCEPT !.todo = Stmt("sub", IF known THEN j.token ELSE j.copy.expiry, ""),
                        !.pending = ~known]
  IN /\ At(a, w, "subscribe")
     /\ Move(a, w, IF j.quota THEN [next EXCEPT !.pc = "before"]
                   ELSE IF known THEN Done(w, next)
                   ELSE [next EXCEPT !.pc = "bind"])
     /\ UNCHANGED <<rows, started>>

\* The credential state the quota refresh is going to put back.
CredentialBeforeQuota(a, w) ==
  /\ At(a, w, "before")
  /\ Move(a, w, [job[a][w] EXCEPT !.pc = "bind", !.before = rows[a].cred])
  /\ UNCHANGED <<rows, started>>

\* resolveCpaRuntime again, now with the auth index.
ResolveAuthIndex(a, w, file, token, meta) ==
  LET j == job[a][w]
      cred == CASE meta = "ready"       -> Stmt("cred", "ok", "")
                [] meta = "pending"     -> Stmt("cred", "runtime_pending", "")
                [] meta = "unreachable" -> Stmt("cred", "runtime_error", "")
      next == [j EXCEPT !.todo = ResolveWrites(j.copy, file, token)
                                   \o When(Resolved(file), cred),
                        !.token = token]
  IN /\ At(a, w, "bind")
     /\ Move(a, w, IF ~Resolved(file) \/ meta # "ready" THEN Done(w, next)
                   ELSE [next EXCEPT !.pc = IF j.quota THEN "restore" ELSE "resubscribe"])
     /\ UNCHANGED <<rows, started>>

restoreCpaCredentialStateIfNeeded(a, w) ==
  LET j == job[a][w]
      needed == j.before \notin {"unknown", "ok", "runtime_pending", "runtime_error"}
  IN /\ At(a, w, "restore")
     /\ Move(a, w, [j EXCEPT !.pc = "fetch", !.todo = When(needed, Stmt("cred", j.before, ""))])
     /\ UNCHANGED <<rows, started>>

fetchOneCodexQuota(a, w, out) ==
  LET j == job[a][w]
      next == [j EXCEPT !.todo = FetchWrites(out, j.copy)]
  IN /\ At(a, w, "fetch")
     /\ Move(a, w, IF j.pending THEN [next EXCEPT !.pc = "resubscribe"] ELSE Done(w, next))
     /\ UNCHANGED <<rows, started>>

\* refreshCodexSubscriptionResolved with the metadata of the auth index.
Resubscribe(a, w, meta) ==
  LET j == job[a][w]
      expiry == IF j.token # "none" THEN j.token
                ELSE IF meta # "none" THEN meta ELSE j.copy.expiry
  IN /\ At(a, w, "resubscribe")
     /\ Move(a, w, Done(w, [j EXCEPT !.todo = Stmt("sub", expiry, "")]))
     /\ UNCHANGED <<rows, started>>

-----------------------------------------------------------------------------
(* The administrator and the clock *)

Edit(a, row) ==
  /\ started.edit < MaxEdits
  /\ started' = [started EXCEPT !.edit = @ + 1]
  /\ rows' = [rows EXCEPT ![a] = row]
  /\ UNCHANGED job

Enable(a)  == ~rows[a].enabled /\ Edit(a, EnableAccount(rows[a]))
Disable(a) == rows[a].enabled /\ Edit(a, DisableAccount(rows[a]))

\* Times already read are strings: they grow old with the row.
Passes(a, f(_)) ==
  LET Older(row) == IF row = <<>> THEN row ELSE f(row)
  IN /\ f(rows[a]) # rows[a]
     /\ rows' = [rows EXCEPT ![a] = f(@)]
     /\ job' = [job EXCEPT ![a] = [w \in Workers |->
                  [job[a][w] EXCEPT !.copy = Older(@), !.cur = Older(@)]]]
     /\ UNCHANGED started

GraceEnds(a)          == Passes(a, Age)
SubscriptionLapses(a) == Passes(a, Lapse)

-----------------------------------------------------------------------------

RefreshStep(a, w) ==
  \/ Write(a, w)
  \/ \E file \in Files, token \in Tokens : resolveCpaRuntime(a, w, file, token)
  \/ Subscribe(a, w)
  \/ CredentialBeforeQuota(a, w)
  \/ \E file \in Files, token \in Tokens, meta \in Metas : ResolveAuthIndex(a, w, file, token, meta)
  \/ restoreCpaCredentialStateIfNeeded(a, w)
  \/ \E out \in Fetches : fetchOneCodexQuota(a, w, out)
  \/ \E meta \in Tokens : Resubscribe(a, w, meta)

RoundStep(a) ==
  \/ \E out \in Discoveries : Discover(a, out)
  \/ \E read \in BOOLEAN : Reread(a, read)
  \/ UpdateAccountHealthIfUnchanged(a)
  \/ HealthWasChanged(a)
  \/ \E file \in Files, token \in Tokens : syncCpaMetadata(a, file, token)
  \/ \E due \in BOOLEAN : fetchCodexQuotas(a, due)
  \/ \E due \in BOOLEAN : fetchCodexSubscriptions(a, due)

CheckerStep(a) == RoundStep(a) \/ \E w \in Workers : RefreshStep(a, w)

CheckerNext ==
  \E a \in Accounts :
    \/ StartRound(a) \/ StartRefresh(a) \/ CheckerStep(a)
    \/ Enable(a) \/ Disable(a) \/ GraceEnds(a) \/ SubscriptionLapses(a)
=============================================================================
