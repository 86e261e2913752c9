------------------------------ MODULE Gateway ------------------------------
(***************************************************************************)
(* Requests through internal/gateway/handler.go.  Each one resolves an     *)
(* account, binds its runtime, forwards, records what it learnt in SQLite, *)
(* one statement at a time, and answers, or waits and asks the router for  *)
(* the next account.  Requests share nothing but the rows and the          *)
(* goroutines they leave behind.                                           *)
(*                                                                         *)
(* The router is asked on the current rows: how far its cached snapshot    *)
(* may lag is the subject of RoutingCache.                                 *)
(***************************************************************************)
EXTENDS AccountOps, Router, Functions

CONSTANTS
  Requests,     \* concurrent calls of ServeHTTP
  Kinds,        \* the kinds of requests that arrive
  InitialRows,  \* the rows of the accounts before them
  Order,        \* pool members in position order
  Index,        \* discovered models of each account
  Policy,       \* routing policy of the pool
  NoModel, NoRow,  \* before a request is parsed, and resolved
  MaxRetries,   \* setting max_retry_attempts
  MaxFaults,    \* bound on SQLite statements that fail
  Streams,      \* values of the stream field of the requests
  PoolEdits     \* may the pool be disabled under way?

ASSUME MaxRetriesAssumption == MaxRetries \in Nat \ {0}
ASSUME MaxFaultsAssumption  == MaxFaults \in Nat
ASSUME PoolAssumption       == Order \in Seq(Accounts) /\ Policy \in Policies
ASSUME StreamsAssumption    == Streams \subseteq BOOLEAN /\ PoolEdits \in BOOLEAN

VARIABLES
  rows,         \* the accounts in SQLite
  poolEnabled,  \* pools.enabled
  req,          \* the local state of every request
  async,        \* goroutines of updateCpaCredential and updateHealth
  faults        \* statements that have failed so far

gatewayVars == <<rows, poolEnabled, req, async, faults>>

\* The statements below write the stable and the scheduler status together.
FollowsStable(row) ==
  row.stable # "unknown" => row.sched = SchedulerStatusForStableDiagnostic(row.stable)

\* The rows there are were written by the same statements.
ASSUME InitialRowsAssumption ==
  \A old \in InitialRows :
    old \in [Accounts -> AccountRows] /\ \A a \in Accounts : FollowsStable(old[a])

-----------------------------------------------------------------------------
(* What a request is *)

\* The headers: diagnostic wins over a stateful probe, which needs a forced
\* account.
RequestKinds ==
  {k \in [diagnostic : BOOLEAN, force : BOOLEAN, stateful : BOOLEAN] :
     k.stateful => k.force /\ ~k.diagnostic}

ASSUME KindsAssumption == Kinds \subseteq RequestKinds

diagnosticRoute(k) == k.diagnostic \/ k.stateful

\* Faulty variants: no guard at all, and a probe counted as traffic.
Observes_Always(k)        == TRUE
CountsAsServing_Probes(k) == ~k.diagnostic

\* Guards of the two groups of writes.
Observes(k)        == ~k.diagnostic \/ k.stateful
CountsAsServing(k) == ~k.diagnostic /\ ~k.stateful

maxRetries(k) == IF k.force \/ k.diagnostic THEN 1 ELSE MaxRetries

Snap == [exists |-> TRUE, enabled |-> poolEnabled, policy |-> Policy,
         members |-> [i \in DOMAIN Order |-> [account |-> Order[i], enabled |-> TRUE]],
         accounts |-> rows, loaded |-> TRUE, index |-> Index, pinning |-> TRUE]

-----------------------------------------------------------------------------
(* What Forward returns *)

NetErrors         == {"net_error", "local_error"}
RetryableStatuses == {"429", "429_quota", "5xx", "5xx_auth", "5xx_banned"}
StreamFailures    == {"stream_cut", "stream_failed"}
Finals            == {"2xx", "4xx", "401", "401_auth", "4xx_banned"}

\* The body of a final answer to a streamed request went straight to the
\* client: no credential failure can be read from it.
Outcomes(stream) ==
  NetErrors \cup RetryableStatuses
    \cup (IF stream THEN (Finals \ {"401_auth"}) \cup StreamFailures ELSE Finals)

IsRetryable(out)       == out = "net_error"
IsRetryableStatus(out) == out \in RetryableStatuses
isCpaAccountBannedSignal(out)        == out \in {"5xx_banned", "4xx_banned"}
isCpaAccountUpstreamAuthFailure(out) == out \in {"5xx_auth", "401_auth"}
isGatewayAuthFailure(out)            == out \in {"401", "401_auth"}
quotaLimitSignal(out)                == out = "429_quota"
TooManyRequests(out)                 == out \in {"429", "429_quota"}
\* Forward sets HealthImpact for statuses and failed streams, not for errors.
HealthImpact(out) == IsRetryableStatus(out) \/ out = "stream_failed"

-----------------------------------------------------------------------------
(* What a request writes, in order: statements w, and goroutines it starts *)

W(op)              == <<[op |-> op, stable |-> "unknown", probe |-> "not_run"]>>
Observe(stable, p) == W("diag_read") \o <<[op |-> "diag_tx", stable |-> stable, probe |-> p]>>
When(cond, ops)    == IF cond THEN ops ELSE <<>>

BannedWrites(k) == When(Observes(k), Observe("banned", "banned"))
AuthWrites(k)   == When(Observes(k), W("go_needs_login") \o Observe("auth_invalid", "auth_invalid"))

recordCodexQuotaRateLimitEvidence(out, acc) ==
  When(acc.kind = "cpa" /\ acc.codex,
       W(IF quotaLimitSignal(out) THEN "quota_blocked" ELSE "quota_error"))

ErrWrites(k, out, acc) ==
  When(HealthImpact(out) /\ CountsAsServing(k), W("serving_failure"))
    \o When(acc.kind = "cpa" /\ Observes(k), Observe("transient_error", "transient_error"))

RetryableWrites(k, out, acc) ==
  IF acc.kind = "cpa" /\ isCpaAccountBannedSignal(out) THEN BannedWrites(k)
  ELSE IF acc.kind = "cpa" /\ isCpaAccountUpstreamAuthFailure(out) THEN AuthWrites(k)
  ELSE (IF TooManyRequests(out) /\ Observes(k)
        THEN recordCodexQuotaRateLimitEvidence(out, acc)
               \o (IF quotaLimitSignal(out)
                   THEN Observe("quota_exhausted", "quota_exhausted")
                   ELSE Observe("unknown", "transient_error"))
        ELSE When(acc.kind = "cpa" /\ Observes(k), Observe("unknown", "transient_error")))
       \o When(HealthImpact(out) /\ CountsAsServing(k), W("serving_failure"))

SuccessWrites(k, acc) ==
  When(CountsAsServing(k),
       W("serving_success")
         \o When(acc.kind = "cpa" /\ acc.cred = "auth_suspect", W("go_cred_ok")))
    \o When(acc.kind = "cpa" /\ acc.codex /\ Observes(k), W("read_latest"))

FailureWrites(k, out, acc) ==
  IF acc.kind = "cpa" /\ isCpaAccountBannedSignal(out) THEN BannedWrites(k)
  ELSE IF acc.kind = "cpa" /\ isCpaAccountUpstreamAuthFailure(out) THEN AuthWrites(k)
  ELSE IF acc.kind = "cpa" /\ Observes(k) THEN Observe("unknown", "transient_error")
  ELSE IF acc.kind # "cpa" /\ isGatewayAuthFailure(out)
       THEN When(CountsAsServing(k), W("go_health_error"))
  ELSE When(out = "stream_failed" /\ CountsAsServing(k), W("serving_failure"))

\* After a model request of a Codex account succeeded: the row read again.
quotaProbeAuthFailed(row) == row.quota = "error" /\ row.qerr = "probeAuth"

LatestWrites(row) ==
  When(~quotaProbeAuthFailed(row), W("clear_evidence"))
    \o When(row.cred # "ok", W("cred_ok"))
    \o W("access_eligible")
    \o Observe(IF quotaProbeAuthFailed(row) THEN "quota_probe_auth_failed_but_usable"
               ELSE "usable", "succeeded")

\* The same when the row cannot be read: the account of the snapshot is all
\* there is, and without evidence the stable status read is written back.
UnreadWrites(copy) ==
  W("access_eligible")
    \o Observe(IF quotaProbeAuthFailed(copy) THEN "quota_probe_auth_failed_but_usable"
               ELSE "previous", "succeeded")

\* The statements, applied to a row.
Apply(w, row, prev) ==
  CASE w.op = "serving_success" -> MarkAccountServingSuccess(row)
    [] w.op = "serving_failure" -> MarkAccountServingFailure(row)
    [] w.op = "quota_blocked"   -> UpdateAccountCodexQuotaStatus(row, "blocked", "model429")
    [] w.op = "quota_error"     -> UpdateAccountCodexQuotaStatus(row, "error", "model429")
    [] w.op = "clear_evidence"  -> ClearAccountCodexModelRequestQuotaEvidence(row)
    [] w.op = "access_eligible" -> UpdateAccountCpaAccessStatus(row, "eligible")
    [] w.op \in {"cred_ok", "go_cred_ok"} -> UpdateAccountCpaCredentialStatus(row, "ok")
    [] w.op = "go_needs_login"  -> UpdateAccountCpaCredentialStatus(row, "needs_login")
    [] w.op = "go_health_error" -> UpdateAccountHealth(row, "error", "gateway")
    [] w.op = "diag_tx" ->
         UpdateAccountDiagnosticTx(row,
           IF w.stable \in {"previous", "transient_error"} THEN prev ELSE w.stable,
           w.probe, w.probe = "transient_error")

Goroutines == {"go_cred_ok", "go_needs_login", "go_health_error"}
Statements == {"serving_success", "serving_failure", "quota_blocked", "quota_error",
               "clear_evidence", "cred_ok", "access_eligible", "diag_tx"}

-----------------------------------------------------------------------------
(* One request *)

PCs == {"idle", "resolve", "bind", "forward", "write", "settle", "select",
        "exhausted", "done"}

Idle == [pc |-> "idle", kind |-> [diagnostic |-> FALSE, force |-> FALSE, stateful |-> FALSE],
         target |-> NoAccount, model |-> NoModel, stream |-> FALSE, attempt |-> 0, exclude |-> {},
         acct |-> NoAccount, copy |-> NoRow, out |-> "none", todo |-> <<>>, prev |-> "unknown",
         sent |-> <<>>, logged |-> 0]

Init ==
  /\ rows \in InitialRows
  /\ poolEnabled = TRUE
  /\ req = [r \in Requests |-> Idle]
  /\ async = {}
  /\ faults = 0

\* The answer to the client, and the attempts that logRequest records of it.
Answered(q, attempts) ==
  [q EXCEPT !.pc = "done", !.logged = attempts, !.copy = NoRow, !.prev = "unknown"]

Goto(r, pc) == req' = [req EXCEPT ![r].pc = pc]

\* A request arrives; its body is read and parsed.
Accept(r, model, k, target, stream) ==
  /\ req[r].pc = "idle"
  /\ target # NoAccount <=> k.force
  /\ req' = [req EXCEPT ![r].pc = "resolve", ![r].kind = k, ![r].target = target,
                        ![r].stream = stream, ![r].model = model]
  /\ UNCHANGED <<rows, poolEnabled, async, faults>>

\* Too large, unreadable, malformed, or without a model.
RejectBody(r) ==
  /\ req[r].pc = "idle"
  /\ req' = [req EXCEPT ![r] = Answered(@, 0)]
  /\ UNCHANGED <<rows, poolEnabled, async, faults>>

\* The initial resolution; every error is answered and logged with 0 attempts.
Resolve(r) ==
  LET q == req[r]
      query == [model |-> q.model, diagnostic |-> diagnosticRoute(q.kind), exclude |-> {}]
      route == IF q.kind.force THEN resolveToAccount(Snap, query, q.target)
               ELSE resolveInPool(Snap, query)
  IN /\ q.pc = "resolve"
     /\ req' = [req EXCEPT ![r] =
          IF route.err = "none" THEN [q EXCEPT !.pc = "bind", !.acct = route.account,
                                               !.copy = rows[route.account]]
          ELSE Answered(q, 0)]
     /\ UNCHANGED <<rows, poolEnabled, async, faults>>

Bind(r) ==
  /\ req[r].pc = "bind"
  /\ Goto(r, "forward")
  /\ UNCHANGED <<rows, poolEnabled, async, faults>>

\* The runtime of a CPA account cannot be pinned now: 503, 0 attempts logged.
BindFails(r) ==
  /\ req[r].pc = "bind"
  /\ req[r].copy.kind = "cpa"
  /\ req' = [req EXCEPT ![r] = Answered(@, 0)]
  /\ UNCHANGED <<rows, poolEnabled, async, faults>>

\* The upstream answers, or does not; what follows is decided here.
Forward(r, out) ==
  LET q == req[r]
  IN /\ q.pc = "forward"
     /\ out \in Outcomes(q.stream)
     /\ req' = [req EXCEPT ![r].pc = "write", ![r].out = out,
                           ![r].sent = IF out = "local_error" THEN @ ELSE Append(@, q.acct),
                           ![r].todo =
          IF out \in NetErrors THEN ErrWrites(q.kind, out, q.copy)
          ELSE IF IsRetryableStatus(out) THEN RetryableWrites(q.kind, out, q.copy)
          ELSE IF out = "2xx" THEN SuccessWrites(q.kind, q.copy)
          ELSE FailureWrites(q.kind, out, q.copy)]
     /\ UNCHANGED <<rows, poolEnabled, async, faults>>

\* One statement, or one goroutine started.
Write(r) ==
  LET q == req[r]
      w == Head(q.todo)
      rest == [req EXCEPT ![r].todo = Tail(@)]
  IN /\ q.pc = "write"
     /\ q.todo # <<>>
     /\ \/ /\ w.op \in Statements
           /\ rows' = [rows EXCEPT ![q.acct] = Apply(w, @, q.prev)]
           /\ req' = rest
           /\ UNCHANGED async
        \/ /\ w.op \in Goroutines
           /\ async' = async \cup {[account |-> q.acct, by |-> r, op |-> w.op]}
           /\ req' = rest
           /\ UNCHANGED rows
        \/ /\ w.op = "diag_read"
           /\ req' = [rest EXCEPT ![r].prev = rows[q.acct].stable]
           /\ UNCHANGED <<rows, async>>
        \/ /\ w.op = "read_latest"
           /\ req' = [req EXCEPT ![r].todo = LatestWrites(rows[q.acct])]
           /\ UNCHANGED <<rows, async>>
     /\ UNCHANGED <<poolEnabled, faults>>

\* A statement fails: its error is logged or dropped, and the request goes on.
StatementFails(r) ==
  LET q == req[r]
      w == Head(q.todo)
  IN /\ q.pc = "write"
     /\ q.todo # <<>>
     /\ w.op \notin Goroutines
     /\ faults < MaxFaults
     /\ faults' = faults + 1
     /\ req' = [req EXCEPT ![r].todo =
          IF w.op = "read_latest" THEN UnreadWrites(q.copy)
          ELSE IF w.op = "diag_read" THEN Tail(Tail(@))
          ELSE Tail(@)]
     /\ UNCHANGED <<rows, poolEnabled, async>>

\* May the loop go round again after this outcome?
Retries(q) ==
  \/ IsRetryable(q.out)
  \/ /\ IsRetryableStatus(q.out)
     /\ ~(q.copy.kind = "cpa" /\ (isCpaAccountBannedSignal(q.out)
                                  \/ isCpaAccountUpstreamAuthFailure(q.out)))
     /\ ~q.stream
     /\ q.attempt < maxRetries(q.kind) - 1

\* Faulty variant: only errors, not statuses, are excluded from the retry.
ExcludeTried_ErrorsOnly(q) ==
  IF q.out \in NetErrors THEN q.exclude \cup {q.acct} ELSE q.exclude

ExcludeTried(q) == q.exclude \cup {q.acct}

\* All is written: answer, or go on with the next attempt after the backoff.
Settle(r) ==
  LET q == req[r]
      more == [q EXCEPT !.exclude = ExcludeTried(q), !.attempt = @ + 1,
                        !.pc = IF q.attempt + 1 < maxRetries(q.kind)
                               THEN "select" ELSE "exhausted"]
  IN /\ q.pc = "write"
     /\ q.todo = <<>>
     /\ req' = [req EXCEPT ![r] = IF Retries(q) THEN more
                                  ELSE Answered(q, q.attempt + 1)]
     /\ UNCHANGED <<rows, poolEnabled, async, faults>>

\* Faulty variant: a retry waits until an account can be selected.
SelectNext_Waits(r) ==
  LET q == req[r]
      route == SelectNextAccount(Snap, q.model, q.exclude)
  IN /\ q.pc = "select"
     /\ route.err = "none"
     /\ req' = [req EXCEPT ![r] = [q EXCEPT !.pc = "bind", !.acct = route.account,
                                            !.copy = rows[route.account]]]
     /\ UNCHANGED <<rows, poolEnabled, async, faults>>

\* attemptsUsed counts this attempt before there is an account for it.
SelectNext(r) ==
  LET q == req[r]
      route == SelectNextAccount(Snap, q.model, q.exclude)
  IN /\ q.pc = "select"
     /\ req' = [req EXCEPT ![r] =
          IF route.err = "none" THEN [q EXCEPT !.pc = "bind", !.acct = route.account,
                                               !.copy = rows[route.account]]
          ELSE Answered(q, q.attempt + 1)]
     /\ UNCHANGED <<rows, poolEnabled, async, faults>>

\* 502 after the last attempt ended in an error.
Exhausted(r) ==
  /\ req[r].pc = "exhausted"
  /\ req' = [req EXCEPT ![r] = Answered(@, @.attempt)]
  /\ UNCHANGED <<rows, poolEnabled, async, faults>>

RunAsync(g) ==
  /\ g \in async
  /\ async' = async \ {g}
  /\ rows' = [rows EXCEPT ![g.account] =
                 Apply([op |-> g.op, stable |-> "unknown", probe |-> "not_run"], @, "unknown")]
  /\ UNCHANGED <<poolEnabled, req, faults>>

\* cooldown_until passes.
CooldownEnds(a) ==
  /\ rows[a].cooldown = "future"
  /\ rows' = [rows EXCEPT ![a] = Expire(@)]
  /\ UNCHANGED <<poolEnabled, req, async, faults>>

\* An administrator disables the pool under way.
DisablePool ==
  /\ PoolEdits
  /\ poolEnabled
  /\ poolEnabled' = FALSE
  /\ UNCHANGED <<rows, req, async, faults>>

RequestStep(r) ==
  \/ Resolve(r) \/ Bind(r) \/ BindFails(r)
  \/ \E out \in Outcomes(TRUE) \cup Outcomes(FALSE) : Forward(r, out)
  \/ Write(r) \/ StatementFails(r) \/ Settle(r) \/ SelectNext(r) \/ Exhausted(r)

Arrive(r) ==
  \/ \E m \in Models, k \in Kinds, target \in Accounts \cup {NoAccount}, stream \in Streams :
       Accept(r, m, k, target, stream)
  \/ RejectBody(r)

Next ==
  \/ \E r \in Requests : Arrive(r) \/ RequestStep(r)
  \/ \E g \in async : RunAsync(g)
  \/ \E a \in Accounts : CooldownEnds(a)
  \/ DisablePool

Spec == Init /\ [][Next]_gatewayVars

\* Every upstream call has a timeout, so a request under way always goes on.
FairSpec == Spec /\ \A r \in Requests : WF_gatewayVars(RequestStep(r))

-----------------------------------------------------------------------------
(* Properties *)

\* One request never reaches an account twice: the exclude list of the retry
\* loop holds every account already asked, however its attempt failed.
NoAccountTwice ==
  \A r \in Requests : IsInjective(req[r].sent)

\* handler.go 201-206: a forced request is never retried on another account.
ForcedReachesOnlyTarget ==
  \A r \in Requests :
    req[r].kind.force => \A i \in DOMAIN req[r].sent : req[r].sent[i] = req[r].target

\* A diagnostic request leaves the accounts as they are, and no goroutine
\* behind (spec/v0.1.9/03:210), whatever the upstream answers.
DiagnosticLeavesNoTrace ==
  [][\A r \in Requests : req[r].kind.diagnostic /\ req'[r] # req[r] =>
        UNCHANGED <<rows, async>>]_gatewayVars

\* A stateful probe updates evidence but never what counts served traffic:
\* serving status, cooldown and health, by itself or by a goroutine of its.
ProbeKeepsServing ==
  [][\A r \in Requests :
       req[r].kind.stateful
       /\ (req'[r] # req[r] \/ \E g \in async \ async' : g.by = r) =>
         \A a \in Accounts :
           /\ rows'[a].serving = rows[a].serving
           /\ rows'[a].cooldown = rows[a].cooldown
           /\ rows'[a].status = rows[a].status]_gatewayVars

\* An observation of a transient error keeps the stable status and the
\* scheduler status that are in the row when it is written, also when another
\* request changed them since it was read (PreserveStableStatus).
TransientKeepsStable ==
  [][\A r \in Requests : \A a \in Accounts :
       /\ req[r].todo # <<>>
       /\ Head(req[r].todo).op = "diag_tx"
       /\ Head(req[r].todo).probe = "transient_error"
       /\ req'[r].todo # req[r].todo
       => rows'[a].stable = rows[a].stable /\ rows'[a].sched = rows[a].sched]_gatewayVars

\* However observations of several requests interleave, the scheduler status
\* is the one of the stable status (spec/v0.2.0/03:71-80).
SchedFollowsStable ==
  \A a \in Accounts : FollowsStable(rows[a])

\* Every request that arrived is answered and logged.
EveryRequestAnswered ==
  \A r \in Requests : req[r].pc = "resolve" ~> req[r].pc = "done"

\* What logRequest records covers every request that went upstream, and at most
\* one attempt more, for which there was no account; only a binding that fails,
\* on the first attempt or on a retry, is recorded as no attempt at all.
AttemptsCovered ==
  \A r \in Requests :
    LET q == req[r]
    IN q.pc = "done" /\ q.out # "local_error" =>
         \/ q.logged - Len(q.sent) \in {0, 1}
         \/ q.logged = 0 /\ q.acct \notin Range(q.sent)

\* The retry loop: which accounts a request reaches, in what number, and what its
\* log says of it.
AttemptsAreSound ==
  /\ NoAccountTwice
  /\ ForcedReachesOnlyTarget
  /\ AttemptsCovered

=============================================================================
