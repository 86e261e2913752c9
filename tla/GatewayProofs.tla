--------------------------- MODULE GatewayProofs ---------------------------
(***************************************************************************)
(* Proofs about Gateway, for any accounts, requests, pool order, number of *)
(* retries and of failing statements.                                      *)
(***************************************************************************)
EXTENDS Gateway, RouterProofs

-----------------------------------------------------------------------------
(* The router's choice *)

\* What the gateway is answered, by its pool or for a forced account, is an
\* account of the snapshot.
LEMMA GatewayChoice ==
  ASSUME rows \in [Accounts -> AccountRows], NEW q
  PROVE  /\ resolveInPool(Snap, q).err = "none" =>
              /\ resolveInPool(Snap, q).account \in Accounts
              /\ resolveInPool(Snap, q).account \notin q.exclude
         /\ \A a : resolveToAccount(Snap, q, a).err = "none" =>
              a \in Accounts /\ resolveToAccount(Snap, q, a).account = a
<1>1. DOMAIN Snap.members \subseteq Nat \ {0}
  BY PoolAssumption DEF Snap
<1>2. DOMAIN Snap.accounts = Accounts
  BY DEF Snap
<1>3. ASSUME NEW a, resolveToAccount(Snap, q, a).err = "none"
      PROVE  a \in Accounts /\ resolveToAccount(Snap, q, a).account = a
  BY <1>2, <1>3 DEF resolveToAccount, Refuse, Route
<1> QED BY <1>1, <1>2, <1>3, PoolChoice

-----------------------------------------------------------------------------
(* The statements *)

AllWrites == [op : Statements \cup Goroutines \cup {"diag_read", "read_latest"},
              stable : StableValues \cup {"previous", "transient_error"},
              probe : ProbeValues]

\* The statements on accounts keep a row a row and do not touch its diagnostic.
LEMMA AccountUpdates ==
  ASSUME NEW row \in AccountRows
  PROVE  \A new \in {MarkAccountServingSuccess(row), MarkAccountServingFailure(row),
                     ClearAccountCodexModelRequestQuotaEvidence(row)}
                    \cup {UpdateAccountHealth(row, s, e) : s \in StatusValues, e \in ErrValues}
                    \cup {UpdateAccountCpaCredentialStatus(row, c) : c \in CredValues}
                    \cup {UpdateAccountCpaAccessStatus(row, c) : c \in AccessValues}
                    \cup {UpdateAccountCodexQuotaStatus(row, s, e) :
                              s \in QuotaValues, e \in QerrValues} :
           new \in AccountRows /\ new.stable = row.stable /\ new.sched = row.sched
<1> DEFINE Ok(new) == new \in AccountRows /\ new.stable = row.stable /\ new.sched = row.sched
<1>1. Ok(MarkAccountServingSuccess(row))
  BY ZenonT(60) DEF MarkAccountServingSuccess, AccountRows, StatusValues, ServingValues, CooldownValues,
         ErrValues, CheckedValues
<1>2. Ok(MarkAccountServingFailure(row))
  BY DEF MarkAccountServingFailure, AccountRows, ServingValues, CooldownValues,
         ErrValues, CheckedValues
<1>3. Ok(ClearAccountCodexModelRequestQuotaEvidence(row))
  BY DEF ClearAccountCodexModelRequestQuotaEvidence, AccountRows, QuotaValues, QerrValues
<1>4. ASSUME NEW s \in StatusValues, NEW e \in ErrValues
      PROVE  Ok(UpdateAccountHealth(row, s, e))
  BY DEF UpdateAccountHealth, AccountRows, CheckedValues
<1>5. ASSUME NEW c \in CredValues
      PROVE  Ok(UpdateAccountCpaCredentialStatus(row, c))
  BY DEF UpdateAccountCpaCredentialStatus, AccountRows
<1>6. ASSUME NEW c \in AccessValues
      PROVE  Ok(UpdateAccountCpaAccessStatus(row, c))
  BY DEF UpdateAccountCpaAccessStatus, AccountRows, AccessReasons
<1>7. ASSUME NEW s \in QuotaValues, NEW e \in QerrValues
      PROVE  Ok(UpdateAccountCodexQuotaStatus(row, s, e))
  BY DEF UpdateAccountCodexQuotaStatus, AccountRows
<1> HIDE DEF Ok
<1>8. \A new \in {MarkAccountServingSuccess(row), MarkAccountServingFailure(row),
                     ClearAccountCodexModelRequestQuotaEvidence(row)}
                    \cup {UpdateAccountHealth(row, s, e) : s \in StatusValues, e \in ErrValues}
                    \cup {UpdateAccountCpaCredentialStatus(row, c) : c \in CredValues}
                    \cup {UpdateAccountCpaAccessStatus(row, c) : c \in AccessValues}
                    \cup {UpdateAccountCodexQuotaStatus(row, s, e) :
                              s \in QuotaValues, e \in QerrValues} : Ok(new)
  BY <1>1, <1>2, <1>3, <1>4, <1>5, <1>6, <1>7
<1> QED BY <1>8 DEF Ok

\* The transaction on account_diagnostics writes both statuses or neither.
LEMMA DiagnosticUpdate ==
  ASSUME NEW row \in AccountRows, NEW stable \in StableValues, NEW probe \in ProbeValues,
         NEW preserve \in BOOLEAN
  PROVE  LET new == UpdateAccountDiagnosticTx(row, stable, probe, preserve)
         IN /\ new \in AccountRows
            /\ preserve => new.stable = row.stable /\ new.sched = row.sched
            /\ FollowsStable(row) => FollowsStable(new)
<1> SchedulerStatusForStableDiagnostic(stable) \in SchedValues
  BY DEF SchedulerStatusForStableDiagnostic, SchedValues
<1>1. CASE preserve
  BY <1>1 DEF UpdateAccountDiagnosticTx, AccountRows, FollowsStable
<1>2. CASE ~preserve
  BY <1>2 DEF UpdateAccountDiagnosticTx, AccountRows, FollowsStable
<1> QED BY <1>1, <1>2

\* So does every statement of the gateway.
LEMMA ApplyTyped ==
  ASSUME NEW w \in AllWrites, w.op \in Statements \cup Goroutines,
         NEW row \in AccountRows, NEW prev \in StableValues
  PROVE  /\ Apply(w, row, prev) \in AccountRows
         /\ FollowsStable(row) => FollowsStable(Apply(w, row, prev))
<1> USE DEF StatusValues, ErrValues, QuotaValues, QerrValues, CredValues, AccessValues
<1>1. CASE w.op # "diag_tx"
  <2>1. Apply(w, row, prev) \in AccountRows /\ Apply(w, row, prev).stable = row.stable
          /\ Apply(w, row, prev).sched = row.sched
    <3>1. CASE w.op = "serving_success"
      BY <3>1, AccountUpdates DEF Apply
    <3>2. CASE w.op = "serving_failure"
      BY <3>2, AccountUpdates DEF Apply
    <3>3. CASE w.op = "quota_blocked"
      BY <3>3, AccountUpdates DEF Apply
    <3>4. CASE w.op = "quota_error"
      BY <3>4, AccountUpdates DEF Apply
    <3>5. CASE w.op = "clear_evidence"
      BY <3>5, AccountUpdates DEF Apply
    <3>6. CASE w.op = "access_eligible"
      BY <3>6, AccountUpdates DEF Apply
    <3>7. CASE w.op \in {"cred_ok", "go_cred_ok"}
      BY <3>7, AccountUpdates DEF Apply
    <3>8. CASE w.op = "go_needs_login"
      BY <3>8, AccountUpdates DEF Apply
    <3>9. CASE w.op = "go_health_error"
      BY <3>9, AccountUpdates DEF Apply
    <3> QED BY <1>1, <3>1, <3>2, <3>3, <3>4, <3>5, <3>6, <3>7, <3>8, <3>9
            DEF Statements, Goroutines
  <2> QED BY <2>1 DEF FollowsStable
<1>2. CASE w.op = "diag_tx"
  <2> DEFINE stable == IF w.stable \in {"previous", "transient_error"} THEN prev ELSE w.stable
  <2>1. Apply(w, row, prev)
          = UpdateAccountDiagnosticTx(row, stable, w.probe, w.probe = "transient_error")
    BY <1>2 DEF Apply
  <2>2. stable \in StableValues /\ w.probe \in ProbeValues
    BY DEF AllWrites
  <2> HIDE DEF stable
  <2> QED BY <2>1, <2>2, DiagnosticUpdate
<1> QED BY <1>1, <1>2

\* What a request of a kind may write: a diagnostic request nothing, a stateful
\* probe nothing that counts traffic.
TrafficOps == {"serving_success", "serving_failure", "go_cred_ok", "go_health_error"}

Allowed(k) == {w \in AllWrites : ~k.diagnostic /\ (w.op \in TrafficOps => ~k.stateful)}

\* A list of statements in which no read of the diagnostic is the last.
Programs(k) ==
  {s \in Seq(Allowed(k)) : s # <<>> => s[Len(s)].op # "diag_read"}

(* Programs can be put one after the other. *)
LEMMA ProgramConcat ==
  ASSUME NEW k, NEW s \in Programs(k), NEW t \in Programs(k)
  PROVE  s \o t \in Programs(k)
<1>1. s \in Seq(Allowed(k)) /\ t \in Seq(Allowed(k))
  BY DEF Programs
<1>2. /\ s \o t \in Seq(Allowed(k)) /\ Len(s \o t) = Len(s) + Len(t)
      /\ \A i \in 1 .. Len(s) + Len(t) :
           (s \o t)[i] = IF i <= Len(s) THEN s[i] ELSE t[i - Len(s)]
  BY <1>1, ConcatProperties
<1>3. CASE t = <<>>
  BY <1>1, <1>3, ConcatEmptySeq
<1>4. CASE t # <<>>
  <2>1. Len(s) \in Nat /\ Len(t) \in Nat \ {0}
    BY <1>1, <1>4, EmptySeq, LenProperties
  <2>2. (s \o t)[Len(s) + Len(t)] = t[Len(t)]
    BY <1>2, <2>1
  <2>3. t[Len(t)].op # "diag_read"
    BY <1>4 DEF Programs
  <2> QED BY <1>2, <2>2, <2>3 DEF Programs
<1> QED BY <1>3, <1>4

(* To write nothing is a program. *)
LEMMA ProgramEmpty ==
  ASSUME NEW k PROVE <<>> \in Programs(k)
BY DEF Programs

(* One statement is a program of every request that may execute it. *)
LEMMA ProgramW ==
  ASSUME NEW k, ~k.diagnostic, NEW op \in Statements \cup Goroutines \cup {"read_latest"},
         op \in TrafficOps => ~k.stateful
  PROVE  W(op) \in Programs(k)
<1> DEFINE w == [op |-> op, stable |-> "unknown", probe |-> "not_run"]
<1>1. w \in Allowed(k)
  BY DEF Allowed, AllWrites, StableValues, ProbeValues
<1>2. op # "diag_read"
  BY DEF Statements, Goroutines
<1> QED BY <1>1, <1>2 DEF W, Programs

(* To record an observation is a program of a request that is not diagnostic. *)
LEMMA ProgramObserve ==
  ASSUME NEW k, ~k.diagnostic,
         NEW stable \in StableValues \cup {"previous", "transient_error"},
         NEW p \in ProbeValues
  PROVE  Observe(stable, p) \in Programs(k)
<1> DEFINE w == [op |-> "diag_read", stable |-> "unknown", probe |-> "not_run"]
           v == [op |-> "diag_tx", stable |-> stable, probe |-> p]
<1>0. w \in Allowed(k)
  BY DEF Allowed, AllWrites, StableValues, ProbeValues, TrafficOps
<1>1. v \in Allowed(k)
  BY DEF Allowed, AllWrites, Statements, TrafficOps
<1>2. Observe(stable, p) = <<w>> \o <<v>>
  BY DEF Observe, W
<1>3. <<w>> \in Seq(Allowed(k)) /\ <<v>> \in Seq(Allowed(k))
  BY <1>0, <1>1
<1>4. /\ <<w>> \o <<v>> \in Seq(Allowed(k)) /\ Len(<<w>> \o <<v>>) = 2
      /\ (<<w>> \o <<v>>)[2] = v
  BY <1>3, ConcatProperties
<1>5. v.op # "diag_read"
  OBVIOUS
<1> DEFINE s == <<w>> \o <<v>>
<1>6. s \in Seq(Allowed(k)) /\ s[Len(s)].op # "diag_read"
  BY <1>4, <1>5
<1> HIDE DEF w, v, s
<1>7. s \in Programs(k)
  BY <1>6 DEF Programs
<1> QED BY <1>2, <1>7 DEF s

(* A program under a condition is a program. *)
LEMMA ProgramWhen ==
  ASSUME NEW k, NEW c \in BOOLEAN, NEW s, c => s \in Programs(k)
  PROVE  When(c, s) \in Programs(k)
BY ProgramEmpty DEF When

\* What follows an outcome is a list of statements that the kind allows.
LEMMA ForwardPrograms ==
  ASSUME NEW k \in RequestKinds, NEW acc \in AccountRows, NEW out
  PROVE  /\ ErrWrites(k, out, acc) \in Programs(k)
         /\ RetryableWrites(k, out, acc) \in Programs(k)
         /\ SuccessWrites(k, acc) \in Programs(k)
         /\ FailureWrites(k, out, acc) \in Programs(k)
<1> USE DEF StableValues, ProbeValues
<1>k. /\ Observes(k) \in BOOLEAN /\ Observes(k) => ~k.diagnostic
      /\ CountsAsServing(k) \in BOOLEAN /\ CountsAsServing(k) => ~k.diagnostic /\ ~k.stateful
  BY DEF Observes, CountsAsServing, RequestKinds
<1>c. /\ (acc.kind = "cpa") \in BOOLEAN /\ acc.codex \in BOOLEAN
      /\ HealthImpact(out) \in BOOLEAN
  BY DEF AccountRows, HealthImpact, IsRetryableStatus
<1>o. Observes(k) => /\ Observe("banned", "banned") \in Programs(k)
                     /\ Observe("auth_invalid", "auth_invalid") \in Programs(k)
                     /\ Observe("transient_error", "transient_error") \in Programs(k)
                     /\ Observe("unknown", "transient_error") \in Programs(k)
                     /\ Observe("quota_exhausted", "quota_exhausted") \in Programs(k)
                     /\ W("go_needs_login") \in Programs(k)
                     /\ W("quota_blocked") \in Programs(k) /\ W("quota_error") \in Programs(k)
                     /\ W("read_latest") \in Programs(k)
  BY <1>k, ProgramObserve, ProgramW DEF Statements, Goroutines, TrafficOps
<1>s. CountsAsServing(k) => /\ W("serving_failure") \in Programs(k)
                            /\ W("serving_success") \in Programs(k)
                            /\ W("go_cred_ok") \in Programs(k)
                            /\ W("go_health_error") \in Programs(k)
  BY <1>k, ProgramW DEF Statements, Goroutines
<1> HIDE DEF StableValues, ProbeValues
<1>1. BannedWrites(k) \in Programs(k)
  BY <1>k, <1>o, ProgramEmpty DEF BannedWrites, When
<1>2. AuthWrites(k) \in Programs(k)
  BY <1>k, <1>o, ProgramEmpty, ProgramConcat DEF AuthWrites, When
<1>3. Observes(k) => recordCodexQuotaRateLimitEvidence(out, acc) \in Programs(k)
  BY <1>k, <1>o, ProgramEmpty DEF recordCodexQuotaRateLimitEvidence, When
<1>4. \A c : When(c /\ CountsAsServing(k), W("serving_failure")) \in Programs(k)
  BY <1>s, ProgramEmpty DEF When
<1>5. \A c : When(c /\ Observes(k), Observe("transient_error", "transient_error")) \in Programs(k)
  BY <1>o, ProgramEmpty DEF When
<1>6. \A c : When(c /\ Observes(k), Observe("unknown", "transient_error")) \in Programs(k)
  BY <1>o, ProgramEmpty DEF When
<1>7. ErrWrites(k, out, acc) \in Programs(k)
  BY <1>4, <1>5, ProgramConcat DEF ErrWrites
<1>8. RetryableWrites(k, out, acc) \in Programs(k)
  <2> DEFINE limited == recordCodexQuotaRateLimitEvidence(out, acc)
                          \o (IF quotaLimitSignal(out)
                              THEN Observe("quota_exhausted", "quota_exhausted")
                              ELSE Observe("unknown", "transient_error"))
  <2>1. Observes(k) => limited \in Programs(k)
    BY <1>3, <1>o, ProgramConcat
  <2> HIDE DEF limited
  <2>2. (IF TooManyRequests(out) /\ Observes(k) THEN limited
         ELSE When(acc.kind = "cpa" /\ Observes(k), Observe("unknown", "transient_error")))
           \o When(HealthImpact(out) /\ CountsAsServing(k), W("serving_failure")) \in Programs(k)
    BY <2>1, <1>4, <1>6, ProgramConcat
  <2> QED BY <1>1, <1>2, <2>2 DEF RetryableWrites, limited
<1>9. SuccessWrites(k, acc) \in Programs(k)
  <2> DEFINE restored == When(acc.kind = "cpa" /\ acc.cred = "auth_suspect", W("go_cred_ok"))
             served == When(CountsAsServing(k), W("serving_success") \o restored)
             latest == When(acc.kind = "cpa" /\ acc.codex /\ Observes(k), W("read_latest"))
  <2>1. CountsAsServing(k) => restored \in Programs(k)
    BY <1>s, ProgramEmpty DEF When
  <2> HIDE DEF restored
  <2>2. served \in Programs(k)
    BY <1>s, <2>1, ProgramEmpty, ProgramConcat DEF When
  <2>3. latest \in Programs(k)
    BY <1>o, ProgramEmpty DEF When
  <2> HIDE DEF served, latest
  <2>4. served \o latest \in Programs(k)
    BY <2>2, <2>3, ProgramConcat
  <2> QED BY <2>4 DEF SuccessWrites, served, latest, restored
<1>10. FailureWrites(k, out, acc) \in Programs(k)
  <2>1. When(CountsAsServing(k), W("go_health_error")) \in Programs(k)
    BY <1>s, ProgramEmpty DEF When
  <2> QED BY <1>1, <1>2, <1>4, <1>o, <2>1 DEF FailureWrites
<1> QED BY <1>7, <1>8, <1>9, <1>10

(* What follows a rereading of the row, and what follows a failed one, are programs. *)
LEMMA LatestPrograms ==
  ASSUME NEW k, ~k.diagnostic, NEW row
  PROVE  LatestWrites(row) \in Programs(k) /\ UnreadWrites(row) \in Programs(k)
<1>1. /\ W("clear_evidence") \in Programs(k) /\ W("cred_ok") \in Programs(k)
      /\ W("access_eligible") \in Programs(k)
  BY ProgramW DEF Statements, TrafficOps
<1>2. \A s \in {"quota_probe_auth_failed_but_usable", "usable", "previous"} :
        Observe(s, "succeeded") \in Programs(k)
  BY ProgramObserve DEF StableValues, ProbeValues
<1>3. /\ When(~quotaProbeAuthFailed(row), W("clear_evidence")) \in Programs(k)
      /\ When(row.cred # "ok", W("cred_ok")) \in Programs(k)
  BY <1>1, ProgramEmpty DEF When
<1>4. /\ Observe(IF quotaProbeAuthFailed(row) THEN "quota_probe_auth_failed_but_usable"
                 ELSE "usable", "succeeded") \in Programs(k)
      /\ Observe(IF quotaProbeAuthFailed(row) THEN "quota_probe_auth_failed_but_usable"
                 ELSE "previous", "succeeded") \in Programs(k)
  BY <1>2
<1> QED BY <1>1, <1>3, <1>4, ProgramConcat DEF LatestWrites, UnreadWrites

-----------------------------------------------------------------------------
(* The invariant *)

RequestStates ==
  [pc : PCs, kind : RequestKinds, target : Accounts \cup {NoAccount},
   model : Models \cup {NoModel}, stream : BOOLEAN, attempt : Nat, exclude : SUBSET Accounts,
   acct : Accounts \cup {NoAccount}, copy : AccountRows \cup {NoRow},
   out : Outcomes(TRUE) \cup Outcomes(FALSE) \cup {"none"}, todo : Seq(AllWrites),
   prev : StableValues, sent : Seq(Accounts), logged : Nat]

GatewayTyped ==
  /\ rows \in [Accounts -> AccountRows]
  /\ poolEnabled \in BOOLEAN
  /\ req \in [Requests -> RequestStates]
  /\ async \subseteq [account : Accounts, by : Requests, op : Goroutines]
  /\ faults \in Nat

\* An account is held from the choice to the answer of the upstream, and only
\* then are there statements, which the kind allows.
Holds(q) ==
  /\ q.pc \in {"bind", "forward", "write"} => q.acct \in Accounts /\ q.copy \in AccountRows
  /\ q.todo \in Programs(q.kind)
  /\ q.pc # "write" => q.todo = <<>>

\* The accounts that were reached are excluded, but for the one whose attempt
\* is being settled, and the attempts count them.
Reached(q) ==
  /\ IsInjective(q.sent)
  /\ q.pc \in {"idle", "resolve"} => q.sent = <<>> /\ q.attempt = 0 /\ q.exclude = {}
  /\ q.pc \in {"bind", "forward", "select", "exhausted"} =>
       Range(q.sent) \subseteq q.exclude /\ Len(q.sent) = q.attempt
  /\ q.pc \in {"bind", "forward"} => q.acct \notin q.exclude
  /\ q.pc = "write" =>
       IF q.out = "local_error"
       THEN Range(q.sent) \subseteq q.exclude /\ Len(q.sent) = q.attempt
       ELSE Range(q.sent) \subseteq q.exclude \cup {q.acct} /\ Len(q.sent) = q.attempt + 1

\* A forced request has one attempt, on its target.
OnTarget(q) ==
  q.kind.force =>
    /\ q.pc # "select"
    /\ q.pc \in {"bind", "forward", "write"} => q.acct = q.target
    /\ \A i \in DOMAIN q.sent : q.sent[i] = q.target

Covered(q) ==
  q.pc = "done" /\ q.out # "local_error" =>
    \/ q.logged - Len(q.sent) \in {0, 1}
    \/ q.logged = 0 /\ q.acct \notin Range(q.sent)

RequestInv(q) == Holds(q) /\ Reached(q) /\ OnTarget(q) /\ Covered(q)

\* A goroutine was left by a request that is under way or done, and by a probe
\* only one that keeps the health.
AsyncInv ==
  \A g \in async :
    /\ req[g.by].pc # "idle"
    /\ req[g.by].kind.stateful => g.op # "go_health_error"

GatewayInv ==
  /\ GatewayTyped
  /\ \A r \in Requests : RequestInv(req[r])
  /\ AsyncInv

-----------------------------------------------------------------------------
(* Steps of one request *)

\* Another account is reached: the list stays one without repetition.
LEMMA AppendFresh ==
  ASSUME NEW s \in Seq(Accounts), NEW a \in Accounts, a \notin Range(s), IsInjective(s)
  PROVE  /\ IsInjective(Append(s, a)) /\ Append(s, a) \in Seq(Accounts)
         /\ Range(Append(s, a)) = Range(s) \cup {a} /\ Len(Append(s, a)) = Len(s) + 1
         /\ \A i \in DOMAIN Append(s, a) : \/ i \in DOMAIN s /\ Append(s, a)[i] = s[i]
                                           \/ Append(s, a)[i] = a
<1> DEFINE t == Append(s, a)
<1>1. /\ t \in Seq(Accounts) /\ Len(t) = Len(s) + 1 /\ Len(s) \in Nat
      /\ DOMAIN s = 1 .. Len(s) /\ DOMAIN t = 1 .. Len(s) + 1
      /\ \A i \in 1 .. Len(s) : t[i] = s[i]
      /\ t[Len(s) + 1] = a
  OBVIOUS
<1> HIDE DEF t
<1>2. \A i \in DOMAIN s : s[i] \in Range(s)
  BY DEF Range
<1>3. IsInjective(t)
  BY <1>1, <1>2 DEF IsInjective
<1>4. Range(t) = Range(s) \cup {a}
  BY <1>1 DEF Range
<1> QED BY <1>1, <1>3, <1>4 DEF t

\* A step that moves request r to q, and writes what a request may write.
LEMMA OneRequest ==
  ASSUME GatewayInv, NEW r \in Requests, NEW q \in RequestStates,
         req' = [req EXCEPT ![r] = q], RequestInv(q), q.pc # "idle",
         q.kind = req[r].kind \/ req[r].pc = "idle",
         rows' \in [Accounts -> AccountRows], poolEnabled' = poolEnabled, faults' \in Nat,
         async' \subseteq async \cup [account : Accounts, by : {r}, op : Goroutines],
         \A g \in async' \ async : q.kind.stateful => g.op # "go_health_error"
  PROVE  GatewayInv'
<1>1. GatewayTyped'
  BY DEF GatewayInv, GatewayTyped
<1>2. ASSUME NEW p \in Requests PROVE RequestInv(req'[p])
  <2>1. CASE p = r
    BY <2>1 DEF GatewayInv, GatewayTyped
  <2>2. CASE p # r
    BY <2>2 DEF GatewayInv, GatewayTyped
  <2> QED BY <2>1, <2>2
<1>3. ASSUME NEW g \in async'
      PROVE  req'[g.by].pc # "idle" /\ (req'[g.by].kind.stateful => g.op # "go_health_error")
  <2>0. req \in [Requests -> RequestStates] /\ g.by \in Requests
    BY DEF GatewayInv, GatewayTyped
  <2>1. CASE g \in async /\ g.by # r
    BY <2>0, <2>1 DEF GatewayInv, AsyncInv
  <2>2. CASE g \in async /\ g.by = r
    <3>1. req[r].pc # "idle" /\ (req[r].kind.stateful => g.op # "go_health_error")
      BY <2>2 DEF GatewayInv, AsyncInv
    <3> QED BY <2>0, <2>2, <3>1
  <2>3. CASE g \notin async
    <3>1. g.by = r
      BY <2>3
    <3> QED BY <2>0, <2>3, <3>1
  <2> QED BY <2>1, <2>2, <2>3
<1> QED BY <1>1, <1>2, <1>3 DEF GatewayInv, AsyncInv

\* An answered request.
LEMMA AnsweredInv ==
  ASSUME NEW q \in RequestStates, NEW n \in Nat, q.todo = <<>>, IsInjective(q.sent),
         q.kind.force => \A i \in DOMAIN q.sent : q.sent[i] = q.target,
         q.out # "local_error" => \/ n - Len(q.sent) \in {0, 1}
                                  \/ n = 0 /\ q.acct \notin Range(q.sent)
  PROVE  /\ Answered(q, n) \in RequestStates /\ RequestInv(Answered(q, n))
         /\ Answered(q, n).pc = "done" /\ Answered(q, n).kind = q.kind
<1> DEFINE p == Answered(q, n)
<1>1. p \in RequestStates
  BY ZenonT(60) DEF Answered, RequestStates, PCs, StableValues
<1>2. /\ p.pc = "done" /\ p.kind = q.kind /\ p.todo = q.todo /\ p.sent = q.sent
      /\ p.out = q.out /\ p.logged = n /\ p.acct = q.acct /\ p.target = q.target
  BY DEF Answered, RequestStates
<1> HIDE DEF p
<1>3. RequestInv(p)
  BY <1>2, ProgramEmpty DEF RequestInv, Holds, Reached, OnTarget, Covered
<1> QED BY <1>1, <1>2, <1>3 DEF p

(* Taking a request keeps the invariant. *)
LEMMA AcceptStep ==
  ASSUME GatewayInv, NEW r \in Requests, NEW m \in Models, NEW k \in Kinds,
         NEW target \in Accounts \cup {NoAccount}, NEW stream \in Streams,
         Accept(r, m, k, target, stream)
  PROVE  GatewayInv'
<1> DEFINE p == req[r]
           q == [p EXCEPT !.pc = "resolve", !.kind = k, !.target = target,
                          !.stream = stream, !.model = m]
<1>1. p \in RequestStates /\ RequestInv(p) /\ p.pc = "idle"
  BY DEF GatewayInv, GatewayTyped, Accept
<1>2. req' = [req EXCEPT ![r] = q]
  BY DEF Accept, GatewayInv, GatewayTyped
<1>3. q \in RequestStates
  BY <1>1, KindsAssumption, StreamsAssumption DEF RequestStates, PCs
<1>4. /\ q.pc = "resolve" /\ q.kind = k /\ q.target = target /\ q.attempt = p.attempt
      /\ q.exclude = p.exclude /\ q.todo = p.todo /\ q.sent = p.sent
  BY <1>1 DEF RequestStates
<1>5. RequestInv(q)
  <2> HIDE DEF q
  <2> QED BY <1>1, <1>4, ProgramEmpty DEF RequestInv, Holds, Reached, OnTarget, Covered
<1>6. rows' \in [Accounts -> AccountRows] /\ poolEnabled' = poolEnabled /\ faults' \in Nat
        /\ async' = async
  BY DEF Accept, GatewayInv, GatewayTyped
<1> HIDE DEF q
<1> QED BY <1>1, <1>2, <1>3, <1>4, <1>5, <1>6, OneRequest

\* A request that is answered at once.
LEMMA AnswerStep ==
  ASSUME GatewayInv, NEW r \in Requests, NEW n \in Nat,
         req' = [req EXCEPT ![r] = Answered(req[r], n)],
         UNCHANGED <<rows, poolEnabled, async, faults>>,
         req[r].todo = <<>>,
         req[r].out # "local_error" =>
           \/ n - Len(req[r].sent) \in {0, 1}
           \/ n = 0 /\ req[r].acct \notin Range(req[r].sent)
  PROVE  GatewayInv'
<1> DEFINE q == Answered(req[r], n)
<1>1. req[r] \in RequestStates /\ RequestInv(req[r])
  BY DEF GatewayInv, GatewayTyped
<1>2. q \in RequestStates /\ RequestInv(q) /\ q.pc = "done" /\ q.kind = req[r].kind
  BY <1>1, AnsweredInv DEF RequestInv, Reached, OnTarget
<1>3. rows' \in [Accounts -> AccountRows] /\ poolEnabled' = poolEnabled /\ faults' \in Nat
        /\ async' = async
  BY DEF GatewayInv, GatewayTyped
<1> HIDE DEF q
<1>4. req' = [req EXCEPT ![r] = q]
  BY DEF q
<1> QED BY <1>2, <1>3, <1>4, OneRequest

\* A request takes the account that the router gave it.
LEMMA TakeStep ==
  ASSUME GatewayInv, NEW r \in Requests, NEW a \in Accounts,
         req' = [req EXCEPT ![r] = [req[r] EXCEPT !.pc = "bind", !.acct = a, !.copy = rows[a]]],
         UNCHANGED <<rows, poolEnabled, async, faults>>,
         req[r].pc \in {"resolve", "select"},
         a \notin req[r].exclude,
         req[r].kind.force => a = req[r].target
  PROVE  GatewayInv'
<1> DEFINE p == req[r]
           q == [p EXCEPT !.pc = "bind", !.acct = a, !.copy = rows[a]]
<1>1. p \in RequestStates /\ RequestInv(p) /\ rows[a] \in AccountRows
  BY DEF GatewayInv, GatewayTyped
<1>2. q \in RequestStates
  BY <1>1 DEF RequestStates, PCs
<1>3. /\ q.pc = "bind" /\ q.acct = a /\ q.copy = rows[a]
      /\ q.kind = p.kind /\ q.target = p.target /\ q.attempt = p.attempt
      /\ q.exclude = p.exclude /\ q.todo = p.todo /\ q.sent = p.sent
  BY <1>1 DEF RequestStates
<1>4. req' = [req EXCEPT ![r] = q]
  OBVIOUS
<1> HIDE DEF q
<1>5. Range(q.sent) \subseteq q.exclude /\ Len(q.sent) = q.attempt
  BY <1>1, <1>3 DEF RequestInv, Reached, Range
<1>6. RequestInv(q)
  BY <1>1, <1>3, <1>5 DEF RequestInv, Holds, Reached, OnTarget, Covered
<1>7. rows' \in [Accounts -> AccountRows] /\ poolEnabled' = poolEnabled /\ faults' \in Nat
        /\ async' = async
  BY DEF GatewayInv, GatewayTyped
<1> QED BY <1>2, <1>3, <1>4, <1>6, <1>7, OneRequest

(* Routing its first attempt keeps it. *)
LEMMA ResolveStep ==
  ASSUME GatewayInv, NEW r \in Requests, Resolve(r)
  PROVE  GatewayInv'
<1> DEFINE q == req[r]
           query == [model |-> q.model, diagnostic |-> diagnosticRoute(q.kind), exclude |-> {}]
           route == IF q.kind.force THEN resolveToAccount(Snap, query, q.target)
                    ELSE resolveInPool(Snap, query)
<1>1. q \in RequestStates /\ RequestInv(q) /\ q.pc = "resolve"
  BY DEF GatewayInv, GatewayTyped, Resolve
<1>2. q.sent = <<>> /\ q.exclude = {} /\ q.todo = <<>>
  BY <1>1 DEF RequestInv, Reached, Holds
<1>3. route.err = "none" =>
        route.account \in Accounts /\ (q.kind.force => route.account = q.target)
  BY GatewayChoice DEF GatewayInv, GatewayTyped
<1>4. /\ req' = [req EXCEPT ![r] =
           IF route.err = "none" THEN [q EXCEPT !.pc = "bind", !.acct = route.account,
                                                !.copy = rows[route.account]]
           ELSE Answered(q, 0)]
      /\ UNCHANGED <<rows, poolEnabled, async, faults>>
  BY DEF Resolve
<1> HIDE DEF route
<1>5. CASE route.err = "none"
  BY <1>1, <1>2, <1>3, <1>4, <1>5, TakeStep
<1>6. CASE route.err # "none"
  <2>0. Len(q.sent) = 0
    BY <1>2
  <2>1. 0 - Len(q.sent) \in {0, 1}
    BY <2>0
  <2> QED BY <1>2, <1>4, <1>6, <2>1, AnswerStep
<1> QED BY <1>5, <1>6

(* Routing a retry keeps it. *)
LEMMA SelectNextStep ==
  ASSUME GatewayInv, NEW r \in Requests, SelectNext(r)
  PROVE  GatewayInv'
<1> DEFINE q == req[r]
           query == [model |-> q.model, diagnostic |-> FALSE, exclude |-> q.exclude]
           route == SelectNextAccount(Snap, q.model, q.exclude)
<1>1. q \in RequestStates /\ RequestInv(q) /\ q.pc = "select"
  BY DEF GatewayInv, GatewayTyped, SelectNext
<1>2. Len(q.sent) = q.attempt /\ q.todo = <<>> /\ ~q.kind.force /\ q.attempt \in Nat
  BY <1>1 DEF RequestInv, Reached, Holds, OnTarget, RequestStates
<1>3. route.err = "none" => route.account \in Accounts /\ route.account \notin q.exclude
  <2>1. query.exclude = q.exclude
    OBVIOUS
  <2>2. route = resolveInPool(Snap, query)
    BY DEF SelectNextAccount
  <2> HIDE DEF query
  <2> QED BY <2>1, <2>2, GatewayChoice DEF GatewayInv, GatewayTyped
<1>4. /\ req' = [req EXCEPT ![r] =
           IF route.err = "none" THEN [q EXCEPT !.pc = "bind", !.acct = route.account,
                                                !.copy = rows[route.account]]
           ELSE Answered(q, q.attempt + 1)]
      /\ UNCHANGED <<rows, poolEnabled, async, faults>>
  BY DEF SelectNext
<1> HIDE DEF route
<1>5. CASE route.err = "none"
  BY <1>1, <1>2, <1>3, <1>4, <1>5, TakeStep
<1>6. CASE route.err # "none"
  <2> DEFINE n == q.attempt + 1
  <2>1. n \in Nat /\ n - Len(q.sent) \in {0, 1}
    BY <1>2
  <2>2. req' = [req EXCEPT ![r] = Answered(q, n)]
    BY <1>4, <1>6
  <2> HIDE DEF n
  <2> QED BY <1>2, <1>4, <2>1, <2>2, AnswerStep
<1> QED BY <1>5, <1>6

\* The account stays the one held.
LEMMA BindStep ==
  ASSUME GatewayInv, NEW r \in Requests, Bind(r)
  PROVE  GatewayInv'
<1> DEFINE p == req[r]
           q == [p EXCEPT !.pc = "forward"]
<1>1. p \in RequestStates /\ RequestInv(p) /\ p.pc = "bind"
  BY DEF GatewayInv, GatewayTyped, Bind
<1>2. q \in RequestStates
  BY <1>1 DEF RequestStates, PCs
<1>3. /\ q.pc = "forward" /\ q.acct = p.acct /\ q.copy = p.copy
      /\ q.kind = p.kind /\ q.target = p.target /\ q.attempt = p.attempt
      /\ q.exclude = p.exclude /\ q.todo = p.todo /\ q.sent = p.sent
  BY <1>1 DEF RequestStates
<1>4. req' = [req EXCEPT ![r] = q]
  BY DEF Bind, Goto, GatewayInv, GatewayTyped
<1> HIDE DEF q
<1>5. RequestInv(q)
  BY <1>1, <1>3 DEF RequestInv, Holds, Reached, OnTarget, Covered
<1>6. rows' \in [Accounts -> AccountRows] /\ poolEnabled' = poolEnabled /\ faults' \in Nat
        /\ async' = async
  BY DEF GatewayInv, GatewayTyped, Bind
<1> QED BY <1>2, <1>3, <1>4, <1>5, <1>6, OneRequest

\* The account is added to those that were reached, unless nothing was sent.
LEMMA ForwardStep ==
  ASSUME GatewayInv, NEW r \in Requests, NEW out \in Outcomes(TRUE) \cup Outcomes(FALSE),
         Forward(r, out)
  PROVE  GatewayInv'
<1> DEFINE p == req[r]
           sent == IF out = "local_error" THEN p.sent ELSE Append(p.sent, p.acct)
           todo == IF out \in NetErrors THEN ErrWrites(p.kind, out, p.copy)
                   ELSE IF IsRetryableStatus(out) THEN RetryableWrites(p.kind, out, p.copy)
                   ELSE IF out = "2xx" THEN SuccessWrites(p.kind, p.copy)
                   ELSE FailureWrites(p.kind, out, p.copy)
           q == [p EXCEPT !.pc = "write", !.out = out, !.sent = sent, !.todo = todo]
<1>1. p \in RequestStates /\ RequestInv(p) /\ p.pc = "forward"
  BY DEF GatewayInv, GatewayTyped, Forward
<1>2. /\ p.acct \in Accounts /\ p.copy \in AccountRows /\ p.sent \in Seq(Accounts)
      /\ p.kind \in RequestKinds /\ IsInjective(p.sent) /\ p.acct \notin Range(p.sent)
      /\ Range(p.sent) \subseteq p.exclude /\ Len(p.sent) = p.attempt
  BY <1>1 DEF RequestInv, Holds, Reached, RequestStates
<1>3. todo \in Programs(p.kind)
  BY <1>2, ForwardPrograms
<1>4. todo \in Seq(AllWrites)
  <2>1. todo \in Seq(Allowed(p.kind))
    BY <1>3 DEF Programs
  <2>2. Allowed(p.kind) \subseteq AllWrites
    BY DEF Allowed
  <2> HIDE DEF todo
  <2> QED BY <2>1, <2>2, SeqMonotonic
<1>5. req' = [req EXCEPT ![r] = q]
  BY DEF Forward, GatewayInv, GatewayTyped
<1> HIDE DEF todo
<1>6. /\ sent \in Seq(Accounts) /\ IsInjective(sent)
      /\ out = "local_error" => sent = p.sent
      /\ out # "local_error" =>
           Range(sent) \subseteq p.exclude \cup {p.acct} /\ Len(sent) = p.attempt + 1
      /\ \A i \in DOMAIN sent : (i \in DOMAIN p.sent /\ sent[i] = p.sent[i]) \/ sent[i] = p.acct
  BY <1>2, AppendFresh
<1> HIDE DEF sent
<1>7. q \in RequestStates
  BY <1>1, <1>4, <1>6 DEF RequestStates, PCs
<1>8. /\ q.pc = "write" /\ q.acct = p.acct /\ q.copy = p.copy /\ q.out = out
      /\ q.kind = p.kind /\ q.target = p.target /\ q.attempt = p.attempt
      /\ q.exclude = p.exclude /\ q.todo = todo /\ q.sent = sent
  BY <1>1 DEF RequestStates
<1> HIDE DEF q
<1>9. Holds(q)
  BY <1>2, <1>3, <1>8 DEF Holds
<1>10. Reached(q)
  BY <1>2, <1>6, <1>8 DEF Reached
<1>11. OnTarget(q) /\ Covered(q)
  BY <1>1, <1>6, <1>8 DEF RequestInv, OnTarget, Covered
<1>12. rows' \in [Accounts -> AccountRows] /\ poolEnabled' = poolEnabled /\ faults' \in Nat
        /\ async' = async
  BY DEF GatewayInv, GatewayTyped, Forward
<1> QED BY <1>5, <1>7, <1>8, <1>9, <1>10, <1>11, <1>12, OneRequest DEF RequestInv

\* The rest of a list of statements is one, and a read is not alone in it.
LEMMA ProgramTail ==
  ASSUME NEW k, NEW s \in Programs(k), s # <<>>
  PROVE  /\ Head(s) \in Allowed(k) /\ Head(s) \in AllWrites
         /\ Tail(s) \in Programs(k)
         /\ Head(s).op = "diag_read" => Tail(s) # <<>>
<1>1. s \in Seq(Allowed(k)) /\ s[Len(s)].op # "diag_read"
  BY DEF Programs
<1>2. /\ Head(s) \in Allowed(k) /\ Tail(s) \in Seq(Allowed(k)) /\ Len(Tail(s)) = Len(s) - 1
      /\ \A i \in 1 .. Len(Tail(s)) : Tail(s)[i] = s[i + 1]
      /\ Len(s) \in Nat \ {0}
  BY <1>1, HeadTailProperties, EmptySeq
<1>3. Tail(s) # <<>> => Tail(s)[Len(Tail(s))].op # "diag_read"
  <2>1. Tail(s) # <<>> => Len(Tail(s)) \in Nat \ {0}
    BY <1>2, EmptySeq
  <2> QED BY <1>1, <1>2, <2>1
<1>4. Head(s) = s[1]
  BY <1>1
<1>5. Tail(s) = <<>> => Len(s) = 1
  BY <1>2
<1>6. Head(s).op = "diag_read" => Tail(s) # <<>>
  BY <1>1, <1>4, <1>5
<1>7. Head(s) \in AllWrites
  BY <1>2 DEF Allowed
<1> HIDE DEF AllWrites
<1> QED BY <1>2, <1>3, <1>6, <1>7 DEF Programs

\* A request goes on with other statements.
LEMMA TodoInv ==
  ASSUME NEW p \in RequestStates, RequestInv(p), p.pc = "write",
         NEW t \in Programs(p.kind), NEW v \in StableValues
  PROVE  LET q == [p EXCEPT !.todo = t, !.prev = v]
         IN q \in RequestStates /\ RequestInv(q) /\ q.pc = "write" /\ q.kind = p.kind
<1> DEFINE q == [p EXCEPT !.todo = t, !.prev = v]
<1>1. t \in Seq(AllWrites)
  <2>1. t \in Seq(Allowed(p.kind)) /\ Allowed(p.kind) \subseteq AllWrites
    BY DEF Programs, Allowed
  <2> QED BY <2>1, SeqMonotonic
<1>2. q \in RequestStates
  BY <1>1 DEF RequestStates
<1>3. /\ q.pc = "write" /\ q.acct = p.acct /\ q.copy = p.copy /\ q.out = p.out
      /\ q.kind = p.kind /\ q.target = p.target /\ q.attempt = p.attempt
      /\ q.exclude = p.exclude /\ q.todo = t /\ q.sent = p.sent
  BY DEF RequestStates
<1> HIDE DEF q
<1>4. RequestInv(q)
  BY <1>3 DEF RequestInv, Holds, Reached, OnTarget, Covered
<1> QED BY <1>2, <1>3, <1>4 DEF q

(* Executing one statement keeps it. *)
LEMMA WriteStep ==
  ASSUME GatewayInv, NEW r \in Requests, Write(r)
  PROVE  GatewayInv'
<1> DEFINE p == req[r]
           w == Head(p.todo)
           new(t, v) == [p EXCEPT !.todo = t, !.prev = v]
<1>1. p \in RequestStates /\ RequestInv(p) /\ p.pc = "write" /\ p.todo # <<>>
  BY DEF GatewayInv, GatewayTyped, Write
<1>2. p.todo \in Programs(p.kind) /\ p.acct \in Accounts /\ p.prev \in StableValues
  BY <1>1 DEF RequestInv, Holds, RequestStates
<1>3. /\ w \in Allowed(p.kind) /\ w \in AllWrites /\ Tail(p.todo) \in Programs(p.kind)
  BY <1>1, <1>2, ProgramTail
<1>4. ~p.kind.diagnostic /\ (w.op \in TrafficOps => ~p.kind.stateful)
  BY <1>3 DEF Allowed
<1>5. /\ rows \in [Accounts -> AccountRows] /\ req \in [Requests -> RequestStates]
      /\ poolEnabled' = poolEnabled /\ faults' \in Nat /\ rows[p.acct].stable \in StableValues
  BY <1>2 DEF GatewayInv, GatewayTyped, Write, AccountRows
<1>6. CASE w.op \in Statements
  <2>1. /\ rows' = [rows EXCEPT ![p.acct] = Apply(w, rows[p.acct], p.prev)]
        /\ req' = [req EXCEPT ![r] = new(Tail(p.todo), p.prev)] /\ async' = async
    <3>1. w.op \notin Goroutines \cup {"diag_read", "read_latest"}
      BY <1>6 DEF Statements, Goroutines
    <3>2. /\ rows' = [rows EXCEPT ![p.acct] = Apply(w, rows[p.acct], p.prev)]
          /\ req' = [req EXCEPT ![r].todo = Tail(@)] /\ async' = async
      BY <3>1, <1>5 DEF Write
    <3>3. [p EXCEPT !.todo = Tail(p.todo)] = new(Tail(p.todo), p.prev)
      BY <1>1 DEF RequestStates
    <3> QED BY <1>5, <3>2, <3>3
  <2>2. Apply(w, rows[p.acct], p.prev) \in AccountRows
    BY <1>2, <1>3, <1>5, <1>6, ApplyTyped
  <2>3. rows' \in [Accounts -> AccountRows]
    BY <1>5, <2>1, <2>2
  <2> QED BY <1>1, <1>2, <1>3, <1>5, <2>1, <2>3, TodoInv, OneRequest
<1>7. CASE w.op \in Goroutines
  <2>1. /\ rows' = rows /\ async' = async \cup {[account |-> p.acct, by |-> r, op |-> w.op]}
        /\ req' = [req EXCEPT ![r] = new(Tail(p.todo), p.prev)]
    <3>1. w.op \notin Statements \cup {"diag_read", "read_latest"}
      BY <1>7 DEF Statements, Goroutines
    <3>2. /\ rows' = rows /\ async' = async \cup {[account |-> p.acct, by |-> r, op |-> w.op]}
          /\ req' = [req EXCEPT ![r].todo = Tail(@)]
      BY <3>1, <1>5 DEF Write
    <3>3. [p EXCEPT !.todo = Tail(p.todo)] = new(Tail(p.todo), p.prev)
      BY <1>1 DEF RequestStates
    <3> QED BY <1>5, <3>2, <3>3
  <2>2. p.kind.stateful => w.op # "go_health_error"
    BY <1>4 DEF TrafficOps
  <2>3. /\ async' \subseteq async \cup [account : Accounts, by : {r}, op : Goroutines]
        /\ \A g \in async' \ async : p.kind.stateful => g.op # "go_health_error"
    BY <1>2, <1>7, <2>1, <2>2
  <2> DEFINE q == new(Tail(p.todo), p.prev)
  <2>4. q \in RequestStates /\ RequestInv(q) /\ q.pc = "write" /\ q.kind = p.kind
    <3>1. PICK t \in Programs(p.kind), v \in StableValues : t = Tail(p.todo) /\ v = p.prev
      BY <1>1, <1>2, <1>3
    <3>2. LET k == [p EXCEPT !.todo = t, !.prev = v]
          IN k \in RequestStates /\ RequestInv(k) /\ k.pc = "write" /\ k.kind = p.kind
      BY <1>1, TodoInv, Zenon
    <3> QED BY <3>1, <3>2, Zenon
  <2> HIDE DEF q
  <2>5. req' = [req EXCEPT ![r] = q]
    BY <2>1 DEF q
  <2> QED BY <1>5, <2>1, <2>3, <2>4, <2>5, OneRequest
<1>8. CASE w.op = "diag_read"
  <2>1. /\ rows' = rows /\ async' = async
        /\ req' = [req EXCEPT ![r] = new(Tail(p.todo), rows[p.acct].stable)]
    <3>1. w.op \notin Statements \cup Goroutines \cup {"read_latest"}
      BY <1>8 DEF Statements, Goroutines
    <3>2. /\ rows' = rows /\ async' = async
          /\ req' = [[req EXCEPT ![r].todo = Tail(@)] EXCEPT ![r].prev = rows[p.acct].stable]
      BY <3>1, <1>5 DEF Write
    <3> QED BY <1>5, <3>2
  <2> QED BY <1>1, <1>2, <1>3, <1>5, <2>1, TodoInv, OneRequest
<1>9. CASE w.op = "read_latest"
  <2>1. /\ rows' = rows /\ async' = async
        /\ req' = [req EXCEPT ![r] = new(LatestWrites(rows[p.acct]), p.prev)]
    <3>1. w.op \notin Statements \cup Goroutines \cup {"diag_read"}
      BY <1>9 DEF Statements, Goroutines
    <3>2. /\ rows' = rows /\ async' = async
          /\ req' = [req EXCEPT ![r].todo = LatestWrites(rows[p.acct])]
      BY <3>1, <1>5 DEF Write
    <3>3. [p EXCEPT !.todo = LatestWrites(rows[p.acct])] = new(LatestWrites(rows[p.acct]), p.prev)
      BY <1>1 DEF RequestStates
    <3> QED BY <1>5, <3>2, <3>3
  <2>2. LatestWrites(rows[p.acct]) \in Programs(p.kind)
    BY <1>4, LatestPrograms
  <2> DEFINE t == LatestWrites(rows[p.acct])
  <2> HIDE DEF t
  <2>3. t \in Programs(p.kind) /\ req' = [req EXCEPT ![r] = new(t, p.prev)]
    BY <2>1, <2>2 DEF t
  <2> DEFINE q == new(t, p.prev)
  <2>4. q \in RequestStates /\ RequestInv(q) /\ q.pc = "write" /\ q.kind = p.kind
    <3>1. PICK u \in Programs(p.kind), v \in StableValues : u = t /\ v = p.prev
      BY <1>2, <2>3
    <3>2. LET k == [p EXCEPT !.todo = u, !.prev = v]
          IN k \in RequestStates /\ RequestInv(k) /\ k.pc = "write" /\ k.kind = p.kind
      BY <1>1, TodoInv, Zenon
    <3> QED BY <3>1, <3>2, Zenon
  <2>5. req' = [req EXCEPT ![r] = q]
    BY <2>3
  <2> HIDE DEF q
  <2> QED BY <1>5, <2>1, <2>4, <2>5, OneRequest
<1> QED BY <1>3, <1>6, <1>7, <1>8, <1>9 DEF AllWrites

(* So does a statement that fails. *)
LEMMA StatementFailsStep ==
  ASSUME GatewayInv, NEW r \in Requests, StatementFails(r)
  PROVE  GatewayInv'
<1> DEFINE p == req[r]
           w == Head(p.todo)
           t == IF w.op = "read_latest" THEN UnreadWrites(p.copy)
                ELSE IF w.op = "diag_read" THEN Tail(Tail(p.todo))
                ELSE Tail(p.todo)
<1>1. p \in RequestStates /\ RequestInv(p) /\ p.pc = "write" /\ p.todo # <<>>
  BY DEF GatewayInv, GatewayTyped, StatementFails
<1>2. p.todo \in Programs(p.kind) /\ p.prev \in StableValues
  BY <1>1 DEF RequestInv, Holds, RequestStates
<1>3. /\ w \in Allowed(p.kind) /\ Tail(p.todo) \in Programs(p.kind)
      /\ w.op = "diag_read" => Tail(p.todo) # <<>>
  BY <1>1, <1>2, ProgramTail
<1>4. w.op = "diag_read" => Tail(Tail(p.todo)) \in Programs(p.kind)
  BY <1>3, ProgramTail
<1>5. UnreadWrites(p.copy) \in Programs(p.kind)
  BY <1>3, LatestPrograms DEF Allowed
<1>6. t \in Programs(p.kind)
  BY <1>3, <1>4, <1>5
<1>7. req' = [req EXCEPT ![r] = [p EXCEPT !.todo = t, !.prev = p.prev]]
  <2>1. req' = [req EXCEPT ![r] = [p EXCEPT !.todo = t]]
    BY DEF StatementFails, GatewayInv, GatewayTyped
  <2> HIDE DEF t
  <2>2. [p EXCEPT !.todo = t] = [p EXCEPT !.todo = t, !.prev = p.prev]
    BY <1>1 DEF RequestStates
  <2> QED BY <2>1, <2>2
<1> HIDE DEF t
<1>8. rows' \in [Accounts -> AccountRows] /\ poolEnabled' = poolEnabled /\ faults' \in Nat
        /\ async' = async
  BY DEF GatewayInv, GatewayTyped, StatementFails
<1> QED BY <1>1, <1>2, <1>6, <1>7, <1>8, TodoInv, OneRequest

(* So does going on after the last statement of an attempt. *)
LEMMA SettleStep ==
  ASSUME GatewayInv, NEW r \in Requests, Settle(r)
  PROVE  GatewayInv'
<1> DEFINE p == req[r]
           next == IF p.attempt + 1 < maxRetries(p.kind) THEN "select" ELSE "exhausted"
           q == [p EXCEPT !.exclude = ExcludeTried(p), !.attempt = p.attempt + 1, !.pc = next]
<1>1. p \in RequestStates /\ RequestInv(p) /\ p.pc = "write" /\ p.todo = <<>>
  BY DEF GatewayInv, GatewayTyped, Settle
<1>2. /\ p.attempt \in Nat /\ p.acct \in Accounts /\ p.exclude \subseteq Accounts
      /\ p.sent \in Seq(Accounts)
  BY <1>1 DEF RequestStates, RequestInv, Holds
<1>3. /\ req' = [req EXCEPT ![r] = IF Retries(p) THEN q ELSE Answered(p, p.attempt + 1)]
      /\ UNCHANGED <<rows, poolEnabled, async, faults>>
  BY DEF Settle
<1>4. CASE Retries(p)
  <2>1. p.out # "local_error"
    BY <1>4 DEF Retries, IsRetryable, IsRetryableStatus, RetryableStatuses
  <2>2. q \in RequestStates
    <3>1. next \in PCs /\ ExcludeTried(p) \in SUBSET Accounts /\ p.attempt + 1 \in Nat
      BY <1>2 DEF PCs, ExcludeTried
    <3> HIDE DEF next
    <3> QED BY <1>1, <3>1 DEF RequestStates
  <2>3. /\ q.pc = next /\ q.acct = p.acct /\ q.out = p.out
        /\ q.kind = p.kind /\ q.target = p.target /\ q.attempt = p.attempt + 1
        /\ q.exclude = p.exclude \cup {p.acct} /\ q.todo = p.todo /\ q.sent = p.sent
    BY <1>1 DEF RequestStates, ExcludeTried
  <2>4. p.kind.force => next # "select"
    BY <1>2 DEF maxRetries
  <2>5. next \in {"select", "exhausted"}
    OBVIOUS
  <2>6. req' = [req EXCEPT ![r] = q]
    BY <1>3, <1>4
  <2> HIDE DEF q, next
  <2>7. RequestInv(q)
    BY <1>1, <2>1, <2>3, <2>4, <2>5 DEF RequestInv, Holds, Reached, OnTarget, Covered
  <2>8. rows' \in [Accounts -> AccountRows] /\ poolEnabled' = poolEnabled /\ faults' \in Nat
        /\ async' = async
    BY <1>3 DEF GatewayInv, GatewayTyped
  <2> QED BY <2>2, <2>3, <2>5, <2>6, <2>7, <2>8, OneRequest
<1>5. CASE ~Retries(p)
  <2> DEFINE n == p.attempt + 1
  <2>1. n \in Nat /\ (p.out # "local_error" => n - Len(p.sent) \in {0, 1})
    BY <1>1, <1>2 DEF RequestInv, Reached
  <2>2. req' = [req EXCEPT ![r] = Answered(p, n)]
    BY <1>3, <1>5
  <2> HIDE DEF n
  <2> QED BY <1>1, <1>3, <2>1, <2>2, AnswerStep
<1> QED BY <1>4, <1>5

(* So does giving up after the last attempt. *)
LEMMA ExhaustedStep ==
  ASSUME GatewayInv, NEW r \in Requests, Exhausted(r)
  PROVE  GatewayInv'
<1>1. req[r] \in RequestStates /\ RequestInv(req[r]) /\ req[r].pc = "exhausted"
  BY DEF GatewayInv, GatewayTyped, Exhausted
<1>2. /\ req[r].attempt \in Nat /\ req[r].todo = <<>> /\ Len(req[r].sent) = req[r].attempt
  BY <1>1 DEF RequestStates, RequestInv, Holds, Reached
<1>3. req[r].attempt - Len(req[r].sent) \in {0, 1}
  BY <1>2
<1>4. /\ req' = [req EXCEPT ![r] = Answered(req[r], req[r].attempt)]
      /\ UNCHANGED <<rows, poolEnabled, async, faults>>
  BY DEF Exhausted, GatewayInv, GatewayTyped
<1> QED BY <1>2, <1>3, <1>4, AnswerStep

\* A request that never gets to the upstream.
LEMMA RefusedStep ==
  ASSUME GatewayInv, NEW r \in Requests, RejectBody(r) \/ BindFails(r)
  PROVE  GatewayInv'
<1>1. req[r] \in RequestStates /\ RequestInv(req[r]) /\ req[r].pc \in {"idle", "bind"}
  BY DEF GatewayInv, GatewayTyped, RejectBody, BindFails
<1>2. /\ req[r].todo = <<>>
      /\ req[r].pc = "idle" => 0 - Len(req[r].sent) \in {0, 1}
      /\ req[r].pc = "bind" => req[r].acct \notin Range(req[r].sent)
  <2>1. req[r].pc = "idle" => Len(req[r].sent) = 0
    BY <1>1 DEF RequestInv, Reached
  <2>2. req[r].pc = "bind" => req[r].acct \notin Range(req[r].sent)
    BY <1>1 DEF RequestInv, Reached
  <2>3. req[r].todo = <<>>
    BY <1>1 DEF RequestInv, Holds
  <2> QED BY <2>1, <2>2, <2>3
<1>3. /\ req' = [req EXCEPT ![r] = Answered(req[r], 0)]
      /\ UNCHANGED <<rows, poolEnabled, async, faults>>
  BY DEF RejectBody, BindFails, GatewayInv, GatewayTyped
<1> QED BY <1>1, <1>2, <1>3, AnswerStep

\* A goroutine, the clock and the administrator leave the requests alone.
LEMMA OtherStep ==
  ASSUME GatewayInv, \/ \E g \in async : RunAsync(g)
                     \/ \E a \in Accounts : CooldownEnds(a)
                     \/ DisablePool
  PROVE  GatewayInv'
<1>1. req' = req /\ faults' = faults /\ async' \subseteq async /\ poolEnabled' \in BOOLEAN
  BY DEF RunAsync, CooldownEnds, DisablePool, GatewayInv, GatewayTyped
<1>2. rows' \in [Accounts -> AccountRows]
  <2>1. ASSUME NEW g \in async, RunAsync(g) PROVE rows' \in [Accounts -> AccountRows]
    <3> DEFINE w == [op |-> g.op, stable |-> "unknown", probe |-> "not_run"]
    <3>1. g.account \in Accounts /\ g.op \in Goroutines /\ rows \in [Accounts -> AccountRows]
      BY DEF GatewayInv, GatewayTyped
    <3>2. w \in AllWrites /\ w.op \in Goroutines /\ "unknown" \in StableValues
      BY <3>1 DEF AllWrites, StableValues, ProbeValues
    <3> HIDE DEF w
    <3>3. Apply(w, rows[g.account], "unknown") \in AccountRows
      BY <3>1, <3>2, ApplyTyped
    <3>4. rows' = [rows EXCEPT ![g.account] = Apply(w, @, "unknown")]
      BY <2>1 DEF RunAsync, w
    <3> QED BY <3>1, <3>3, <3>4
  <2>2. ASSUME NEW a \in Accounts, CooldownEnds(a) PROVE rows' \in [Accounts -> AccountRows]
    <3>1. rows \in [Accounts -> AccountRows]
      BY DEF GatewayInv, GatewayTyped
    <3>2. Expire(rows[a]) \in AccountRows
      BY <3>1 DEF Expire, AccountRows, CooldownValues
    <3> QED BY <2>2, <3>1, <3>2 DEF CooldownEnds
  <2>3. CASE DisablePool
    BY <2>3 DEF DisablePool, GatewayInv, GatewayTyped
  <2> QED BY <2>1, <2>2, <2>3
<1> QED BY <1>1, <1>2 DEF GatewayInv, GatewayTyped, AsyncInv

(* The gateway's invariant holds before the first request. *)
LEMMA GatewayInvInit == Init => GatewayInv
<1> SUFFICES ASSUME Init PROVE GatewayInv
  OBVIOUS
<1>1. Idle \in RequestStates
  BY DEF Idle, RequestStates, PCs, RequestKinds, StableValues
<1>2. RequestInv(Idle)
  <2>1. /\ Idle.pc = "idle" /\ Idle.todo = <<>> /\ Idle.sent = <<>> /\ Idle.attempt = 0
        /\ Idle.exclude = {} /\ ~Idle.kind.force
    BY DEF Idle
  <2>2. IsInjective(<<>>)
    BY DEF IsInjective
  <2> QED BY <2>1, <2>2, ProgramEmpty DEF RequestInv, Holds, Reached, OnTarget, Covered
<1> QED BY <1>1, <1>2, InitialRowsAssumption DEF Init, GatewayInv, GatewayTyped, AsyncInv

(* Every step of the gateway keeps it. *)
LEMMA GatewayInvStep == GatewayInv /\ [Next]_gatewayVars => GatewayInv'
<1> SUFFICES ASSUME GatewayInv, [Next]_gatewayVars PROVE GatewayInv'
  OBVIOUS
<1>1. ASSUME NEW r \in Requests, Arrive(r) PROVE GatewayInv'
  BY <1>1, AcceptStep, RefusedStep DEF Arrive
<1>2. ASSUME NEW r \in Requests, RequestStep(r) PROVE GatewayInv'
  BY <1>2, ResolveStep, BindStep, RefusedStep, ForwardStep, WriteStep, StatementFailsStep,
     SettleStep, SelectNextStep, ExhaustedStep DEF RequestStep
<1>3. CASE UNCHANGED gatewayVars
  BY <1>3 DEF gatewayVars, GatewayInv, GatewayTyped, AsyncInv
<1> QED BY <1>1, <1>2, <1>3, OtherStep DEF Next

\* What is true of every request and goroutine at every moment.
THEOREM GatewayInvHolds == Spec => []GatewayInv
BY GatewayInvInit, GatewayInvStep, PTL DEF Spec

\* Whatever fails, a request reaches no account twice, a forced one only its
\* target, and its log covers what it sent.
THEOREM AttemptsAreSoundHolds == Spec => []AttemptsAreSound
<1>1. GatewayInv => AttemptsAreSound
  BY DEF GatewayInv, RequestInv, Reached, OnTarget, Covered, AttemptsAreSound,
         NoAccountTwice, ForcedReachesOnlyTarget, AttemptsCovered
<1> QED BY <1>1, GatewayInvHolds, PTL

-----------------------------------------------------------------------------
(* What a step may do to the rows *)

\* A request changes its own state only, and rows only by a statement.
LEMMA OwnStep ==
  ASSUME GatewayInv, NEW p \in Requests, Arrive(p) \/ RequestStep(p)
  PROVE  /\ \A r \in Requests : r # p => req'[r] = req[r]
         /\ Write(p) \/ UNCHANGED <<rows, async>>
         /\ async \subseteq async'
<1>0. req \in [Requests -> RequestStates]
  BY DEF GatewayInv, GatewayTyped
<1>1. CASE Arrive(p)
  BY <1>0, <1>1 DEF Arrive, Accept, RejectBody
<1>2. CASE Resolve(p) \/ SelectNext(p) \/ Settle(p)
  BY <1>0, <1>2 DEF Resolve, SelectNext, Settle
<1>3. CASE Bind(p) \/ BindFails(p) \/ Exhausted(p)
  BY <1>0, <1>3 DEF Bind, Goto, BindFails, Exhausted
<1>4. ASSUME NEW out, Forward(p, out)
      PROVE  (\A r \in Requests : r # p => req'[r] = req[r]) /\ UNCHANGED <<rows, async>>
  BY <1>0, <1>4 DEF Forward
<1>5. CASE Write(p)
  BY <1>0, <1>5 DEF Write
<1>6. CASE StatementFails(p)
  BY <1>0, <1>6 DEF StatementFails
<1> QED BY <1>1, <1>2, <1>3, <1>4, <1>5, <1>6 DEF RequestStep

\* What a statement of a request is about to do.
LEMMA WriteRows ==
  ASSUME GatewayInv, NEW p \in Requests, Write(p)
  PROVE  LET q == req[p]
             w == Head(q.todo)
         IN /\ q.acct \in Accounts /\ q.prev \in StableValues
            /\ w \in Allowed(q.kind) /\ w \in AllWrites /\ q.todo # <<>>
            /\ \/ /\ w.op \in Statements
                  /\ rows' = [rows EXCEPT ![q.acct] = Apply(w, rows[q.acct], q.prev)]
               \/ rows' = rows
<1>1. req[p] \in RequestStates /\ RequestInv(req[p]) /\ req[p].pc = "write"
        /\ req[p].todo # <<>>
  BY DEF GatewayInv, GatewayTyped, Write
<1>2. req[p].todo \in Programs(req[p].kind) /\ req[p].acct \in Accounts
        /\ req[p].prev \in StableValues
  BY <1>1 DEF RequestInv, Holds, RequestStates
<1>3. Head(req[p].todo) \in Allowed(req[p].kind) /\ Head(req[p].todo) \in AllWrites
  BY <1>1, <1>2, ProgramTail
<1>4. \/ /\ Head(req[p].todo).op \in Statements
         /\ rows' = [rows EXCEPT ![req[p].acct] = Apply(Head(req[p].todo), rows[req[p].acct], req[p].prev)]
      \/ rows' = rows
  BY DEF Write
<1> QED BY <1>1, <1>2, <1>3, <1>4

\* What a goroutine does.
LEMMA AsyncRows ==
  ASSUME GatewayInv, NEW g \in async, RunAsync(g)
  PROVE  LET w == [op |-> g.op, stable |-> "unknown", probe |-> "not_run"]
         IN /\ g.account \in Accounts /\ g.by \in Requests
            /\ w \in AllWrites /\ w.op \in Goroutines /\ w.op = g.op
            /\ rows' = [rows EXCEPT ![g.account] = Apply(w, rows[g.account], "unknown")]
            /\ req' = req /\ async' = async \ {g}
<1>1. g.account \in Accounts /\ g.by \in Requests /\ g.op \in Goroutines
  BY DEF GatewayInv, GatewayTyped
<1>2. [op |-> g.op, stable |-> "unknown", probe |-> "not_run"] \in AllWrites
  BY <1>1 DEF AllWrites, StableValues, ProbeValues
<1> QED BY <1>1, <1>2 DEF RunAsync, GatewayInv, GatewayTyped

(* No step of the gateway leaves a scheduler status that does not fit the stable one. *)
LEMMA FollowsStep ==
  ASSUME GatewayInv, SchedFollowsStable, [Next]_gatewayVars
  PROVE  SchedFollowsStable'
<1>0. rows \in [Accounts -> AccountRows] /\ \A a \in Accounts : FollowsStable(rows[a])
  BY DEF GatewayInv, GatewayTyped, SchedFollowsStable
<1> SUFFICES ASSUME NEW a \in Accounts PROVE FollowsStable(rows'[a])
  BY DEF SchedFollowsStable, FollowsStable
<1>1. ASSUME NEW p \in Requests, Arrive(p) \/ RequestStep(p) PROVE FollowsStable(rows'[a])
  <2>1. CASE Write(p)
    BY <1>0, <2>1, WriteRows, ApplyTyped
  <2>2. CASE ~Write(p)
    BY <1>0, <1>1, <2>2, OwnStep
  <2> QED BY <2>1, <2>2
<1>2. ASSUME NEW g \in async, RunAsync(g) PROVE FollowsStable(rows'[a])
  <2> DEFINE w == [op |-> g.op, stable |-> "unknown", probe |-> "not_run"]
  <2>1. /\ g.account \in Accounts /\ w \in AllWrites /\ w.op \in Goroutines
        /\ rows' = [rows EXCEPT ![g.account] = Apply(w, rows[g.account], "unknown")]
    BY <1>2, AsyncRows
  <2> HIDE DEF w
  <2>2. "unknown" \in StableValues
    BY DEF StableValues
  <2>3. FollowsStable(Apply(w, rows[g.account], "unknown"))
    BY <1>0, <2>1, <2>2, ApplyTyped
  <2> QED BY <1>0, <2>1, <2>3
<1>3. ASSUME NEW b \in Accounts, CooldownEnds(b) PROVE FollowsStable(rows'[a])
  <2>1. Expire(rows[b]).stable = rows[b].stable /\ Expire(rows[b]).sched = rows[b].sched
    BY <1>0 DEF Expire, AccountRows
  <2> QED BY <1>0, <1>3, <2>1 DEF CooldownEnds, FollowsStable
<1>4. CASE DisablePool \/ UNCHANGED gatewayVars
  BY <1>0, <1>4 DEF DisablePool, gatewayVars
<1> QED BY <1>1, <1>2, <1>3, <1>4 DEF Next

\* However the observations of requests interleave, the two statuses agree.
THEOREM SchedFollowsStableHolds == Spec => []SchedFollowsStable
<1>1. Init => SchedFollowsStable
  BY InitialRowsAssumption DEF Init, SchedFollowsStable
<1>2. GatewayInv /\ SchedFollowsStable /\ [Next]_gatewayVars => SchedFollowsStable'
  BY FollowsStep
<1> QED BY <1>1, <1>2, GatewayInvHolds, PTL DEF Spec

\* A diagnostic request writes nothing and leaves no goroutine.
THEOREM DiagnosticLeavesNoTraceHolds == Spec => DiagnosticLeavesNoTrace
<1>1. ASSUME GatewayInv, Next, NEW r \in Requests, req[r].kind.diagnostic, req'[r] # req[r]
      PROVE  UNCHANGED <<rows, async>>
  <2>1. PICK p \in Requests : Arrive(p) \/ RequestStep(p)
    BY <1>1 DEF Next, RunAsync, CooldownEnds, DisablePool
  <2>2. p = r
    BY <1>1, <2>1, OwnStep
  <2>3. ~Write(r)
    BY <1>1, WriteRows DEF Allowed
  <2> QED BY <1>1, <2>1, <2>2, <2>3, OwnStep
<1>2. GatewayInv /\ [Next]_gatewayVars =>
        [\A r \in Requests : req[r].kind.diagnostic /\ req'[r] # req[r] =>
           UNCHANGED <<rows, async>>]_gatewayVars
  BY <1>1
<1> QED BY <1>2, GatewayInvHolds, PTL DEF Spec, DiagnosticLeavesNoTrace

\* The statements that leave what counts traffic alone.
LEMMA KeepsServing ==
  ASSUME NEW w \in AllWrites, w.op \in Statements \cup Goroutines,
         w.op \notin {"serving_success", "serving_failure", "go_health_error"},
         NEW row \in AccountRows, NEW prev
  PROVE  LET new == Apply(w, row, prev)
         IN new.serving = row.serving /\ new.cooldown = row.cooldown /\ new.status = row.status
<1> USE DEF AccountRows
<1>1. CASE w.op \in {"quota_blocked", "quota_error"}
  BY <1>1 DEF Apply, UpdateAccountCodexQuotaStatus
<1>2. CASE w.op = "clear_evidence"
  BY <1>2 DEF Apply, ClearAccountCodexModelRequestQuotaEvidence
<1>3. CASE w.op = "access_eligible"
  BY <1>3 DEF Apply, UpdateAccountCpaAccessStatus
<1>4. CASE w.op \in {"cred_ok", "go_cred_ok", "go_needs_login"}
  BY <1>4 DEF Apply, UpdateAccountCpaCredentialStatus
<1>5. CASE w.op = "diag_tx"
  BY <1>5 DEF Apply, UpdateAccountDiagnosticTx
<1> QED BY <1>1, <1>2, <1>3, <1>4, <1>5 DEF Statements, Goroutines

\* A stateful probe, and the goroutines it leaves, keep what counts traffic.
THEOREM ProbeKeepsServingHolds == Spec => ProbeKeepsServing
<1> DEFINE Kept == \A a \in Accounts : /\ rows'[a].serving = rows[a].serving
                                       /\ rows'[a].cooldown = rows[a].cooldown
                                       /\ rows'[a].status = rows[a].status
<1>1. ASSUME GatewayInv, Next, NEW r \in Requests, req[r].kind.stateful,
             req'[r] # req[r] \/ \E g \in async \ async' : g.by = r
      PROVE  Kept
  <2>0. rows \in [Accounts -> AccountRows]
    BY <1>1 DEF GatewayInv, GatewayTyped
  <2>1. ASSUME NEW p \in Requests, Arrive(p) \/ RequestStep(p) PROVE Kept
    <3>1. p = r
      BY <1>1, <2>1, OwnStep
    <3>2. CASE Write(r)
      <4> DEFINE w == Head(req[r].todo)
      <4>1. /\ req[r].acct \in Accounts /\ w \in AllWrites /\ w \in Allowed(req[r].kind)
            /\ \/ /\ w.op \in Statements
                  /\ rows' = [rows EXCEPT ![req[r].acct] = Apply(w, rows[req[r].acct], req[r].prev)]
               \/ rows' = rows
        BY <1>1, <3>2, WriteRows
      <4>2. w.op \notin {"serving_success", "serving_failure", "go_health_error"}
        BY <1>1, <4>1 DEF Allowed, TrafficOps
      <4> HIDE DEF w
      <4> QED BY <2>0, <4>1, <4>2, KeepsServing
    <3>3. CASE ~Write(r)
      BY <1>1, <2>1, <3>1, <3>3, OwnStep
    <3> QED BY <3>2, <3>3
  <2>2. ASSUME NEW g \in async, RunAsync(g) PROVE Kept
    <3> DEFINE w == [op |-> g.op, stable |-> "unknown", probe |-> "not_run"]
    <3>1. /\ g.account \in Accounts /\ w \in AllWrites /\ w.op \in Goroutines /\ w.op = g.op
          /\ rows' = [rows EXCEPT ![g.account] = Apply(w, rows[g.account], "unknown")]
          /\ req' = req /\ async' = async \ {g}
      BY <1>1, <2>2, AsyncRows
    <3>2. g.by = r
      BY <1>1, <3>1
    <3>3. w.op \notin {"serving_success", "serving_failure", "go_health_error"}
      BY <1>1, <3>1, <3>2 DEF GatewayInv, AsyncInv, Goroutines
    <3> HIDE DEF w
    <3> QED BY <2>0, <3>1, <3>3, KeepsServing
  <2>3. CASE DisablePool \/ \E a \in Accounts : CooldownEnds(a)
    BY <1>1, <2>3 DEF DisablePool, CooldownEnds
  <2> QED BY <1>1, <2>1, <2>2, <2>3 DEF Next
<1>2. GatewayInv /\ [Next]_gatewayVars =>
        [\A r \in Requests :
           req[r].kind.stateful /\ (req'[r] # req[r] \/ \E g \in async \ async' : g.by = r) =>
             Kept]_gatewayVars
  BY <1>1
<1> QED BY <1>2, GatewayInvHolds, PTL DEF Spec, ProbeKeepsServing

\* The observation of a transient error keeps the statuses that are in the row.
THEOREM TransientKeepsStableHolds == Spec => TransientKeepsStable
<1> DEFINE Transient(r) == /\ req[r].todo # <<>>
                           /\ Head(req[r].todo).op = "diag_tx"
                           /\ Head(req[r].todo).probe = "transient_error"
                           /\ req'[r].todo # req[r].todo
           Same(a) == rows'[a].stable = rows[a].stable /\ rows'[a].sched = rows[a].sched
<1>1. ASSUME GatewayInv, Next, NEW r \in Requests, NEW a \in Accounts, Transient(r)
      PROVE  Same(a)
  <2>0. rows \in [Accounts -> AccountRows]
    BY <1>1 DEF GatewayInv, GatewayTyped
  <2>1. PICK p \in Requests : Arrive(p) \/ RequestStep(p)
    BY <1>1 DEF Next, RunAsync, CooldownEnds, DisablePool
  <2>2. p = r
    BY <1>1, <2>1, OwnStep
  <2>3. CASE Write(r)
    <3> DEFINE w == Head(req[r].todo)
               row == rows[req[r].acct]
               stable == IF w.stable \in {"previous", "transient_error"} THEN req[r].prev ELSE w.stable
    <3>1. /\ req[r].acct \in Accounts
          /\ \/ rows' = [rows EXCEPT ![req[r].acct] = Apply(w, row, req[r].prev)]
             \/ rows' = rows
      BY <1>1, <2>3, WriteRows
    <3>2. Apply(w, row, req[r].prev) = UpdateAccountDiagnosticTx(row, stable, "transient_error", TRUE)
      BY <1>1 DEF Apply
    <3>3. row \in AccountRows
      BY <2>0, <3>1
    <3> HIDE DEF stable, row, w
    <3>4. Apply(w, row, req[r].prev).stable = row.stable /\ Apply(w, row, req[r].prev).sched = row.sched
      BY <3>2, <3>3 DEF UpdateAccountDiagnosticTx, AccountRows
    <3> QED BY <2>0, <3>1, <3>4 DEF row
  <2>4. CASE ~Write(r)
    BY <1>1, <2>1, <2>2, <2>4, OwnStep
  <2> QED BY <2>3, <2>4
<1>2. GatewayInv /\ [Next]_gatewayVars =>
        [\A r \in Requests : \A a \in Accounts : Transient(r) => Same(a)]_gatewayVars
  BY <1>1
<1> QED BY <1>2, GatewayInvHolds, PTL DEF Spec, TransientKeepsStable
=============================================================================
