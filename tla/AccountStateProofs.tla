------------------------- MODULE AccountStateProofs -------------------------
(***************************************************************************)
(* Proofs about the row of an account that requests, rounds, refreshes,    *)
(* edits and the clock write, for any accounts and any number of each; the *)
(* two routability decisions of the code agree on it at every moment.      *)
(***************************************************************************)
EXTENDS AccountState, GatewayProofs

-----------------------------------------------------------------------------
(* The statements of the checker *)

\* The health checker finds errors by statements, recovery only by the
\* conditional update; a usage error is never taken for a rate limit.
CheckerStmts ==
  [op : {"health"}, x : {"error"}, y : ErrValues]
    \cup [op : {"cred"}, x : CredValues, y : {""}]
    \cup [op : {"access"}, x : AccessValues, y : {""}]
    \cup [op : {"sub"}, x : Expiries, y : {""}]
    \cup [op : {"quota"}, x : {"allowed", "blocked"}, y : {""}]
    \cup [op : {"qstatus"}, x : {"blocked", "error"}, y : {"probeAuth", "other"}]

ProbeStmts == [op : {"diag_read", "diag_tx"}, x : {""}, y : {""}]

\* What a quota probe decides about the diagnostic never blocks the account.
Diags ==
  {d \in [stable : StableValues, preserve : BOOLEAN] :
     d.preserve \/ d.stable = "quota_probe_auth_failed_but_usable"}

\* The diagnostic is written right after it was read.
ReadFirst(todo, diag) ==
  \A i \in DOMAIN todo :
    todo[i].op = "diag_tx" => IF i = 1 THEN diag \in Diags ELSE todo[i - 1].op = "diag_read"

(* Every statement that the checker writes is one of six kinds, with values of that kind. *)
LEMMA StmtKinds ==
  ASSUME NEW st \in CheckerStmts
  PROVE  \/ st.op = "health" /\ st.x = "error" /\ st.y \in ErrValues
         \/ st.op = "cred" /\ st.x \in CredValues
         \/ st.op = "access" /\ st.x \in AccessValues
         \/ st.op = "sub" /\ st.x \in Expiries
         \/ st.op = "quota" /\ st.x \in {"allowed", "blocked"}
         \/ st.op = "qstatus" /\ st.x \in {"blocked", "error"} /\ st.y \in {"probeAuth", "other"}
BY DEF CheckerStmts

\* The instance's statements are those of AccountOps.
LEMMA SameStatements ==
  ASSUME NEW row, NEW s, NEW e, NEW b
  PROVE  /\ C!UpdateAccountHealth(row, s, e) = UpdateAccountHealth(row, s, e)
         /\ C!UpdateAccountCpaCredentialStatus(row, s) = UpdateAccountCpaCredentialStatus(row, s)
         /\ C!UpdateAccountCpaAccessStatus(row, s) = UpdateAccountCpaAccessStatus(row, s)
         /\ C!UpdateAccountCodexQuotaStatus(row, s, e) = UpdateAccountCodexQuotaStatus(row, s, e)
         /\ C!UpdateAccountCodexQuota(row, s) = UpdateAccountCodexQuota(row, s)
         /\ C!UpdateAccountCpaSubscription(row, s) = UpdateAccountCpaSubscription(row, s)
         /\ C!UpdateAccountDiagnosticTx(row, s, e, b) = UpdateAccountDiagnosticTx(row, s, e, b)
         /\ C!EnableAccount(row) = EnableAccount(row) /\ C!DisableAccount(row) = DisableAccount(row)
         /\ C!Age(row) = Age(row) /\ C!Lapse(row) = Lapse(row)
<1>1. C!UpdateAccountHealth(row, s, e) = UpdateAccountHealth(row, s, e)
  BY DEF C!UpdateAccountHealth, UpdateAccountHealth
<1>2. /\ C!UpdateAccountCpaCredentialStatus(row, s) = UpdateAccountCpaCredentialStatus(row, s)
      /\ C!UpdateAccountCpaAccessStatus(row, s) = UpdateAccountCpaAccessStatus(row, s)
  BY DEF C!UpdateAccountCpaCredentialStatus, UpdateAccountCpaCredentialStatus,
         C!UpdateAccountCpaAccessStatus, UpdateAccountCpaAccessStatus
<1>3. C!UpdateAccountCodexQuotaStatus(row, s, e) = UpdateAccountCodexQuotaStatus(row, s, e)
  BY DEF C!UpdateAccountCodexQuotaStatus, UpdateAccountCodexQuotaStatus
<1>4. C!UpdateAccountCodexQuota(row, s) = UpdateAccountCodexQuota(row, s)
  BY DEF C!UpdateAccountCodexQuota, UpdateAccountCodexQuota
<1>5. C!UpdateAccountCpaSubscription(row, s) = UpdateAccountCpaSubscription(row, s)
  <2>1. C!deriveCpaSubscriptionStatus(s) = deriveCpaSubscriptionStatus(s)
    BY DEF C!deriveCpaSubscriptionStatus, deriveCpaSubscriptionStatus
  <2> QED BY <2>1 DEF C!UpdateAccountCpaSubscription, UpdateAccountCpaSubscription
<1>6. C!UpdateAccountDiagnosticTx(row, s, e, b) = UpdateAccountDiagnosticTx(row, s, e, b)
  BY DEF C!UpdateAccountDiagnosticTx, UpdateAccountDiagnosticTx,
         C!SchedulerStatusForStableDiagnostic, SchedulerStatusForStableDiagnostic,
         C!StableBlocks, StableBlocks
<1>7. /\ C!EnableAccount(row) = EnableAccount(row) /\ C!DisableAccount(row) = DisableAccount(row)
      /\ C!Age(row) = Age(row) /\ C!Lapse(row) = Lapse(row)
  BY DEF C!EnableAccount, EnableAccount, C!DisableAccount, DisableAccount, C!Age, Age,
         C!Lapse, Lapse
<1> QED BY <1>1, <1>2, <1>3, <1>4, <1>5, <1>6, <1>7

(* `UpdateAccountCpaSubscription` keeps the row's type and both statuses. *)
LEMMA SubscriptionUpdate ==
  ASSUME NEW row \in AccountRows, NEW expiry \in Expiries
  PROVE  LET new == UpdateAccountCpaSubscription(row, expiry)
         IN new \in AccountRows /\ new.stable = row.stable /\ new.sched = row.sched
<1> DEFINE status == deriveCpaSubscriptionStatus(expiry)
           lapse  == /\ status = "expired"
                     /\ row.access # "eligible" \/ row.accessReason = "subscription_active"
           access == IF status = "active" THEN "eligible"
                     ELSE IF lapse THEN "ineligible" ELSE row.access
           reason == IF status = "active" THEN "subscription_active"
                     ELSE IF lapse THEN "subscription_expired" ELSE row.accessReason
<1>1. UpdateAccountCpaSubscription(row, expiry)
        = [row EXCEPT !.expiry = expiry, !.access = access, !.accessReason = reason]
  BY DEF UpdateAccountCpaSubscription
<1>2. access \in AccessValues /\ reason \in AccessReasons
  BY DEF AccountRows, AccessValues, AccessReasons
<1> HIDE DEF access, reason
<1> QED BY <1>1, <1>2, ZenonT(60) DEF AccountRows

(* `UpdateAccountCodexQuota` keeps the row's type and both statuses. *)
LEMMA QuotaUpdate ==
  ASSUME NEW row \in AccountRows, NEW json \in {"allowed", "blocked"}
  PROVE  LET new == UpdateAccountCodexQuota(row, json)
         IN new \in AccountRows /\ new.stable = row.stable /\ new.sched = row.sched
<1> DEFINE quota == IF row.qerr = "model429" THEN row.quota ELSE "ok"
           qerr  == IF row.qerr = "model429" THEN row.qerr ELSE "none"
<1>1. UpdateAccountCodexQuota(row, json)
        = [row EXCEPT !.quotaJSON = json, !.quota = quota, !.qerr = qerr]
  BY DEF UpdateAccountCodexQuota, AccountRows
<1>2. quota \in QuotaValues /\ qerr \in QerrValues /\ json \in QuotaJSONValues
  BY DEF AccountRows, QuotaValues, QerrValues, QuotaJSONValues
<1> HIDE DEF quota, qerr
<1> QED BY <1>1, <1>2, ZenonT(60) DEF AccountRows

(* Whatever the checker writes keeps the row's type and both statuses. *)
LEMMA CheckerApply ==
  ASSUME NEW st \in CheckerStmts, NEW row \in AccountRows, NEW j
  PROVE  LET new == C!Apply(st, row, j)
         IN new \in AccountRows /\ new.stable = row.stable /\ new.sched = row.sched
<1>1. CASE st.op = "health"
  <2>1. st.x \in StatusValues /\ st.y \in ErrValues
    BY <1>1, StmtKinds DEF StatusValues
  <2>2. C!Apply(st, row, j) = UpdateAccountHealth(row, st.x, st.y)
    BY <1>1, SameStatements DEF C!Apply
  <2> QED BY <2>1, <2>2, AccountUpdates
<1>2. CASE st.op = "cred"
  <2>1. st.x \in CredValues /\ C!Apply(st, row, j) = UpdateAccountCpaCredentialStatus(row, st.x)
    BY <1>2, StmtKinds, SameStatements DEF C!Apply
  <2> QED BY <2>1, AccountUpdates
<1>3. CASE st.op = "access"
  <2>1. st.x \in AccessValues /\ C!Apply(st, row, j) = UpdateAccountCpaAccessStatus(row, st.x)
    BY <1>3, StmtKinds, SameStatements DEF C!Apply
  <2> QED BY <2>1, AccountUpdates
<1>4. CASE st.op = "sub"
  <2>1. st.x \in Expiries /\ C!Apply(st, row, j) = UpdateAccountCpaSubscription(row, st.x)
    BY <1>4, StmtKinds, SameStatements DEF C!Apply
  <2> QED BY <2>1, SubscriptionUpdate
<1>5. CASE st.op = "quota"
  <2>1. st.x \in {"allowed", "blocked"} /\ C!Apply(st, row, j) = UpdateAccountCodexQuota(row, st.x)
    BY <1>5, StmtKinds, SameStatements DEF C!Apply
  <2> QED BY <2>1, QuotaUpdate
<1>6. CASE st.op = "qstatus"
  <2>1. /\ st.x \in QuotaValues /\ st.y \in QerrValues
        /\ C!Apply(st, row, j) = UpdateAccountCodexQuotaStatus(row, st.x, st.y)
    BY <1>6, StmtKinds, SameStatements DEF C!Apply, QuotaValues, QerrValues
  <2> QED BY <2>1, AccountUpdates
<1> QED BY <1>1, <1>2, <1>3, <1>4, <1>5, <1>6, StmtKinds

-----------------------------------------------------------------------------
(* The invariant *)

\* Where a worker holds the copy of the account that it started from.
WithCopy == {"discover", "reread", "cas", "resolve", "subscribe", "before", "bind", "restore",
             "fetch", "resubscribe"}

JobStates ==
  [pc : WithCopy \cup {"idle", "sync", "quota_phase", "subs_phase"},
   copy : AccountRows \cup {<<>>}, cur : AccountRows \cup {<<>>}, before : CredValues,
   slow : BOOLEAN, quota : BOOLEAN, sub : BOOLEAN, token : Expiries, pending : BOOLEAN,
   diag : Diags \cup {<<>>}, todo : Seq(CheckerStmts \cup ProbeStmts)]

\* The row that the discovery compares with is not one it must preserve.
JobInv(j) ==
  /\ j.pc \in WithCopy => j.copy \in AccountRows
  /\ j.pc = "cas" => j.cur \in AccountRows /\ ~C!shouldPreserveAccountErrorDuringDiscovery(j.cur)
  /\ ReadFirst(j.todo, j.diag)

CheckerInv ==
  /\ job \in [Accounts -> [C!Workers -> JobStates]]
  /\ \A a \in Accounts : \A w \in C!Workers : JobInv(job[a][w])

StateInv == GatewayInv /\ SchedFollowsStable /\ CheckerInv

-----------------------------------------------------------------------------
(* Steps of one worker *)

JobPCs == WithCopy \cup {"idle", "sync", "quota_phase", "subs_phase"}

(* A step that replaces one job by a well-formed one keeps the checker's invariant. *)
LEMMA MoveInv ==
  ASSUME CheckerInv, NEW a \in Accounts, NEW w \in C!Workers, NEW j \in JobStates, JobInv(j),
         C!Move(a, w, j)
  PROVE  CheckerInv'
<1>1. job' = [job EXCEPT ![a] = [job[a] EXCEPT ![w] = j]]
  BY DEF C!Move, CheckerInv
<1>2. job' \in [Accounts -> [C!Workers -> JobStates]]
  BY <1>1 DEF CheckerInv
<1>3. ASSUME NEW b \in Accounts, NEW v \in C!Workers PROVE JobInv(job'[b][v])
  <2>1. CASE b = a /\ v = w
    BY <1>1, <2>1 DEF CheckerInv
  <2>2. CASE ~(b = a /\ v = w)
    <3>1. job'[b][v] = job[b][v]
      BY <1>1, <2>2 DEF CheckerInv
    <3> QED BY <3>1 DEF CheckerInv
  <2> QED BY <2>1, <2>2
<1>4. \A b \in Accounts : \A v \in C!Workers : JobInv(job[b][v])'
  BY <1>3 DEF JobInv, ReadFirst, C!shouldPreserveAccountErrorDuringDiscovery
<1> QED BY <1>2, <1>4 DEF CheckerInv

\* Statements without the two of a quota probe are in any order.
LEMMA PlainTodo ==
  ASSUME NEW t \in Seq(CheckerStmts), NEW d
  PROVE  t \in Seq(CheckerStmts \cup ProbeStmts) /\ ReadFirst(t, d)
<1>1. \A i \in DOMAIN t : t[i].op # "diag_tx"
  <2>1. \A i \in DOMAIN t : t[i] \in CheckerStmts
    BY ElementOfSeq, LenProperties
  <2> QED BY <2>1, StmtKinds
<1>2. t \in Seq(CheckerStmts \cup ProbeStmts)
  BY SeqMonotonic
<1> QED BY <1>1, <1>2 DEF ReadFirst

(* A job outside the conditional update, with a program and a copy of the right
   types, is well formed. *)
LEMMA PlainJob ==
  ASSUME NEW j \in JobStates, j.todo \in Seq(CheckerStmts), j.pc # "cas",
         j.pc \in WithCopy => j.copy \in AccountRows
  PROVE  JobInv(j)
BY PlainTodo DEF JobInv

\* A worker that starts again, with statements that are left to write.
LEMMA RestJob ==
  ASSUME NEW pc \in JobPCs \ WithCopy, NEW t \in Seq(CheckerStmts)
  PROVE  /\ [C!Rest EXCEPT !.pc = pc] \in JobStates /\ JobInv([C!Rest EXCEPT !.pc = pc])
         /\ [C!Rest EXCEPT !.pc = pc, !.todo = t] \in JobStates
         /\ JobInv([C!Rest EXCEPT !.pc = pc, !.todo = t])
<1> DEFINE j == [C!Rest EXCEPT !.pc = pc]
           k == [C!Rest EXCEPT !.pc = pc, !.todo = t]
<1>0. <<>> \in Seq(CheckerStmts) /\ <<>> \in Seq(CheckerStmts \cup ProbeStmts)
        /\ t \in Seq(CheckerStmts \cup ProbeStmts)
  BY PlainTodo
<1>1. j \in JobStates /\ k \in JobStates
  BY <1>0 DEF C!Rest, JobStates, JobPCs, CredValues, Expiries
<1>2. j.pc = pc /\ k.pc = pc /\ j.todo = <<>> /\ k.todo = t
  BY DEF C!Rest
<1>3. pc \notin WithCopy /\ pc # "cas"
  BY DEF WithCopy
<1> HIDE DEF j, k
<1>4. JobInv(j) /\ JobInv(k)
  BY <1>0, <1>1, <1>2, <1>3, PlainJob
<1> QED BY <1>1, <1>4 DEF j, k

\* A worker that begins a pass over the account, from the row there is now.
LEMMA FreshJob ==
  ASSUME NEW row \in AccountRows, NEW pc \in JobPCs \ {"cas"}, NEW q \in BOOLEAN, NEW s \in BOOLEAN
  PROVE  /\ [C!Rest EXCEPT !.copy = row, !.pc = pc] \in JobStates
         /\ JobInv([C!Rest EXCEPT !.copy = row, !.pc = pc])
         /\ [C!Rest EXCEPT !.pc = pc, !.copy = row, !.quota = q, !.sub = s] \in JobStates
         /\ JobInv([C!Rest EXCEPT !.pc = pc, !.copy = row, !.quota = q, !.sub = s])
<1> DEFINE j == [C!Rest EXCEPT !.copy = row, !.pc = pc]
           k == [C!Rest EXCEPT !.pc = pc, !.copy = row, !.quota = q, !.sub = s]
<1>0. <<>> \in Seq(CheckerStmts) /\ <<>> \in Seq(CheckerStmts \cup ProbeStmts)
  OBVIOUS
<1>1. j \in JobStates /\ k \in JobStates
  BY <1>0 DEF C!Rest, JobStates, JobPCs, CredValues, Expiries
<1>2. /\ j.pc = pc /\ k.pc = pc /\ j.todo = <<>> /\ k.todo = <<>>
      /\ j.copy = row /\ k.copy = row
  BY DEF C!Rest
<1> HIDE DEF j, k
<1>4. JobInv(j) /\ JobInv(k)
  BY <1>0, <1>1, <1>2, PlainJob
<1> QED BY <1>1, <1>4 DEF j, k

\* RefreshAccount returns; what it still has to write goes with it.
LEMMA DoneJob ==
  ASSUME NEW j \in JobStates, NEW w, ReadFirst(j.todo, j.diag)
  PROVE  C!Done(w, j) \in JobStates /\ JobInv(C!Done(w, j))
<1> DEFINE pc == IF w = "round" /\ j.quota THEN "subs_phase" ELSE "idle"
           k == [C!Rest EXCEPT !.pc = pc, !.todo = j.todo, !.diag = j.diag]
<1>1. C!Done(w, j) = k
  BY DEF C!Done
<1>2. pc \in {"idle", "subs_phase"}
  OBVIOUS
<1> HIDE DEF pc
<1>3. k \in JobStates
  BY <1>2 DEF C!Rest, JobStates, CredValues, Expiries
<1>4. k.pc = pc /\ k.todo = j.todo /\ k.diag = j.diag
  BY DEF C!Rest
<1> HIDE DEF k
<1>5. JobInv(k)
  BY <1>2, <1>4 DEF JobInv, WithCopy
<1> QED BY <1>1, <1>3, <1>5

(* No job runs at first. *)
LEMMA CheckerInvInit == C!CheckerInit => CheckerInv
<1> SUFFICES ASSUME C!CheckerInit PROVE CheckerInv
  OBVIOUS
<1>1. C!Rest = [C!Rest EXCEPT !.pc = "idle"]
  BY DEF C!Rest
<1>2. "idle" \in JobPCs \ WithCopy /\ <<>> \in Seq(CheckerStmts)
  BY DEF JobPCs, WithCopy
<1>3. C!Rest \in JobStates /\ JobInv(C!Rest)
  BY <1>1, <1>2, RestJob
<1> QED BY <1>3 DEF C!CheckerInit, CheckerInv

-----------------------------------------------------------------------------
(* The actions of the checker *)

\* What every worker knows of itself when it takes a step without a statement left.
LEMMA JobFacts ==
  ASSUME CheckerInv, NEW a \in Accounts, NEW w \in C!Workers
  PROVE  job[a][w] \in JobStates /\ JobInv(job[a][w])
BY DEF CheckerInv

(* The workers are the round and the administrator's refresh. *)
LEMMA WorkersAre == C!Workers = {"round", "admin"}
BY DEF C!Workers

\* One statement is in the list of statements.
LEMMA OneStmt ==
  /\ \A e \in ErrValues : C!Stmt("health", "error", e) \in Seq(CheckerStmts)
  /\ \A c \in CredValues : C!Stmt("cred", c, "") \in Seq(CheckerStmts)
  /\ \A e \in Expiries : C!Stmt("sub", e, "") \in Seq(CheckerStmts)
  /\ C!Stmt("access", "eligible", "") \in Seq(CheckerStmts)
  /\ \A q \in {"allowed", "blocked"} : C!Stmt("quota", q, "") \in Seq(CheckerStmts)
  /\ \A q \in {"blocked", "error"}, e \in {"probeAuth", "other"} :
       C!Stmt("qstatus", q, e) \in Seq(CheckerStmts)
<1>1. ASSUME NEW st \in CheckerStmts PROVE <<st>> \in Seq(CheckerStmts)
  OBVIOUS
<1>2. /\ \A e \in ErrValues : [op |-> "health", x |-> "error", y |-> e] \in CheckerStmts
      /\ \A c \in CredValues : [op |-> "cred", x |-> c, y |-> ""] \in CheckerStmts
      /\ \A e \in Expiries : [op |-> "sub", x |-> e, y |-> ""] \in CheckerStmts
      /\ [op |-> "access", x |-> "eligible", y |-> ""] \in CheckerStmts
      /\ \A q \in {"allowed", "blocked"} : [op |-> "quota", x |-> q, y |-> ""] \in CheckerStmts
      /\ \A q \in {"blocked", "error"}, e \in {"probeAuth", "other"} :
           [op |-> "qstatus", x |-> q, y |-> e] \in CheckerStmts
  BY DEF CheckerStmts, AccessValues
<1> QED BY <1>1, <1>2 DEF C!Stmt

(* What is written for a credential that must be renewed is a program. *)
LEMMA NeedsLoginPlain == C!NeedsLogin \in Seq(CheckerStmts)
<1>1. "credential" \in ErrValues /\ "needs_login" \in CredValues
  BY DEF ErrValues, CredValues
<1> QED BY <1>1, OneStmt, ConcatProperties DEF C!NeedsLogin

(* What is written about a subscription is a program. *)
LEMMA SubWritesPlain ==
  ASSUME NEW row, NEW token \in Expiries
  PROVE  C!SubWrites(row, token) \in Seq(CheckerStmts)
BY OneStmt, EmptySeq DEF C!SubWrites, C!When

(* What `ResolveRuntimeBinding` writes is a program, whatever the auth file holds. *)
LEMMA ResolveWritesPlain ==
  ASSUME NEW row, NEW file \in C!AllFiles, NEW token \in Expiries
  PROVE  C!ResolveWrites(row, file, token) \in Seq(CheckerStmts)
<1>1. "runtime_error" \in CredValues
  BY DEF CredValues
<1> QED BY <1>1, OneStmt, NeedsLoginPlain, SubWritesPlain DEF C!ResolveWrites, C!AllFiles

\* The fetch writes the two statements of the probe only in their order.
LEMMA FetchWritesOrdered ==
  ASSUME NEW out \in C!AllFetches, NEW copy, NEW d
  PROVE  /\ C!FetchWrites(out, copy) \in Seq(CheckerStmts \cup ProbeStmts)
         /\ ReadFirst(C!FetchWrites(out, copy), d)
<1> DEFINE failed == IF copy.quotaJSON = "blocked" THEN "blocked" ELSE "error"
           t == C!FetchWrites(out, copy)
<1>0. failed \in {"blocked", "error"}
  OBVIOUS
<1>1. CASE out = "http_auth"
  <2> DEFINE S == CheckerStmts \cup ProbeStmts
             x == C!Stmt("qstatus", failed, "probeAuth")
             y == C!Stmt("diag_read", "", "")
             z == C!Stmt("diag_tx", "", "")
  <2>1. x \in Seq(CheckerStmts) /\ x \in Seq(S)
    BY <1>0, OneStmt, PlainTodo
  <2>2. y \in Seq(S) /\ z \in Seq(S)
    BY DEF C!Stmt, ProbeStmts
  <2>3. /\ Len(x) = 1 /\ Len(y) = 1 /\ Len(z) = 1
        /\ x[1].op # "diag_tx" /\ y[1].op = "diag_read" /\ z[1].op = "diag_tx"
    BY DEF C!Stmt
  <2>4. t = (x \o y) \o z
    BY <1>1 DEF C!FetchWrites
  <2> HIDE DEF S, x, y, z, t
  <2>5. /\ x \o y \in Seq(S) /\ Len(x \o y) = 2
        /\ (x \o y)[1] = x[1] /\ (x \o y)[2] = y[1]
    BY <2>1, <2>2, <2>3, ConcatProperties
  <2>6. /\ t \in Seq(S) /\ Len(t) = 3 /\ t[1] = x[1] /\ t[2] = y[1] /\ t[3] = z[1]
    BY <2>2, <2>3, <2>4, <2>5, ConcatProperties
  <2>7. DOMAIN t = 1 .. 3
    BY <2>6, LenProperties
  <2>8. ReadFirst(t, d)
    BY <2>3, <2>6, <2>7 DEF ReadFirst
  <2> QED BY <2>6, <2>8 DEF S, t
<1>2. CASE out # "http_auth"
  <2>1. t \in Seq(CheckerStmts)
    <3>1. CASE out = "no_answer"
      BY <3>1 DEF C!FetchWrites
    <3>2. CASE out \in {"http_error", "empty"}
      BY <1>0, <3>2, OneStmt DEF C!FetchWrites
    <3>3. CASE out \in {"allowed", "blocked"}
      BY <3>3, OneStmt, ConcatProperties DEF C!FetchWrites
    <3> QED BY <1>2, <3>1, <3>2, <3>3 DEF C!AllFetches
  <2> QED BY <2>1, PlainTodo
<1> QED BY <1>1, <1>2

\* The steps of a round that write nothing.
LEMMA RoundMoves ==
  ASSUME CheckerInv, rows \in [Accounts -> AccountRows], NEW a \in Accounts,
         \/ C!StartRound(a)
         \/ \E out \in Discoveries : C!Discover(a, out)
         \/ \E read \in BOOLEAN : C!Reread(a, read)
         \/ C!HealthWasChanged(a)
         \/ \E file \in Files, token \in Tokens : C!syncCpaMetadata(a, file, token)
         \/ \E due \in BOOLEAN : C!fetchCodexQuotas(a, due) \/ C!fetchCodexSubscriptions(a, due)
  PROVE  CheckerInv' /\ rows' = rows
<1> DEFINE j == job[a]["round"]
<1>w. "round" \in C!Workers
  BY WorkersAre
<1>j. j \in JobStates /\ JobInv(j)
  BY <1>w, JobFacts
<1>r. rows[a] \in AccountRows
  OBVIOUS
<1>s. <<>> \in Seq(CheckerStmts)
  OBVIOUS
<1>p. {"sync", "quota_phase", "subs_phase", "idle"} \subseteq JobPCs \ WithCopy
        /\ {"discover", "sync", "resolve"} \subseteq JobPCs \ {"cas"}
  BY DEF JobPCs, WithCopy
<1>1. CASE C!StartRound(a)
  <2> DEFINE pc == IF rows[a].enabled THEN "discover" ELSE "sync"
  <2>1. pc \in JobPCs \ {"cas"}
    BY <1>p
  <2>2. C!Move(a, "round", [C!Rest EXCEPT !.copy = rows[a], !.pc = pc]) /\ rows' = rows
    BY <1>1 DEF C!StartRound
  <2> HIDE DEF pc
  <2> QED BY <1>w, <1>r, <2>1, <2>2, FreshJob, MoveInv
<1>2. ASSUME NEW out \in Discoveries, C!Discover(a, out) PROVE CheckerInv' /\ rows' = rows
  <2>0. out \in C!AllDiscoveries /\ rows' = rows /\ j.pc = "discover" /\ j.todo = <<>>
    BY <1>2, CheckerInputsAssumption DEF C!Discover, C!At
  <2>1. CASE out \notin {"ok", "slow"}
    <3>1. PICK e \in {"discovery", "http"} :
            C!Move(a, "round", [C!Rest EXCEPT !.pc = "sync", !.todo = C!Stmt("health", "error", e)])
      BY <1>2, <2>0, <2>1 DEF C!Discover, C!AllDiscoveries
    <3>2. C!Stmt("health", "error", e) \in Seq(CheckerStmts)
      BY OneStmt DEF ErrValues
    <3> QED BY <1>w, <1>p, <2>0, <3>1, <3>2, RestJob, MoveInv
  <2>2. CASE out \in {"ok", "slow"}
    <3> DEFINE k == [j EXCEPT !.pc = "reread", !.slow = (out = "slow")]
    <3>1. C!Move(a, "round", k)
      BY <1>2, <2>2 DEF C!Discover
    <3>2. k \in JobStates /\ k.pc = "reread" /\ k.copy = j.copy /\ k.todo = j.todo
      BY <1>j DEF JobStates, WithCopy
    <3>3. j.copy \in AccountRows
      BY <1>j, <2>0 DEF JobInv, WithCopy
    <3> HIDE DEF k
    <3> QED BY <1>w, <1>s, <2>0, <3>1, <3>2, <3>3, PlainJob, MoveInv
  <2> QED BY <2>1, <2>2
<1>3. ASSUME NEW read \in BOOLEAN, C!Reread(a, read) PROVE CheckerInv' /\ rows' = rows
  <2> DEFINE cur == IF read THEN rows[a] ELSE j.copy
             k == [j EXCEPT !.pc = "cas", !.cur = cur]
  <2>0. rows' = rows /\ j.pc = "reread" /\ j.todo = <<>>
    BY <1>3 DEF C!Reread, C!At
  <2>1. CASE C!shouldPreserveAccountErrorDuringDiscovery(cur)
    <3>1. C!Move(a, "round", [C!Rest EXCEPT !.pc = "sync"])
      BY <1>3, <2>1 DEF C!Reread
    <3> QED BY <1>w, <1>p, <1>s, <2>0, <3>1, RestJob, MoveInv
  <2>2. CASE ~C!shouldPreserveAccountErrorDuringDiscovery(cur)
    <3>1. C!Move(a, "round", k)
      BY <1>3, <2>2 DEF C!Reread
    <3>2. j.copy \in AccountRows /\ cur \in AccountRows
      BY <1>j, <1>r, <2>0 DEF JobInv, WithCopy
    <3> HIDE DEF cur
    <3>3. k \in JobStates /\ k.pc = "cas" /\ k.copy = j.copy /\ k.cur = cur /\ k.todo = j.todo
      BY <1>j, <3>2 DEF JobStates, WithCopy
    <3> HIDE DEF k
    <3>4. JobInv(k)
      BY <1>s, <2>0, <2>2, <3>2, <3>3, PlainTodo DEF JobInv
    <3> QED BY <1>w, <2>0, <3>1, <3>3, <3>4, MoveInv
  <2> QED BY <2>1, <2>2
<1>4. CASE C!HealthWasChanged(a)
  <2>1. C!Move(a, "round", [C!Rest EXCEPT !.pc = "sync"]) /\ rows' = rows
    BY <1>4 DEF C!HealthWasChanged
  <2> QED BY <1>w, <1>p, <1>s, <2>1, RestJob, MoveInv
<1>5. ASSUME NEW file \in Files, NEW token \in Tokens, C!syncCpaMetadata(a, file, token)
      PROVE  CheckerInv' /\ rows' = rows
  <2> DEFINE writes == CASE file = "missing"  -> C!NeedsLogin
                         [] file = "disabled" -> C!SubWrites(rows[a], token) \o C!NeedsLogin
                         [] file = "older"    -> <<>>
                         [] file \in {"ok", "no_service"} -> C!SubWrites(rows[a], token)
             t == C!When(rows[a].kind = "cpa", writes)
  <2>1. file \in C!AllFiles /\ token \in Expiries
    BY CheckerInputsAssumption
  <2>2. C!SubWrites(rows[a], token) \in Seq(CheckerStmts)
    BY <2>1, SubWritesPlain
  <2>3. C!SubWrites(rows[a], token) \o C!NeedsLogin \in Seq(CheckerStmts)
    BY <2>2, NeedsLoginPlain, ConcatProperties
  <2>4. writes \in Seq(CheckerStmts)
    BY <2>1, <2>2, <2>3, <1>s, NeedsLoginPlain DEF C!AllFiles
  <2>5. C!Move(a, "round", [C!Rest EXCEPT !.pc = "quota_phase", !.todo = t]) /\ rows' = rows
    BY <1>5 DEF C!syncCpaMetadata
  <2> HIDE DEF writes
  <2>6. t \in Seq(CheckerStmts)
    BY <1>s, <2>4 DEF C!When
  <2> HIDE DEF t
  <2> QED BY <1>w, <1>p, <2>5, <2>6, RestJob, MoveInv
<1>6. ASSUME NEW due \in BOOLEAN, C!fetchCodexQuotas(a, due) \/ C!fetchCodexSubscriptions(a, due)
      PROVE  CheckerInv' /\ rows' = rows
  <2>1. PICK next \in {"subs_phase", "idle"}, quota \in BOOLEAN :
          /\ \/ C!Move(a, "round", [C!Rest EXCEPT !.pc = "resolve", !.copy = rows[a],
                                                  !.quota = quota, !.sub = ~quota])
             \/ C!Move(a, "round", [C!Rest EXCEPT !.pc = next])
          /\ rows' = rows
    BY <1>6 DEF C!fetchCodexQuotas, C!fetchCodexSubscriptions, C!Phase
  <2>2. CASE C!Move(a, "round", [C!Rest EXCEPT !.pc = "resolve", !.copy = rows[a],
                                               !.quota = quota, !.sub = ~quota])
    BY <1>w, <1>p, <1>r, <2>1, <2>2, FreshJob, MoveInv
  <2>3. CASE C!Move(a, "round", [C!Rest EXCEPT !.pc = next])
    BY <1>w, <1>p, <1>s, <2>1, <2>3, RestJob, MoveInv
  <2> QED BY <2>1, <2>2, <2>3
<1> QED BY <1>1, <1>2, <1>3, <1>4, <1>5, <1>6

\* A refresh goes on with the next call, or returns.
LEMMA NextJob ==
  ASSUME NEW w, NEW k \in JobStates, k.copy \in AccountRows, ReadFirst(k.todo, k.diag),
         NEW pc \in WithCopy \ {"cas"}
  PROVE  /\ [k EXCEPT !.pc = pc] \in JobStates /\ JobInv([k EXCEPT !.pc = pc])
         /\ C!Done(w, k) \in JobStates /\ JobInv(C!Done(w, k))
<1> DEFINE n == [k EXCEPT !.pc = pc]
<1>1. n \in JobStates
  BY DEF JobStates
<1>2. n.pc = pc /\ n.copy = k.copy /\ n.todo = k.todo /\ n.diag = k.diag
  BY DEF JobStates
<1> HIDE DEF n
<1>3. JobInv(n)
  BY <1>2 DEF JobInv
<1> QED BY <1>1, <1>3, DoneJob DEF n

\* The steps of a refresh that write nothing.
LEMMA RefreshMoves ==
  ASSUME CheckerInv, rows \in [Accounts -> AccountRows], NEW a \in Accounts, NEW w \in C!Workers,
         \/ \E file \in Files, token \in Tokens : C!resolveCpaRuntime(a, w, file, token)
         \/ C!Subscribe(a, w)
         \/ C!CredentialBeforeQuota(a, w)
         \/ \E file \in Files, token \in Tokens, meta \in Metas :
              C!ResolveAuthIndex(a, w, file, token, meta)
         \/ C!restoreCpaCredentialStateIfNeeded(a, w)
         \/ \E out \in Fetches : C!fetchOneCodexQuota(a, w, out)
         \/ \E meta \in Tokens : C!Resubscribe(a, w, meta)
  PROVE  CheckerInv' /\ rows' = rows
<1> DEFINE j == job[a][w]
<1>j. j \in JobStates /\ JobInv(j)
  BY JobFacts
<1>c. ASSUME NEW pc \in WithCopy, C!At(a, w, pc)
      PROVE  /\ j.copy \in AccountRows /\ j.copy.expiry \in Expiries /\ j.token \in Expiries
             /\ j.before \in CredValues
  <2>1. j.copy \in AccountRows
    BY <1>j, <1>c DEF JobInv, C!At
  <2> QED BY <1>j, <2>1 DEF AccountRows, JobStates
<1>p. {"resolve", "subscribe", "before", "bind", "restore", "fetch", "resubscribe"}
        \subseteq WithCopy \ {"cas"}
  BY DEF WithCopy
<1>1. ASSUME NEW file \in Files, NEW token \in Tokens, C!resolveCpaRuntime(a, w, file, token)
      PROVE  CheckerInv' /\ rows' = rows
  <2> DEFINE t == C!ResolveWrites(j.copy, file, token)
             k == [j EXCEPT !.todo = t, !.token = token]
             pc == IF j.sub THEN "subscribe" ELSE "before"
  <2>1. rows' = rows /\ C!At(a, w, "resolve")
          /\ (C!Move(a, w, C!Done(w, k)) \/ C!Move(a, w, [k EXCEPT !.pc = pc]))
    BY <1>1 DEF C!resolveCpaRuntime
  <2>2. token \in Expiries /\ t \in Seq(CheckerStmts)
    BY CheckerInputsAssumption, ResolveWritesPlain
  <2>3. pc \in WithCopy \ {"cas"} /\ j.copy \in AccountRows
    BY <1>c, <1>p, <2>1
  <2> HIDE DEF t, pc
  <2>4. k \in JobStates /\ k.copy = j.copy /\ k.todo = t
    BY <1>j, <2>2, PlainTodo DEF JobStates
  <2> HIDE DEF k
  <2> QED BY <2>1, <2>2, <2>3, <2>4, PlainTodo, NextJob, MoveInv
<1>2. CASE C!Subscribe(a, w)
  <2> DEFINE known == j.token # "none"
             t == C!Stmt("sub", IF known THEN j.token ELSE j.copy.expiry, "")
             k == [j EXCEPT !.todo = t, !.pending = ~known]
  <2>1. rows' = rows /\ C!At(a, w, "subscribe")
          /\ \/ C!Move(a, w, [k EXCEPT !.pc = "before"])
             \/ C!Move(a, w, C!Done(w, k))
             \/ C!Move(a, w, [k EXCEPT !.pc = "bind"])
    BY <1>2 DEF C!Subscribe
  <2>2. j.copy \in AccountRows /\ t \in Seq(CheckerStmts) /\ known \in BOOLEAN
    BY <1>c, <1>p, <2>1, OneStmt
  <2> HIDE DEF t, known
  <2>4. k \in JobStates /\ k.copy = j.copy /\ k.todo = t
    BY <1>j, <2>2, PlainTodo DEF JobStates
  <2> HIDE DEF k
  <2> QED BY <1>p, <2>1, <2>2, <2>4, PlainTodo, NextJob, MoveInv
<1>3. CASE C!CredentialBeforeQuota(a, w)
  <2> DEFINE k == [j EXCEPT !.pc = "bind", !.before = rows[a].cred]
  <2>1. rows' = rows /\ C!At(a, w, "before") /\ C!Move(a, w, k)
    BY <1>3 DEF C!CredentialBeforeQuota
  <2>2. j.copy \in AccountRows /\ rows[a].cred \in CredValues /\ j.todo = <<>>
    BY <1>c, <1>p, <2>1 DEF AccountRows, C!At
  <2>3. k \in JobStates /\ k.copy = j.copy /\ k.todo = <<>> /\ k.pc = "bind"
    BY <1>j, <2>2 DEF JobStates, WithCopy
  <2> HIDE DEF k
  <2>4. <<>> \in Seq(CheckerStmts)
    OBVIOUS
  <2> QED BY <2>1, <2>2, <2>3, <2>4, PlainJob, MoveInv
<1>4. ASSUME NEW file \in Files, NEW token \in Tokens, NEW meta \in Metas,
             C!ResolveAuthIndex(a, w, file, token, meta)
      PROVE  CheckerInv' /\ rows' = rows
  <2> DEFINE cred == CASE meta = "ready"       -> C!Stmt("cred", "ok", "")
                       [] meta = "pending"     -> C!Stmt("cred", "runtime_pending", "")
                       [] meta = "unreachable" -> C!Stmt("cred", "runtime_error", "")
             x == C!ResolveWrites(j.copy, file, token)
             y == C!When(C!Resolved(file), cred)
             t == x \o y
             k == [j EXCEPT !.todo = t, !.token = token]
             pc == IF j.quota THEN "restore" ELSE "resubscribe"
  <2>1. rows' = rows /\ C!At(a, w, "bind")
          /\ (C!Move(a, w, C!Done(w, k)) \/ C!Move(a, w, [k EXCEPT !.pc = pc]))
    BY <1>4 DEF C!ResolveAuthIndex
  <2>2. token \in Expiries /\ x \in Seq(CheckerStmts) /\ meta \in C!AllMetas
    BY CheckerInputsAssumption, ResolveWritesPlain
  <2>3. cred \in Seq(CheckerStmts)
    BY <2>2, OneStmt DEF C!AllMetas, CredValues
  <2> HIDE DEF cred
  <2>4. y \in Seq(CheckerStmts)
    BY <2>3 DEF C!When
  <2> HIDE DEF x, y
  <2>5. t \in Seq(CheckerStmts)
    BY <2>2, <2>4, ConcatProperties
  <2>6. pc \in WithCopy \ {"cas"} /\ j.copy \in AccountRows
    BY <1>c, <1>p, <2>1
  <2> HIDE DEF t, pc
  <2>7. k \in JobStates /\ k.copy = j.copy /\ k.todo = t
    BY <1>j, <2>2, <2>5, PlainTodo DEF JobStates
  <2> HIDE DEF k
  <2> QED BY <2>1, <2>5, <2>6, <2>7, PlainTodo, NextJob, MoveInv
<1>5. CASE C!restoreCpaCredentialStateIfNeeded(a, w)
  <2> DEFINE needed == j.before \notin {"unknown", "ok", "runtime_pending", "runtime_error"}
             x == C!Stmt("cred", j.before, "")
             t == C!When(needed, x)
             k == [j EXCEPT !.pc = "fetch", !.todo = t]
  <2>1. rows' = rows /\ C!At(a, w, "restore") /\ C!Move(a, w, k)
    BY <1>5 DEF C!restoreCpaCredentialStateIfNeeded
  <2>2. j.copy \in AccountRows /\ x \in Seq(CheckerStmts)
    BY <1>c, <1>p, <2>1, OneStmt
  <2> HIDE DEF x, needed
  <2>3. t \in Seq(CheckerStmts)
    BY <2>2, EmptySeq DEF C!When
  <2> HIDE DEF t
  <2>4. k \in JobStates /\ k.copy = j.copy /\ k.todo = t /\ k.pc = "fetch"
    BY <1>j, <2>3, PlainTodo DEF JobStates, WithCopy
  <2> HIDE DEF k
  <2> QED BY <2>1, <2>2, <2>3, <2>4, PlainJob, MoveInv
<1>6. ASSUME NEW out \in Fetches, C!fetchOneCodexQuota(a, w, out)
      PROVE  CheckerInv' /\ rows' = rows
  <2> DEFINE t == C!FetchWrites(out, j.copy)
             k == [j EXCEPT !.todo = t]
  <2>1. rows' = rows /\ C!At(a, w, "fetch")
          /\ (C!Move(a, w, C!Done(w, k)) \/ C!Move(a, w, [k EXCEPT !.pc = "resubscribe"]))
    BY <1>6 DEF C!fetchOneCodexQuota
  <2>2. /\ j.copy \in AccountRows /\ out \in C!AllFetches
        /\ t \in Seq(CheckerStmts \cup ProbeStmts) /\ ReadFirst(t, j.diag)
    BY <1>c, <1>p, <2>1, FetchWritesOrdered, CheckerInputsAssumption
  <2> HIDE DEF t
  <2>4. k \in JobStates /\ k.copy = j.copy /\ k.todo = t /\ k.diag = j.diag
    BY <1>j, <2>2 DEF JobStates
  <2> HIDE DEF k
  <2> QED BY <1>p, <2>1, <2>2, <2>4, NextJob, MoveInv
<1>7. ASSUME NEW meta \in Tokens, C!Resubscribe(a, w, meta)
      PROVE  CheckerInv' /\ rows' = rows
  <2> DEFINE expiry == IF j.token # "none" THEN j.token
                       ELSE IF meta # "none" THEN meta ELSE j.copy.expiry
             t == C!Stmt("sub", expiry, "")
             k == [j EXCEPT !.todo = t]
  <2>1. rows' = rows /\ C!At(a, w, "resubscribe") /\ C!Move(a, w, C!Done(w, k))
    BY <1>7 DEF C!Resubscribe
  <2>2. j.copy \in AccountRows /\ expiry \in Expiries
    BY <1>c, <1>p, <2>1, CheckerInputsAssumption
  <2>3. t \in Seq(CheckerStmts)
    BY <2>2, OneStmt
  <2> HIDE DEF t
  <2>4. k \in JobStates /\ k.copy = j.copy /\ k.todo = t /\ k.diag = j.diag
    BY <1>j, <2>3, PlainTodo DEF JobStates
  <2> HIDE DEF k
  <2> QED BY <1>p, <2>1, <2>2, <2>3, <2>4, PlainTodo, NextJob, MoveInv
<1> QED BY <1>1, <1>2, <1>3, <1>4, <1>5, <1>6, <1>7

(* Starting a refresh keeps the checker's invariant and writes no row. *)
LEMMA StartRefreshMoves ==
  ASSUME CheckerInv, rows \in [Accounts -> AccountRows], NEW a \in Accounts, C!StartRefresh(a)
  PROVE  CheckerInv' /\ rows' = rows
<1>1. "admin" \in C!Workers /\ "resolve" \in JobPCs \ {"cas"}
  BY WorkersAre DEF JobPCs, WithCopy
<1>2. rows[a] \in AccountRows /\ rows[a].codex \in BOOLEAN
  BY DEF AccountRows
<1>3. /\ C!Move(a, "admin", [C!Rest EXCEPT !.pc = "resolve", !.copy = rows[a],
                                           !.quota = rows[a].codex, !.sub = rows[a].codex])
      /\ rows' = rows
  BY DEF C!StartRefresh
<1> QED BY <1>1, <1>2, <1>3, FreshJob, MoveInv

-----------------------------------------------------------------------------
(* The steps that change a row *)

\* The rest of the statements when the first one is done.
LEMMA TodoTail ==
  ASSUME NEW t \in Seq(CheckerStmts \cup ProbeStmts), t # <<>>, NEW d, ReadFirst(t, d)
  PROVE  /\ Head(t) \in CheckerStmts \cup ProbeStmts
         /\ Head(t).op = "diag_tx" => d \in Diags
         /\ Tail(t) \in Seq(CheckerStmts \cup ProbeStmts)
         /\ \A e : (Head(t).op = "diag_read" => e \in Diags) => ReadFirst(Tail(t), e)
<1> DEFINE S == CheckerStmts \cup ProbeStmts
           u == Tail(t)
<1> HIDE DEF S
<1>0. t \in Seq(S)
  BY DEF S
<1>1. Len(t) \in Nat \ {0} /\ DOMAIN t = 1 .. Len(t) /\ Head(t) = t[1] /\ t[1] \in S
  BY <1>0, EmptySeq
<1>u. /\ u \in Seq(S) /\ DOMAIN u = 1 .. Len(t) - 1
      /\ \A i \in 1 .. Len(t) - 1 : u[i] = t[i + 1]
  BY <1>0, <1>1, HeadTailProperties
<1> HIDE DEF u
<1>2. Head(t).op = "diag_tx" => d \in Diags
  BY <1>1 DEF ReadFirst
<1>3. ASSUME NEW e, Head(t).op = "diag_read" => e \in Diags,
             NEW i \in DOMAIN u, u[i].op = "diag_tx"
      PROVE  IF i = 1 THEN e \in Diags ELSE u[i - 1].op = "diag_read"
  <2>1. i \in 1 .. Len(t) - 1 /\ t[i + 1].op = "diag_tx" /\ i + 1 \in DOMAIN t
    BY <1>1, <1>u, <1>3
  <2>2. t[i].op = "diag_read"
    <3>1. i + 1 # 1 /\ (i + 1) - 1 = i
      BY <2>1
    <3>2. IF i + 1 = 1 THEN d \in Diags ELSE t[(i + 1) - 1].op = "diag_read"
      BY <2>1 DEF ReadFirst
    <3> QED BY <3>1, <3>2
  <2>3. CASE i = 1
    BY <1>1, <1>3, <2>2, <2>3
  <2>4. CASE i # 1
    <3>1. i - 1 \in 1 .. Len(t) - 1 /\ (i - 1) + 1 = i
      BY <1>1, <2>1, <2>4
    <3> QED BY <1>u, <2>2, <2>4, <3>1
  <2> QED BY <2>3, <2>4
<1>4. \A e : (Head(t).op = "diag_read" => e \in Diags) => ReadFirst(u, e)
  BY <1>3 DEF ReadFirst
<1> QED BY <1>1, <1>u, <1>2, <1>4 DEF u, S

\* What a probe decides about the diagnostic of a row.
LEMMA DiagOfRow ==
  ASSUME NEW row \in AccountRows PROVE C!QuotaProbeDiagnostic(row) \in Diags
<1>1. row.stable \in StableValues /\ "quota_probe_auth_failed_but_usable" \in StableValues
  BY DEF AccountRows, StableValues
<1> QED BY <1>1 DEF C!QuotaProbeDiagnostic, Diags

\* What one statement leaves of the row; only the probe's transaction
\* changes the diagnostic, and it never blocks an account.
LEMMA StatementOnRow ==
  ASSUME NEW st \in CheckerStmts \cup ProbeStmts, st.op # "diag_read", NEW row \in AccountRows,
         NEW j, st.op = "diag_tx" => j.diag \in Diags
  PROVE  LET new == C!Apply(st, row, j)
         IN new \in AccountRows /\ (FollowsStable(row) => FollowsStable(new))
<1>1. CASE st \in CheckerStmts
  BY <1>1, CheckerApply DEF FollowsStable
<1>2. CASE st \in ProbeStmts
  <2>1. st.op = "diag_tx"
    BY <1>2 DEF ProbeStmts
  <2>2. j.diag.stable \in StableValues /\ j.diag.preserve \in BOOLEAN
          /\ "quota_probe_auth_failed" \in ProbeValues
    BY <2>1 DEF Diags, ProbeValues
  <2> QED BY <2>1, <2>2, SameStatements, DiagnosticUpdate DEF C!Apply
<1> QED BY <1>1, <1>2

(* Replacing one row by one of its type, whose scheduler status fits, keeps all rows so. *)
LEMMA RowChange ==
  ASSUME rows \in [Accounts -> AccountRows], SchedFollowsStable, NEW a \in Accounts,
         NEW new \in AccountRows, FollowsStable(rows[a]) => FollowsStable(new),
         rows' = [rows EXCEPT ![a] = new]
  PROVE  rows' \in [Accounts -> AccountRows] /\ SchedFollowsStable'
<1>1. \A b \in Accounts : FollowsStable(rows'[b])
  BY DEF SchedFollowsStable
<1>2. \A b \in Accounts : FollowsStable(rows[b])'
  BY <1>1 DEF FollowsStable
<1> QED BY <1>2 DEF SchedFollowsStable

\* One statement of a round or of a refresh.
LEMMA WriteOne ==
  ASSUME CheckerInv, rows \in [Accounts -> AccountRows], SchedFollowsStable,
         NEW a \in Accounts, NEW w \in C!Workers, C!Write(a, w)
  PROVE  rows' \in [Accounts -> AccountRows] /\ SchedFollowsStable' /\ CheckerInv'
<1> DEFINE j == job[a][w]
           st == Head(j.todo)
           k == [j EXCEPT !.todo = Tail(j.todo)]
           read == [k EXCEPT !.diag = C!QuotaProbeDiagnostic(rows[a])]
           clear == [k EXCEPT !.diag = <<>>]
<1>1. j \in JobStates /\ JobInv(j) /\ j.todo # <<>> /\ rows[a] \in AccountRows
  BY JobFacts DEF C!Write
<1>2. /\ st \in CheckerStmts \cup ProbeStmts
      /\ st.op = "diag_tx" => j.diag \in Diags
      /\ Tail(j.todo) \in Seq(CheckerStmts \cup ProbeStmts)
      /\ \A e : (st.op = "diag_read" => e \in Diags) => ReadFirst(Tail(j.todo), e)
  <2>1. j.todo \in Seq(CheckerStmts \cup ProbeStmts) /\ ReadFirst(j.todo, j.diag)
    BY <1>1 DEF JobStates, JobInv
  <2> QED BY <1>1, <2>1, TodoTail
<1>3. C!QuotaProbeDiagnostic(rows[a]) \in Diags
  BY <1>1, DiagOfRow
<1>4. /\ k \in JobStates /\ k.pc = j.pc /\ k.copy = j.copy /\ k.cur = j.cur
      /\ k.todo = Tail(j.todo) /\ k.diag = j.diag
  BY <1>1, <1>2 DEF JobStates
<1>5. st.op = "diag_read" =>
        C!Move(a, w, read) /\ rows' = rows
  BY DEF C!Write
<1>6. st.op # "diag_read" =>
        /\ rows' = [rows EXCEPT ![a] = C!Apply(st, rows[a], j)]
        /\ C!Move(a, w, IF st.op = "diag_tx" THEN clear ELSE k)
  BY DEF C!Write
<1> HIDE DEF k
<1>7. /\ read \in JobStates /\ read.pc = j.pc /\ read.copy = j.copy /\ read.cur = j.cur
      /\ read.todo = Tail(j.todo) /\ read.diag = C!QuotaProbeDiagnostic(rows[a])
  BY <1>3, <1>4 DEF JobStates
<1>8. /\ clear \in JobStates /\ clear.pc = j.pc /\ clear.copy = j.copy /\ clear.cur = j.cur
      /\ clear.todo = Tail(j.todo) /\ clear.diag = <<>>
  BY <1>3, <1>4 DEF JobStates
<1> HIDE DEF read, clear
<1>9. CASE st.op = "diag_read"
  <2>1. JobInv(read)
    BY <1>1, <1>2, <1>3, <1>7 DEF JobInv
  <2>2. CheckerInv'
    BY <1>5, <1>7, <1>9, <2>1, MoveInv
  <2>3. SchedFollowsStable'
    BY <1>5, <1>9 DEF SchedFollowsStable, FollowsStable
  <2> QED BY <1>5, <1>9, <2>2, <2>3
<1>10. CASE st.op # "diag_read"
  <2>1. JobInv(k) /\ JobInv(clear)
    BY <1>1, <1>2, <1>4, <1>8, <1>10 DEF JobInv
  <2>2. CheckerInv'
    BY <1>4, <1>6, <1>8, <1>10, <2>1, MoveInv
  <2> DEFINE new == C!Apply(st, rows[a], j)
  <2>3. new \in AccountRows /\ (FollowsStable(rows[a]) => FollowsStable(new))
    BY <1>1, <1>2, <1>10, StatementOnRow
  <2> HIDE DEF new
  <2> QED BY <1>6, <1>10, <2>2, <2>3, RowChange DEF new
<1> QED BY <1>9, <1>10

\* The conditional update of the discovery.
LEMMA ConditionalUpdate ==
  ASSUME CheckerInv, rows \in [Accounts -> AccountRows], SchedFollowsStable,
         NEW a \in Accounts, C!UpdateAccountHealthIfUnchanged(a)
  PROVE  rows' \in [Accounts -> AccountRows] /\ SchedFollowsStable' /\ CheckerInv'
<1>1. "round" \in C!Workers /\ "sync" \in JobPCs \ WithCopy /\ <<>> \in Seq(CheckerStmts)
  BY WorkersAre DEF JobPCs, WithCopy
<1>2. C!Move(a, "round", [C!Rest EXCEPT !.pc = "sync"])
  BY DEF C!UpdateAccountHealthIfUnchanged
<1>3. CheckerInv'
  BY <1>1, <1>2, RestJob, MoveInv
<1>4. PICK s \in {"healthy", "degraded"}, e \in {"none", "slow"} :
        rows' = [rows EXCEPT ![a] = UpdateAccountHealth(rows[a], s, e)]
  BY SameStatements DEF C!UpdateAccountHealthIfUnchanged
<1> DEFINE new == UpdateAccountHealth(rows[a], s, e)
<1>5. s \in StatusValues /\ e \in ErrValues /\ rows[a] \in AccountRows
  BY DEF StatusValues, ErrValues
<1>6. new \in AccountRows /\ new.stable = rows[a].stable /\ new.sched = rows[a].sched
  BY <1>5, AccountUpdates
<1> HIDE DEF new
<1>7. FollowsStable(rows[a]) => FollowsStable(new)
  BY <1>6 DEF FollowsStable
<1> QED BY <1>3, <1>4, <1>6, <1>7, RowChange DEF new

\* An administrator enables or disables the account.
LEMMA EditStep ==
  ASSUME CheckerInv, rows \in [Accounts -> AccountRows], SchedFollowsStable,
         NEW a \in Accounts, C!Enable(a) \/ C!Disable(a)
  PROVE  rows' \in [Accounts -> AccountRows] /\ SchedFollowsStable' /\ CheckerInv'
<1>1. PICK new \in {EnableAccount(rows[a]), DisableAccount(rows[a])} :
        rows' = [rows EXCEPT ![a] = new] /\ job' = job
  BY SameStatements DEF C!Enable, C!Disable, C!Edit
<1>2. new \in AccountRows /\ new.stable = rows[a].stable /\ new.sched = rows[a].sched
  <2>1. rows[a] \in AccountRows
    OBVIOUS
  <2>2. CASE new = EnableAccount(rows[a])
    BY <2>1, <2>2 DEF EnableAccount, AccountRows
  <2>3. CASE new = DisableAccount(rows[a])
    BY <2>1, <2>3 DEF DisableAccount, AccountRows, StatusValues
  <2> QED BY <2>2, <2>3
<1>3. FollowsStable(rows[a]) => FollowsStable(new)
  BY <1>2 DEF FollowsStable
<1>4. CheckerInv'
  BY <1>1 DEF CheckerInv, JobInv, ReadFirst, C!shouldPreserveAccountErrorDuringDiscovery
<1> QED BY <1>1, <1>2, <1>3, <1>4, RowChange
\* A row that grows older: no error becomes one to preserve.
LEMMA OlderRow ==
  ASSUME NEW row \in AccountRows
  PROVE  \A new \in {Age(row), Lapse(row)} :
           /\ new \in AccountRows /\ new.stable = row.stable /\ new.sched = row.sched
           /\ C!shouldPreserveAccountErrorDuringDiscovery(new) =>
                C!shouldPreserveAccountErrorDuringDiscovery(row)
<1>1. /\ Age(row) \in AccountRows /\ Age(row).stable = row.stable /\ Age(row).sched = row.sched
      /\ Age(row).status = row.status /\ Age(row).err = row.err /\ Age(row).checked # "recent"
  BY DEF Age, AccountRows, CheckedValues
<1>2. /\ Lapse(row) \in AccountRows /\ Lapse(row).stable = row.stable
      /\ Lapse(row).sched = row.sched /\ Lapse(row).status = row.status
      /\ Lapse(row).err = row.err /\ Lapse(row).checked = row.checked
  BY DEF Lapse, AccountRows, Expiries
<1> QED BY <1>1, <1>2 DEF C!shouldPreserveAccountErrorDuringDiscovery

\* A worker whose copies of the row grow older.
LEMMA OlderJob ==
  ASSUME NEW j \in JobStates, JobInv(j), NEW copy, NEW cur,
         IF j.copy = <<>> THEN copy = <<>> ELSE copy \in {Age(j.copy), Lapse(j.copy)},
         IF j.cur = <<>> THEN cur = <<>> ELSE cur \in {Age(j.cur), Lapse(j.cur)}
  PROVE  LET k == [j EXCEPT !.copy = copy, !.cur = cur] IN k \in JobStates /\ JobInv(k)
<1> DEFINE k == [j EXCEPT !.copy = copy, !.cur = cur]
<1>0. j.copy \in AccountRows \cup {<<>>} /\ j.cur \in AccountRows \cup {<<>>}
  BY DEF JobStates
<1>1. /\ copy \in AccountRows \cup {<<>>} /\ cur \in AccountRows \cup {<<>>}
      /\ j.copy \in AccountRows /\ j.copy # <<>> => copy \in AccountRows
      /\ j.cur \in AccountRows /\ j.cur # <<>> =>
           /\ cur \in AccountRows
           /\ C!shouldPreserveAccountErrorDuringDiscovery(cur) =>
                C!shouldPreserveAccountErrorDuringDiscovery(j.cur)
  BY <1>0, OlderRow
<1>2. \A row \in AccountRows : row # <<>>
  <2> SUFFICES ASSUME NEW row \in AccountRows, row = <<>> PROVE FALSE
    OBVIOUS
  <2>1. DOMAIN row = {} /\ "enabled" \in DOMAIN row
    BY DEF AccountRows
  <2> QED BY <2>1
<1>3. /\ k \in JobStates /\ k.pc = j.pc /\ k.copy = copy /\ k.cur = cur
      /\ k.todo = j.todo /\ k.diag = j.diag
  BY <1>1 DEF JobStates
<1> HIDE DEF k
<1>4. JobInv(k)
  BY <1>1, <1>2, <1>3 DEF JobInv
<1> QED BY <1>3, <1>4 DEF k

\* Time passes for the row and for the copies of it.
LEMMA TimeStep ==
  ASSUME CheckerInv, rows \in [Accounts -> AccountRows], SchedFollowsStable,
         NEW a \in Accounts, C!GraceEnds(a) \/ C!SubscriptionLapses(a)
  PROVE  rows' \in [Accounts -> AccountRows] /\ SchedFollowsStable' /\ CheckerInv'
<1>1. PICK new \in {Age(rows[a]), Lapse(rows[a])} : rows' = [rows EXCEPT ![a] = new]
  BY SameStatements DEF C!GraceEnds, C!SubscriptionLapses, C!Passes
<1>2. new \in AccountRows /\ (FollowsStable(rows[a]) => FollowsStable(new))
  <2>1. rows[a] \in AccountRows
    OBVIOUS
  <2> QED BY <2>1, OlderRow DEF FollowsStable
<1>3. CheckerInv'
  <2> DEFINE aged(row) == IF row = <<>> THEN row ELSE C!Age(row)
             lapsed(row) == IF row = <<>> THEN row ELSE C!Lapse(row)
             J(w) == [job[a][w] EXCEPT !.copy = aged(job[a][w].copy), !.cur = aged(job[a][w].cur)]
             K(w) == [job[a][w] EXCEPT !.copy = lapsed(job[a][w].copy),
                                       !.cur = lapsed(job[a][w].cur)]
  <2>1. \/ job' = [job EXCEPT ![a] = [w \in C!Workers |-> J(w)]]
        \/ job' = [job EXCEPT ![a] = [w \in C!Workers |-> K(w)]]
    <3>1. CASE C!GraceEnds(a)
      BY <3>1 DEF C!GraceEnds, C!Passes, CheckerInv
    <3>2. CASE C!SubscriptionLapses(a)
      BY <3>2 DEF C!SubscriptionLapses, C!Passes, CheckerInv
    <3> QED BY <3>1, <3>2
  <2>2. \A w \in C!Workers : /\ J(w) \in JobStates /\ JobInv(J(w))
                             /\ K(w) \in JobStates /\ JobInv(K(w))
    <3> SUFFICES ASSUME NEW w \in C!Workers
                 PROVE  J(w) \in JobStates /\ JobInv(J(w)) /\ K(w) \in JobStates /\ JobInv(K(w))
      OBVIOUS
    <3>1. job[a][w] \in JobStates /\ JobInv(job[a][w])
      BY JobFacts
    <3>2. \A row : aged(row) = (IF row = <<>> THEN row ELSE Age(row))
                   /\ lapsed(row) = (IF row = <<>> THEN row ELSE Lapse(row))
      BY SameStatements
    <3> HIDE DEF aged, lapsed
    <3>3. J(w) \in JobStates /\ JobInv(J(w))
      BY <3>1, <3>2, OlderJob
    <3>4. K(w) \in JobStates /\ JobInv(K(w))
      BY <3>1, <3>2, OlderJob
    <3> QED BY <3>3, <3>4, Zenon
  <2> HIDE DEF J, K
  <2>3. job' \in [Accounts -> [C!Workers -> JobStates]]
    BY <2>1, <2>2 DEF CheckerInv
  <2>4. \A b \in Accounts : \A w \in C!Workers : JobInv(job'[b][w])
    BY <2>1, <2>2 DEF CheckerInv
  <2>5. \A b \in Accounts : \A w \in C!Workers : JobInv(job[b][w])'
    BY <2>4 DEF JobInv, ReadFirst, C!shouldPreserveAccountErrorDuringDiscovery
  <2> QED BY <2>3, <2>5, SMTT(30) DEF CheckerInv
<1> QED BY <1>1, <1>2, <1>3, RowChange

-----------------------------------------------------------------------------
(* Every step *)

\* The checker, the administrator and the clock.
LEMMA CheckerKeeps ==
  ASSUME CheckerInv, rows \in [Accounts -> AccountRows], SchedFollowsStable, C!CheckerNext
  PROVE  rows' \in [Accounts -> AccountRows] /\ SchedFollowsStable' /\ CheckerInv'
<1>1. PICK a \in Accounts :
        \/ C!StartRound(a) \/ C!StartRefresh(a) \/ C!CheckerStep(a)
        \/ C!Enable(a) \/ C!Disable(a) \/ C!GraceEnds(a) \/ C!SubscriptionLapses(a)
  BY DEF C!CheckerNext
<1>2. ASSUME rows' = rows PROVE rows' \in [Accounts -> AccountRows] /\ SchedFollowsStable'
  BY <1>2 DEF SchedFollowsStable, FollowsStable
<1>3. CASE C!StartRound(a)
  BY <1>2, <1>3, RoundMoves
<1>4. CASE C!StartRefresh(a)
  BY <1>2, <1>4, StartRefreshMoves
<1>5. CASE C!RoundStep(a)
  <2>1. CASE C!UpdateAccountHealthIfUnchanged(a)
    BY <2>1, ConditionalUpdate
  <2>2. CASE ~C!UpdateAccountHealthIfUnchanged(a)
    <3>1. CheckerInv' /\ rows' = rows
      BY <1>5, <2>2, RoundMoves DEF C!RoundStep
    <3> QED BY <1>2, <3>1
  <2> QED BY <2>1, <2>2
<1>6. ASSUME NEW w \in C!Workers, C!RefreshStep(a, w)
      PROVE  rows' \in [Accounts -> AccountRows] /\ SchedFollowsStable' /\ CheckerInv'
  <2>1. CASE C!Write(a, w)
    BY <2>1, WriteOne
  <2>2. CASE ~C!Write(a, w)
    <3>1. CheckerInv' /\ rows' = rows
      BY <1>6, <2>2, RefreshMoves DEF C!RefreshStep
    <3> QED BY <1>2, <3>1
  <2> QED BY <2>1, <2>2
<1>7. CASE C!Enable(a) \/ C!Disable(a)
  BY <1>7, EditStep
<1>8. CASE C!GraceEnds(a) \/ C!SubscriptionLapses(a)
  BY <1>8, TimeStep
<1> QED BY <1>1, <1>3, <1>4, <1>5, <1>6, <1>7, <1>8 DEF C!CheckerStep
(* The invariant of the composition holds in the initial states. *)
LEMMA StateInvInit == StateInit => StateInv
BY GatewayInvInit, CheckerInvInit, InitialRowsAssumption
   DEF StateInit, StateInv, Init, SchedFollowsStable

(* Every step of the gateway, the checker or the administrator keeps it. *)
LEMMA StateInvStep == StateInv /\ [StateNext]_stateVars => StateInv'
<1> SUFFICES ASSUME StateInv, [StateNext]_stateVars PROVE StateInv'
  OBVIOUS
<1>0. GatewayInv /\ SchedFollowsStable /\ CheckerInv /\ rows \in [Accounts -> AccountRows]
  BY DEF StateInv, GatewayInv, GatewayTyped
<1>1. ASSUME UNCHANGED <<job, started>> PROVE CheckerInv'
  BY <1>0, <1>1 DEF CheckerInv, JobInv, ReadFirst, C!shouldPreserveAccountErrorDuringDiscovery
<1>2. CASE GatewayTurn
  <2>1. Next /\ UNCHANGED <<job, started>>
    BY <1>2 DEF GatewayTurn
  <2> QED BY <1>0, <1>1, <2>1, GatewayInvStep, FollowsStep DEF StateInv
<1>3. CASE CheckerTurn
  <2>1. C!CheckerNext /\ UNCHANGED <<poolEnabled, req, async, faults>>
    BY <1>3 DEF CheckerTurn
  <2>2. rows' \in [Accounts -> AccountRows] /\ SchedFollowsStable' /\ CheckerInv'
    BY <1>0, <2>1, CheckerKeeps
  <2>3. GatewayInv'
    BY <1>0, <2>1, <2>2 DEF GatewayInv, GatewayTyped, AsyncInv
  <2> QED BY <2>2, <2>3 DEF StateInv
<1>4. CASE UNCHANGED stateVars
  <2>1. UNCHANGED gatewayVars /\ UNCHANGED <<job, started>>
    BY <1>4 DEF stateVars, gatewayVars
  <2> QED BY <1>0, <1>1, <2>1, GatewayInvStep, FollowsStep DEF StateInv
<1> QED BY <1>2, <1>3, <1>4 DEF StateNext

\* What holds of requests, rows and workers together at every moment.
THEOREM StateInvHolds == StateSpec => []StateInv
BY StateInvInit, StateInvStep, PTL DEF StateSpec

\* Whoever writes a row - requests, goroutines, rounds, refreshes, the
\* administrator - leaves values in it that routability.go knows.
THEOREM RowsTypedHolds == StateSpec => []RowsTyped
<1>1. StateInv => RowsTyped
  BY DEF StateInv, GatewayInv, GatewayTyped, RowsTyped, RowTyped, AccountRows
<1> QED BY <1>1, StateInvHolds, PTL

\* At every moment the SQL of the overview's counts (pools.go) and the
\* decision of the router (routability.go) agree on every account.
THEOREM CountsMatchRouterHolds == StateSpec => []CountsMatchRouter
<1>1. RowsTyped => CountsMatchRouter
  BY DecisionsAgree DEF RowsTyped, RowTyped, FlagsTyped, CountsMatchRouter
<1> QED BY <1>1, RowsTypedHolds, PTL

\* The scheduler status follows the stable one also while the quota probes of
\* the checker write between the observations of the requests.
THEOREM StateSchedFollowsStable == StateSpec => []SchedFollowsStable
BY StateInvHolds, PTL DEF StateInv

\* The requests reach no account twice, and a forced one only its target,
\* whatever rounds and administrators do to the rows meanwhile.
THEOREM StateAttemptsAreSound == StateSpec => []AttemptsAreSound
<1>1. StateInv => AttemptsAreSound
  BY DEF StateInv, GatewayInv, RequestInv, Reached, OnTarget, Covered, AttemptsAreSound,
         NoAccountTwice, ForcedReachesOnlyTarget, AttemptsCovered
<1> QED BY <1>1, StateInvHolds, PTL

-----------------------------------------------------------------------------
(* What a step of the checker may do *)

\* No statement of a worker says that an account is healthy.
LEMMA StatementStatus ==
  ASSUME NEW st \in CheckerStmts \cup ProbeStmts, st.op # "diag_read", NEW row \in AccountRows,
         NEW j
  PROVE  C!Apply(st, row, j).status \in {row.status, "error"}
<1>1. CASE st \in CheckerStmts
  <2>1. CASE st.op = "health"
    <3>1. C!Apply(st, row, j) = UpdateAccountHealth(row, st.x, st.y) /\ st.x = "error"
      BY <1>1, <2>1, StmtKinds, SameStatements DEF C!Apply
    <3> QED BY <3>1 DEF UpdateAccountHealth, AccountRows
  <2>2. CASE st.op \in {"cred", "access"}
    <3>1. \/ C!Apply(st, row, j) = UpdateAccountCpaCredentialStatus(row, st.x)
          \/ C!Apply(st, row, j) = UpdateAccountCpaAccessStatus(row, st.x)
      BY <2>2, SameStatements DEF C!Apply
    <3> QED BY <3>1 DEF UpdateAccountCpaCredentialStatus, UpdateAccountCpaAccessStatus, AccountRows
  <2>3. CASE st.op = "sub"
    <3>1. C!Apply(st, row, j) = UpdateAccountCpaSubscription(row, st.x)
      BY <2>3, SameStatements DEF C!Apply
    <3> QED BY <3>1 DEF UpdateAccountCpaSubscription, AccountRows
  <2>4. CASE st.op = "quota"
    <3>1. C!Apply(st, row, j) = UpdateAccountCodexQuota(row, st.x)
      BY <2>4, SameStatements DEF C!Apply
    <3> QED BY <3>1 DEF UpdateAccountCodexQuota, AccountRows
  <2>5. CASE st.op = "qstatus"
    <3>1. C!Apply(st, row, j) = UpdateAccountCodexQuotaStatus(row, st.x, st.y)
      BY <2>5, SameStatements DEF C!Apply
    <3> QED BY <3>1 DEF UpdateAccountCodexQuotaStatus, AccountRows
  <2> QED BY <1>1, <2>1, <2>2, <2>3, <2>4, <2>5, StmtKinds
<1>2. CASE st \in ProbeStmts
  <2>1. st.op = "diag_tx"
    BY <1>2 DEF ProbeStmts
  <2>2. C!Apply(st, row, j) = UpdateAccountDiagnosticTx(row, j.diag.stable,
                                "quota_probe_auth_failed", j.diag.preserve)
    BY <2>1, SameStatements DEF C!Apply
  <2> QED BY <2>2 DEF UpdateAccountDiagnosticTx, AccountRows
<1> QED BY <1>1, <1>2
\* What the steps that touch a worker or a row look like.
LEMMA StepKinds ==
  ASSUME CheckerInv, rows \in [Accounts -> AccountRows], C!CheckerNext
  PROVE  \/ \E a \in Accounts, w \in C!Workers : C!Write(a, w)
         \/ \E a \in Accounts : C!UpdateAccountHealthIfUnchanged(a)
         \/ /\ rows' = rows
            /\ \E a \in Accounts, w \in C!Workers : \E pc, j : C!At(a, w, pc) /\ C!Move(a, w, j)
         \/ job' = job
         \/ \E a \in Accounts : C!GraceEnds(a) \/ C!SubscriptionLapses(a)
<1>1. PICK a \in Accounts :
        \/ C!StartRound(a) \/ C!StartRefresh(a) \/ C!CheckerStep(a)
        \/ C!Enable(a) \/ C!Disable(a) \/ C!GraceEnds(a) \/ C!SubscriptionLapses(a)
  BY DEF C!CheckerNext
<1>2. "round" \in C!Workers /\ "admin" \in C!Workers
  BY WorkersAre
<1>3. CASE C!StartRound(a) \/ C!StartRefresh(a)
  <2>1. rows' = rows
    BY <1>3 DEF C!StartRound, C!StartRefresh
  <2>2. \E w \in C!Workers : \E pc, j : C!At(a, w, pc) /\ C!Move(a, w, j)
    BY <1>2, <1>3 DEF C!StartRound, C!StartRefresh
  <2> QED BY <2>1, <2>2
<1>4. CASE C!RoundStep(a) /\ ~C!UpdateAccountHealthIfUnchanged(a)
  <2>1. rows' = rows
    BY <1>4, RoundMoves DEF C!RoundStep
  <2>2. \E pc, j : C!At(a, "round", pc) /\ C!Move(a, "round", j)
    <3>1. ASSUME NEW out, C!Discover(a, out) PROVE \E pc, j : C!At(a, "round", pc) /\ C!Move(a, "round", j)
      BY <3>1 DEF C!Discover
    <3>2. ASSUME NEW read, C!Reread(a, read) PROVE \E pc, j : C!At(a, "round", pc) /\ C!Move(a, "round", j)
      BY <3>2 DEF C!Reread
    <3>3. CASE C!HealthWasChanged(a)
      BY <3>3 DEF C!HealthWasChanged
    <3>4. ASSUME NEW file, NEW token, C!syncCpaMetadata(a, file, token)
          PROVE  \E pc, j : C!At(a, "round", pc) /\ C!Move(a, "round", j)
      BY <3>4 DEF C!syncCpaMetadata
    <3>5. ASSUME NEW due, C!fetchCodexQuotas(a, due) \/ C!fetchCodexSubscriptions(a, due)
          PROVE  \E pc, j : C!At(a, "round", pc) /\ C!Move(a, "round", j)
      BY <3>5 DEF C!fetchCodexQuotas, C!fetchCodexSubscriptions, C!Phase
    <3> QED BY <1>4, <3>1, <3>2, <3>3, <3>4, <3>5 DEF C!RoundStep
  <2> QED BY <1>2, <2>1, <2>2
<1>5. ASSUME NEW w \in C!Workers, C!RefreshStep(a, w), ~C!Write(a, w)
      PROVE  rows' = rows /\ \E pc, j : C!At(a, w, pc) /\ C!Move(a, w, j)
  <2>1. rows' = rows
    BY <1>5, RefreshMoves DEF C!RefreshStep
  <2>2. \E pc, j : C!At(a, w, pc) /\ C!Move(a, w, j)
    <3>1. ASSUME NEW file, NEW token, C!resolveCpaRuntime(a, w, file, token)
          PROVE  \E pc, j : C!At(a, w, pc) /\ C!Move(a, w, j)
      BY <3>1 DEF C!resolveCpaRuntime
    <3>2. CASE C!Subscribe(a, w) \/ C!CredentialBeforeQuota(a, w)
      BY <3>2 DEF C!Subscribe, C!CredentialBeforeQuota
    <3>3. ASSUME NEW file, NEW token, NEW meta, C!ResolveAuthIndex(a, w, file, token, meta)
          PROVE  \E pc, j : C!At(a, w, pc) /\ C!Move(a, w, j)
      BY <3>3 DEF C!ResolveAuthIndex
    <3>4. CASE C!restoreCpaCredentialStateIfNeeded(a, w)
      BY <3>4 DEF C!restoreCpaCredentialStateIfNeeded
    <3>5. ASSUME NEW out, C!fetchOneCodexQuota(a, w, out) \/ C!Resubscribe(a, w, out)
          PROVE  \E pc, j : C!At(a, w, pc) /\ C!Move(a, w, j)
      BY <3>5 DEF C!fetchOneCodexQuota, C!Resubscribe
    <3> QED BY <1>5, <3>1, <3>2, <3>3, <3>4, <3>5 DEF C!RefreshStep
  <2> QED BY <2>1, <2>2
<1>6. CASE C!Enable(a) \/ C!Disable(a)
  BY <1>6 DEF C!Enable, C!Disable, C!Edit
<1> QED BY <1>1, <1>3, <1>4, <1>5, <1>6 DEF C!CheckerStep

\* A step that makes an account healthy and is the checker's is the
\* conditional update, whose WHERE has compared the row with one that no error
\* protects (UpdateAccountHealthIfUnchanged after Reread).
LEMMA FreshErrorStays ==
  ASSUME StateInv, StateNext, NEW a \in Accounts,
         rows[a].status = "error", rows[a].err \in {"gateway", "credential"},
         rows[a].checked = "recent", rows'[a].status \in {"healthy", "degraded"}
  PROVE  job'[a] = job[a]
<1> SUFFICES ASSUME job'[a] # job[a] PROVE FALSE
  OBVIOUS
<1>0. CheckerInv /\ rows \in [Accounts -> AccountRows] /\ rows[a] \in AccountRows
  BY DEF StateInv, GatewayInv, GatewayTyped
<1>1. C!CheckerNext
  BY DEF StateNext, GatewayTurn, CheckerTurn
<1>2. ASSUME NEW b \in Accounts, NEW w \in C!Workers, C!Write(b, w) PROVE FALSE
  <2> DEFINE j == job[b][w]
             st == Head(j.todo)
  <2>1. j.todo \in Seq(CheckerStmts \cup ProbeStmts) /\ j.todo # <<>> /\ ReadFirst(j.todo, j.diag)
    BY <1>0, <1>2, JobFacts DEF C!Write, JobStates, JobInv
  <2>2. st \in CheckerStmts \cup ProbeStmts
    BY <2>1, TodoTail
  <2>3. CASE st.op = "diag_read"
    BY <1>2, <2>3 DEF C!Write
  <2>4. CASE st.op # "diag_read"
    <3>1. rows' = [rows EXCEPT ![b] = C!Apply(st, rows[b], j)]
      BY <1>2, <2>4 DEF C!Write
    <3>2. b # a => rows'[a] = rows[a]
      BY <1>0, <3>1
    <3>3. b = a => rows'[a].status \in {rows[a].status, "error"}
      BY <1>0, <2>2, <2>4, <3>1, StatementStatus
    <3> QED BY <3>2, <3>3
  <2> QED BY <2>3, <2>4
<1>3. ASSUME NEW b \in Accounts, C!UpdateAccountHealthIfUnchanged(b) PROVE FALSE
  <2> DEFINE j == job[b]["round"]
  <2>1. JobInv(j) /\ j.pc = "cas"
    BY <1>0, <1>3, JobFacts, WorkersAre DEF C!UpdateAccountHealthIfUnchanged, C!At
  <2>2. ~C!shouldPreserveAccountErrorDuringDiscovery(j.cur)
    BY <2>1 DEF JobInv
  <2>3. b # a => rows'[a] = rows[a]
    BY <1>0, <1>3 DEF C!UpdateAccountHealthIfUnchanged
  <2>4. C!Unchanged(rows[b], j.cur)
    BY <1>3 DEF C!UpdateAccountHealthIfUnchanged
  <2> QED BY <2>2, <2>3, <2>4, SMTT(30) DEF C!Unchanged, C!shouldPreserveAccountErrorDuringDiscovery
<1>4. ASSUME NEW b \in Accounts, C!GraceEnds(b) \/ C!SubscriptionLapses(b) PROVE FALSE
  <2>1. PICK new \in {Age(rows[b]), Lapse(rows[b])} : rows' = [rows EXCEPT ![b] = new]
    BY <1>4, SameStatements DEF C!GraceEnds, C!SubscriptionLapses, C!Passes
  <2>2. new.status = rows[b].status
    <3>1. rows[b] \in AccountRows
      BY <1>0
    <3> QED BY <3>1 DEF Age, Lapse, AccountRows
  <2> QED BY <1>0, <2>1, <2>2
<1> QED BY <1>0, <1>1, <1>2, <1>3, <1>4, StepKinds

\* A successful model discovery of the checker never clears an error that a
\* request or the credential check found within the grace period, however the
\* two interleave (checker.go, UpdateAccountHealthIfUnchanged).
THEOREM DiscoveryKeepsFreshErrorHolds == StateSpec => DiscoveryKeepsFreshError
<1>1. StateInv /\ [StateNext]_stateVars =>
        [\A a \in Accounts :
           /\ rows[a].status = "error" /\ rows[a].err \in {"gateway", "credential"}
           /\ rows[a].checked = "recent"
           /\ rows'[a].status \in {"healthy", "degraded"}
           => ~CheckerActs(a)]_stateVars
  BY FreshErrorStays DEF CheckerActs
<1> QED BY <1>1, StateInvHolds, PTL DEF StateSpec, DiscoveryKeepsFreshError

\* What a worker still has to write changes only when it writes.
LEMMA OnlyWriteTakes ==
  ASSUME StateInv, StateNext, NEW a \in Accounts, NEW w \in C!Workers,
         job[a][w].todo # <<>>, job'[a][w].todo # job[a][w].todo
  PROVE  C!Write(a, w)
<1>0. CheckerInv /\ rows \in [Accounts -> AccountRows]
        /\ job \in [Accounts -> [C!Workers -> JobStates]]
  BY DEF StateInv, GatewayInv, GatewayTyped, CheckerInv
<1>1. C!CheckerNext
  BY DEF StateNext, GatewayTurn, CheckerTurn
<1>2. ASSUME NEW b \in Accounts, NEW v \in C!Workers, NEW j, C!Move(b, v, j)
      PROVE  b = a /\ v = w
  BY <1>0, <1>2 DEF C!Move
<1>3. ASSUME NEW b \in Accounts, NEW v \in C!Workers, C!Write(b, v) PROVE b = a /\ v = w
  <2>1. \E j : C!Move(b, v, j)
    BY <1>3 DEF C!Write
  <2> QED BY <1>2, <2>1
<1>4. ASSUME NEW b \in Accounts, NEW v \in C!Workers, NEW pc, NEW j, C!At(b, v, pc), C!Move(b, v, j)
      PROVE  FALSE
  BY <1>2, <1>4 DEF C!At
<1>5. ASSUME NEW b \in Accounts, C!UpdateAccountHealthIfUnchanged(b) PROVE FALSE
  BY <1>4, <1>5, WorkersAre DEF C!UpdateAccountHealthIfUnchanged
<1>6. ASSUME NEW b \in Accounts, C!GraceEnds(b) \/ C!SubscriptionLapses(b) PROVE FALSE
  <2>1. CASE C!GraceEnds(b)
    <3>1. PICK copy, cur : \/ job'[a][w] = [job[a][w] EXCEPT !.copy = copy, !.cur = cur]
                           \/ job'[a][w] = job[a][w]
      BY <1>0, <2>1 DEF C!GraceEnds, C!Passes
    <3>2. job[a][w] \in JobStates
      BY <1>0
    <3>3. job'[a][w].todo = job[a][w].todo
      BY <3>1, <3>2 DEF JobStates
    <3> QED BY <3>3
  <2>2. CASE C!SubscriptionLapses(b)
    <3>1. PICK copy, cur : \/ job'[a][w] = [job[a][w] EXCEPT !.copy = copy, !.cur = cur]
                           \/ job'[a][w] = job[a][w]
      BY <1>0, <2>2 DEF C!SubscriptionLapses, C!Passes
    <3>2. job[a][w] \in JobStates
      BY <1>0
    <3>3. job'[a][w].todo = job[a][w].todo
      BY <3>1, <3>2 DEF JobStates
    <3> QED BY <3>3
  <2> QED BY <1>6, <2>1, <2>2
<1> QED BY <1>0, <1>1, <1>3, <1>4, <1>5, <1>6, StepKinds

\* Neither the error of the usage endpoint nor the diagnostic of its 401
\* blocks an account that serves.
LEMMA FailureKeepsServing ==
  ASSUME NEW row \in AccountRows, Serves(row), NEW j,
         NEW st \in CheckerStmts \cup ProbeStmts,
         \/ st.op = "qstatus" /\ st.x = "error"
         \/ st.op = "diag_tx" /\ j.diag \in Diags
  PROVE  Serves(C!Apply(st, row, j))
<1> DEFINE new == C!Apply(st, row, j)
<1>1. \A r \in AccountRows : Serves(r) <=> accountRoutableWhereSQL(r, TRUE)
  <2> SUFFICES ASSUME NEW r \in AccountRows PROVE Serves(r) <=> accountRoutableWhereSQL(r, TRUE)
    OBVIOUS
  <2>1. RowTyped(r)
    BY DEF RowTyped, AccountRows
  <2> QED BY <2>1, DecisionsAgree DEF Serves, RowTyped, FlagsTyped
<1>2. st.op # "diag_read"
  OBVIOUS
<1>3. new \in AccountRows
  BY <1>2, StatementOnRow
<1>4. CASE st.op = "qstatus"
  <2>1. st \in CheckerStmts
    BY <1>4 DEF ProbeStmts
  <2>2. st.x = "error" /\ st.y \in {"probeAuth", "other"}
    BY <1>4, <2>1, StmtKinds
  <2>3. new = [row EXCEPT !.quota = "error", !.qerr = st.y]
    <3>1. new = UpdateAccountCodexQuotaStatus(row, st.x, st.y)
      BY <1>4, SameStatements DEF C!Apply
    <3> QED BY <2>2, <3>1 DEF UpdateAccountCodexQuotaStatus
  <2>4. accountRoutableWhereSQL(row, TRUE)
    BY <1>1
  <2>5. /\ new.enabled = row.enabled /\ new.status = row.status /\ new.serving = row.serving
        /\ new.cooldown = row.cooldown /\ new.diagnosed = row.diagnosed /\ new.sched = row.sched
        /\ new.override = row.override /\ new.stable = row.stable /\ new.kind = row.kind
        /\ new.cred = row.cred /\ new.codex = row.codex /\ new.access = row.access
        /\ new.quota = "error" /\ new.qerr # "model429"
    BY <2>2, <2>3 DEF AccountRows
  <2> HIDE DEF new
  <2>6. accountRoutableWhereSQL(new, TRUE)
    BY <2>4, <2>5 DEF accountRoutableWhereSQL, model429
  <2> QED BY <1>1, <1>3, <2>6 DEF new
<1>5. CASE st.op = "diag_tx"
  <2>1. new = UpdateAccountDiagnosticTx(row, j.diag.stable, "quota_probe_auth_failed",
                                        j.diag.preserve)
    BY <1>5, SameStatements DEF C!Apply
  <2>2. \/ j.diag.preserve
        \/ ~j.diag.preserve /\ j.diag.stable = "quota_probe_auth_failed_but_usable"
    BY <1>5 DEF Diags
  <2>3. accountRoutableWhereSQL(row, TRUE)
    BY <1>1
  <2>4. /\ new.enabled = row.enabled /\ new.status = row.status /\ new.serving = row.serving
        /\ new.cooldown = row.cooldown /\ new.diagnosed = row.diagnosed
        /\ new.kind = row.kind
        /\ new.cred = row.cred /\ new.codex = row.codex /\ new.access = row.access
        /\ new.quota = row.quota /\ new.qerr = row.qerr
    BY <2>1 DEF UpdateAccountDiagnosticTx, AccountRows
  <2>5. \/ new.stable = row.stable /\ new.sched = row.sched /\ new.override = row.override
        \/ new.stable \notin StableBlocks /\ new.sched = "eligible_with_warning"
    BY <2>1, <2>2 DEF UpdateAccountDiagnosticTx, AccountRows, StableBlocks,
       SchedulerStatusForStableDiagnostic
  <2> HIDE DEF new
  <2>6. accountRoutableWhereSQL(new, TRUE)
    BY <2>3, <2>4, <2>5 DEF accountRoutableWhereSQL, model429
  <2> QED BY <1>1, <1>3, <2>6 DEF new
<1> QED BY <1>4, <1>5

\* An account that serves goes on serving when the usage endpoint answers
\* with an error (fetchOneCodexQuota, recordCodexQuotaProbeDiagnostic), also
\* when requests wrote the row between the two statements.
THEOREM FailedFetchKeepsRoutingHolds == StateSpec => FailedFetchKeepsRouting
<1>1. ASSUME StateInv, StateNext, NEW a \in Accounts, NEW w \in C!Workers,
             job[a][w].todo # <<>>,
             \/ Head(job[a][w].todo).op = "qstatus" /\ Head(job[a][w].todo).x = "error"
             \/ Head(job[a][w].todo).op = "diag_tx",
             Serves(rows[a]), job'[a][w].todo # job[a][w].todo
      PROVE  Serves(rows'[a])
  <2> DEFINE j == job[a][w]
             st == Head(j.todo)
  <2>0. CheckerInv /\ rows \in [Accounts -> AccountRows] /\ rows[a] \in AccountRows
    BY <1>1 DEF StateInv, GatewayInv, GatewayTyped
  <2>1. C!Write(a, w)
    BY <1>1, OnlyWriteTakes
  <2>2. j.todo \in Seq(CheckerStmts \cup ProbeStmts) /\ ReadFirst(j.todo, j.diag)
    BY <2>0, JobFacts DEF JobStates, JobInv
  <2>3. st \in CheckerStmts \cup ProbeStmts /\ (st.op = "diag_tx" => j.diag \in Diags)
    BY <1>1, <2>2, TodoTail
  <2>4. rows' = [rows EXCEPT ![a] = C!Apply(st, rows[a], j)]
    BY <1>1, <2>1 DEF C!Write
  <2>5. Serves(C!Apply(st, rows[a], j))
    BY <1>1, <2>0, <2>3, FailureKeepsServing
  <2> QED BY <2>0, <2>4, <2>5
<1>2. StateInv /\ [StateNext]_stateVars =>
        [\A a \in Accounts : \A w \in C!Workers :
           LET todo == job[a][w].todo
           IN /\ todo # <<>> /\ CheckerActs(a)
              /\ \/ Head(todo).op = "qstatus" /\ Head(todo).x = "error"
                 \/ Head(todo).op = "diag_tx"
              /\ Serves(rows[a])
              /\ job'[a][w].todo # todo
              => Serves(rows'[a])]_stateVars
  BY <1>1
<1> QED BY <1>2, StateInvHolds, PTL DEF StateSpec, FailedFetchKeepsRouting
=============================================================================
