---------------------------- MODULE ConsoleView ----------------------------
(***************************************************************************)
(* What the web console says of an account (lib/lune.ts, AccountCard.tsx):   *)
(* may it be routed to, the summary of its route, and the issue on its card, *)
(* and the dimensions of its diagnosis (AccountDetailSheet.tsx), separate     *)
(* ladders of cases over the columns of its row, beside the decision of the  *)
(* gateway itself (Routability).  And the health of a pool, which the        *)
(* console derives in two ways: on the pool's page from counts, for which the *)
(* server decides who is routable (store/pools.go), and in the sidebar from   *)
(* the members, for which the console decides itself.  The server writes no   *)
(* access status but those of Routability; the console's case for "pending"   *)
(* is never met.                                                              *)
(***************************************************************************)
EXTENDS AccountOps, FiniteSets

SelfCheckValues == {"none", "healthy", "degraded", "error"}
SubValues       == {"active", "expired", "pending", "unknown", "error"}

\* What the console and the gateway read of an account.  selfCheck is the row's
\* last_probe_status, sub its cpa_subscription_status.
ConsoleRows ==
  [enabled : BOOLEAN, kind : {"cpa", "openai_compat"}, codex : BOOLEAN,
   status : StatusValues, serving : ServingValues, cooldown : {"past", "future"},
   quota : QuotaValues, qerr : {"none", "model429"}, cred : CredValues,
   access : AccessValues, sub : SubValues, selfCheck : SelfCheckValues,
   diagnosed : {TRUE}, override : {FALSE}, stable : StableValues, sched : SchedValues]

\* A cooldown without an end, a rate limit without a failed quota and CPA columns
\* of a direct account are rows nobody writes.
RowFits(a) ==
  /\ a \in ConsoleRows
  /\ a.codex => a.kind = "cpa"
  /\ a.serving # "cooldown" => a.cooldown = "past"
  /\ a.quota # "error" => a.qerr = "none"
  /\ a.kind # "cpa" => a.quota = "ok" /\ a.cred = "ok"
  /\ ~a.codex => a.access = "eligible" /\ a.sub = "active"

CONSTANTS Slots,      \* members of the pool
          PoolRows,   \* bound: rows of their accounts
          Stables,    \* bound: stable statuses of a diagnosis
          Subs        \* bound: statuses of a subscription

ASSUME SlotsAssumption == IsFiniteSet(Slots)
ASSUME PoolRowsAssumption == \A a \in PoolRows : RowFits(a)
ASSUME StablesAssumption == Stables \subseteq StableValues
ASSUME SubsAssumption == Subs \subseteq SubValues

VARIABLES acct,       \* the account's row
          pinned,     \* the runtime supports provider pinning
          poolOn,     \* the pool is enabled
          members     \* the pool: [on, row] of each member

consoleVars == <<acct, pinned, poolOn, members>>

-----------------------------------------------------------------------------
(* lib/lune.ts *)

\* Faulty variant: the evidence of a rate limited request is not looked at.
isCpaOtherwiseRoutable_No429(a) ==
  /\ a.cred \notin CredentialBlocks
  /\ a.quota # "blocked"
  /\ a.codex => \/ a.access = "eligible"
                \/ a.access # "ineligible" /\ a.sub = "active"

isCpaOtherwiseRoutable(a) ==
  /\ a.cred \notin CredentialBlocks
  /\ a.quota # "blocked"
  /\ ~model429(a)
  /\ a.codex => \/ a.access = "eligible"
                \/ a.access # "ineligible" /\ a.sub = "active"

isCpaOrDirectOtherwiseRoutable(a) ==
  /\ a.enabled
  /\ a.status \in {"healthy", "degraded"}
  /\ a.serving # "cooldown" \/ a.cooldown = "past"
  /\ a.serving # "error"
  /\ a.kind = "cpa" => isCpaOtherwiseRoutable(a)

hasRuntimeBindingIssue(a) ==
  a.kind = "cpa" /\ isCpaOrDirectOtherwiseRoutable(a) /\ ~pinned

isAccountRoutable(a) ==
  isCpaOrDirectOtherwiseRoutable(a) /\ ~hasRuntimeBindingIssue(a)

\* getCpaQuotaErrorMeta: only for Codex accounts.
QuotaIssue(a) ==
  IF a.kind # "cpa" \/ ~a.codex THEN "none"
  ELSE IF a.quota = "blocked" THEN "danger"
  ELSE IF a.quota \in {"error", "unknown"} THEN "warning" ELSE "none"

\* The verdict of a self-check counts for direct accounts only; a status that is
\* none of the health's ("disabled", of an account switched on again) is unknown.
getAccountHealth(a) ==
  IF ~a.enabled THEN "disabled"
  ELSE IF a.kind # "cpa" /\ a.selfCheck # "none" THEN a.selfCheck
  ELSE IF a.status \in {"healthy", "degraded", "error"} THEN a.status ELSE "unknown"

\* getRouteSummary: the status, and the name of the case that gave it.
Says(status, why) == [status |-> status, why |-> why]

\* The part about CPA accounts that comes before the serving status.
CpaSummary(a) ==
  IF a.cred \in CredentialBlocks THEN Says("error", "credential")
  ELSE IF a.codex /\ a.access # "eligible" THEN Says("error", "access")
  ELSE IF a.quota = "blocked" THEN Says("error", "quota")
  ELSE IF model429(a)
  THEN Says(IF a.serving = "cooldown" THEN "error" ELSE "degraded", "limited")
  ELSE Says("none", "none")

\* Every caller passes the account's health (getAccountHealth) as discoveryHealth.
getRouteSummary(a) ==
  IF ~a.enabled THEN Says("disabled", "off")
  ELSE IF hasRuntimeBindingIssue(a) THEN Says("error", "binding")
  ELSE IF a.status = "unknown" \/ getAccountHealth(a) = "unknown" THEN Says("unknown", "unchecked")
  ELSE IF a.kind = "cpa" /\ CpaSummary(a).status # "none" THEN CpaSummary(a)
  ELSE IF a.serving = "cooldown" THEN Says("error", "cooldown")
  ELSE IF a.serving = "error" THEN Says("error", "serving")
  ELSE IF ~isAccountRoutable(a) THEN Says("error", "other")
  ELSE IF a.kind = "cpa" /\ a.quota \in {"error", "unknown"} THEN Says("degraded", "quota")
  ELSE IF a.kind = "cpa" /\ a.cred = "auth_suspect" THEN Says("degraded", "credential")
  ELSE Says("healthy", "none")

\* AccountCard: the chip with the account's main issue.
getMainIssueChip(a) ==
  IF hasRuntimeBindingIssue(a) THEN "binding"
  ELSE IF a.kind = "cpa" /\ a.cred \in CredentialBlocks THEN "credential"
  ELSE IF QuotaIssue(a) = "danger" THEN "quota"
  ELSE IF a.serving = "cooldown"
  THEN IF QuotaIssue(a) = "warning" THEN "quota" ELSE "cooldown"
  ELSE IF a.serving = "error" THEN "serving"
  ELSE IF QuotaIssue(a) = "warning" THEN "quota"
  ELSE IF a.kind = "cpa" /\ a.cred = "auth_suspect" THEN "credential" ELSE "none"

-----------------------------------------------------------------------------
(* The diagnosis of the account's sheet: the tone of each dimension.  That a   *)
(* direct account has an address and a key, which its form demands, and how    *)
(* many models it has, is left out.                                            *)

runtimeBindingDimension(a) == IF hasRuntimeBindingIssue(a) THEN "danger" ELSE "default"

credentialDimension(a) ==
  IF a.kind # "cpa" \/ a.cred = "ok" THEN "default"
  ELSE IF a.cred = "auth_suspect" THEN "warning" ELSE "danger"

subscriptionDimension(a) ==
  CASE a.sub = "active" -> "default" [] a.sub = "expired" -> "danger" [] OTHER -> "warning"

quotaDimension(a) ==
  CASE a.quota = "blocked" -> "danger"
    [] a.quota \in {"error", "unknown"} -> "warning"
    [] OTHER -> "default"

servingDimension(a) ==
  CASE a.serving = "error" -> "danger" [] a.serving = "cooldown" -> "warning" [] OTHER -> "default"

routeDimension(a) ==
  CASE getRouteSummary(a).status = "error" -> "danger"
    [] getRouteSummary(a).status = "degraded" -> "warning"
    [] OTHER -> "default"

buildDiagnosticDimensions(a) ==
  IF a.kind # "cpa"
  THEN [credential |-> credentialDimension(a), route |-> routeDimension(a),
        serving |-> servingDimension(a)]
  ELSE [runtime |-> runtimeBindingDimension(a), credential |-> credentialDimension(a),
        subscription |-> IF a.codex THEN subscriptionDimension(a) ELSE "default",
        quota |-> quotaDimension(a), serving |-> servingDimension(a)]

-----------------------------------------------------------------------------
(* The pool *)

ActiveMembers == {m \in Slots : members[m].on /\ members[m].row.enabled}

\* Those the server counts as routable, and those the console would route to.
CountedMembers   == {m \in ActiveMembers : accountRoutableWhereSQL(members[m].row, pinned)}
AvailableMembers == {m \in ActiveMembers : isAccountRoutable(members[m].row)}

HealthyAmong(M) == {m \in M : members[m].row.status = "healthy"}

Grade(active, available, healthy) ==
  IF ~poolOn THEN "disabled"
  ELSE IF active = 0 THEN "degraded"
  ELSE IF available = 0 THEN "error"
  ELSE IF healthy = active THEN "healthy" ELSE "degraded"

\* getPoolHealth, on the counts the server gives: account_count,
\* routable_account_count and healthy_account_count.
getPoolHealth ==
  Grade(Cardinality(ActiveMembers), Cardinality(CountedMembers),
        Cardinality(HealthyAmong(ActiveMembers)))

\* Faulty variant: members of accounts that are switched off are active.
derivePoolSnapshot_AnyAccount ==
  Grade(Cardinality({m \in Slots : members[m].on}), Cardinality(AvailableMembers),
        Cardinality(HealthyAmong(AvailableMembers)))

\* derivePoolSnapshot, on the members of the detail.
derivePoolSnapshot ==
  Grade(Cardinality(ActiveMembers), Cardinality(AvailableMembers),
        Cardinality(HealthyAmong(AvailableMembers)))

-----------------------------------------------------------------------------

CodexRow ==
  [enabled |-> TRUE, kind |-> "cpa", codex |-> TRUE, status |-> "healthy",
   serving |-> "healthy", cooldown |-> "past", quota |-> "ok", qerr |-> "none",
   cred |-> "ok", access |-> "eligible", sub |-> "active", selfCheck |-> "none",
   diagnosed |-> TRUE, override |-> FALSE, stable |-> "usable", sched |-> "eligible"]

DirectRow == [CodexRow EXCEPT !.kind = "openai_compat", !.codex = FALSE]
ClaudeRow == [CodexRow EXCEPT !.codex = FALSE]

NewMember == [on |-> TRUE, row |-> DirectRow]

ConsoleInit ==
  /\ acct \in {CodexRow, DirectRow, ClaudeRow}
  /\ pinned \in BOOLEAN
  /\ poolOn = TRUE
  /\ members = [m \in Slots |-> NewMember]

\* The row changes on the server, one group of columns at a time, each written by
\* another of its writers; the page shows it with its next load.
RowChanges(new) ==
  /\ acct' = new
  /\ UNCHANGED <<pinned, poolOn, members>>

HealthSeen ==
  \E st \in StatusValues \ {"disabled"} : RowChanges([acct EXCEPT !.status = st])

\* Switched on or off, or edited: only the switch itself writes the status, and
\* what it wrote stays when the account is switched on again.
SwitchSeen ==
  \/ RowChanges(DisableAccount(acct))
  \/ \E on \in BOOLEAN : RowChanges([acct EXCEPT !.enabled = on])

\* The verdict of a self-check (on a CPA account nothing reads it).
SelfCheckSeen ==
  /\ acct.kind # "cpa"
  /\ \E v \in SelfCheckValues \ {"none"} : RowChanges([acct EXCEPT !.selfCheck = v])

ServingSeen ==
  \E sv \in ServingValues, cd \in {"past", "future"} :
    RowChanges([acct EXCEPT !.serving = sv, !.cooldown = IF sv = "cooldown" THEN cd ELSE "past"])

QuotaSeen ==
  /\ acct.kind = "cpa"
  /\ \E q \in QuotaValues, e \in {"none", "model429"} :
       RowChanges([acct EXCEPT !.quota = q, !.qerr = IF q = "error" THEN e ELSE "none"])

CredentialSeen ==
  acct.kind = "cpa" /\ \E c \in CredValues : RowChanges([acct EXCEPT !.cred = c])

AccessSeen ==
  /\ acct.codex
  /\ \E x \in AccessValues, y \in Subs :
       RowChanges([acct EXCEPT !.access = x, !.sub = y])

\* A diagnosis, or the first one of an account created while switched off.
DiagnosisSeen ==
  \/ \E d \in Stables :
       RowChanges([acct EXCEPT !.stable = d, !.sched = SchedulerStatusForStableDiagnostic(d)])
  \/ RowChanges([acct EXCEPT !.stable = "unknown",
                             !.sched = initialSchedulerStatusForAccount(FALSE)])

\* A member is switched, or its account's row changes.
MemberChanges(m) ==
  /\ acct = DirectRow
  /\ \E on \in BOOLEAN, row \in PoolRows :
       members' = [members EXCEPT ![m] = [on |-> on, row |-> row]]
  /\ UNCHANGED <<acct, pinned, poolOn>>

PoolSwitched ==
  /\ acct = DirectRow
  /\ poolOn' = ~poolOn
  /\ UNCHANGED <<acct, pinned, members>>

\* The bound: row and pool are varied apart, never together.
ConsoleNext ==
  \/ /\ members = [m \in Slots |-> NewMember] /\ poolOn
     /\ \/ HealthSeen \/ SwitchSeen \/ SelfCheckSeen \/ ServingSeen \/ QuotaSeen
        \/ CredentialSeen \/ AccessSeen \/ DiagnosisSeen
  \/ PoolSwitched
  \/ \E m \in Slots : MemberChanges(m)

ConsoleSpec == ConsoleInit /\ [][ConsoleNext]_consoleVars

-----------------------------------------------------------------------------
(* Properties *)

\* What the gateway decides, and the two reasons of it that the console ignores.
GatewayUses(a)      == EvaluateAccountRoutability(a, FALSE, pinned, TRUE).routable
DiagnosisBlocks(a)  == ~evaluateDiagnosticRoutability(a, TRUE).routable
SubscriptionOnly(a) == a.codex /\ a.access = "unknown" /\ a.sub = "active"

\* The console calls an account routable whenever the gateway does; it calls one
\* routable that the gateway does not only for the diagnoses, which it does not
\* read, and for a Codex account whose access is unknown but whose subscription
\* is active, which it trusts and the gateway does not.
RoutableLikeRouter ==
  /\ GatewayUses(acct) => isAccountRoutable(acct)
  /\ isAccountRoutable(acct) /\ ~GatewayUses(acct)
       => DiagnosisBlocks(acct) \/ SubscriptionOnly(acct)

\* A route that the summary calls healthy or degraded is one the gateway uses,
\* but for the diagnoses and for the limit on a Codex account, which the summary
\* calls degraded; one it calls disabled, broken or unknown is one the gateway
\* skips, but for an account whose cooldown is over.
SummaryLikeRouter ==
  LET s == getRouteSummary(acct)
  IN /\ s.status \in {"healthy", "degraded"} /\ ~GatewayUses(acct)
          => DiagnosisBlocks(acct) \/ s.why = "limited"
     /\ s.status \in {"disabled", "error", "unknown"} /\ GatewayUses(acct)
          => s.why = "cooldown" /\ acct.cooldown = "past"

\* The card and the summary agree: a card with an issue has a route that is not
\* healthy, and a route that is not healthy has its issue on the card, but for
\* the access of a Codex account, its discovery (failed or still to come), and the
\* quota of other providers.
CardLikeSummary ==
  LET s == getRouteSummary(acct)
      chip == getMainIssueChip(acct)
  IN acct.enabled =>
     /\ chip # "none" => s.status # "healthy"
     /\ s.status # "healthy" /\ chip = "none"
          => s.why \in {"access", "other", "unchecked"} \/ (s.why = "quota" /\ ~acct.codex)

\* The diagnosis explains the route: a route that is not healthy has a dimension
\* that is not, but for the access of a Codex account and for the discovery of a
\* CPA account, which no dimension shows, and for an account never checked; and a
\* dimension that alarms, but for the subscription, means a route that is not healthy.
DiagnosisExplainsRoute ==
  LET s == getRouteSummary(acct)
      d == buildDiagnosticDimensions(acct)
  IN acct.enabled =>
     /\ s.status # "healthy" /\ (\A k \in DOMAIN d : d[k] = "default")
          => s.why = "unchecked" \/ (acct.kind = "cpa" /\ s.why \in {"access", "other"})
     /\ \A k \in DOMAIN d \ {"subscription"} : d[k] # "default" => s.status # "healthy"

\* The page of a pool with active members calls it broken exactly when the gateway
\* finds none of them usable.  The two healths of a pool agree but in two ways: the
\* page calls healthy a pool in which a healthy member cannot be routed to, and the
\* sidebar calls alive a pool of which every member that it counts is one the gateway
\* passes over for its diagnosis or for a subscription taken for access.
PoolHealthsAgree ==
  LET page    == getPoolHealth
      sidebar == derivePoolSnapshot
  IN /\ poolOn /\ ActiveMembers # {} =>
          (page = "error" <=> \A m \in ActiveMembers : ~GatewayUses(members[m].row))
     /\ \/ page = sidebar
        \/ /\ page = "healthy" /\ sidebar = "degraded"
           /\ HealthyAmong(ActiveMembers) \ AvailableMembers # {}
        \/ /\ page = "error" /\ sidebar \in {"healthy", "degraded"}
           /\ \A m \in AvailableMembers :
                DiagnosisBlocks(members[m].row) \/ SubscriptionOnly(members[m].row)

\* The console's four accounts of one row (routable, summary, card, diagnosis), four
\* ladders of cases in three files, tell what the gateway does with it and agree
\* with each other, with the exceptions that each part names.
ConsoleLikeRouter ==
  /\ RoutableLikeRouter
  /\ SummaryLikeRouter
  /\ CardLikeSummary
  /\ DiagnosisExplainsRoute

=============================================================================
