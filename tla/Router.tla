------------------------------- MODULE Router -------------------------------
(***************************************************************************)
(* The account choice of internal/router/router.go as operators on a       *)
(* routing snapshot s: the token's pool, its members in position order,    *)
(* the account rows, the discovered models of each account (index), and    *)
(* the router's own option pinning.  A query q is [model, diagnostic,      *)
(* exclude]; the answer is [err, account].                                 *)
(***************************************************************************)
EXTENDS Routability, Sequences, FiniteSetsExt

CONSTANTS
  Accounts,    \* account ids
  Models,      \* model names
  NoAccount    \* the account of an answer that is an error

ASSUME NoAccountAssumption == NoAccount \notin Accounts

Policies  == {"health_first", "ordered"}

Route(a)  == [err |-> "none", account |-> a]
Refuse(e) == [err |-> e, account |-> NoAccount]

accountDecision(s, a, diagnostic) ==
  EvaluateAccountRoutability(s.accounts[a], diagnostic, s.pinning, s.loaded)

accountRoutable(s, a, diagnostic) == accountDecision(s, a, diagnostic).routable

\* Faulty variant: every CPA account counts, whatever else blocks it.
accountBlockedByRuntimeBinding_AnyCpa(s, a) == s.accounts[a].kind = "cpa" /\ ~s.pinning

\* Asked with the options of ordinary traffic even for a diagnostic query.
accountBlockedByRuntimeBinding(s, a) == accountDecision(s, a, FALSE).binding

accountModelMatch(s, a, model) ==
  IF s.index[a] = {} THEN "unknown"
  ELSE IF model \in s.index[a] THEN "explicit" ELSE "mismatch"

-----------------------------------------------------------------------------
(* One pass over the members *)

\* The member is not skipped before its account is looked at.
Considered(s, q, m) ==
  m.enabled /\ m.account \notin q.exclude /\ m.account \in DOMAIN s.accounts

\* The members one pass accepts; the pass takes the first.
PassHits(s, q, match, maxPenalty) ==
  {i \in DOMAIN s.members :
     LET a == s.members[i].account
     IN /\ Considered(s, q, s.members[i])
        /\ accountRoutable(s, a, q.diagnostic)
        /\ accountDecision(s, a, q.diagnostic).penalty <= maxPenalty
        /\ accountModelMatch(s, a, q.model) = match}

First(hits) == IF hits = {} THEN 0 ELSE Min(hits)

\* A member skipped only because its runtime cannot be pinned; one is enough
\* to change the error of a search that found nothing.
runtimeBindingBlocked(s, q) ==
  \E i \in DOMAIN s.members :
    LET a == s.members[i].account
    IN /\ Considered(s, q, s.members[i])
       /\ ~accountRoutable(s, a, q.diagnostic)
       /\ accountBlockedByRuntimeBinding(s, a)

NoLimit == 999

\* Faulty variant: accounts without a model list are asked first.
Stages_UnknownFirst(policy) ==
  LET limits == IF policy = "ordered" THEN <<NoLimit>> ELSE <<0, 1, NoLimit>>
      passes(match) == [k \in DOMAIN limits |-> <<match, limits[k]>>]
  IN passes("unknown") \o passes("explicit")

\* The passes of the two policies, in order: accounts that list the model
\* before accounts without a list, and under health_first the unpenalised
\* before the penalised.
Stages(policy) ==
  LET limits == IF policy = "ordered" THEN <<NoLimit>> ELSE <<0, 1, NoLimit>>
      passes(match) == [k \in DOMAIN limits |-> <<match, limits[k]>>]
  IN passes("explicit") \o passes("unknown")

StageHits(s, q, k) ==
  PassHits(s, q, Stages(s.policy)[k][1], Stages(s.policy)[k][2])

-----------------------------------------------------------------------------
(* The entry points *)

resolveInPool(s, q) ==
  LET stage == First({k \in DOMAIN Stages(s.policy) : StageHits(s, q, k) # {}})
  IN IF ~s.exists \/ ~s.enabled THEN Refuse("pool_disabled")
     ELSE IF stage # 0 THEN Route(s.members[First(StageHits(s, q, stage))].account)
     ELSE IF runtimeBindingBlocked(s, q) THEN Refuse("runtime_binding")
     ELSE Refuse("no_healthy_account")

\* acc.Models of a cached account: ListAccounts leaves it empty.
CachedModels(s, a) == {}

resolveToAccount(s, q, a) ==
  IF ~s.exists \/ ~s.enabled THEN Refuse("pool_disabled")
  ELSE IF \/ ~ \E i \in DOMAIN s.members : s.members[i] = [account |-> a, enabled |-> TRUE]
          \/ a \notin DOMAIN s.accounts THEN Refuse("no_route")
  ELSE IF ~accountRoutable(s, a, q.diagnostic)
       THEN IF accountBlockedByRuntimeBinding(s, a)
            THEN Refuse("runtime_binding") ELSE Refuse("no_healthy_account")
  ELSE IF CachedModels(s, a) # {} /\ q.model \notin CachedModels(s, a)
       THEN Refuse("model_not_on_account")
  ELSE Route(a)

\* Retries drop the diagnostic option.
SelectNextAccount(s, model, exclude) ==
  resolveInPool(s, [model |-> model, diagnostic |-> FALSE, exclude |-> exclude])

\* The accounts ExplainCandidates calls "candidate".
ExplainCandidates(s, q) ==
  IF ~s.exists \/ ~s.enabled THEN {}
  ELSE {s.members[i].account : i \in
          {j \in DOMAIN s.members :
             LET a == s.members[j].account
             IN /\ Considered(s, q, s.members[j])
                /\ accountRoutable(s, a, q.diagnostic)
                /\ accountModelMatch(s, a, q.model) \in {"explicit", "unknown"}}}
=============================================================================
