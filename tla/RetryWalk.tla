----------------------------- MODULE RetryWalk -----------------------------
(***************************************************************************)
(* The accounts one request visits while the routing snapshot stays what   *)
(* it is: the initial resolution, then SelectNextAccount with every        *)
(* account tried so far excluded, until the router refuses or the request  *)
(* may not go on.  Gateway runs the same walk on rows that change; this    *)
(* module asks what the order of the walk is, against a definition of      *)
(* "better" that knows nothing of the router's passes.                     *)
(***************************************************************************)
EXTENDS Router, SequencesExt

CONSTANTS
  Rows,         \* account rows the members may have
  Lists,        \* discovered model lists they may have
  Order,        \* the members in position order
  Off, Gone,    \* sets of disabled members, and of accounts deleted under them
  Targets,      \* values of X-Lune-Account-Id, NoAccount for none
  model         \* the model asked for

ASSUME ModelAssumption == model \in Models
ASSUME ListsAssumption == Lists \subseteq SUBSET Models

\* A pool has an account once: UNIQUE(pool_id, account_id), store.go.
ASSUME OrderAssumption == Order \in Seq(Accounts) /\ IsInjective(Order)

VARIABLES
  s,            \* the snapshot
  diagnostic,   \* does the first resolution skip the health checks?
  target,       \* the account of X-Lune-Account-Id, or NoAccount
  tried,        \* accounts the request was forwarded to, in order
  err           \* "walking" until the router refuses or the walk may end

walkVars == <<s, diagnostic, target, tried, err>>

Query(diag, exclude) == [model |-> model, diagnostic |-> diag, exclude |-> exclude]

\* The cache may have failed to load the diagnostics, and the pool may be
\* disabled: then nothing else is varied.
Init ==
  /\ \E off \in Off, gone \in Gone, policy \in Policies, pin, load, on \in BOOLEAN :
       \E acc \in [Accounts \ gone -> Rows], idx \in [Accounts -> Lists] :
         /\ (load /\ on) \/ (off = {} /\ gone = {} /\ pin)
         /\ s = [exists |-> TRUE, enabled |-> on, policy |-> policy,
                 members |-> [i \in DOMAIN Order |->
                    [account |-> Order[i], enabled |-> Order[i] \notin off]],
                 accounts |-> acc, loaded |-> load, index |-> idx, pinning |-> pin]
  /\ diagnostic \in BOOLEAN
  /\ target \in Targets
  /\ tried = <<>>
  /\ err = "walking"

\* A diagnostic or forced request has one attempt.
Took(route, single) ==
  IF route.err # "none" THEN /\ err' = route.err
                             /\ UNCHANGED tried
  ELSE /\ tried' = Append(tried, route.account)
       /\ err' = IF single THEN "single" ELSE "walking"

ResolveWithOptions ==
  /\ err = "walking"
  /\ tried = <<>>
  /\ IF target = NoAccount
     THEN Took(resolveInPool(s, Query(diagnostic, {})), diagnostic)
     ELSE Took(resolveToAccount(s, Query(diagnostic, {}), target), TRUE)
  /\ UNCHANGED <<s, diagnostic, target>>

\* The attempt failed; the next account.
Retry ==
  /\ err = "walking"
  /\ tried # <<>>
  /\ Took(SelectNextAccount(s, model, ToSet(tried)), FALSE)
  /\ UNCHANGED <<s, diagnostic, target>>

Next == ResolveWithOptions \/ Retry

Spec == Init /\ [][Next]_walkVars

-----------------------------------------------------------------------------
(* A reference order *)

\* Penalties 2 and 3 share the last pass of health_first; ordered ignores them.
PenaltyClass(a) ==
  IF s.policy = "ordered" THEN 0
  ELSE Min({accountDecision(s, a, diagnostic).penalty, 2})

Position(a) == CHOOSE i \in DOMAIN s.members : s.members[i].account = a

MatchClass(a) == IF s.index[a] = {} THEN 1 ELSE 0

Better(a, b) ==
  \/ MatchClass(a) < MatchClass(b)
  \/ /\ MatchClass(a) = MatchClass(b)
     /\ \/ PenaltyClass(a) < PenaltyClass(b)
        \/ PenaltyClass(a) = PenaltyClass(b) /\ Position(a) < Position(b)

\* The accounts that may serve the model.
Usable ==
  {a \in DOMAIN s.accounts :
     /\ s.enabled /\ s.exists
     /\ [account |-> a, enabled |-> TRUE] \in ToSet(s.members)
     /\ EvaluateAccountRoutability(s.accounts[a], diagnostic, s.pinning, s.loaded).routable
     /\ s.index[a] = {} \/ model \in s.index[a]}

-----------------------------------------------------------------------------
(* Properties *)

\* The walk of an unforced request visits usable accounts only, none twice,
\* and each before every worse one (pickFromMembers, pickOrdered: explicit
\* models, then low penalties, then position), whatever was excluded before.
BestFirst ==
  target = NoAccount =>
    /\ ToSet(tried) \subseteq Usable
    /\ IsInjective(tried)
    /\ \A i \in DOMAIN tried : \A b \in Usable \ {tried[j] : j \in 1 .. i} :
         Better(tried[i], b)

\* An ordinary request is refused only after every usable account was tried:
\* none is lost between the passes of resolveInPool.
Exhaustive ==
  err \notin {"walking", "single"} /\ target = NoAccount /\ ~diagnostic =>
    ToSet(tried) = Usable

\* The trace written for the request (ExplainCandidates) calls exactly the
\* accounts candidates that the router still could pick.
TraceExplainsChoice ==
  target = NoAccount /\ ~diagnostic =>
    ExplainCandidates(s, Query(FALSE, ToSet(tried))) = Usable \ ToSet(tried)

\* The error blames account health only when pinning the runtime would not
\* have helped an ordinary request; and the runtime only when it would make
\* some account routable.
ErrorNamesCause ==
  LET pinned == [s EXCEPT !.pinning = TRUE]
  IN ~diagnostic =>
       /\ err = "no_healthy_account" /\ target = NoAccount =>
            resolveInPool(pinned, Query(FALSE, ToSet(tried))).err # "none"
       /\ err = "no_healthy_account" /\ target # NoAccount =>
            resolveToAccount(pinned, Query(FALSE, {}), target).err # "none"
       /\ err = "runtime_binding" =>
            \E a \in DOMAIN s.accounts \ ToSet(tried) :
               ~accountRoutable(s, a, FALSE) /\ accountRoutable(pinned, a, FALSE)

\* The walk is the usable accounts in the reference order: best first, none twice,
\* none missing (the passes of resolveInPool against a definition without passes).
WalkIsSorted ==
  /\ BestFirst
  /\ Exhaustive

\* What the router says of its choice is true: the trace of candidates while it
\* walks (ExplainCandidates), and the error when it refuses.
ChoiceIsExplained ==
  /\ TraceExplainsChoice
  /\ ErrorNamesCause

=============================================================================
