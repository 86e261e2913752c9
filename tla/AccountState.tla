---------------------------- MODULE AccountState ----------------------------
(***************************************************************************)
(* The row of an account while everything writes it: requests through the  *)
(* gateway and the goroutines they leave, the rounds of the health         *)
(* checker, the refreshes and edits of an administrator, and the clock.    *)
(* None of them holds a lock across its statements.                        *)
(***************************************************************************)
EXTENDS Gateway

CONSTANTS Discoveries, Files, Tokens, Metas, Fetches, MaxRounds, MaxRefreshes, MaxEdits,
          Endless

VARIABLES job, started

C == INSTANCE Checker

ASSUME CheckerBoundsAssumption ==
  MaxRounds \in Nat /\ MaxRefreshes \in Nat /\ MaxEdits \in Nat /\ Endless \in BOOLEAN

ASSUME CheckerInputsAssumption ==
  /\ Discoveries \subseteq C!AllDiscoveries /\ Files \subseteq C!AllFiles
  /\ Tokens \subseteq Expiries /\ Metas \subseteq C!AllMetas /\ Fetches \subseteq C!AllFetches

stateVars == <<rows, poolEnabled, req, async, faults, job, started>>

StateInit == Init /\ C!CheckerInit

GatewayTurn == Next /\ UNCHANGED <<job, started>>
CheckerTurn == C!CheckerNext /\ UNCHANGED <<poolEnabled, req, async, faults>>

StateNext == GatewayTurn \/ CheckerTurn

StateSpec == StateInit /\ [][StateNext]_stateVars

\* The rounds of the checker go on, so does each of its jobs (its calls have
\* timeouts), and the quota is due again and again.
StateFairSpec ==
  /\ StateSpec
  /\ \A a \in Accounts :
       /\ WF_stateVars(C!StartRound(a) /\ CheckerTurn)
       /\ WF_stateVars(C!CheckerStep(a) /\ CheckerTurn)
       /\ SF_stateVars(C!fetchCodexQuotas(a, TRUE) /\ CheckerTurn)

-----------------------------------------------------------------------------
(* Properties *)

CheckerActs(a) == job'[a] # job[a]

Serves(row) == EvaluateAccountRoutability(row, FALSE, TRUE, TRUE).routable

\* The columns the router reads have values it knows, whoever wrote them.
RowsTyped == \A a \in Accounts : RowTyped(rows[a])

\* The overview's SQL counts an account as routable exactly when the router
\* would pick it (routability.go against pools.go; acceptance API-17).
CountsMatchRouter ==
  \A a \in Accounts : \A pinning \in BOOLEAN :
    accountRoutableWhereSQL(rows[a], pinning)
      <=> EvaluateAccountRoutability(rows[a], FALSE, pinning, TRUE).routable

\* A successful model discovery never clears an error that somebody else
\* found within the grace period, also when it was found after the discovery
\* looked (UpdateAccountHealthIfUnchanged).
DiscoveryKeepsFreshError ==
  [][\A a \in Accounts :
       /\ rows[a].status = "error" /\ rows[a].err \in {"gateway", "credential"}
       /\ rows[a].checked = "recent"
       /\ rows'[a].status \in {"healthy", "degraded"}
       => ~CheckerActs(a)]_stateVars

\* An account whose usage snapshot is not blocked stays routable when the
\* usage endpoint answers with an error (spec/v0.1.9/02:148), whatever the
\* account's requests do meanwhile.
FailedFetchKeepsRouting ==
  [][\A a \in Accounts : \A w \in C!Workers :
       LET todo == job[a][w].todo
       IN /\ todo # <<>> /\ CheckerActs(a)
          /\ \/ Head(todo).op = "qstatus" /\ Head(todo).x = "error"
             \/ Head(todo).op = "diag_tx"
          /\ Serves(rows[a])
          /\ job'[a][w].todo # todo
          => Serves(rows'[a])]_stateVars

\* An enabled account whose upstream answers gets out of the status that
\* disabling it left behind.
EnabledRecovers ==
  \A a \in Accounts :
    rows[a].enabled /\ rows[a].status = "disabled"
      ~> ~rows[a].enabled \/ rows[a].status # "disabled"

\* spec/v0.2.0/03:133: a quota probe marks an account usable only while no
\* evidence says that it is banned or its token invalid.
ProbeKeepsBan ==
  [][\A a \in Accounts :
       rows[a].stable \in {"banned", "auth_invalid"} /\ CheckerActs(a) =>
         rows'[a].stable = rows[a].stable]_stateVars
=============================================================================
