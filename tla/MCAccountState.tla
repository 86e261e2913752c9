--------------------------- MODULE MCAccountState ---------------------------
(* One account, written by requests, a round, a refresh, an administrator. *)
EXTENDS AccountState, TLC

CONSTANTS a1, m1, r1

Ordinary == [diagnostic |-> FALSE, force |-> FALSE, stateful |-> FALSE]
Stateful == [Ordinary EXCEPT !.force = TRUE, !.stateful = TRUE]

MCAccounts == {a1}
MCModels   == {m1}
MCOrder    == <<a1>>
MCIndex    == [a \in MCAccounts |-> {m1}]
Traffic    == {Ordinary, Stateful}
OnlyOrdinary == {Ordinary}

Probed(row) == [row EXCEPT !.stable = "usable", !.sched = "eligible", !.probe = "succeeded"]
Codex  == [a \in MCAccounts |-> Probed(CreateAccount("cpa", TRUE, TRUE, "ok", "eligible"))]
Compat == [a \in MCAccounts |-> CreateAccount("openai_compat", FALSE, TRUE, "unknown", "unknown")]
Disabled == [a \in MCAccounts |-> DisableAccount(Compat[a])]

OneCodex  == {Codex}
OneCompat == {Compat, Disabled}

Writers ==
  {r \in Requests : req[r].pc # "idle"} \cup {w \in {"round", "admin"} : started[w] > 0}

\* Two writers: the refresh beside a request or a round, or two requests.
TwoWriters ==
  StateInit /\ [][/\ StateNext
                  /\ Cardinality(Writers') <= 2
                  /\ "round" \in Writers' => Writers' \subseteq {"round", "admin"}]_stateVars

Symmetry == Permutations(Requests)
=============================================================================
