----------------------------- MODULE MCGateway -----------------------------
(* A pool of a Codex account, an OpenAI-compatible account and a CPA       *)
(* account of another provider. *)
EXTENDS Gateway

CONSTANTS a1, a2, a3, m1, r1

Ordinary   == [diagnostic |-> FALSE, force |-> FALSE, stateful |-> FALSE]
Forced     == [Ordinary EXCEPT !.force = TRUE]
Stateful   == [Forced EXCEPT !.stateful = TRUE]
Diagnostic == [Ordinary EXCEPT !.diagnostic = TRUE]

Three      == {a1, a2, a3}
InOrder3   == <<a1, a2, a3>>
MCModels   == {m1}
AllListed3 == [a \in Three |-> {m1}]
AllKinds   == {Ordinary, Forced, Stateful, Diagnostic, [Forced EXCEPT !.diagnostic = TRUE]}

Observed(row) == [row EXCEPT !.stable = "usable", !.sched = "eligible"]
Codex  == Observed(CreateAccount("cpa", TRUE, TRUE, "ok", "eligible"))
Compat == CreateAccount("openai_compat", FALSE, TRUE, "unknown", "unknown")
Other  == CreateAccount("cpa", FALSE, TRUE, "ok", "unknown")

\* The Codex account also with old evidence against it.
OldEvidence ==
  {[a \in Three |-> IF a = a1 THEN codex ELSE IF a = a2 THEN Compat ELSE Other] :
     codex \in {Codex,
                [Codex EXCEPT !.cred = "auth_suspect", !.quota = "error", !.qerr = "probeAuth"]}}
=============================================================================
