---------------------------- MODULE RouterProofs ----------------------------
(***************************************************************************)
(* Lemmas about the router's choice, for any snapshot and any query: what  *)
(* the passes of resolveInPool are, and that the account they pick is one  *)
(* they may pick; and about the two decisions of the code on one account.  *)
(* GatewayProofs and RetryWalkProofs rest on them.                         *)
(***************************************************************************)
EXTENDS Router, TLAPS, SequenceTheorems, WellFoundedInduction

\* The least of some positions is one of them, and none comes before it.
LEMMA FirstIsMember ==
  ASSUME NEW hits \in SUBSET (Nat \ {0})
  PROVE  /\ hits = {} => First(hits) = 0
         /\ hits # {} => First(hits) \in hits /\ \A y \in hits : First(hits) <= y
<1>1. CASE hits = {}
  BY <1>1 DEF First
<1>2. CASE hits # {}
  <2>1. IsWellFoundedOn(OpToRel(<, Nat), Nat)
    BY NatLessThanWellFounded, Zenon
  <2>2. PICK x \in hits : \A y \in hits : ~ (<<y, x>> \in OpToRel(<, Nat))
    BY <1>2, <2>1, WFMin, Zenon
  <2>3. ASSUME NEW y \in hits PROVE x <= y
    <3>1. ~ (y < x)
      BY <2>2, Zenon DEF OpToRel
    <3> QED BY <3>1
  <2> QED BY <1>2, <2>3 DEF First, Min
<1> QED BY <1>1, <1>2

\* The passes of the two policies, in order.
LEMMA StagesOrdered ==
  /\ DOMAIN Stages("ordered") = 1 .. 2
  /\ Stages("ordered")[1] = <<"explicit", NoLimit>>
  /\ Stages("ordered")[2] = <<"unknown", NoLimit>>
<1> DEFINE limits == <<NoLimit>>
           passes(match) == [k \in DOMAIN limits |-> <<match, limits[k]>>]
           x == passes("explicit")
           u == passes("unknown")
           T == {"explicit", "unknown"} \X {NoLimit}
<1>1. Stages("ordered") = x \o u
  BY DEF Stages
<1>2. /\ x \in Seq(T) /\ Len(x) = 1 /\ x[1] = <<"explicit", NoLimit>>
      /\ u \in Seq(T) /\ Len(u) = 1 /\ u[1] = <<"unknown", NoLimit>>
  OBVIOUS
<1> HIDE DEF x, u, T
<1>3. /\ x \o u \in Seq(T) /\ Len(x \o u) = Len(x) + Len(u)
      /\ \A i \in 1 .. Len(x) + Len(u) :
           (x \o u)[i] = IF i <= Len(x) THEN x[i] ELSE u[i - Len(x)]
  BY <1>2, ConcatProperties, Zenon
<1>4. (x \o u)[1] = x[1] /\ (x \o u)[2] = u[1] /\ Len(x \o u) = 2
  BY <1>2, <1>3
<1>5. DOMAIN (x \o u) = 1 .. 2
  BY <1>3, <1>4
<1> QED BY <1>1, <1>2, <1>4, <1>5

HealthFirstLimits == <<0, 1, NoLimit>>

(* The six passes of `health_first`: those whose model list names the model, then those
   with no list, each with the three limits. *)
LEMMA StagesHealthFirst ==
  /\ DOMAIN Stages("health_first") = 1 .. 6
  /\ \A k \in 1 .. 3 : /\ Stages("health_first")[k] = <<"explicit", HealthFirstLimits[k]>>
                       /\ Stages("health_first")[3 + k] = <<"unknown", HealthFirstLimits[k]>>
<1> DEFINE passes(match) == [k \in DOMAIN HealthFirstLimits |-> <<match, HealthFirstLimits[k]>>]
           x == passes("explicit")
           u == passes("unknown")
           T == {"explicit", "unknown"} \X {0, 1, NoLimit}
<1>1. Stages("health_first") = x \o u
  BY DEF Stages, HealthFirstLimits
<1>2. /\ x \in Seq(T) /\ Len(x) = 3 /\ \A k \in 1 .. 3 : x[k] = <<"explicit", HealthFirstLimits[k]>>
      /\ u \in Seq(T) /\ Len(u) = 3 /\ \A k \in 1 .. 3 : u[k] = <<"unknown", HealthFirstLimits[k]>>
  BY DEF HealthFirstLimits
<1> HIDE DEF x, u, T
<1>3. /\ x \o u \in Seq(T) /\ Len(x \o u) = Len(x) + Len(u)
      /\ \A i \in 1 .. Len(x) + Len(u) :
           (x \o u)[i] = IF i <= Len(x) THEN x[i] ELSE u[i - Len(x)]
  BY <1>2, ConcatProperties, Zenon
<1>4. ASSUME NEW k \in 1 .. 3 PROVE (x \o u)[k] = x[k] /\ (x \o u)[3 + k] = u[k]
  <2>1. k \in 1 .. Len(x) + Len(u) /\ 3 + k \in 1 .. Len(x) + Len(u)
    BY <1>2
  <2>2. (x \o u)[k] = IF k <= Len(x) THEN x[k] ELSE u[k - Len(x)]
    BY <1>3, <2>1
  <2>3. (x \o u)[3 + k] = IF 3 + k <= Len(x) THEN x[3 + k] ELSE u[3 + k - Len(x)]
    BY <1>3, <2>1
  <2>4. k <= Len(x) /\ ~(3 + k <= Len(x)) /\ 3 + k - Len(x) = k
    BY <1>2
  <2> QED BY <2>2, <2>3, <2>4
<1>5. DOMAIN (x \o u) = 1 .. 6
  BY <1>2, <1>3
<1> QED BY <1>1, <1>2, <1>4, <1>5

(* Passes are numbered from 1. *)
LEMMA StagesDomain ==
  ASSUME NEW policy PROVE DOMAIN Stages(policy) \subseteq Nat \ {0}
<1>1. policy # "ordered" => Stages(policy) = Stages("health_first")
  BY DEF Stages
<1> QED BY <1>1, StagesOrdered, StagesHealthFirst

\* The router answers with the first hit of the first pass that has one; it
\* refuses a pool in use only when no pass has.
LEMMA PoolAnswer ==
  ASSUME NEW s, NEW q, DOMAIN s.members \subseteq Nat \ {0}, s.exists, s.enabled
  PROVE  \/ /\ \A k \in DOMAIN Stages(s.policy) : StageHits(s, q, k) = {}
            /\ resolveInPool(s, q) = Refuse(IF runtimeBindingBlocked(s, q) THEN "runtime_binding"
                                            ELSE "no_healthy_account")
         \/ \E k \in DOMAIN Stages(s.policy) : \E i \in StageHits(s, q, k) :
              /\ resolveInPool(s, q) = Route(s.members[i].account)
              /\ \A l \in DOMAIN Stages(s.policy) : StageHits(s, q, l) # {} => k <= l
              /\ \A j \in StageHits(s, q, k) : i <= j
<1> DEFINE stages == {k \in DOMAIN Stages(s.policy) : StageHits(s, q, k) # {}}
           stage == First(stages)
           hits == StageHits(s, q, stage)
<1>0. stages \in SUBSET (Nat \ {0})
  BY StagesDomain
<1>1. CASE stages = {}
  <2>1. stage = 0
    BY <1>1, FirstIsMember
  <2>2. resolveInPool(s, q) = Refuse(IF runtimeBindingBlocked(s, q) THEN "runtime_binding"
                                     ELSE "no_healthy_account")
    BY <2>1 DEF resolveInPool
  <2> QED BY <1>1, <2>2
<1>2. CASE stages # {}
  <2>1. stage \in stages /\ \A l \in stages : stage <= l
    BY <1>0, <1>2, FirstIsMember
  <2>2. stage # 0
    BY <1>0, <2>1
  <2>3. hits # {} /\ hits \in SUBSET (Nat \ {0})
    BY <2>1 DEF StageHits, PassHits
  <2>4. First(hits) \in hits /\ \A j \in hits : First(hits) <= j
    BY <2>3, FirstIsMember
  <2>5. resolveInPool(s, q) = Route(s.members[First(hits)].account)
    BY <2>2 DEF resolveInPool
  <2> QED BY <2>1, <2>4, <2>5
<1> QED BY <1>1, <1>2

\* An account the router answers with has a row and is not excluded.
LEMMA PoolChoice ==
  ASSUME NEW s, NEW q, DOMAIN s.members \subseteq Nat \ {0},
         resolveInPool(s, q).err = "none"
  PROVE  /\ resolveInPool(s, q).account \in DOMAIN s.accounts
         /\ resolveInPool(s, q).account \notin q.exclude
<1>1. s.exists /\ s.enabled
  BY DEF resolveInPool, Refuse
<1>2. PICK k \in DOMAIN Stages(s.policy) : \E i \in StageHits(s, q, k) :
        resolveInPool(s, q) = Route(s.members[i].account)
  BY <1>1, PoolAnswer DEF Refuse
<1>3. PICK i \in StageHits(s, q, k) : resolveInPool(s, q) = Route(s.members[i].account)
  BY <1>2
<1>4. Considered(s, q, s.members[i])
  BY <1>3 DEF StageHits, PassHits
<1> QED BY <1>3, <1>4 DEF Considered, Route

-----------------------------------------------------------------------------
(* One account *)

Decisions(limit) == [routable : BOOLEAN, penalty : 0 .. limit, binding : BOOLEAN]

\* What the decision about a row can be.
LEMMA DecisionShape ==
  ASSUME NEW acc, NEW diag \in BOOLEAN, NEW pinning \in BOOLEAN, NEW loaded \in BOOLEAN
  PROVE  EvaluateAccountRoutability(acc, diag, pinning, loaded) \in Decisions(3)
<1> DEFINE dr == evaluateDiagnosticRoutability(acc, loaded)
           cpa == evaluateCpaRoutability(acc, diag)
           dg == IF diag THEN Routable(0) ELSE dr
           d == EvaluateAccountRoutability(acc, diag, pinning, loaded)
<1>0. Routable(0) \in Decisions(1) /\ Routable(1) \in Decisions(1) /\ Blocked \in Decisions(1)
  BY DEF Routable, Blocked, Decisions
<1>1. dr \in Decisions(1)
  BY <1>0 DEF evaluateDiagnosticRoutability, One
<1>2. cpa \in Decisions(2)
  <2>1. \A n \in 0 .. 2 : Routable(n) \in Decisions(2)
    BY DEF Routable, Decisions
  <2>2. Blocked \in Decisions(2)
    BY DEF Blocked, Decisions
  <2>3. One(acc.cred = "auth_suspect") + One(acc.quota \in {"error", "unknown", "pending"}) \in 0 .. 2
    BY DEF One
  <2> QED BY <2>1, <2>2, <2>3 DEF evaluateCpaRoutability
<1>3. dg \in Decisions(1)
  BY <1>0, <1>1
<1>4. \/ d = Blocked
      \/ d = dg
      \/ d = cpa
      \/ d = [routable |-> pinning, penalty |-> cpa.penalty + dg.penalty, binding |-> ~pinning]
  BY DEF EvaluateAccountRoutability
<1> HIDE DEF dr, cpa, dg, d
<1>5. d \in Decisions(3)
  <2>1. Decisions(1) \subseteq Decisions(3) /\ Decisions(2) \subseteq Decisions(3)
    BY DEF Decisions
  <2>2. cpa.penalty + dg.penalty \in 0 .. 3
    BY <1>2, <1>3 DEF Decisions
  <2>3. [routable |-> pinning, penalty |-> cpa.penalty + dg.penalty, binding |-> ~pinning]
          \in Decisions(3)
    BY <2>2 DEF Decisions
  <2> QED BY <1>0, <1>2, <1>3, <1>4, <2>1, <2>3
<1> QED BY <1>5 DEF d

\* Pinning the runtime makes the accounts routable that were blocked for want of
\* it, and changes nothing for the others.
LEMMA PinningHelps ==
  ASSUME NEW acc, NEW pinning \in BOOLEAN, NEW loaded \in BOOLEAN
  PROVE  LET d == EvaluateAccountRoutability(acc, FALSE, pinning, loaded)
             p == EvaluateAccountRoutability(acc, FALSE, TRUE, loaded)
         IN (p.routable <=> d.routable \/ d.binding) /\ (d.binding => ~d.routable)
<1> DEFINE dr == evaluateDiagnosticRoutability(acc, loaded)
           cpa == evaluateCpaRoutability(acc, FALSE)
<1>0. Blocked.routable = FALSE /\ Blocked.binding = FALSE
  BY DEF Blocked
<1>1. dr.routable \in BOOLEAN /\ dr.binding = FALSE
  BY DEF evaluateDiagnosticRoutability, Blocked, Routable
<1>2. cpa.routable \in BOOLEAN /\ cpa.binding = FALSE
  BY DEF evaluateCpaRoutability, Blocked, Routable
<1> HIDE DEF dr, cpa
<1> QED BY <1>0, <1>1, <1>2 DEF EvaluateAccountRoutability, dr, cpa

-----------------------------------------------------------------------------
(* The two decisions of the code *)

\* The flags of a row are Booleans and its scheduler status one that
\* diagnostics.go writes; nothing else is asked of the other columns.
FlagsTyped(acc) ==
  /\ acc.enabled \in BOOLEAN /\ acc.codex \in BOOLEAN
  /\ acc.diagnosed \in BOOLEAN /\ acc.override \in BOOLEAN
  /\ acc.sched \in SchedValues

\* The diagnostic part: what evaluateDiagnosticRoutability refuses is what
\* the NOT EXISTS of the SQL refuses.
LEMMA DiagnosticAgrees ==
  ASSUME NEW acc, FlagsTyped(acc)
  PROVE  evaluateDiagnosticRoutability(acc, TRUE).routable
           <=> ~(acc.diagnosed /\ (\/ acc.sched \notin {"eligible", "eligible_with_warning"}
                                   \/ ~acc.override /\ acc.stable \in StableBlocks))
  BY DEF FlagsTyped, SchedValues, evaluateDiagnosticRoutability, Blocked, Routable, One,
         diagnosticStableStatusRequiresIneligible, diagnosticWarningShouldPenalize

\* The CPA part, without the runtime binding.
LEMMA CpaAgrees ==
  ASSUME NEW acc, FlagsTyped(acc)
  PROVE  evaluateCpaRoutability(acc, FALSE).routable
           <=> /\ acc.cred \notin CredentialBlocks
               /\ acc.quota # "blocked"
               /\ ~model429(acc)
               /\ ~acc.codex \/ acc.access = "eligible"
  BY DEF FlagsTyped, evaluateCpaRoutability, Blocked, Routable, One

\* On any row whose flags are flags, whatever its other columns hold, the SQL
\* condition of store/pools.go is the decision of store/routability.go.
THEOREM DecisionsAgree ==
  ASSUME NEW acc, FlagsTyped(acc), NEW pinning \in BOOLEAN
  PROVE  accountRoutableWhereSQL(acc, pinning)
           <=> EvaluateAccountRoutability(acc, FALSE, pinning, TRUE).routable
<1> DEFINE diag == evaluateDiagnosticRoutability(acc, TRUE)
           cpa  == evaluateCpaRoutability(acc, FALSE)
<1>1. EvaluateAccountRoutability(acc, FALSE, pinning, TRUE).routable
        <=> /\ acc.enabled
            /\ acc.status \in {"healthy", "degraded"}
            /\ diag.routable
            /\ ~(acc.serving = "cooldown" /\ acc.cooldown # "past")
            /\ acc.serving # "error"
            /\ acc.kind # "cpa" \/ (cpa.routable /\ pinning)
  <2>1. CASE acc.kind # "cpa"
    BY <2>1 DEF EvaluateAccountRoutability, Blocked
  <2>2. CASE acc.kind = "cpa"
    BY <2>2 DEF EvaluateAccountRoutability, Blocked
  <2> QED BY <2>1, <2>2
<1>2. diag.routable <=> ~(acc.diagnosed /\ (\/ acc.sched \notin {"eligible", "eligible_with_warning"}
                                            \/ ~acc.override /\ acc.stable \in StableBlocks))
  BY DiagnosticAgrees
<1>3. cpa.routable <=> /\ acc.cred \notin CredentialBlocks
                       /\ acc.quota # "blocked"
                       /\ ~model429(acc)
                       /\ ~acc.codex \/ acc.access = "eligible"
  BY CpaAgrees
<1> HIDE DEF diag, cpa
<1> QED BY <1>1, <1>2, <1>3 DEF accountRoutableWhereSQL, FlagsTyped

=============================================================================
