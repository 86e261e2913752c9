-------------------------- MODULE RetryWalkProofs --------------------------
(***************************************************************************)
(* Proofs about the walk of a request over the accounts of its pool, for   *)
(* any pool, rows and model lists, and about what the console says of an   *)
(* account and of a pool.                                                  *)
(***************************************************************************)
EXTENDS RetryWalk, ConsoleView, RouterProofs, FiniteSetTheorems

-----------------------------------------------------------------------------
(* The snapshot of a walk *)

Members == [account : Accounts, enabled : BOOLEAN]

Snapshots ==
  [exists : {TRUE}, enabled : BOOLEAN, policy : Policies,
   members : [DOMAIN Order -> Members], accounts : UNION {[D -> Rows] : D \in SUBSET Accounts},
   loaded : BOOLEAN, index : [Accounts -> SUBSET Models], pinning : BOOLEAN]

\* The members are the accounts of Order, in its order.
InOrder == \A i \in DOMAIN Order : s.members[i].account = Order[i]

WalkTyped ==
  /\ s \in Snapshots
  /\ InOrder
  /\ diagnostic \in BOOLEAN

\* What a walk begins with.
LEMMA InitTyped == Init => WalkTyped
<1> SUFFICES ASSUME Init PROVE WalkTyped
  OBVIOUS
<1>1. PICK off \in Off, gone \in Gone, policy \in Policies, pin \in BOOLEAN, load \in BOOLEAN,
           on \in BOOLEAN : \E acc \in [Accounts \ gone -> Rows], idx \in [Accounts -> Lists] :
        /\ (load /\ on) \/ (off = {} /\ gone = {} /\ pin)
        /\ s = [exists |-> TRUE, enabled |-> on, policy |-> policy,
                members |-> [i \in DOMAIN Order |->
                   [account |-> Order[i], enabled |-> Order[i] \notin off]],
                accounts |-> acc, loaded |-> load, index |-> idx, pinning |-> pin]
  BY Zenon DEF Init
<1>2. PICK acc \in [Accounts \ gone -> Rows], idx \in [Accounts -> Lists] :
        s = [exists |-> TRUE, enabled |-> on, policy |-> policy,
             members |-> [i \in DOMAIN Order |->
                [account |-> Order[i], enabled |-> Order[i] \notin off]],
             accounts |-> acc, loaded |-> load, index |-> idx, pinning |-> pin]
  BY <1>1
<1> DEFINE mem == [i \in DOMAIN Order |-> [account |-> Order[i], enabled |-> Order[i] \notin off]]
<1>3. mem \in [DOMAIN Order -> Members] /\ \A i \in DOMAIN Order : mem[i].account = Order[i]
  BY OrderAssumption DEF Members
<1>4. acc \in UNION {[D -> Rows] : D \in SUBSET Accounts}
  OBVIOUS
<1>5. idx \in [Accounts -> SUBSET Models]
  BY ListsAssumption
<1> HIDE DEF mem
<1>6. s = [exists |-> TRUE, enabled |-> on, policy |-> policy, members |-> mem,
           accounts |-> acc, loaded |-> load, index |-> idx, pinning |-> pin]
  BY <1>2 DEF mem
<1>7. s \in Snapshots /\ s.members = mem
  BY <1>3, <1>4, <1>5, <1>6 DEF Snapshots
<1>8. diagnostic \in BOOLEAN
  BY DEF Init
<1> QED BY <1>3, <1>7, <1>8 DEF WalkTyped, InOrder

\* The members of the snapshot, and the places of a pool.
LEMMA SnapshotFacts ==
  ASSUME WalkTyped
  PROVE  /\ s.exists = TRUE /\ s.members \in [DOMAIN Order -> Members]
         /\ \A i \in DOMAIN Order : s.members[i].account = Order[i]
         /\ DOMAIN Order \subseteq Nat \ {0}
<1>1. s.exists = TRUE /\ s.members \in [DOMAIN Order -> Members]
  BY DEF WalkTyped, Snapshots
<1>2. \A i \in DOMAIN Order : s.members[i].account = Order[i]
  BY DEF WalkTyped, InOrder
<1>3. DOMAIN Order \subseteq Nat \ {0}
  BY OrderAssumption
<1> QED BY <1>1, <1>2, <1>3

\* Position is the index of the account's only member.
LEMMA PositionOf ==
  ASSUME WalkTyped, NEW i \in DOMAIN Order
  PROVE  Position(Order[i]) = i
<1>1. DOMAIN s.members = DOMAIN Order
  BY DEF WalkTyped, Snapshots
<1>2. \A j \in DOMAIN Order : s.members[j].account = Order[i] <=> j = i
  BY OrderAssumption DEF WalkTyped, InOrder, IsInjective
<1> QED BY <1>1, <1>2 DEF Position

-----------------------------------------------------------------------------
(* The passes against the reference order *)

\* The pass in which the router looks for an account.
PassOf(a) ==
  IF s.policy = "ordered" THEN 1 + MatchClass(a) ELSE 1 + 3 * MatchClass(a) + PenaltyClass(a)

\* May the router pick the member, whatever the pass?
Candidate(q, i) ==
  LET a == s.members[i].account
  IN /\ Considered(s, q, s.members[i])
     /\ accountRoutable(s, a, q.diagnostic)
     /\ accountModelMatch(s, a, q.model) # "mismatch"

(* The class of a penalty, as a case distinction on the penalty. *)
LEMMA PenaltyClassIs ==
  ASSUME WalkTyped, NEW a
  PROVE  LET p == accountDecision(s, a, diagnostic).penalty
         IN /\ p \in 0 .. 3
            /\ PenaltyClass(a) = IF s.policy = "ordered" THEN 0 ELSE IF p <= 2 THEN p ELSE 2
<1> DEFINE p == accountDecision(s, a, diagnostic).penalty
<1>1. s.pinning \in BOOLEAN /\ s.loaded \in BOOLEAN /\ diagnostic \in BOOLEAN
  BY DEF WalkTyped, Snapshots
<1>2. p \in 0 .. 3
  BY <1>1, DecisionShape DEF accountDecision, Decisions
<1> HIDE DEF p
<1>3. Min({p, 2}) = IF p <= 2 THEN p ELSE 2
  BY <1>2 DEF Min
<1> QED BY <1>2, <1>3 DEF PenaltyClass, p

\* A pass accepts a candidate when its limits do; the first that does is PassOf.
LEMMA PassOfIsFirst ==
  ASSUME WalkTyped, NEW ex, NEW i \in DOMAIN Order,
         Candidate(Query(diagnostic, ex), i)
  PROVE  LET q == Query(diagnostic, ex) IN
         /\ PassOf(Order[i]) \in DOMAIN Stages(s.policy)
         /\ i \in StageHits(s, q, PassOf(Order[i]))
         /\ \A k \in DOMAIN Stages(s.policy) : i \in StageHits(s, q, k) => PassOf(Order[i]) <= k
<1> DEFINE q == Query(diagnostic, ex)
           a == Order[i]
           p == accountDecision(s, a, diagnostic).penalty
           match == accountModelMatch(s, a, model)
           N == DOMAIN Stages(s.policy)
<1>1. /\ DOMAIN s.members = DOMAIN Order /\ s.members[i].account = a
      /\ s.policy \in Policies /\ q.diagnostic = diagnostic /\ q.model = model
  BY DEF WalkTyped, Snapshots, InOrder, Query
<1>2. p \in 0 .. 3 /\ PenaltyClass(a) = IF s.policy = "ordered" THEN 0 ELSE IF p <= 2 THEN p ELSE 2
  BY PenaltyClassIs
<1>3. /\ match \in {"explicit", "unknown"}
      /\ MatchClass(a) = IF match = "unknown" THEN 1 ELSE 0
  BY <1>1 DEF Candidate, accountModelMatch, MatchClass
<1>4. \A k : i \in StageHits(s, q, k)
        <=> match = Stages(s.policy)[k][1] /\ p <= Stages(s.policy)[k][2]
  BY <1>1 DEF StageHits, PassHits, Candidate
<1> HIDE DEF q, a, p, match
<1>5. CASE s.policy = "ordered"
  <2>1. \A k \in 1 .. 2 : i \in StageHits(s, q, k) <=> match = IF k = 1 THEN "explicit" ELSE "unknown"
    BY <1>2, <1>4, <1>5, StagesOrdered DEF NoLimit
  <2>2. PassOf(a) = 1 + MatchClass(a)
    BY <1>5 DEF PassOf
  <2>3. PassOf(a) \in 1 .. 2 /\ (PassOf(a) = 1 <=> match = "explicit")
    BY <1>3, <2>2
  <2>4. N = 1 .. 2
    BY <1>5, StagesOrdered
  <2>5. i \in StageHits(s, q, PassOf(a))
    BY <1>3, <2>1, <2>3
  <2>6. \A k \in 1 .. 2 : i \in StageHits(s, q, k) => PassOf(a) <= k
    BY <1>3, <2>1, <2>3
  <2> QED BY <2>3, <2>4, <2>5, <2>6 DEF q, a
<1>6. CASE s.policy = "health_first"
  <2>1. \A k \in 1 .. 3 :
          /\ i \in StageHits(s, q, k) <=> match = "explicit" /\ p <= HealthFirstLimits[k]
          /\ i \in StageHits(s, q, 3 + k) <=> match = "unknown" /\ p <= HealthFirstLimits[k]
    <3> SUFFICES ASSUME NEW k \in 1 .. 3
                 PROVE  /\ i \in StageHits(s, q, k) <=> match = "explicit" /\ p <= HealthFirstLimits[k]
                        /\ i \in StageHits(s, q, 3 + k)
                             <=> match = "unknown" /\ p <= HealthFirstLimits[k]
      OBVIOUS
    <3>1. Stages(s.policy)[k] = <<"explicit", HealthFirstLimits[k]>>
      BY <1>6, StagesHealthFirst
    <3>2. Stages(s.policy)[3 + k] = <<"unknown", HealthFirstLimits[k]>>
      BY <1>6, StagesHealthFirst
    <3>3. /\ i \in StageHits(s, q, k)
               <=> match = Stages(s.policy)[k][1] /\ p <= Stages(s.policy)[k][2]
          /\ i \in StageHits(s, q, 3 + k)
               <=> match = Stages(s.policy)[3 + k][1] /\ p <= Stages(s.policy)[3 + k][2]
      BY <1>4, Zenon
    <3> HIDE DEF N
    <3> QED BY <3>1, <3>2, <3>3
  <2>2. HealthFirstLimits[1] = 0 /\ HealthFirstLimits[2] = 1 /\ HealthFirstLimits[3] = 999
    BY DEF HealthFirstLimits, NoLimit
  <2>3. PenaltyClass(a) = (IF p <= 2 THEN p ELSE 2)
    BY <1>2, <1>6
  <2>4. PassOf(a) = 1 + 3 * MatchClass(a) + PenaltyClass(a)
    BY <1>6 DEF PassOf
  <2>5. N = 1 .. 6
    BY <1>6, StagesHealthFirst
  <2> DEFINE c == 1 + PenaltyClass(a)
  <2>6. /\ c \in 1 .. 3 /\ p <= HealthFirstLimits[c]
        /\ \A k \in 1 .. 3 : p <= HealthFirstLimits[k] => c <= k
    BY <1>2, <2>2, <2>3
  <2> HIDE DEF c
  <2>7. CASE match = "explicit"
    <3>1. PassOf(a) = c
      BY <1>2, <1>3, <2>3, <2>4, <2>7 DEF c
    <3>2. \A k \in 1 .. 3 : i \notin StageHits(s, q, 3 + k)
      BY <2>1, <2>7
    <3>3. \A k \in 4 .. 6 : i \notin StageHits(s, q, k)
      <4> SUFFICES ASSUME NEW k \in 4 .. 6 PROVE i \notin StageHits(s, q, k)
        OBVIOUS
      <4>1. k - 3 \in 1 .. 3 /\ 3 + (k - 3) = k
        OBVIOUS
      <4> QED BY <3>2, <4>1
    <3>4. i \in StageHits(s, q, c) /\ \A k \in 1 .. 3 : i \in StageHits(s, q, k) => c <= k
      BY <2>1, <2>6, <2>7
    <3>5. \A k \in 1 .. 6 : i \in StageHits(s, q, k) => c <= k
      <4> SUFFICES ASSUME NEW k \in 1 .. 6, i \in StageHits(s, q, k) PROVE c <= k
        OBVIOUS
      <4>1. k \in 1 .. 3
        BY <3>3
      <4> QED BY <3>4, <4>1
    <3>6. c \in 1 .. 6
      BY <2>6
    <3> QED BY <2>5, <3>1, <3>4, <3>5, <3>6 DEF q, a
  <2>8. CASE match = "unknown"
    <3>1. PassOf(a) = 3 + c
      BY <1>2, <1>3, <2>3, <2>4, <2>8 DEF c
    <3>2. \A k \in 1 .. 3 : i \notin StageHits(s, q, k)
      BY <2>1, <2>8
    <3>3. i \in StageHits(s, q, 3 + c) /\ \A k \in 1 .. 3 : i \in StageHits(s, q, 3 + k) => c <= k
      BY <2>1, <2>6, <2>8
    <3>4. \A k \in 1 .. 6 : i \in StageHits(s, q, k) => 3 + c <= k
      <4> SUFFICES ASSUME NEW k \in 1 .. 6, i \in StageHits(s, q, k) PROVE 3 + c <= k
        OBVIOUS
      <4>1. k - 3 \in 1 .. 3 /\ 3 + (k - 3) = k
        BY <3>2
      <4>2. c <= k - 3
        BY <3>3, <4>1
      <4> QED BY <2>6, <4>2
    <3>5. 3 + c \in 1 .. 6
      BY <2>6
    <3> QED BY <2>5, <3>1, <3>3, <3>4, <3>5 DEF q, a
  <2> QED BY <1>3, <2>7, <2>8
<1> QED BY <1>1, <1>5, <1>6 DEF Policies

\* Two candidates: the one of an earlier pass is better, and in one pass the one
\* that comes first.
LEMMA PassesSort ==
  ASSUME WalkTyped, NEW i \in DOMAIN Order, NEW j \in DOMAIN Order,
         \/ PassOf(Order[i]) < PassOf(Order[j])
         \/ PassOf(Order[i]) = PassOf(Order[j]) /\ i < j
  PROVE  Better(Order[i], Order[j])
<1> DEFINE a == Order[i]
           b == Order[j]
<1>1. \A x : MatchClass(x) \in 0 .. 1
  BY DEF MatchClass
<1>2. \A x : PenaltyClass(x) \in 0 .. 2 /\ (s.policy = "ordered" => PenaltyClass(x) = 0)
  BY PenaltyClassIs
<1>3. Position(a) = i /\ Position(b) = j
  BY PositionOf
<1> HIDE DEF a, b
<1>4. /\ MatchClass(a) \in 0 .. 1 /\ PenaltyClass(a) \in 0 .. 2
      /\ MatchClass(b) \in 0 .. 1 /\ PenaltyClass(b) \in 0 .. 2
  BY <1>1, <1>2
<1>5. PassOf(a) < PassOf(b) =>
        \/ MatchClass(a) < MatchClass(b)
        \/ MatchClass(a) = MatchClass(b) /\ PenaltyClass(a) < PenaltyClass(b)
  BY <1>2, <1>4 DEF PassOf
<1>6. PassOf(a) = PassOf(b) => MatchClass(a) = MatchClass(b) /\ PenaltyClass(a) = PenaltyClass(b)
  BY <1>2, <1>4 DEF PassOf
<1>7. \/ PassOf(a) < PassOf(b)
      \/ PassOf(a) = PassOf(b) /\ i < j
  BY DEF a, b
<1> QED BY <1>3, <1>5, <1>6, <1>7 DEF Better, a, b

\* The candidates of the router are the usable accounts that are not excluded.
LEMMA CandidatesAreUsable ==
  ASSUME WalkTyped, s.enabled, NEW ex
  PROVE  LET q == Query(diagnostic, ex) IN
         /\ \A i \in DOMAIN Order : Candidate(q, i) <=> Order[i] \in Usable \ ex
                                      /\ s.members[i].enabled
         /\ \A a \in Usable : \E i \in DOMAIN Order : Order[i] = a /\ s.members[i].enabled
<1> DEFINE q == Query(diagnostic, ex)
<1>1. /\ s.exists = TRUE /\ s.members \in [DOMAIN Order -> Members]
      /\ q.diagnostic = diagnostic /\ q.model = model /\ q.exclude = ex
      /\ \A i \in DOMAIN Order : s.members[i].account = Order[i]
  BY DEF WalkTyped, Snapshots, InOrder, Query
<1> HIDE DEF q
<1>2. ASSUME NEW a, NEW i \in DOMAIN Order
      PROVE  s.members[i] = [account |-> a, enabled |-> TRUE]
               <=> Order[i] = a /\ s.members[i].enabled
  <2>1. s.members[i] \in Members /\ s.members[i].account = Order[i]
    BY <1>1
  <2>2. \A m \in Members : m.enabled => m = [account |-> m.account, enabled |-> TRUE]
    BY DEF Members
  <2>3. ASSUME s.members[i] = [account |-> a, enabled |-> TRUE]
        PROVE  s.members[i].account = a /\ s.members[i].enabled
    BY <2>3
  <2> QED BY <2>1, <2>2, <2>3
<1>3. ASSUME NEW i \in DOMAIN Order, s.members[i].enabled
      PROVE  [account |-> Order[i], enabled |-> TRUE] \in ToSet(s.members)
  BY <1>1, <1>2, <1>3 DEF ToSet
<1>4. ASSUME NEW i \in DOMAIN Order
      PROVE  Candidate(q, i) <=> Order[i] \in Usable \ ex /\ s.members[i].enabled
  <2>1. accountRoutable(s, Order[i], diagnostic)
          = EvaluateAccountRoutability(s.accounts[Order[i]], diagnostic, s.pinning, s.loaded).routable
    BY DEF accountRoutable, accountDecision
  <2>2. accountModelMatch(s, Order[i], model) # "mismatch"
          <=> s.index[Order[i]] = {} \/ model \in s.index[Order[i]]
    BY DEF accountModelMatch
  <2> QED BY <1>1, <1>3, <2>1, <2>2 DEF Candidate, Considered, Usable
<1>5. ASSUME NEW a \in Usable
      PROVE  \E i \in DOMAIN Order : Order[i] = a /\ s.members[i].enabled
  <2>1. [account |-> a, enabled |-> TRUE] \in ToSet(s.members)
    BY DEF Usable
  <2>2. PICK i \in DOMAIN s.members : s.members[i] = [account |-> a, enabled |-> TRUE]
    BY <2>1 DEF ToSet
  <2> QED BY <1>1, <1>2, <2>2
<1> QED BY <1>4, <1>5 DEF q

\* No pass looks for accounts that do not have the model.
LEMMA StagesMatch ==
  ASSUME NEW policy \in Policies, NEW k \in DOMAIN Stages(policy)
  PROVE  Stages(policy)[k][1] # "mismatch"
<1>1. CASE policy = "ordered"
  BY <1>1, StagesOrdered
<1>2. CASE policy = "health_first"
  <2>1. k \in 1 .. 6
    BY <1>2, StagesHealthFirst
  <2>2. CASE k \in 1 .. 3
    BY <1>2, <2>2, StagesHealthFirst
  <2>3. CASE k \in 4 .. 6
    <3>1. k - 3 \in 1 .. 3 /\ 3 + (k - 3) = k
      BY <2>3
    <3>2. Stages("health_first")[3 + (k - 3)] = <<"unknown", HealthFirstLimits[k - 3]>>
      BY <3>1, StagesHealthFirst
    <3> QED BY <1>2, <3>1, <3>2
  <2> QED BY <2>1, <2>2, <2>3
<1> QED BY <1>1, <1>2 DEF Policies

\* The router answers with the best of the usable accounts that are not excluded,
\* and refuses only when there is none.
LEMMA BestChoice ==
  ASSUME WalkTyped, NEW ex
  PROVE  LET r == resolveInPool(s, Query(diagnostic, ex)) IN
         /\ r.err = "none" =>
              /\ r.account \in Usable \ ex
              /\ \A b \in (Usable \ ex) \ {r.account} : Better(r.account, b)
         /\ r.err # "none" => Usable \subseteq ex
<1> DEFINE q == Query(diagnostic, ex)
           r == resolveInPool(s, q)
           N == DOMAIN Stages(s.policy)
<1>1. /\ s.exists = TRUE /\ DOMAIN s.members = DOMAIN Order
      /\ \A i \in DOMAIN Order : s.members[i].account = Order[i]
      /\ DOMAIN Order \subseteq Nat \ {0}
  BY SnapshotFacts
<1>2. CASE ~s.enabled
  <2>1. r.err # "none"
    BY <1>2 DEF resolveInPool, Refuse
  <2>2. Usable = {}
    BY <1>2 DEF Usable
  <2> QED BY <2>1, <2>2
<1>3. CASE s.enabled
  <2>1. \A k \in N : \A i \in StageHits(s, q, k) : i \in DOMAIN Order /\ Candidate(q, i)
    <3>1. \A k \in N : Stages(s.policy)[k][1] # "mismatch"
      BY StagesMatch DEF WalkTyped, Snapshots
    <3> QED BY <1>1, <3>1 DEF StageHits, PassHits, Candidate
  <2> HIDE DEF q
  <2>2. ASSUME NEW b \in Usable \ ex
        PROVE  \E j \in DOMAIN Order : /\ Order[j] = b
                                       /\ PassOf(b) \in N
                                       /\ j \in StageHits(s, q, PassOf(b))
    <3>1. PICK j \in DOMAIN Order : Order[j] = b /\ s.members[j].enabled
      BY <1>3, CandidatesAreUsable
    <3>2. Candidate(q, j)
      BY <1>3, <3>1, CandidatesAreUsable DEF q
    <3> QED BY <3>1, <3>2, PassOfIsFirst DEF q
  <2>3. ASSUME \A k \in N : StageHits(s, q, k) = {},
               r = Refuse(IF runtimeBindingBlocked(s, q) THEN "runtime_binding"
                          ELSE "no_healthy_account")
        PROVE  Usable \subseteq ex /\ r.err # "none"
    <3>1. Usable \subseteq ex
      BY <2>2, <2>3
    <3>2. r.err # "none"
      BY <2>3 DEF Refuse
    <3> QED BY <3>1, <3>2
  <2>4. ASSUME NEW k \in N, NEW i \in StageHits(s, q, k),
               r = Route(s.members[i].account),
               \A l \in N : StageHits(s, q, l) # {} => k <= l,
               \A j \in StageHits(s, q, k) : i <= j
        PROVE  /\ r.err = "none" /\ r.account \in Usable \ ex
               /\ \A b \in (Usable \ ex) \ {r.account} : Better(r.account, b)
    <3>1. i \in DOMAIN Order /\ Candidate(q, i)
      BY <2>1, <2>4
    <3>2. r.err = "none" /\ r.account = Order[i]
      BY <1>1, <2>4, <3>1 DEF Route
    <3>3. Order[i] \in Usable \ ex
      BY <1>3, <3>1, CandidatesAreUsable DEF q
    <3>4. PassOf(Order[i]) = k
      <4>1. /\ PassOf(Order[i]) \in N /\ i \in StageHits(s, q, PassOf(Order[i]))
            /\ PassOf(Order[i]) <= k
        BY <2>4, <3>1, PassOfIsFirst DEF q
      <4>2. k <= PassOf(Order[i])
        BY <2>4, <4>1
      <4>3. N \subseteq Nat
        BY StagesDomain
      <4> QED BY <4>1, <4>2, <4>3
    <3>5. ASSUME NEW b \in (Usable \ ex) \ {Order[i]} PROVE Better(Order[i], b)
      <4>1. PICK j \in DOMAIN Order : /\ Order[j] = b
                                      /\ PassOf(b) \in N
                                      /\ j \in StageHits(s, q, PassOf(b))
        BY <2>2
      <4>2. k <= PassOf(b)
        BY <2>4, <4>1
      <4>3. i # j /\ i \in Nat /\ j \in Nat
        BY <1>1, <3>1, <4>1
      <4>4. k = PassOf(b) => i < j
        BY <2>4, <4>1, <4>3
      <4>5. N \subseteq Nat
        BY StagesDomain
      <4>6. \/ PassOf(Order[i]) < PassOf(Order[j])
            \/ PassOf(Order[i]) = PassOf(Order[j]) /\ i < j
        BY <3>4, <4>1, <4>2, <4>4, <4>5
      <4> QED BY <3>1, <4>1, <4>6, PassesSort
    <3> QED BY <3>2, <3>3, <3>5
  <2>5. \/ /\ \A k \in N : StageHits(s, q, k) = {}
           /\ r = Refuse(IF runtimeBindingBlocked(s, q) THEN "runtime_binding"
                         ELSE "no_healthy_account")
        \/ \E k \in N : \E i \in StageHits(s, q, k) :
              /\ r = Route(s.members[i].account)
              /\ \A l \in N : StageHits(s, q, l) # {} => k <= l
              /\ \A j \in StageHits(s, q, k) : i <= j
    BY <1>1, <1>3, PoolAnswer
  <2> HIDE DEF r
  <2>6. /\ r.err = "none" => /\ r.account \in Usable \ ex
                             /\ \A b \in (Usable \ ex) \ {r.account} : Better(r.account, b)
        /\ r.err # "none" => Usable \subseteq ex
    <3>1. CASE \E k \in N : \E i \in StageHits(s, q, k) :
                 /\ r = Route(s.members[i].account)
                 /\ \A l \in N : StageHits(s, q, l) # {} => k <= l
                 /\ \A j \in StageHits(s, q, k) : i <= j
      BY <2>4, <3>1, Zenon
    <3> QED BY <2>3, <2>5, <3>1, Zenon
  <2> QED BY <2>6 DEF r, q
<1> QED BY <1>2, <1>3

-----------------------------------------------------------------------------
(* The walk *)

\* A request that may go on is an ordinary one; one that was refused was refused
\* by what the router says of the snapshot and of the accounts it had tried.
WalkInv ==
  /\ WalkTyped
  /\ tried \in Seq(Accounts)
  /\ BestFirst
  /\ err = "walking" /\ tried # <<>> => target = NoAccount /\ ~diagnostic
  /\ err \notin {"walking", "single"} /\ target # NoAccount =>
       tried = <<>> /\ err = resolveToAccount(s, Query(diagnostic, {}), target).err
  /\ err \notin {"walking", "single"} /\ target = NoAccount /\ ~diagnostic =>
       err # "none" /\ err = resolveInPool(s, Query(FALSE, ToSet(tried))).err

\* Nothing was tried at first.
LEMMA EmptyToSet == ToSet(<<>>) = {}
BY DEF ToSet

\* The reference order is one of the snapshot.
LEMMA OrderStays ==
  ASSUME UNCHANGED <<s, diagnostic>>
  PROVE  Usable' = Usable /\ \A x, y : Better(x, y)' <=> Better(x, y)
<1>1. Usable' = Usable
  BY DEF Usable
<1>2. \A x : MatchClass(x)' = MatchClass(x) /\ PenaltyClass(x)' = PenaltyClass(x)
               /\ Position(x)' = Position(x)
  BY DEF MatchClass, PenaltyClass, Position
<1>3. \A x, y : Better(x, y)' <=> Better(x, y)
  BY <1>2 DEF Better
<1> QED BY <1>1, <1>3

\* So a walk that stands still stays sorted.
LEMMA BestFirstStays ==
  ASSUME BestFirst, UNCHANGED <<s, diagnostic, target, tried>>
  PROVE  BestFirst'
BY OrderStays, Zenon DEF BestFirst

\* A walk that visits the best of what is left stays sorted.
LEMMA BestFirstGrows ==
  ASSUME WalkInv, NEW a \in Usable \ ToSet(tried), target = NoAccount,
         \A b \in (Usable \ ToSet(tried)) \ {a} : Better(a, b),
         tried' = Append(tried, a), UNCHANGED <<s, diagnostic, target>>
  PROVE  tried' \in Seq(Accounts) /\ BestFirst'
<1>1. a \in Accounts
  BY DEF Usable, WalkInv, WalkTyped, Snapshots
<1>2. tried \in Seq(Accounts)
  BY DEF WalkInv
<1> DEFINE n == Len(tried)
<1>3. /\ tried' \in Seq(Accounts) /\ n \in Nat /\ DOMAIN tried = 1 .. n
      /\ DOMAIN tried' = 1 .. n + 1 /\ tried'[n + 1] = a
      /\ \A i \in 1 .. n : tried'[i] = tried[i]
  BY <1>1, <1>2
<1>4. ToSet(tried) = {tried[j] : j \in 1 .. n} /\ ToSet(tried') = {tried'[j] : j \in 1 .. n + 1}
  BY <1>3 DEF ToSet
<1> HIDE DEF n
<1>5. ToSet(tried') = ToSet(tried) \cup {a}
  <2>1. 1 .. n + 1 = (1 .. n) \cup {n + 1}
    BY <1>3
  <2> QED BY <1>3, <1>4, <2>1
<1>6. Usable' = Usable /\ \A x, y : Better(x, y)' <=> Better(x, y)
  BY OrderStays
<1>7. /\ ToSet(tried) \subseteq Usable /\ IsInjective(tried)
      /\ \A i \in DOMAIN tried : \A b \in Usable \ {tried[j] : j \in 1 .. i} : Better(tried[i], b)
  BY DEF WalkInv, BestFirst
<1>8. ToSet(tried') \subseteq Usable
  BY <1>5, <1>7
<1>9. IsInjective(tried')
  <2>1. \A i \in 1 .. n : tried[i] # a
    BY <1>4
  <2>2. \A i, j \in 1 .. n : tried[i] = tried[j] => i = j
    BY <1>3, <1>7 DEF IsInjective
  <2>3. \A i \in 1 .. n + 1 : i \in 1 .. n \/ i = n + 1
    BY <1>3
  <2> QED BY <1>3, <2>1, <2>2, <2>3 DEF IsInjective
<1>10. ASSUME NEW i \in 1 .. n + 1, NEW b \in Usable \ {tried'[j] : j \in 1 .. i}
       PROVE  Better(tried'[i], b)
  <2>1. CASE i \in 1 .. n
    <3>1. {tried'[j] : j \in 1 .. i} = {tried[j] : j \in 1 .. i}
      <4>1. \A j \in 1 .. i : j \in 1 .. n
        BY <1>3, <2>1
      <4> QED BY <1>3, <4>1
    <3> QED BY <1>3, <1>7, <1>10, <2>1, <3>1
  <2>2. CASE i = n + 1
    <3>1. b \in (Usable \ ToSet(tried)) \ {a}
      BY <1>4, <1>5, <1>10, <2>2
    <3> QED BY <1>3, <2>2, <3>1
  <2> QED BY <1>3, <2>1, <2>2
<1> QED BY <1>3, <1>6, <1>8, <1>9, <1>10 DEF BestFirst

\* What one answer of the pool does to the walk.
LEMMA PoolStep ==
  ASSUME WalkInv, NEW single \in BOOLEAN, target = NoAccount, err = "walking",
         single = diagnostic, single => tried = <<>>,
         Took(resolveInPool(s, Query(diagnostic, ToSet(tried))), single),
         UNCHANGED <<s, diagnostic, target>>
  PROVE  WalkInv'
<1> DEFINE r == resolveInPool(s, Query(diagnostic, ToSet(tried)))
<1>1. WalkTyped /\ WalkTyped'
  BY DEF WalkInv, WalkTyped, InOrder
<1>2. CASE r.err # "none"
  <2>1. err' = r.err /\ tried' = tried
    BY <1>2 DEF Took
  <2>2. tried' \in Seq(Accounts) /\ BestFirst'
    BY <2>1, BestFirstStays DEF WalkInv
  <2>3. ~diagnostic => r = resolveInPool(s, Query(FALSE, ToSet(tried)))
    BY DEF WalkInv, WalkTyped, Query
  <2>4. err' = "walking" /\ tried' # <<>> => ~diagnostic'
    BY <2>1
  <2>5. ~diagnostic' => err' = resolveInPool(s, Query(FALSE, ToSet(tried)))'.err
    BY <2>1, <2>3
  <2>6. err' # "none"
    BY <1>2, <2>1
  <2> HIDE DEF r
  <2> QED BY <1>1, <2>2, <2>4, <2>5, <2>6 DEF WalkInv
<1>3. CASE r.err = "none"
  <2>1. tried' = Append(tried, r.account) /\ err' = IF single THEN "single" ELSE "walking"
    BY <1>3 DEF Took
  <2>2. r.account \in Usable \ ToSet(tried)
        /\ \A b \in (Usable \ ToSet(tried)) \ {r.account} : Better(r.account, b)
    BY <1>1, <1>3, BestChoice
  <2> HIDE DEF r
  <2>3. tried' \in Seq(Accounts) /\ BestFirst'
    BY <2>1, <2>2, BestFirstGrows
  <2>4. err' \in {"walking", "single"} /\ (err' = "walking" => ~diagnostic')
    BY <2>1
  <2> QED BY <1>1, <2>3, <2>4 DEF WalkInv
<1> QED BY <1>2, <1>3

\* What the answer for a forced account does.
LEMMA ForcedStep ==
  ASSUME WalkInv, target # NoAccount, tried = <<>>,
         Took(resolveToAccount(s, Query(diagnostic, {}), target), TRUE),
         UNCHANGED <<s, diagnostic, target>>
  PROVE  WalkInv'
<1> DEFINE r == resolveToAccount(s, Query(diagnostic, {}), target)
<1>1. WalkTyped /\ WalkTyped'
  BY DEF WalkInv, WalkTyped, InOrder
<1>2. BestFirst'
  BY DEF BestFirst
<1>3. CASE r.err # "none"
  <2>1. err' = r.err /\ tried' = tried
    BY <1>3 DEF Took
  <2>2. tried' \in Seq(Accounts)
    BY <2>1 DEF WalkInv
  <2>3. err' = resolveToAccount(s, Query(diagnostic, {}), target)'.err
    BY <2>1
  <2> HIDE DEF r
  <2> QED BY <1>1, <1>2, <2>1, <2>2, <2>3 DEF WalkInv
<1>4. CASE r.err = "none"
  <2>1. tried' = Append(tried, r.account) /\ err' = "single"
    BY <1>4 DEF Took
  <2>2. r.account \in DOMAIN s.accounts
    BY <1>4 DEF resolveToAccount, Refuse, Route
  <2>3. DOMAIN s.accounts \subseteq Accounts
    BY <1>1 DEF WalkTyped, Snapshots
  <2>4. tried' \in Seq(Accounts)
    BY <2>1, <2>2, <2>3 DEF WalkInv
  <2> HIDE DEF r
  <2> QED BY <1>1, <1>2, <2>1, <2>4 DEF WalkInv
<1> QED BY <1>3, <1>4

\* The walk of a request (RouteAndProxy over ResolveWithOptions and SelectNextAccount)
\* keeps the invariant.
LEMMA WalkInvHolds == Spec => []WalkInv
<1>1. Init => WalkInv
  <2> SUFFICES ASSUME Init PROVE WalkInv
    OBVIOUS
  <2>1. WalkTyped
    BY InitTyped
  <2>2. tried = <<>> /\ err = "walking"
    BY DEF Init
  <2>3. BestFirst
    BY <2>2, EmptyToSet DEF BestFirst, IsInjective
  <2> QED BY <2>1, <2>2, <2>3 DEF WalkInv
<1>2. WalkInv /\ [Next]_walkVars => WalkInv'
  <2> SUFFICES ASSUME WalkInv, [Next]_walkVars PROVE WalkInv'
    OBVIOUS
  <2>1. CASE ResolveWithOptions
    <3>1. err = "walking" /\ tried = <<>> /\ UNCHANGED <<s, diagnostic, target>>
      BY <2>1 DEF ResolveWithOptions
    <3>2. CASE target = NoAccount
      <4>1. Took(resolveInPool(s, Query(diagnostic, {})), diagnostic)
        BY <2>1, <3>2 DEF ResolveWithOptions
      <4>2. diagnostic \in BOOLEAN
        BY DEF WalkInv, WalkTyped
      <4> QED BY <3>1, <3>2, <4>1, <4>2, EmptyToSet, PoolStep
    <3>3. CASE target # NoAccount
      <4>1. Took(resolveToAccount(s, Query(diagnostic, {}), target), TRUE)
        BY <2>1, <3>3 DEF ResolveWithOptions
      <4> QED BY <3>1, <3>3, <4>1, ForcedStep
    <3> QED BY <3>2, <3>3
  <2>2. CASE Retry
    <3>1. /\ err = "walking" /\ tried # <<>> /\ UNCHANGED <<s, diagnostic, target>>
          /\ Took(SelectNextAccount(s, model, ToSet(tried)), FALSE)
      BY <2>2 DEF Retry
    <3>2. target = NoAccount /\ diagnostic = FALSE
      BY <3>1 DEF WalkInv, WalkTyped
    <3>3. Took(resolveInPool(s, Query(diagnostic, ToSet(tried))), FALSE)
      BY <3>1, <3>2 DEF SelectNextAccount, Query
    <3> QED BY <3>1, <3>2, <3>3, PoolStep
  <2>3. CASE UNCHANGED walkVars
    <3>1. UNCHANGED <<s, diagnostic, target, tried, err>>
      BY <2>3 DEF walkVars
    <3>2. BestFirst'
      BY <3>1, BestFirstStays DEF WalkInv
    <3> QED BY <3>1, <3>2 DEF WalkInv, WalkTyped, InOrder
  <2> QED BY <2>1, <2>2, <2>3 DEF Next
<1> QED BY <1>1, <1>2, PTL DEF Spec

\* The accounts a request visits are the usable ones, best first, none twice, and
\* none is left when the router refuses (pickFromMembers and pickOrdered, router.go).
THEOREM WalkIsSortedHolds == Spec => []WalkIsSorted
<1>1. WalkInv => WalkIsSorted
  <2> SUFFICES ASSUME WalkInv PROVE WalkIsSorted
    OBVIOUS
  <2>1. ASSUME err \notin {"walking", "single"}, target = NoAccount, ~diagnostic
        PROVE  ToSet(tried) = Usable
    <3>1. resolveInPool(s, Query(diagnostic, ToSet(tried))).err # "none"
      BY <2>1 DEF WalkInv, WalkTyped
    <3>2. Usable \subseteq ToSet(tried)
      BY <3>1, BestChoice DEF WalkInv
    <3>3. ToSet(tried) \subseteq Usable
      BY <2>1 DEF WalkInv, BestFirst
    <3> QED BY <3>2, <3>3
  <2> QED BY <2>1 DEF WalkInv, WalkIsSorted, Exhaustive
<1> QED BY <1>1, WalkInvHolds, PTL

\* The trace of ExplainCandidates names the accounts the router could still pick.
LEMMA TraceHolds == WalkInv => TraceExplainsChoice
<1> SUFFICES ASSUME WalkInv, target = NoAccount, ~diagnostic
             PROVE  ExplainCandidates(s, Query(FALSE, ToSet(tried))) = Usable \ ToSet(tried)
  BY DEF TraceExplainsChoice
<1> DEFINE q == Query(diagnostic, ToSet(tried))
<1>1. WalkTyped /\ Query(FALSE, ToSet(tried)) = q
  BY DEF WalkInv, WalkTyped, Query
<1>2. /\ s.exists = TRUE /\ DOMAIN s.members = DOMAIN Order
      /\ \A i \in DOMAIN Order : s.members[i].account = Order[i]
  BY <1>1, SnapshotFacts
<1>3. CASE ~s.enabled
  BY <1>1, <1>3 DEF ExplainCandidates, Usable
<1>4. CASE s.enabled
  <2> DEFINE H == {j \in DOMAIN s.members : Candidate(q, j)}
  <2>1. ExplainCandidates(s, q) = {s.members[i].account : i \in H}
    BY <1>2, <1>4 DEF ExplainCandidates, Candidate, accountModelMatch
  <2>2. /\ \A i \in DOMAIN Order : Candidate(q, i) <=> Order[i] \in Usable \ ToSet(tried)
                                      /\ s.members[i].enabled
        /\ \A a \in Usable : \E i \in DOMAIN Order : Order[i] = a /\ s.members[i].enabled
    BY <1>1, <1>4, CandidatesAreUsable
  <2> HIDE DEF q
  <2>3. {s.members[i].account : i \in H} = Usable \ ToSet(tried)
    BY <1>2, <2>2
  <2> QED BY <1>1, <2>1, <2>3
<1> QED BY <1>3, <1>4

\* The same snapshot with a router that may pin the runtime.
LEMMA PinnedSnapshot ==
  ASSUME WalkTyped
  PROVE  LET u == [s EXCEPT !.pinning = TRUE] IN
         /\ u.pinning = TRUE /\ u.exists = s.exists /\ u.enabled = s.enabled
         /\ u.policy = s.policy /\ u.members = s.members /\ u.accounts = s.accounts
         /\ u.loaded = s.loaded /\ u.index = s.index
BY DEF WalkTyped, Snapshots

\* Pinning makes those accounts routable that are, and those blocked for want of it.
LEMMA PinnedRoutable ==
  ASSUME WalkTyped, NEW a
  PROVE  LET u == [s EXCEPT !.pinning = TRUE] IN
         /\ accountRoutable(u, a, FALSE)
              <=> accountRoutable(s, a, FALSE) \/ accountBlockedByRuntimeBinding(s, a)
         /\ accountBlockedByRuntimeBinding(s, a) => ~accountRoutable(s, a, FALSE)
<1> DEFINE u == [s EXCEPT !.pinning = TRUE]
<1>1. u.pinning = TRUE /\ u.accounts = s.accounts /\ u.loaded = s.loaded
  BY PinnedSnapshot
<1>2. s.pinning \in BOOLEAN /\ s.loaded \in BOOLEAN
  BY DEF WalkTyped, Snapshots
<1> HIDE DEF u
<1>3. accountDecision(u, a, FALSE)
        = EvaluateAccountRoutability(s.accounts[a], FALSE, TRUE, s.loaded)
  BY <1>1 DEF accountDecision
<1>4. accountDecision(s, a, FALSE)
        = EvaluateAccountRoutability(s.accounts[a], FALSE, s.pinning, s.loaded)
  BY DEF accountDecision
<1>5. LET d == EvaluateAccountRoutability(s.accounts[a], FALSE, s.pinning, s.loaded)
          p == EvaluateAccountRoutability(s.accounts[a], FALSE, TRUE, s.loaded)
      IN (p.routable <=> d.routable \/ d.binding) /\ (d.binding => ~d.routable)
  BY <1>2, PinningHelps
<1> QED BY <1>3, <1>4, <1>5 DEF accountRoutable, accountBlockedByRuntimeBinding, u

\* The two refusals of a pool in use that is asked for ordinary traffic.
LEMMA RefusalOfPool ==
  ASSUME WalkTyped, ~diagnostic, NEW ex, NEW e \in {"no_healthy_account", "runtime_binding"},
         resolveInPool(s, Query(FALSE, ex)).err = e
  PROVE  /\ s.enabled /\ Usable \subseteq ex
         /\ e = "runtime_binding" <=> runtimeBindingBlocked(s, Query(FALSE, ex))
<1> DEFINE q == Query(FALSE, ex)
           r == resolveInPool(s, q)
<1>1. /\ s.exists = TRUE /\ DOMAIN s.members \subseteq Nat \ {0}
  BY SnapshotFacts
<1>2. s.enabled
  BY DEF resolveInPool, Refuse
<1>3. Query(FALSE, ex) = Query(diagnostic, ex)
  BY DEF WalkTyped, Query
<1>4. Usable \subseteq ex
  BY <1>3, BestChoice
<1> HIDE DEF q
<1>5. r = Refuse(IF runtimeBindingBlocked(s, q) THEN "runtime_binding" ELSE "no_healthy_account")
  <2>1. \/ r = Refuse(IF runtimeBindingBlocked(s, q) THEN "runtime_binding"
                      ELSE "no_healthy_account")
        \/ \E k \in DOMAIN Stages(s.policy) : \E i \in StageHits(s, q, k) :
             r = Route(s.members[i].account)
    BY <1>1, <1>2, PoolAnswer
  <2>2. r.err = e
    BY DEF q
  <2> HIDE DEF r
  <2> QED BY <2>1, <2>2 DEF Route
<1>6. r.err = e
  BY DEF q
<1> HIDE DEF r
<1>7. e = "runtime_binding" <=> runtimeBindingBlocked(s, q)
  BY <1>5, <1>6 DEF Refuse
<1> QED BY <1>2, <1>4, <1>7 DEF q

\* A pool that blames health would route no better with a runtime that pins.
LEMMA HealthIsBlamed ==
  ASSUME WalkTyped, ~diagnostic, NEW ex,
         resolveInPool(s, Query(FALSE, ex)).err = "no_healthy_account"
  PROVE  resolveInPool([s EXCEPT !.pinning = TRUE], Query(FALSE, ex)).err # "none"
<1> DEFINE u == [s EXCEPT !.pinning = TRUE]
           q == Query(FALSE, ex)
<1>1. /\ u.exists = s.exists /\ u.enabled = s.enabled /\ u.policy = s.policy
      /\ u.members = s.members /\ u.accounts = s.accounts /\ u.index = s.index
  BY PinnedSnapshot
<1>2. \A a : accountRoutable(u, a, FALSE)
               => accountRoutable(s, a, FALSE) \/ accountBlockedByRuntimeBinding(s, a)
  BY PinnedRoutable
<1>3. \A a : accountBlockedByRuntimeBinding(s, a) => ~accountRoutable(s, a, FALSE)
  BY PinnedRoutable
<1>4. /\ s.exists = TRUE /\ DOMAIN s.members = DOMAIN Order
      /\ DOMAIN s.members \subseteq Nat \ {0}
      /\ \A i \in DOMAIN Order : s.members[i].account = Order[i]
  BY SnapshotFacts
<1>5. s.enabled /\ Usable \subseteq ex /\ ~runtimeBindingBlocked(s, q)
  BY RefusalOfPool
<1>6. q = Query(diagnostic, ex) /\ q.diagnostic = FALSE /\ q.model = model
  BY DEF WalkTyped, Query
<1> HIDE DEF u, q
<1>7. ASSUME NEW k \in DOMAIN Stages(u.policy), NEW i \in StageHits(u, q, k) PROVE FALSE
  <2>1. /\ i \in DOMAIN Order /\ Considered(u, q, u.members[i])
        /\ accountRoutable(u, u.members[i].account, FALSE)
        /\ accountModelMatch(u, u.members[i].account, model) = Stages(u.policy)[k][1]
    BY <1>1, <1>4, <1>6, <1>7 DEF StageHits, PassHits
  <2>2. Considered(s, q, s.members[i]) /\ accountRoutable(u, Order[i], FALSE)
    BY <1>1, <1>4, <2>1 DEF Considered
  <2>3. accountModelMatch(s, Order[i], model) # "mismatch"
    <3>1. Stages(u.policy)[k][1] # "mismatch"
      BY <1>1, <1>7, StagesMatch DEF WalkTyped, Snapshots
    <3> QED BY <1>1, <1>4, <2>1, <3>1 DEF accountModelMatch
  <2>4. CASE accountRoutable(s, Order[i], FALSE)
    <3>1. Candidate(q, i)
      BY <1>4, <1>6, <2>1, <2>2, <2>3, <2>4 DEF Candidate
    <3>2. Order[i] \in Usable \ ex
      BY <1>5, <1>6, <2>1, <3>1, CandidatesAreUsable
    <3> QED BY <1>5, <3>2
  <2>5. CASE accountBlockedByRuntimeBinding(s, Order[i])
    <3>1. runtimeBindingBlocked(s, q)
      BY <1>3, <1>4, <1>6, <2>1, <2>2, <2>5 DEF runtimeBindingBlocked
    <3> QED BY <1>5, <3>1
  <2> QED BY <1>2, <2>2, <2>4, <2>5
<1>8. resolveInPool(u, q).err # "none"
  <2>1. u.exists /\ u.enabled /\ DOMAIN u.members \subseteq Nat \ {0}
    BY <1>1, <1>4, <1>5
  <2>2. resolveInPool(u, q) = Refuse(IF runtimeBindingBlocked(u, q) THEN "runtime_binding"
                                     ELSE "no_healthy_account")
    BY <1>7, <2>1, PoolAnswer
  <2> QED BY <2>2 DEF Refuse
<1> QED BY <1>8 DEF u, q

\* A pool that blames the runtime has an account that pinning would make routable.
LEMMA BindingIsBlamed ==
  ASSUME WalkTyped, ~diagnostic, NEW ex,
         resolveInPool(s, Query(FALSE, ex)).err = "runtime_binding"
  PROVE  \E a \in DOMAIN s.accounts \ ex :
           ~accountRoutable(s, a, FALSE) /\ accountRoutable([s EXCEPT !.pinning = TRUE], a, FALSE)
<1> DEFINE q == Query(FALSE, ex)
<1>1. runtimeBindingBlocked(s, q)
  BY RefusalOfPool
<1>2. q.diagnostic = FALSE /\ q.exclude = ex
  BY DEF Query
<1> HIDE DEF q
<1>3. PICK i \in DOMAIN s.members :
        /\ Considered(s, q, s.members[i])
        /\ ~accountRoutable(s, s.members[i].account, FALSE)
        /\ accountBlockedByRuntimeBinding(s, s.members[i].account)
  BY <1>1, <1>2 DEF runtimeBindingBlocked
<1>4. s.members[i].account \in DOMAIN s.accounts \ ex
  BY <1>2, <1>3 DEF Considered
<1> QED BY <1>3, <1>4, PinnedRoutable

\* The same of a forced account.
LEMMA ForcedIsBlamed ==
  ASSUME WalkTyped, NEW a
  PROVE  /\ resolveToAccount(s, Query(FALSE, {}), a).err = "no_healthy_account" =>
              resolveToAccount([s EXCEPT !.pinning = TRUE], Query(FALSE, {}), a).err # "none"
         /\ resolveToAccount(s, Query(FALSE, {}), a).err = "runtime_binding" =>
              /\ a \in DOMAIN s.accounts /\ ~accountRoutable(s, a, FALSE)
              /\ accountRoutable([s EXCEPT !.pinning = TRUE], a, FALSE)
<1> DEFINE u == [s EXCEPT !.pinning = TRUE]
           q == Query(FALSE, {})
<1>1. /\ u.exists = s.exists /\ u.enabled = s.enabled
      /\ u.members = s.members /\ u.accounts = s.accounts
  BY PinnedSnapshot
<1>2. accountRoutable(u, a, FALSE)
        <=> accountRoutable(s, a, FALSE) \/ accountBlockedByRuntimeBinding(s, a)
  BY PinnedRoutable
<1>3. q.diagnostic = FALSE
  BY DEF Query
<1> HIDE DEF u, q
<1>4. ASSUME resolveToAccount(s, q, a).err = "no_healthy_account"
      PROVE  ~accountRoutable(s, a, FALSE) /\ ~accountBlockedByRuntimeBinding(s, a)
  BY <1>3, <1>4 DEF resolveToAccount, Refuse, Route
<1>5. ASSUME resolveToAccount(s, q, a).err = "runtime_binding"
      PROVE  /\ a \in DOMAIN s.accounts /\ ~accountRoutable(s, a, FALSE)
             /\ accountBlockedByRuntimeBinding(s, a)
  BY <1>3, <1>5 DEF resolveToAccount, Refuse, Route
<1>6. ~accountRoutable(u, a, FALSE) => resolveToAccount(u, q, a).err # "none"
  BY <1>3 DEF resolveToAccount, Refuse
<1> QED BY <1>2, <1>4, <1>5, <1>6 DEF u, q

\* The error of a refusal names its cause (runtimeBindingBlocked, router.go).
LEMMA CauseHolds == WalkInv => ErrorNamesCause
<1> SUFFICES ASSUME WalkInv, ~diagnostic PROVE ErrorNamesCause
  BY DEF ErrorNamesCause
<1> DEFINE u == [s EXCEPT !.pinning = TRUE]
<1>1. WalkTyped /\ diagnostic = FALSE
  BY DEF WalkInv, WalkTyped
<1>2. ASSUME err \in {"no_healthy_account", "runtime_binding"}, target = NoAccount
      PROVE  err = resolveInPool(s, Query(FALSE, ToSet(tried))).err
  BY <1>2 DEF WalkInv
<1>3. ASSUME err \in {"no_healthy_account", "runtime_binding"}, target # NoAccount
      PROVE  ToSet(tried) = {} /\ err = resolveToAccount(s, Query(FALSE, {}), target).err
  BY <1>1, <1>3, EmptyToSet DEF WalkInv
<1> HIDE DEF u
<1>4. err = "no_healthy_account" /\ target = NoAccount =>
        resolveInPool(u, Query(FALSE, ToSet(tried))).err # "none"
  BY <1>1, <1>2, HealthIsBlamed DEF u
<1>5. err = "no_healthy_account" /\ target # NoAccount =>
        resolveToAccount(u, Query(FALSE, {}), target).err # "none"
  BY <1>1, <1>3, ForcedIsBlamed DEF u
<1>6. err = "runtime_binding" =>
        \E a \in DOMAIN s.accounts \ ToSet(tried) :
           ~accountRoutable(s, a, FALSE) /\ accountRoutable(u, a, FALSE)
  <2>1. CASE err = "runtime_binding" /\ target = NoAccount
    BY <1>1, <1>2, <2>1, BindingIsBlamed DEF u
  <2>2. CASE err = "runtime_binding" /\ target # NoAccount
    BY <1>1, <1>3, <2>2, ForcedIsBlamed DEF u
  <2> QED BY <2>1, <2>2
<1> QED BY <1>4, <1>5, <1>6 DEF ErrorNamesCause, u

\* What the router says of its choice is true, for any rows: its trace names the
\* accounts that are left, and its error the reason that nothing is.
THEOREM ChoiceIsExplainedHolds == Spec => []ChoiceIsExplained
BY WalkInvHolds, TraceHolds, CauseHolds, PTL DEF ChoiceIsExplained

-----------------------------------------------------------------------------
(* The console *)

\* Every member's account has a row that somebody writes.
MembersInv ==
  /\ DOMAIN members = Slots
  /\ \A m \in Slots : RowFits(members[m].row)

ConsoleInv ==
  /\ RowFits(acct)
  /\ pinned \in BOOLEAN /\ poolOn \in BOOLEAN
  /\ MembersInv

\* The first rows.
LEMMA FirstRows == RowFits(CodexRow) /\ RowFits(DirectRow) /\ RowFits(ClaudeRow)
<1>1. CodexRow \in ConsoleRows
  BY DEF CodexRow, ConsoleRows, StatusValues, ServingValues, QuotaValues, CredValues,
         AccessValues, SubValues, SelfCheckValues, StableValues, SchedValues
<1>2. RowFits(CodexRow)
  BY <1>1 DEF CodexRow, RowFits
<1>3. RowFits(ClaudeRow)
  BY <1>1, <1>2 DEF ClaudeRow, CodexRow, RowFits, ConsoleRows
<1>4. RowFits(DirectRow)
  BY <1>1, <1>2 DEF DirectRow, CodexRow, RowFits, ConsoleRows
<1> QED BY <1>2, <1>3, <1>4

\* A new row whose CPA columns are the old one's.
LEMMA OtherColumns ==
  ASSUME NEW a, RowFits(a), NEW b \in ConsoleRows,
         b.kind = a.kind, b.codex = a.codex, b.quota = a.quota, b.qerr = a.qerr,
         b.cred = a.cred, b.access = a.access, b.sub = a.sub,
         b.serving # "cooldown" => b.cooldown = "past"
  PROVE  RowFits(b)
BY DEF RowFits

\* The row of an account stays one that somebody writes.
LEMMA RowKept ==
  ASSUME RowFits(acct),
         \/ HealthSeen \/ SwitchSeen \/ SelfCheckSeen \/ ServingSeen \/ QuotaSeen
         \/ CredentialSeen \/ AccessSeen \/ DiagnosisSeen
  PROVE  RowFits(acct')
<1>1. acct \in ConsoleRows /\ (acct.serving # "cooldown" => acct.cooldown = "past")
  BY DEF RowFits
<1>2. CASE HealthSeen
  <2>1. PICK st \in StatusValues : acct' = [acct EXCEPT !.status = st]
    BY <1>2 DEF HealthSeen, RowChanges
  <2>2. acct' \in ConsoleRows
    BY <1>1, <2>1 DEF ConsoleRows
  <2> QED BY <1>1, <2>1, <2>2, OtherColumns DEF ConsoleRows
<1>3. CASE SwitchSeen
  <2>1. CASE acct' = DisableAccount(acct)
    <3>1. acct' \in ConsoleRows
      BY <1>1, <2>1 DEF ConsoleRows, DisableAccount, StatusValues
    <3> QED BY <1>1, <2>1, <3>1, OtherColumns DEF ConsoleRows, DisableAccount
  <2>2. ASSUME NEW on \in BOOLEAN, acct' = [acct EXCEPT !.enabled = on] PROVE RowFits(acct')
    <3>1. acct' \in ConsoleRows
      BY <1>1, <2>2 DEF ConsoleRows
    <3> QED BY <1>1, <2>2, <3>1, OtherColumns DEF ConsoleRows
  <2> QED BY <1>3, <2>1, <2>2 DEF SwitchSeen, RowChanges
<1>4. CASE SelfCheckSeen
  <2>1. PICK v \in SelfCheckValues : acct' = [acct EXCEPT !.selfCheck = v]
    BY <1>4 DEF SelfCheckSeen, RowChanges
  <2>2. acct' \in ConsoleRows
    BY <1>1, <2>1 DEF ConsoleRows
  <2> QED BY <1>1, <2>1, <2>2, OtherColumns DEF ConsoleRows
<1>5. CASE ServingSeen
  <2>1. PICK sv \in ServingValues, cd \in {"past", "future"} :
          acct' = [acct EXCEPT !.serving = sv, !.cooldown = IF sv = "cooldown" THEN cd ELSE "past"]
    BY <1>5 DEF ServingSeen, RowChanges
  <2>2. acct' \in ConsoleRows
    BY <1>1, <2>1 DEF ConsoleRows
  <2>3. acct'.serving # "cooldown" => acct'.cooldown = "past"
    BY <1>1, <2>1 DEF ConsoleRows
  <2> QED BY <1>1, <2>1, <2>2, <2>3, OtherColumns DEF ConsoleRows
<1>6. CASE QuotaSeen
  <2>1. PICK q \in QuotaValues, e \in {"none", "model429"} :
          acct' = [acct EXCEPT !.quota = q, !.qerr = IF q = "error" THEN e ELSE "none"]
    BY <1>6 DEF QuotaSeen, RowChanges
  <2>2. acct' \in ConsoleRows
    BY <1>1, <2>1 DEF ConsoleRows
  <2>3. /\ acct'.qerr = (IF acct'.quota = "error" THEN e ELSE "none")
        /\ acct'.kind = acct.kind /\ acct'.codex = acct.codex /\ acct'.serving = acct.serving
        /\ acct'.cooldown = acct.cooldown /\ acct'.cred = acct.cred
        /\ acct'.access = acct.access /\ acct'.sub = acct.sub
    BY <1>1, <2>1 DEF ConsoleRows
  <2> QED BY <1>6, <2>2, <2>3 DEF RowFits, QuotaSeen
<1>7. CASE CredentialSeen
  <2>1. PICK c \in CredValues : acct' = [acct EXCEPT !.cred = c]
    BY <1>7 DEF CredentialSeen, RowChanges
  <2>2. acct' \in ConsoleRows
    BY <1>1, <2>1 DEF ConsoleRows
  <2>3. /\ acct'.qerr = acct.qerr /\ acct'.quota = acct.quota
        /\ acct'.kind = acct.kind /\ acct'.codex = acct.codex /\ acct'.serving = acct.serving
        /\ acct'.cooldown = acct.cooldown
        /\ acct'.access = acct.access /\ acct'.sub = acct.sub
    BY <1>1, <2>1 DEF ConsoleRows
  <2> QED BY <1>7, <2>2, <2>3 DEF RowFits, CredentialSeen
<1>8. CASE AccessSeen
  <2>1. PICK x \in AccessValues, y \in SubValues : acct' = [acct EXCEPT !.access = x, !.sub = y]
    BY <1>8, SubsAssumption DEF AccessSeen, RowChanges
  <2>2. acct' \in ConsoleRows
    BY <1>1, <2>1 DEF ConsoleRows
  <2>3. /\ acct'.qerr = acct.qerr /\ acct'.quota = acct.quota
        /\ acct'.kind = acct.kind /\ acct'.codex = acct.codex /\ acct'.serving = acct.serving
        /\ acct'.cooldown = acct.cooldown /\ acct'.cred = acct.cred
    BY <1>1, <2>1 DEF ConsoleRows
  <2> QED BY <1>8, <2>2, <2>3 DEF RowFits, AccessSeen
<1>9. CASE DiagnosisSeen
  <2>1. PICK d \in StableValues, h \in SchedValues : acct' = [acct EXCEPT !.stable = d, !.sched = h]
    <3>1. \A d : SchedulerStatusForStableDiagnostic(d) \in SchedValues
      BY DEF SchedulerStatusForStableDiagnostic, SchedValues
    <3>2. initialSchedulerStatusForAccount(FALSE) \in SchedValues /\ "unknown" \in StableValues
      BY DEF initialSchedulerStatusForAccount, SchedValues, StableValues
    <3> QED BY <1>9, <3>1, <3>2, StablesAssumption DEF DiagnosisSeen, RowChanges
  <2>2. acct' \in ConsoleRows
    BY <1>1, <2>1 DEF ConsoleRows
  <2> QED BY <1>1, <2>1, <2>2, OtherColumns DEF ConsoleRows
<1> QED BY <1>2, <1>3, <1>4, <1>5, <1>6, <1>7, <1>8, <1>9

\* The console's row and pool under the server's writes keep the invariant.
LEMMA ConsoleInvHolds == ConsoleSpec => []ConsoleInv
<1>1. ConsoleInit => ConsoleInv
  BY FirstRows DEF ConsoleInit, ConsoleInv, MembersInv, NewMember
<1>2. ConsoleInv /\ [ConsoleNext]_consoleVars => ConsoleInv'
  <2> SUFFICES ASSUME ConsoleInv, [ConsoleNext]_consoleVars PROVE ConsoleInv'
    OBVIOUS
  <2>1. CASE \/ HealthSeen \/ SwitchSeen \/ SelfCheckSeen \/ ServingSeen \/ QuotaSeen
             \/ CredentialSeen \/ AccessSeen \/ DiagnosisSeen
    <3>1. UNCHANGED <<pinned, poolOn, members>>
      BY <2>1 DEF HealthSeen, SwitchSeen, SelfCheckSeen, ServingSeen, QuotaSeen, CredentialSeen,
                  AccessSeen, DiagnosisSeen, RowChanges
    <3>2. RowFits(acct')
      BY <2>1, RowKept DEF ConsoleInv
    <3>3. MembersInv'
      BY <3>1 DEF ConsoleInv, MembersInv
    <3> QED BY <3>1, <3>2, <3>3 DEF ConsoleInv
  <2>2. CASE PoolSwitched
    BY <2>2 DEF PoolSwitched, ConsoleInv, MembersInv
  <2>3. ASSUME NEW m \in Slots, MemberChanges(m) PROVE ConsoleInv'
    <3>1. PICK on \in BOOLEAN, row \in PoolRows :
            members' = [members EXCEPT ![m] = [on |-> on, row |-> row]]
      BY <2>3 DEF MemberChanges
    <3>2. UNCHANGED <<acct, pinned, poolOn>>
      BY <2>3 DEF MemberChanges
    <3>3. MembersInv'
      <4>1. DOMAIN members' = Slots
        BY <3>1 DEF ConsoleInv, MembersInv
      <4>2. ASSUME NEW o \in Slots PROVE RowFits(members'[o].row)
        <5>1. CASE o = m
          <6>1. members'[o].row = row
            BY <3>1, <5>1 DEF ConsoleInv, MembersInv
          <6> QED BY <6>1, PoolRowsAssumption
        <5>2. CASE o # m
          <6>1. members'[o] = members[o]
            BY <3>1, <5>2 DEF ConsoleInv, MembersInv
          <6> QED BY <6>1 DEF ConsoleInv, MembersInv
        <5> QED BY <5>1, <5>2
      <4> QED BY <4>1, <4>2 DEF MembersInv
    <3> QED BY <3>2, <3>3 DEF ConsoleInv
  <2>4. CASE UNCHANGED consoleVars
    BY <2>4 DEF consoleVars, ConsoleInv, MembersInv
  <2> QED BY <2>1, <2>2, <2>3, <2>4 DEF ConsoleNext
<1> QED BY <1>1, <1>2, PTL DEF ConsoleSpec

\* A row of ours is one of those for which the two decisions of the server agree.
LEMMA ServerAgrees ==
  ASSUME NEW a, RowFits(a), pinned \in BOOLEAN
  PROVE  /\ GatewayUses(a) <=> accountRoutableWhereSQL(a, pinned)
         /\ DiagnosisBlocks(a) <=> \/ a.sched \notin {"eligible", "eligible_with_warning"}
                                   \/ ~a.override /\ a.stable \in StableBlocks
         /\ a.diagnosed
<1>1. a \in ConsoleRows
  BY DEF RowFits
<1>2. FlagsTyped(a) /\ a.diagnosed = TRUE
  BY <1>1 DEF ConsoleRows, FlagsTyped
<1>3. GatewayUses(a) <=> accountRoutableWhereSQL(a, pinned)
  BY <1>2, DecisionsAgree DEF GatewayUses
<1>4. DiagnosisBlocks(a) <=> \/ a.sched \notin {"eligible", "eligible_with_warning"}
                             \/ ~a.override /\ a.stable \in StableBlocks
  <2>1. evaluateDiagnosticRoutability(a, TRUE).routable
          <=> ~(a.diagnosed /\ (\/ a.sched \notin {"eligible", "eligible_with_warning"}
                                \/ ~a.override /\ a.stable \in StableBlocks))
    BY <1>2, DiagnosticAgrees
  <2>2. a.diagnosed
    BY <1>2
  <2> QED BY <2>1, <2>2 DEF DiagnosisBlocks
<1> QED BY <1>2, <1>3, <1>4

\* What the gateway asks of the row, without its ladder.
LEMMA RouterMeans ==
  ASSUME NEW a, RowFits(a), pinned \in BOOLEAN
  PROVE  GatewayUses(a) <=> /\ a.enabled
                            /\ a.status \in {"healthy", "degraded"}
                            /\ a.serving # "error"
                            /\ a.serving # "cooldown" \/ a.cooldown = "past"
                            /\ ~DiagnosisBlocks(a)
                            /\ a.kind = "cpa" =>
                                 /\ pinned
                                 /\ a.cred \notin CredentialBlocks
                                 /\ a.quota # "blocked"
                                 /\ ~model429(a)
                                 /\ a.codex => a.access = "eligible"
<1> DEFINE banned == \/ a.sched \notin {"eligible", "eligible_with_warning"}
                     \/ ~a.override /\ a.stable \in StableBlocks
<1>1. GatewayUses(a) <=> accountRoutableWhereSQL(a, pinned)
  BY ServerAgrees
<1>2. (DiagnosisBlocks(a) <=> banned) /\ a.diagnosed
  BY ServerAgrees
<1>3. accountRoutableWhereSQL(a, pinned)
        <=> /\ a.enabled
            /\ a.status \in {"healthy", "degraded"}
            /\ a.serving # "error"
            /\ a.serving # "cooldown" \/ a.cooldown = "past"
            /\ ~(a.diagnosed /\ banned)
            /\ \/ a.kind # "cpa"
               \/ /\ pinned
                  /\ a.cred \notin CredentialBlocks
                  /\ a.quota # "blocked"
                  /\ ~model429(a)
                  /\ ~a.codex \/ a.access = "eligible"
  BY DEF accountRoutableWhereSQL
<1> HIDE DEF banned
<1> QED BY <1>1, <1>2, <1>3, Zenon

\* Routable to the console and to the gateway.
LEMMA RoutableAgrees ==
  ASSUME NEW a, RowFits(a), pinned \in BOOLEAN
  PROVE  /\ GatewayUses(a) => isAccountRoutable(a)
         /\ isAccountRoutable(a) /\ ~GatewayUses(a) => DiagnosisBlocks(a) \/ SubscriptionOnly(a)
<1>1. a.enabled \in BOOLEAN /\ a.codex \in BOOLEAN /\ a.access \in AccessValues
  BY DEF RowFits, ConsoleRows
<1> QED BY <1>1, RouterMeans
        DEF isAccountRoutable, isCpaOrDirectOtherwiseRoutable, isCpaOtherwiseRoutable,
            hasRuntimeBindingIssue, SubscriptionOnly, AccessValues

\* The health on the pool's page (getPoolHealth, on the counts of store/pools.go) is
\* broken exactly when the gateway can use no member, and the sidebar's
\* (derivePoolSnapshot) differs from it only in the two ways named, for any number of members and any
\* rows of their accounts.
THEOREM PoolHealthsAgreeHolds == ConsoleSpec => []PoolHealthsAgree
<1>1. ConsoleInv => PoolHealthsAgree
  <2> SUFFICES ASSUME ConsoleInv PROVE PoolHealthsAgree
    OBVIOUS
  <2> DEFINE wellA == HealthyAmong(ActiveMembers)
             wellV == HealthyAmong(AvailableMembers)
             n == Cardinality(ActiveMembers)
             l == Cardinality(CountedMembers)
             v == Cardinality(AvailableMembers)
             h == Cardinality(wellA)
             r == Cardinality(wellV)
  <2>1. ASSUME NEW m \in ActiveMembers
        PROVE  /\ GatewayUses(members[m].row) <=> m \in CountedMembers
               /\ m \in CountedMembers => m \in AvailableMembers
               /\ m \in AvailableMembers /\ m \notin CountedMembers
                    => DiagnosisBlocks(members[m].row) \/ SubscriptionOnly(members[m].row)
    <3>1. RowFits(members[m].row) /\ pinned \in BOOLEAN
      BY DEF ActiveMembers, ConsoleInv, MembersInv
    <3>2. GatewayUses(members[m].row) <=> accountRoutableWhereSQL(members[m].row, pinned)
      BY <3>1, ServerAgrees
    <3> QED BY <3>1, <3>2, RoutableAgrees DEF CountedMembers, AvailableMembers
  <2>2. /\ ActiveMembers \subseteq Slots /\ CountedMembers \subseteq AvailableMembers
        /\ AvailableMembers \subseteq ActiveMembers /\ CountedMembers \subseteq ActiveMembers
        /\ wellA \subseteq ActiveMembers /\ wellV \subseteq wellA
        /\ wellA \ AvailableMembers = wellA \ wellV
    BY <2>1 DEF ActiveMembers, CountedMembers, AvailableMembers, HealthyAmong
  <2>3. /\ IsFiniteSet(ActiveMembers) /\ IsFiniteSet(CountedMembers)
        /\ IsFiniteSet(AvailableMembers) /\ IsFiniteSet(wellA) /\ IsFiniteSet(wellV)
    <3>1. IsFiniteSet(ActiveMembers)
      BY <2>2, SlotsAssumption, FS_Subset
    <3>2. IsFiniteSet(CountedMembers) /\ IsFiniteSet(AvailableMembers) /\ IsFiniteSet(wellA)
      BY <2>2, <3>1, FS_Subset
    <3> QED BY <2>2, <3>1, <3>2, FS_Subset
  <2> HIDE DEF wellA, wellV
  <2>4. /\ n \in Nat /\ l \in Nat /\ v \in Nat /\ h \in Nat /\ r \in Nat
        /\ (n = 0 <=> ActiveMembers = {}) /\ (l = 0 <=> CountedMembers = {})
        /\ (v = 0 <=> AvailableMembers = {})
    BY <2>3, FS_CardinalityType, FS_EmptySet
  <2>5. l <= v /\ h <= n /\ r <= h /\ (r = h => wellV = wellA)
    BY <2>2, <2>3, <2>4, FS_Subset
  <2>6. getPoolHealth = Grade(n, l, h) /\ derivePoolSnapshot = Grade(n, v, r)
    BY DEF getPoolHealth, derivePoolSnapshot, wellA, wellV
  <2> HIDE DEF n, l, v, h, r
  <2>7. poolOn /\ ActiveMembers # {} =>
          (getPoolHealth = "error" <=> \A m \in ActiveMembers : ~GatewayUses(members[m].row))
    <3>1. poolOn /\ ActiveMembers # {} => (getPoolHealth = "error" <=> CountedMembers = {})
      BY <2>4, <2>6 DEF Grade
    <3>2. CountedMembers = {} <=> \A m \in ActiveMembers : ~GatewayUses(members[m].row)
      BY <2>1, <2>2
    <3> QED BY <3>1, <3>2
  <2>8. CASE getPoolHealth # derivePoolSnapshot /\ l # 0
    <3>1. poolOn /\ n # 0 /\ v # 0
      BY <2>4, <2>5, <2>6, <2>8 DEF Grade
    <3>2. h = n /\ r # n
      BY <2>4, <2>5, <2>6, <2>8, <3>1 DEF Grade
    <3>3. getPoolHealth = "healthy" /\ derivePoolSnapshot = "degraded"
      BY <2>6, <2>8, <3>1, <3>2 DEF Grade
    <3>4. wellA \ AvailableMembers # {}
      <4>1. wellV # wellA
        BY <3>2 DEF h, r
      <4> QED BY <2>2, <4>1
    <3> QED BY <2>7, <3>3, <3>4 DEF PoolHealthsAgree, wellA
  <2>9. CASE getPoolHealth # derivePoolSnapshot /\ l = 0
    <3>1. getPoolHealth = "error" /\ derivePoolSnapshot \in {"healthy", "degraded"}
      BY <2>4, <2>6, <2>9 DEF Grade
    <3>2. \A m \in AvailableMembers :
            DiagnosisBlocks(members[m].row) \/ SubscriptionOnly(members[m].row)
      BY <2>1, <2>2, <2>4, <2>9
    <3> QED BY <2>7, <3>1, <3>2 DEF PoolHealthsAgree
  <2>10. CASE getPoolHealth = derivePoolSnapshot
    BY <2>7, <2>10 DEF PoolHealthsAgree
  <2> QED BY <2>8, <2>9, <2>10
<1> QED BY <1>1, ConsoleInvHolds, PTL

\* The summary of a route, ladder by ladder: what the gateway thinks of the row in
\* every case.
LEMMA SummaryCases ==
  ASSUME ConsoleInv
  PROVE  LET r == getRouteSummary(acct) IN
         \/ r = Says("disabled", "off") /\ ~GatewayUses(acct)
         \/ r = Says("error", "binding") /\ ~GatewayUses(acct)
         \/ r = Says("unknown", "unchecked") /\ ~GatewayUses(acct)
         \/ r \in {Says("error", w) : w \in {"credential", "access", "quota", "limited"}} /\ ~GatewayUses(acct)
         \/ r = Says("degraded", "limited") /\ ~GatewayUses(acct)
         \/ r = Says("error", "cooldown") /\ (acct.cooldown = "past" \/ ~GatewayUses(acct))
         \/ r = Says("error", "serving") /\ ~GatewayUses(acct)
         \/ r = Says("error", "other") /\ ~GatewayUses(acct)
         \/ r \in {Says("degraded", "quota"), Says("degraded", "credential"), Says("healthy", "none")}
              /\ (GatewayUses(acct) \/ DiagnosisBlocks(acct))
<1> DEFINE r == getRouteSummary(acct)
           c == CpaSummary(acct)
           unchecked == acct.status = "unknown" \/ getAccountHealth(acct) = "unknown"
<1> RowFits(acct) /\ pinned \in BOOLEAN
  BY DEF ConsoleInv
<1>1. RoutableLikeRouter
  BY RoutableAgrees DEF RoutableLikeRouter
<1>2. /\ ~acct.enabled => ~GatewayUses(acct)
      /\ unchecked => ~GatewayUses(acct)
      /\ acct.serving = "error" => ~GatewayUses(acct)
      /\ acct.serving = "cooldown" /\ acct.cooldown # "past" => ~GatewayUses(acct)
      /\ acct.kind = "cpa" /\ (\/ acct.cred \in CredentialBlocks
                               \/ acct.codex /\ acct.access # "eligible"
                               \/ acct.quota = "blocked"
                               \/ model429(acct)) => ~GatewayUses(acct)
      /\ hasRuntimeBindingIssue(acct) => ~GatewayUses(acct)
  <2>1. acct.selfCheck \in SelfCheckValues
    BY DEF RowFits, ConsoleRows
  <2> QED BY <2>1, RouterMeans DEF hasRuntimeBindingIssue, getAccountHealth, SelfCheckValues
<1>3. \/ c \in {Says("error", w) : w \in {"credential", "access", "quota", "limited"}}
           /\ (acct.kind = "cpa" => ~GatewayUses(acct))
      \/ c = Says("degraded", "limited") /\ (acct.kind = "cpa" => ~GatewayUses(acct))
      \/ c = Says("none", "none") /\ ~(acct.codex /\ acct.access # "eligible")
  <2>1. CASE acct.cred \in CredentialBlocks
    BY <1>2, <2>1 DEF CpaSummary
  <2>2. CASE acct.cred \notin CredentialBlocks /\ acct.codex /\ acct.access # "eligible"
    BY <1>2, <2>2 DEF CpaSummary
  <2>3. CASE acct.cred \notin CredentialBlocks /\ ~(acct.codex /\ acct.access # "eligible")
             /\ acct.quota = "blocked"
    BY <1>2, <2>3 DEF CpaSummary
  <2>4. CASE acct.cred \notin CredentialBlocks /\ ~(acct.codex /\ acct.access # "eligible")
             /\ acct.quota # "blocked" /\ model429(acct)
    BY <1>2, <2>4 DEF CpaSummary
  <2>5. CASE acct.cred \notin CredentialBlocks /\ ~(acct.codex /\ acct.access # "eligible")
             /\ acct.quota # "blocked" /\ ~model429(acct)
    BY <2>5 DEF CpaSummary
  <2> QED BY <2>1, <2>2, <2>3, <2>4, <2>5
<1>4. c.status # "none" <=> c # Says("none", "none")
  BY <1>3 DEF Says
<1> HIDE DEF c
<1>5. CASE ~acct.enabled \/ hasRuntimeBindingIssue(acct) \/ unchecked
  BY <1>2, <1>5 DEF getRouteSummary
<1>6. CASE acct.enabled /\ ~hasRuntimeBindingIssue(acct) /\ ~unchecked
  <2>1. CASE acct.kind = "cpa" /\ c.status # "none"
    <3>1. r = c
      BY <1>6, <2>1 DEF getRouteSummary, c
    <3> QED BY <1>3, <1>4, <2>1, <3>1
  <2>2. CASE ~(acct.kind = "cpa" /\ c.status # "none")
    <3>1. acct.kind = "cpa" => ~(acct.codex /\ acct.access # "eligible")
      BY <1>3, <2>2 DEF Says
    <3>2. ~(acct.codex /\ acct.access # "eligible")
      BY <3>1 DEF RowFits
    <3>3. CASE acct.serving = "cooldown"
      <4>1. r = Says("error", "cooldown")
        BY <1>6, <2>2, <3>3 DEF getRouteSummary, c
      <4> QED BY <1>2, <3>3, <4>1
    <3>4. CASE acct.serving = "error"
      <4>1. r = Says("error", "serving")
        BY <1>6, <2>2, <3>4 DEF getRouteSummary, c
      <4> QED BY <1>2, <3>4, <4>1
    <3>5. CASE acct.serving \notin {"cooldown", "error"} /\ ~isAccountRoutable(acct)
      <4>1. r = Says("error", "other")
        BY <1>6, <2>2, <3>5 DEF getRouteSummary, c
      <4> QED BY <1>1, <3>5, <4>1 DEF RoutableLikeRouter
    <3>6. CASE acct.serving \notin {"cooldown", "error"} /\ isAccountRoutable(acct)
      <4>1. r \in {Says("degraded", "quota"), Says("degraded", "credential"), Says("healthy", "none")}
        BY <1>6, <2>2, <3>6 DEF getRouteSummary, c
      <4>2. GatewayUses(acct) \/ DiagnosisBlocks(acct)
        BY <1>1, <3>2, <3>6 DEF RoutableLikeRouter, SubscriptionOnly
      <4> QED BY <4>1, <4>2
    <3> QED BY <3>3, <3>4, <3>5, <3>6
  <2> QED BY <2>1, <2>2
<1> QED BY <1>5, <1>6

\* The summary and the gateway.
LEMMA SummaryAgrees == ConsoleInv => SummaryLikeRouter
BY SummaryCases DEF SummaryLikeRouter, Says

\* The card and the summary.
LEMMA CardAgrees == ConsoleInv => CardLikeSummary
<1> SUFFICES ASSUME ConsoleInv PROVE CardLikeSummary
  OBVIOUS
<1>1. acct.status \in StatusValues /\ acct.serving \in ServingValues
      /\ acct.quota \in QuotaValues
  BY DEF ConsoleInv, RowFits, ConsoleRows
<1> QED BY <1>1 DEF CardLikeSummary, getRouteSummary, CpaSummary, Says, getMainIssueChip, QuotaIssue,
            ServingValues, QuotaValues, model429, ConsoleInv, RowFits

\* The diagnosis and the summary.
LEMMA DiagnosisAgrees == ConsoleInv => DiagnosisExplainsRoute
<1> SUFFICES ASSUME ConsoleInv PROVE DiagnosisExplainsRoute
  OBVIOUS
<1>1. acct.status \in StatusValues /\ acct.serving \in ServingValues
      /\ acct.quota \in QuotaValues /\ acct.cred \in CredValues
  BY DEF ConsoleInv, RowFits, ConsoleRows
<1>2. CASE acct.kind # "cpa"
  BY <1>1, <1>2 DEF DiagnosisExplainsRoute, getRouteSummary, Says, buildDiagnosticDimensions,
       credentialDimension, routeDimension, servingDimension, ServingValues, ConsoleInv, RowFits,
       hasRuntimeBindingIssue
<1>3. CASE acct.kind = "cpa"
  BY <1>1, <1>3 DEF DiagnosisExplainsRoute, getRouteSummary, CpaSummary, Says,
       buildDiagnosticDimensions, runtimeBindingDimension, credentialDimension, quotaDimension,
       servingDimension, subscriptionDimension, ServingValues, QuotaValues, model429, CredValues,
       CredentialBlocks
<1> QED BY <1>2, <1>3

\* What the console says of an account (its route, card and diagnosis) agrees with
\* the gateway and with itself, with the exceptions the property names, for every
\* row the server can write.
THEOREM ConsoleLikeRouterHolds == ConsoleSpec => []ConsoleLikeRouter
<1>1. ConsoleInv => ConsoleLikeRouter
  BY RoutableAgrees, SummaryAgrees, CardAgrees, DiagnosisAgrees
     DEF ConsoleLikeRouter, RoutableLikeRouter, ConsoleInv
<1> QED BY <1>1, ConsoleInvHolds, PTL
=============================================================================
