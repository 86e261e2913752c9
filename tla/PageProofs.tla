----------------------------- MODULE PageProofs -----------------------------
(***************************************************************************)
(* Proofs about what the console's pages show: the page of a pool, for any *)
(* pools and any number of handlers, moves and requests in flight; the     *)
(* sidebar with the dialog that creates a pool (both implement FreshView); *)
(* what the page does with the pool's token; and the digest and the        *)
(* charts of the activity page.                                            *)
(***************************************************************************)
EXTENDS PoolPage, Sidebar, PoolTokens, ActivityDigest, TrendBuckets,
        FiniteSetTheorems, SequenceTheorems, TLAPS

-----------------------------------------------------------------------------
(* The page of a pool: what its actions have in common *)

(* A pool that is shown was taken over from an answer. *)
LEMMA ShownTyped ==
  ASSUME PageTyped, Screen = "pool"
  PROVE  page.detail \in [pool : Pools, ver : Nat, row : Rows]
BY DEF PageTyped, PageStates, Screen

(* Every gesture starts one handler, with a request for a pool and at most the *)
(* flag of its own name.                                                       *)
Begins(op, flag, pool, put) ==
  /\ Begin(op, flag, pool, put)
  /\ flag \in {"none", op}
  /\ \/ refreshing' = refreshing
     \/ op = "refresh" /\ pool = path /\ refreshing' = refreshing \cup {path}

(* Every gesture of the user begins one handler. *)
LEMMA GestureBegins ==
  ASSUME PageTyped, Gesture
  PROVE  \E op \in Handlers, flag \in DialogFlags \cup {"policy", "none"},
            pool \in Pools, put \in Rows : Begins(op, flag, pool, put)
<1> USE DEF Handlers, DialogFlags
<1>0. path \in Pools /\ Screen = "pool"
  BY DEF Gesture, Begin, reorderMembers, toggleMember, handleCrossZoneMove,
         toggleRoutingPolicy, refreshAccount, deleteAccount, SheetSave, saveLabel,
         setPoolEnabled, deletePool
<1>1. page.detail.pool \in Pools /\ Shown \in Rows
  BY <1>0, ShownTyped DEF Shown
<1>2. CASE reorderMembers
  BY <1>0, <1>1, <1>2 DEF reorderMembers, Begins
<1>3. CASE toggleMember
  BY <1>0, <1>1, <1>3 DEF toggleMember, Begins
<1>4. CASE handleCrossZoneMove
  BY <1>0, <1>1, <1>4 DEF handleCrossZoneMove, Begins
<1>5. CASE toggleRoutingPolicy
  <2> DEFINE put == [Shown EXCEPT !.policy = IF @ = "ordered" THEN "health_first" ELSE "ordered"]
  <2>1. put \in Rows
    BY <1>1 DEF Rows
  <2>2. Begins("policy", "policy", path, put)
    BY <1>5 DEF toggleRoutingPolicy, Begins
  <2> QED
    BY <1>0, <2>1, <2>2
<1>6. CASE refreshAccount
  BY <1>0, <1>1, <1>6 DEF refreshAccount, Begins
<1>7. CASE deleteAccount
  BY <1>0, <1>1, <1>7 DEF deleteAccount, Begins
<1>8. CASE SheetSave
  BY <1>0, <1>1, <1>8 DEF SheetSave, Begins
<1>9. ASSUME NEW l \in {0, 1}, saveLabel(l)
      PROVE  \E op \in Handlers, flag \in DialogFlags \cup {"policy", "none"},
                pool \in Pools, put \in Rows : Begins(op, flag, pool, put)
  <2> DEFINE put == [Shown EXCEPT !.label = l]
  <2>1. put \in Rows
    BY <1>1 DEF Rows
  <2>2. Begins("label", "label", page.detail.pool, put)
    BY <1>9 DEF saveLabel, Begins
  <2> QED
    BY <1>1, <2>1, <2>2
<1>10. CASE setPoolEnabled
  <2> DEFINE put == [Shown EXCEPT !.enabled = ~@]
  <2>1. put \in Rows
    BY <1>1 DEF Rows
  <2>2. Begins("status", "status", page.detail.pool, put)
    BY <1>10 DEF setPoolEnabled, Begins
  <2> QED
    BY <1>1, <2>1, <2>2
<1>11. CASE deletePool
  BY <1>0, <1>1, <1>11 DEF deletePool, Begins
<1> QED
  BY <1>2, <1>3, <1>4, <1>5, <1>6, <1>7, <1>8, <1>9, <1>10, <1>11 DEF Gesture

(* A load that starts is numbered beyond the others and keeps what is shown. *)
LEMMA StartLoadTyped ==
  ASSUME PageTyped, NEW p \in Pools, NEW pg \in PageStates, StartLoad(p, pg)
  PROVE  /\ page' \in PageStates /\ loads' \subseteq LoadStates
         /\ asked' \in Pools /\ floor' \in Nat
<1>1. page' \in PageStates
  <2>1. pg.seq + 1 \in Nat
    BY DEF PageStates
  <2>2. PICK b \in BOOLEAN, n \in Nat :
          page' = [pg EXCEPT !.seq = n, !.error = FALSE, !.loading = b]
    BY <2>1, Zenon DEF StartLoad
  <2> QED
    BY <2>2 DEF PageStates
<1>2. [seq |-> pg.seq + 1, pool |-> p, st |-> "sent", ver |-> 0, row |-> row[p]] \in LoadStates
  BY DEF PageTyped, PageStates, LoadStates
<1> QED
  BY <1>1, <1>2 DEF StartLoad, PageTyped

(* A page that was just mounted has the page's type. *)
LEMMA FreshPageTyped == FreshPage \in PageStates
BY DEF FreshPage, PageStates

(* refreshData loads, or leaves everything but the flags of the page alone. *)
LEMMA RefreshTyped ==
  ASSUME PageTyped, refreshData
  PROVE  /\ page' \in PageStates /\ loads' \subseteq LoadStates
         /\ asked' \in Pools /\ floor' \in Nat
<1>1. CASE path \in Pools
  BY <1>1, StartLoadTyped DEF refreshData, PageTyped
<1>2. CASE path \notin Pools
  <2>1. [page EXCEPT !.loading = FALSE, !.error = TRUE] \in PageStates
    BY DEF PageTyped, PageStates
  <2> QED
    BY <1>2, <2>1 DEF refreshData, PageTyped
<1> QED
  BY <1>1, <1>2

(* What a handler does after its answer keeps the types. *)
LEMMA AfterAnswerTyped ==
  ASSUME PageTyped, NEW o \in ops, NEW ok \in BOOLEAN, AfterAnswer(o, ok)
  PROVE  /\ page' \in PageStates /\ loads' \subseteq LoadStates
         /\ asked' \in Pools /\ floor' \in Nat
<1>1. CASE refreshData
  BY <1>1, RefreshTyped
<1>2. CASE StartLoad(o.load, page)
  BY <1>2, StartLoadTyped DEF PageTyped, OpStates
<1>3. CASE NoLoad
  BY <1>3 DEF NoLoad, PageTyped
<1> QED
  BY <1>1, <1>2, <1>3 DEF AfterAnswer

-----------------------------------------------------------------------------
(* Types *)

(* The types hold before a pool is opened. *)
LEMMA InitTyped == PageInit => PageTyped
<1> SUFFICES ASSUME PageInit PROVE PageTyped
  OBVIOUS
<1>1. row \in [Pools -> Rows]
  BY DEF PageInit, Rows
<1> QED
  BY <1>1, FreshPageTyped DEF PageInit, PageTyped

(* Every step keeps the types. *)
LEMMA TypedStep == PageTyped /\ [PageNext]_pageVars => PageTyped'
<1> SUFFICES ASSUME PageTyped, [PageNext]_pageVars PROVE PageTyped'
  OBVIOUS
<1>1. ASSUME NEW l \in loads, ServeLoad(l) PROVE PageTyped'
  <2>1. [l EXCEPT !.st = "answered", !.ver = version, !.row = row[l.pool]] \in LoadStates
    BY <1>1 DEF PageTyped, LoadStates
  <2> QED
    BY <1>1, <2>1 DEF ServeLoad, PageTyped
<1>2. ASSUME NEW l \in loads, LoadArrives(l) PROVE PageTyped'
  <2>1. [page EXCEPT !.hasLoaded = TRUE, !.loading = FALSE,
              !.detail = [pool |-> l.pool, ver |-> l.ver, row |-> l.row]] \in PageStates
    BY <1>2 DEF PageTyped, LoadStates, PageStates
  <2> QED
    BY <1>2, <2>1 DEF LoadArrives, PageTyped
<1>3. ASSUME NEW l \in loads, LoadFails(l) PROVE PageTyped'
  <2>1. [page EXCEPT !.error = TRUE, !.loading = FALSE] \in PageStates
    BY DEF PageTyped, PageStates
  <2> QED
    BY <1>3, <2>1 DEF LoadFails, PageTyped
<1>4. ASSUME NEW p \in Pools \cup {"bad"}, Open(p) PROVE PageTyped'
  <2> DEFINE pg == IF path = "away" THEN FreshPage ELSE [page EXCEPT !.hasLoaded = FALSE]
  <2>1. pg \in PageStates /\ [pg EXCEPT !.loading = FALSE, !.error = TRUE] \in PageStates
    BY FreshPageTyped DEF PageTyped, PageStates
  <2>2. /\ page' \in PageStates /\ loads' \subseteq LoadStates
        /\ asked' \in Pools /\ floor' \in Nat
    <3>1. CASE p \in Pools
      <4>1. StartLoad(p, pg)
        BY <1>4, <3>1 DEF Open
      <4> HIDE DEF pg
      <4> QED
        BY <3>1, <4>1, <2>1, StartLoadTyped
    <3>2. CASE p \notin Pools
      <4>1. page' = [pg EXCEPT !.loading = FALSE, !.error = TRUE]
        BY <1>4, <3>2 DEF Open
      <4> QED
        BY <1>4, <3>2, <4>1, <2>1 DEF Open, PageTyped
    <3> QED
      BY <3>1, <3>2
  <2>3. count' \in [ops : Nat, moves : Nat, mount : Nat]
    <3>1. count.moves + 1 \in Nat /\ (IF path = "away" THEN count.mount + 1 ELSE count.mount) \in Nat
      BY DEF PageTyped
    <3>2. PICK k \in Nat, n \in Nat : count' = [count EXCEPT !.moves = k, !.mount = n]
      BY <1>4, <3>1, Zenon DEF Open
    <3> QED
      BY <3>2 DEF PageTyped
  <2> HIDE DEF pg
  <2> QED
    BY <1>4, <2>2, <2>3 DEF Open, PageTyped
<1>5. CASE Leave
  BY <1>5, FreshPageTyped DEF Leave, PageTyped
<1>6. CASE Retry
  <2>1. count' \in [ops : Nat, moves : Nat, mount : Nat]
    BY <1>6 DEF Retry, PageTyped
  <2>2. path \in Pools /\ StartLoad(path, page) /\ page \in PageStates
    BY <1>6 DEF Retry, PageTyped
  <2>3. /\ page' \in PageStates /\ loads' \subseteq LoadStates
        /\ asked' \in Pools /\ floor' \in Nat
    BY <2>2, StartLoadTyped
  <2> QED
    BY <1>6, <2>1, <2>3 DEF Retry, PageTyped
<1>7. CASE Gesture
  <2>1. PICK op \in Handlers, flag \in DialogFlags \cup {"policy", "none"},
             pool \in Pools, put \in Rows : Begins(op, flag, pool, put)
    BY <1>7, GestureBegins
  <2>2. page.detail \in [pool : Pools, ver : Nat, row : Rows] /\ path \in Pools
    BY <2>1, ShownTyped DEF Begins, Begin
  <2>3. [op |-> op, n |-> count.ops + 1, pool |-> pool, put |-> put,
         base |-> page.detail.ver, from |-> page.detail.pool, st |-> "sent",
         first |-> op = "cross", done |-> FALSE, mount |-> count.mount,
         load |-> path] \in OpStates
    BY <2>2 DEF PageTyped, OpStates
  <2>4. count' \in [ops : Nat, moves : Nat, mount : Nat]
    BY <2>1 DEF Begins, Begin, PageTyped
  <2> QED
    BY <2>1, <2>2, <2>3, <2>4 DEF Begins, Begin, PageTyped
<1>8. ASSUME NEW o \in ops, Apply(o) PROVE PageTyped'
  <2>1. [o EXCEPT !.st = "applied", !.done = TRUE] \in OpStates
    BY DEF PageTyped, OpStates
  <2>2. o.pool \in Pools /\ o.put \in Rows
    BY DEF PageTyped, OpStates
  <2>3. row' \in [Pools -> Rows]
    BY <1>8, <2>2 DEF Apply, PageTyped, Rows
  <2>4. stamp' \in [Pools -> Nat]
    BY <1>8, <2>2 DEF Apply, PageTyped
  <2> QED
    BY <1>8, <2>1, <2>2, <2>3, <2>4 DEF Apply, PageTyped
<1>9. ASSUME NEW o \in ops, SecondRequest(o) PROVE PageTyped'
  <2>1. [o EXCEPT !.st = "sent", !.first = FALSE] \in OpStates
    BY DEF PageTyped, OpStates
  <2> QED
    BY <1>9, <2>1 DEF SecondRequest, PageTyped
<1>10. ASSUME NEW o \in ops, NEW ok \in BOOLEAN, Finish(o, ok) PROVE PageTyped'
  <2>1. /\ page' \in PageStates /\ loads' \subseteq LoadStates
        /\ asked' \in Pools /\ floor' \in Nat
    BY <1>10, AfterAnswerTyped DEF Finish
  <2>2. unannounced' \in BOOLEAN /\ strayed' \in BOOLEAN
    BY <1>10 DEF Finish, PageTyped, OpStates
  <2> QED
    BY <1>10, <2>1, <2>2 DEF Finish, PageTyped
<1>11. ASSUME NEW o \in ops, DeletedAnswer(o) PROVE PageTyped'
  <2>1. [o EXCEPT !.st = "listing"] \in OpStates
    BY DEF PageTyped, OpStates
  <2>2. /\ page' \in PageStates /\ loads' \subseteq LoadStates
        /\ asked' \in Pools /\ floor' \in Nat
    BY <1>11, RefreshTyped DEF DeletedAnswer
  <2> QED
    BY <1>11, <2>1, <2>2 DEF DeletedAnswer, PageTyped
<1>12. ASSUME NEW o \in ops, NavigateAway(o) PROVE PageTyped'
  <2> DEFINE pg == IF path = "away" THEN FreshPage ELSE [page EXCEPT !.hasLoaded = FALSE]
  <2>1. pg \in PageStates
    BY FreshPageTyped DEF PageTyped, PageStates
  <2>2. PICK next \in (Pools \ (gone \cup {o.pool})) \cup {"away"} :
          /\ path' = next
          /\ \/ /\ next = path
                /\ saving' = saving \ {"delete"}
                /\ UNCHANGED <<page, loads, asked, floor, refreshing, count>>
             \/ /\ next # path /\ next \in Pools
                /\ count' = [count EXCEPT !.mount = IF path = "away" THEN @ + 1 ELSE @]
                /\ refreshing' = {}
                /\ saving' = IF path = "away" THEN {} ELSE saving \ DialogFlags
                /\ StartLoad(next, pg)
             \/ /\ next # path /\ next = "away"
                /\ page' = FreshPage
                /\ loads' = {}
                /\ saving' = {}
                /\ refreshing' = {}
                /\ UNCHANGED <<asked, floor, count>>
    BY <1>12 DEF NavigateAway
  <2> HIDE DEF pg
  <2>3. /\ page' \in PageStates /\ loads' \subseteq LoadStates
        /\ asked' \in Pools /\ floor' \in Nat
    BY <2>1, <2>2, StartLoadTyped, FreshPageTyped DEF PageTyped
  <2>4. count' \in [ops : Nat, moves : Nat, mount : Nat]
    BY <2>2 DEF PageTyped
  <2>5. path' \in Pools \cup {"bad", "away"} /\ saving' \subseteq DialogFlags \cup {"policy"}
        /\ refreshing' \subseteq Pools
    BY <2>2 DEF PageTyped
  <2>6. ops' \subseteq OpStates /\ unannounced' \in BOOLEAN /\ strayed' \in BOOLEAN
    BY <1>12 DEF NavigateAway, PageTyped
  <2> QED
    BY <1>12, <2>3, <2>4, <2>5, <2>6 DEF NavigateAway, PageTyped
<1>13. CASE UNCHANGED pageVars
  BY <1>13 DEF pageVars, PageTyped
<1> QED
  BY <1>1, <1>2, <1>3, <1>4, <1>5, <1>6, <1>7, <1>8, <1>9, <1>10, <1>11, <1>12, <1>13
     DEF PageNext, Arrive, Handler

-----------------------------------------------------------------------------
(* What a step does to the loads: apart from the answers of a load there are *)
(* five shapes.                                                              *)

Keeps == UNCHANGED <<path, page, loads, asked, floor, version>>

Starts ==
  \E p \in Pools, pg \in PageStates :
    /\ pg.seq = page.seq /\ pg.detail = page.detail
    /\ StartLoad(p, pg)
    /\ path' \in Pools \cup {"bad"}
    /\ version' = version

IsBad ==
  /\ path' = "bad"
  /\ page'.seq = page.seq /\ page'.detail = page.detail
  /\ ~page'.loading /\ page'.error
  /\ UNCHANGED <<loads, asked, floor, version>>

Closes == path' = "away" /\ page' = FreshPage /\ loads' = {} /\ UNCHANGED <<asked, floor, version>>

Grows == version' = version + 1 /\ UNCHANGED <<path, page, loads, asked, floor>>

(* refreshData starts a load, shows the error of a bad path, or does nothing. *)
LEMMA RefreshShape ==
  ASSUME PageTyped, refreshData, path' = path, version' = version
  PROVE  Starts \/ IsBad \/ Keeps
<1>1. CASE path \in Pools
  BY <1>1 DEF refreshData, Starts, PageTyped
<1>2. CASE path = "bad" /\ path \notin Pools
  <2>1. page' = [page EXCEPT !.loading = FALSE, !.error = TRUE]
    BY <1>2 DEF refreshData
  <2>2. page'.seq = page.seq /\ page'.detail = page.detail /\ ~page'.loading /\ page'.error
    BY <2>1 DEF PageTyped, PageStates
  <2> QED
    BY <1>2, <2>2 DEF refreshData, IsBad
<1>3. CASE path = "away" /\ path \notin Pools
  BY <1>3 DEF refreshData, Keeps
<1> QED
  BY <1>1, <1>2, <1>3 DEF PageTyped

(* Every step changes loads and page in one of a few ways. *)
LEMMA StepShape ==
  ASSUME PageTyped, AwayIsEmpty, [PageNext]_pageVars
  PROVE  \/ \E l \in loads : ServeLoad(l) \/ LoadArrives(l) \/ LoadFails(l)
         \/ Keeps \/ Starts \/ IsBad \/ Closes \/ Grows
<1> USE PoolsAssumption
<1> DEFINE pg == IF path = "away" THEN FreshPage ELSE [page EXCEPT !.hasLoaded = FALSE]
<1>0. pg \in PageStates /\ pg.seq = page.seq /\ pg.detail = page.detail
  BY FreshPageTyped DEF PageTyped, PageStates, AwayIsEmpty
<1>1. ASSUME NEW p \in Pools \cup {"bad"}, Open(p) PROVE Starts \/ IsBad
  <2>1. CASE p \in Pools
    <3>1. StartLoad(p, pg) /\ path' \in Pools \cup {"bad"} /\ version' = version
      BY <1>1, <2>1 DEF Open
    <3> HIDE DEF pg
    <3> QED
      BY <1>0, <2>1, <3>1 DEF Starts
  <2>2. CASE p \notin Pools
    <3>1. page' = [pg EXCEPT !.loading = FALSE, !.error = TRUE] /\ path' = "bad"
          /\ UNCHANGED <<loads, asked, floor, version>>
      BY <1>1, <2>2 DEF Open
    <3> HIDE DEF pg
    <3>2. page'.seq = page.seq /\ page'.detail = page.detail /\ ~page'.loading /\ page'.error
      BY <1>0, <3>1 DEF PageStates
    <3> QED
      BY <3>1, <3>2 DEF IsBad
  <2> QED
    BY <2>1, <2>2
<1>2. CASE Leave
  BY <1>2 DEF Leave, Closes
<1>3. CASE Retry
  BY <1>3 DEF Retry, Starts, PageTyped
<1>4. CASE Gesture
  <2>1. PICK op \in Handlers, flag \in DialogFlags \cup {"policy", "none"},
             pool \in Pools, put \in Rows : Begins(op, flag, pool, put)
    BY <1>4, GestureBegins
  <2> QED
    BY <2>1 DEF Begins, Begin, Keeps
<1>5. ASSUME NEW o \in ops, Apply(o) PROVE Grows
  BY <1>5 DEF Apply, Grows
<1>6. ASSUME NEW o \in ops, SecondRequest(o) PROVE Keeps
  BY <1>6 DEF SecondRequest, Keeps
<1>7. ASSUME NEW o \in ops, NEW ok \in BOOLEAN, Finish(o, ok) PROVE Starts \/ IsBad \/ Keeps
  <2>0. path' = path /\ version' = version
    BY <1>7 DEF Finish
  <2>1. CASE refreshData
    BY <2>0, <2>1, RefreshShape
  <2>2. CASE CallsLoad(o, ok) /\ StartLoad(o.load, page)
    <3>1. o.load \in Pools /\ page \in PageStates /\ path \in Pools \cup {"bad"}
      BY <2>2 DEF PageTyped, OpStates, CallsLoad
    <3> QED
      BY <2>0, <2>2, <3>1 DEF Starts
  <2>3. CASE NoLoad
    BY <2>0, <2>3 DEF NoLoad, Keeps
  <2> QED
    BY <1>7, <2>1, <2>2, <2>3 DEF Finish, AfterAnswer
<1>8. ASSUME NEW o \in ops, DeletedAnswer(o) PROVE Starts \/ IsBad \/ Keeps
  BY <1>8, RefreshShape DEF DeletedAnswer
<1>9. ASSUME NEW o \in ops, NavigateAway(o) PROVE Starts \/ Closes \/ Keeps
  <2>1. version' = version
    BY <1>9 DEF NavigateAway
  <2>2. PICK next \in Pools \cup {"away"} :
          /\ path' = next
          /\ \/ next = path /\ UNCHANGED <<page, loads, asked, floor>>
             \/ next \in Pools /\ StartLoad(next, pg)
             \/ next = "away" /\ page' = FreshPage /\ loads' = {} /\ UNCHANGED <<asked, floor>>
    BY <1>9 DEF NavigateAway
  <2> HIDE DEF pg
  <2>3. CASE next = path /\ UNCHANGED <<page, loads, asked, floor>>
    BY <2>1, <2>2, <2>3 DEF Keeps
  <2>4. CASE next \in Pools /\ StartLoad(next, pg)
    BY <1>0, <2>1, <2>2, <2>4 DEF Starts
  <2>5. CASE next = "away" /\ page' = FreshPage /\ loads' = {} /\ UNCHANGED <<asked, floor>>
    BY <2>1, <2>2, <2>5 DEF Closes
  <2> QED
    BY <2>2, <2>3, <2>4, <2>5
<1>10. CASE UNCHANGED pageVars
  BY <1>10 DEF pageVars, Keeps
<1> HIDE DEF pg
<1> QED
  BY <1>1, <1>2, <1>3, <1>4, <1>5, <1>6, <1>7, <1>8, <1>9, <1>10
     DEF PageNext, Arrive, Handler

-----------------------------------------------------------------------------
(* The invariant of the loads *)

NothingAway == path = "away" => page = FreshPage /\ loads = {}

LoadInv ==
  NothingAway /\ LoadsNumbered /\ NewestIsFresh /\ ShowsNewest /\ SkeletonAwaitsAnswer

(* Every step keeps what is said of the loads. *)
LEMMA LoadInvStep ==
  ASSUME PageTyped, PageTyped', AwayIsEmpty, LoadInv, [PageNext]_pageVars
  PROVE  LoadInv'
<1> USE PoolsAssumption, NoDetailAssumption
<1> USE DEF LoadInv, Pending
<1>1. ASSUME NEW l \in loads, ServeLoad(l) PROVE LoadInv'
  <2> DEFINE m == [l EXCEPT !.st = "answered", !.ver = version, !.row = row[l.pool]]
  <2>0. m.seq = l.seq /\ m.pool = l.pool /\ m.st = "answered" /\ m.ver = version
    BY DEF PageTyped, LoadStates
  <2>1. loads' = (loads \ {l}) \cup {m} /\ UNCHANGED <<path, page, asked, floor, version>>
    BY <1>1 DEF ServeLoad
  <2> HIDE DEF m
  <2>2. NothingAway'
    BY <1>1, <2>1 DEF NothingAway
  <2>3. LoadsNumbered'
    BY <2>0, <2>1 DEF LoadsNumbered
  <2>4. NewestIsFresh'
    BY <2>0, <2>1 DEF NewestIsFresh, PageTyped
  <2>5. ShowsNewest' /\ SkeletonAwaitsAnswer'
    BY <2>0, <2>1 DEF ShowsNewest, SkeletonAwaitsAnswer, Screen
  <2> QED
    BY <2>2, <2>3, <2>4, <2>5
<1>2. ASSUME NEW l \in loads, LoadArrives(l) PROVE LoadInv'
  <2>1. loads' = loads \ {l} /\ UNCHANGED <<path, asked, floor, version>> /\ l.st = "answered"
        /\ l \in LoadStates
    BY <1>2 DEF LoadArrives, PageTyped
  <2>2. CASE l.seq = page.seq
    <3>1. page' = [page EXCEPT !.hasLoaded = TRUE, !.loading = FALSE,
                     !.detail = [pool |-> l.pool, ver |-> l.ver, row |-> l.row]]
      BY <1>2, <2>2 DEF LoadArrives
    <3>2. /\ page'.seq = page.seq /\ page'.detail # NoDetail /\ page'.detail.ver = l.ver
          /\ page'.error = page.error /\ ~page'.loading
      BY <2>1, <3>1 DEF PageTyped, PageStates, LoadStates
    <3>3. NothingAway'
      BY <2>1 DEF NothingAway
    <3>4. LoadsNumbered'
      BY <2>1, <3>2 DEF LoadsNumbered
    <3>5. NewestIsFresh'
      BY <2>1, <3>2 DEF NewestIsFresh
    <3>6. ShowsNewest' /\ SkeletonAwaitsAnswer'
      BY <2>1, <2>2, <3>2 DEF ShowsNewest, SkeletonAwaitsAnswer, Screen, NewestIsFresh
    <3> QED
      BY <3>3, <3>4, <3>5, <3>6
  <2>3. CASE l.seq # page.seq
    <3>1. page' = page
      BY <1>2, <2>3 DEF LoadArrives
    <3>2. NothingAway' /\ LoadsNumbered' /\ NewestIsFresh'
      BY <2>1, <3>1 DEF NothingAway, LoadsNumbered, NewestIsFresh
    <3>3. ShowsNewest' /\ SkeletonAwaitsAnswer'
      BY <2>1, <2>3, <3>1 DEF ShowsNewest, SkeletonAwaitsAnswer, Screen
    <3> QED
      BY <3>2, <3>3
  <2> QED
    BY <2>2, <2>3
<1>3. ASSUME NEW l \in loads, LoadFails(l) PROVE LoadInv'
  <2>1. loads' = loads \ {l} /\ UNCHANGED <<path, asked, floor, version>>
    BY <1>3 DEF LoadFails
  <2>2. CASE l.seq = page.seq
    <3>1. page' = [page EXCEPT !.error = TRUE, !.loading = FALSE]
      BY <1>3, <2>2 DEF LoadFails
    <3>2. page'.seq = page.seq /\ page'.detail = page.detail /\ page'.error /\ ~page'.loading
      BY <3>1 DEF PageTyped, PageStates
    <3>3. NothingAway' /\ LoadsNumbered' /\ NewestIsFresh'
      BY <2>1, <3>2 DEF NothingAway, LoadsNumbered, NewestIsFresh
    <3>4. ShowsNewest' /\ SkeletonAwaitsAnswer'
      BY <3>2 DEF ShowsNewest, SkeletonAwaitsAnswer, Screen
    <3> QED
      BY <3>3, <3>4
  <2>3. CASE l.seq # page.seq
    <3>1. page' = page
      BY <1>3, <2>3 DEF LoadFails
    <3>2. NothingAway' /\ LoadsNumbered' /\ NewestIsFresh'
      BY <2>1, <3>1 DEF NothingAway, LoadsNumbered, NewestIsFresh
    <3>3. ShowsNewest' /\ SkeletonAwaitsAnswer'
      BY <2>1, <2>3, <3>1 DEF ShowsNewest, SkeletonAwaitsAnswer, Screen
    <3> QED
      BY <3>2, <3>3
  <2> QED
    BY <2>2, <2>3
<1>4. CASE Keeps
  BY <1>4 DEF Keeps, NothingAway, LoadsNumbered, NewestIsFresh, ShowsNewest,
              SkeletonAwaitsAnswer, Screen
<1>5. CASE Starts
  <2>1. PICK p \in Pools, pg \in PageStates :
          /\ pg.seq = page.seq /\ pg.detail = page.detail
          /\ StartLoad(p, pg)
          /\ path' \in Pools \cup {"bad"}
          /\ version' = version
    BY <1>5 DEF Starts
  <2> DEFINE m == [seq |-> pg.seq + 1, pool |-> p, st |-> "sent", ver |-> 0, row |-> row[p]]
  <2>2. loads' = loads \cup {m} /\ asked' = p /\ floor' = version
        /\ m.seq = page.seq + 1 /\ m.pool = p /\ m.st = "sent"
    BY <2>1 DEF StartLoad
  <2>3. page'.seq = page.seq + 1 /\ page'.detail = page.detail
    BY <2>1 DEF StartLoad, PageStates
  <2>4. page.seq \in Nat /\ version \in Nat /\ \A l \in loads : l.seq \in Nat
    BY DEF PageTyped, PageStates, LoadStates
  <2> HIDE DEF m
  <2>5. NothingAway'
    BY <2>1 DEF NothingAway
  <2>6. LoadsNumbered'
    BY <2>2, <2>3, <2>4 DEF LoadsNumbered
  <2>7. NewestIsFresh'
    BY <2>1, <2>2, <2>3, <2>4 DEF NewestIsFresh, LoadsNumbered
  <2>8. ShowsNewest' /\ SkeletonAwaitsAnswer'
    BY <2>2, <2>3 DEF ShowsNewest, SkeletonAwaitsAnswer
  <2> QED
    BY <2>5, <2>6, <2>7, <2>8
<1>6. CASE IsBad
  BY <1>6 DEF IsBad, NothingAway, LoadsNumbered, NewestIsFresh, ShowsNewest,
              SkeletonAwaitsAnswer, Screen
<1>7. CASE Closes
  <2>1. page'.detail = NoDetail
    BY <1>7 DEF Closes, FreshPage
  <2> QED
    BY <1>7, <2>1 DEF Closes, NothingAway, LoadsNumbered, NewestIsFresh, ShowsNewest,
                      SkeletonAwaitsAnswer
<1>8. CASE Grows
  <2>1. version \in Nat /\ floor \in Nat
        /\ (\A l \in loads : l.ver \in Nat) /\ (page.detail # NoDetail => page.detail.ver \in Nat)
    BY DEF PageTyped, LoadStates, PageStates
  <2>2. NewestIsFresh'
    BY <1>8, <2>1 DEF Grows, NewestIsFresh
  <2> QED
    BY <1>8, <2>2 DEF Grows, NothingAway, LoadsNumbered, ShowsNewest,
                      SkeletonAwaitsAnswer, Screen
<1> QED
  BY <1>1, <1>2, <1>3, <1>4, <1>5, <1>6, <1>7, <1>8, StepShape

-----------------------------------------------------------------------------
(* The invariant of the controls *)

FlagsAway == path = "away" => saving = {} /\ refreshing = {}

ControlInv == FlagsAway /\ OnlyDeleteLists /\ NoControlStuck

(* Every step keeps what is said of the controls. *)
LEMMA ControlInvStep ==
  ASSUME PageTyped, PageTyped', ControlInv, [PageNext]_pageVars
  PROVE  ControlInv'
<1> USE PoolsAssumption
<1> USE DEF ControlInv, FlagsAway
<1>1. ASSUME NEW l \in loads, ServeLoad(l) \/ LoadFails(l) PROVE ControlInv'
  BY <1>1 DEF ServeLoad, LoadFails, OnlyDeleteLists, NoControlStuck
<1>2. ASSUME NEW l \in loads, LoadArrives(l) PROVE ControlInv'
  BY <1>2 DEF LoadArrives, OnlyDeleteLists, NoControlStuck
<1>3. ASSUME NEW p \in Pools \cup {"bad"}, Open(p) PROVE ControlInv'
  <2>1. path' # "away" /\ ops' = ops /\ refreshing' = {}
    BY <1>3 DEF Open
  <2>2. saving' = {} \/ (saving' \subseteq saving /\ count'.mount = count.mount)
    BY <1>3 DEF Open, PageTyped
  <2> QED
    BY <2>1, <2>2 DEF OnlyDeleteLists, NoControlStuck
<1>4. CASE Leave
  BY <1>4 DEF Leave, OnlyDeleteLists, NoControlStuck
<1>5. CASE Retry
  <2>1. count'.mount = count.mount
    BY <1>5 DEF Retry, PageTyped
  <2> QED
    BY <1>5, <2>1 DEF Retry, OnlyDeleteLists, NoControlStuck
<1>6. CASE Gesture
  <2>1. PICK op \in Handlers, flag \in DialogFlags \cup {"policy", "none"},
             pool \in Pools, put \in Rows : Begins(op, flag, pool, put)
    BY <1>6, GestureBegins
  <2> DEFINE o == [op |-> op, n |-> count.ops + 1, pool |-> pool, put |-> put,
                   base |-> page.detail.ver, from |-> page.detail.pool, st |-> "sent",
                   first |-> op = "cross", done |-> FALSE, mount |-> count.mount,
                   load |-> path]
  <2>2. o.op = op /\ o.pool = pool /\ o.st = "sent" /\ o.mount = count.mount
    OBVIOUS
  <2>3. /\ ops' = ops \cup {o}
        /\ saving' = saving \cup ({flag} \ {"none"})
        /\ path' = path /\ path \in Pools
        /\ flag \in {"none", op}
        /\ \/ refreshing' = refreshing
           \/ op = "refresh" /\ pool = path /\ refreshing' = refreshing \cup {path}
    BY <2>1 DEF Begins, Begin
  <2>4. count'.mount = count.mount
    BY <2>1 DEF Begins, Begin, PageTyped
  <2> HIDE DEF o
  <2>5. FlagsAway' /\ OnlyDeleteLists'
    BY <2>2, <2>3 DEF OnlyDeleteLists
  <2>6. NoControlStuck'
    BY <2>2, <2>3, <2>4 DEF NoControlStuck
  <2> QED
    BY <2>5, <2>6
<1>7. ASSUME NEW o \in ops, NEW x \in OpStates, ops' = (ops \ {o}) \cup {x},
             x.op = o.op, x.pool = o.pool, x.mount = o.mount,
             x.st = "listing" => o.op = "delete",
             UNCHANGED <<path, saving, refreshing, count>>
      PROVE  ControlInv'
  BY <1>7 DEF OnlyDeleteLists, NoControlStuck
<1>8. ASSUME NEW o \in ops, Apply(o) PROVE ControlInv'
  <2> DEFINE x == [o EXCEPT !.st = "applied", !.done = TRUE]
  <2>1. x \in OpStates /\ x.op = o.op /\ x.pool = o.pool /\ x.mount = o.mount /\ x.st = "applied"
    <3>1. o \in OpStates
      BY DEF PageTyped
    <3>2. x \in OpStates
      BY <3>1 DEF OpStates
    <3>3. x.op = o.op /\ x.pool = o.pool /\ x.mount = o.mount /\ x.st = "applied"
      BY <3>1 DEF OpStates
    <3> QED
      BY <3>2, <3>3
  <2>2. ops' = (ops \ {o}) \cup {x} /\ UNCHANGED <<path, saving, refreshing, count>>
    BY <1>8 DEF Apply
  <2> HIDE DEF x
  <2> QED
    BY <1>7, <2>1, <2>2
<1>9. ASSUME NEW o \in ops, SecondRequest(o) PROVE ControlInv'
  <2> DEFINE x == [o EXCEPT !.st = "sent", !.first = FALSE]
  <2>1. x \in OpStates /\ x.op = o.op /\ x.pool = o.pool /\ x.mount = o.mount /\ x.st = "sent"
    <3>1. o \in OpStates
      BY DEF PageTyped
    <3>2. x \in OpStates
      BY <3>1 DEF OpStates
    <3>3. x.op = o.op /\ x.pool = o.pool /\ x.mount = o.mount /\ x.st = "sent"
      BY <3>1 DEF OpStates
    <3> QED
      BY <3>2, <3>3
  <2>2. ops' = (ops \ {o}) \cup {x} /\ UNCHANGED <<path, saving, refreshing, count>>
    BY <1>9 DEF SecondRequest
  <2> HIDE DEF x
  <2> QED
    BY <1>7, <2>1, <2>2
<1>10. ASSUME NEW o \in ops, DeletedAnswer(o) PROVE ControlInv'
  <2> DEFINE x == [o EXCEPT !.st = "listing"]
  <2>1. x \in OpStates /\ x.op = o.op /\ x.pool = o.pool /\ x.mount = o.mount
    BY DEF PageTyped, OpStates
  <2>2. /\ ops' = (ops \ {o}) \cup {x} /\ UNCHANGED <<path, saving, refreshing, count>>
        /\ o.op = "delete"
    BY <1>10 DEF DeletedAnswer
  <2> HIDE DEF x
  <2> QED
    BY <1>7, <2>1, <2>2
<1>11. ASSUME NEW o \in ops, NEW ok \in BOOLEAN, Finish(o, ok) PROVE ControlInv'
  <2>1. /\ ops' = ops \ {o} /\ UNCHANGED <<path, count>>
        /\ saving' = IF o.mount = count.mount THEN saving \ {o.op} ELSE saving
        /\ refreshing' = IF o.op = "refresh" /\ o.mount = count.mount
                         THEN refreshing \ {o.pool} ELSE refreshing
    BY <1>11 DEF Finish
  <2> QED
    BY <2>1 DEF OnlyDeleteLists, NoControlStuck
<1>12. ASSUME NEW o \in ops, NavigateAway(o) PROVE ControlInv'
  <2>1. ops' = ops \ {o} /\ o.op = "delete"
    BY <1>12 DEF NavigateAway, OnlyDeleteLists
  <2>2. \/ /\ path' = path /\ saving' = saving \ {"delete"}
           /\ UNCHANGED <<refreshing, count>>
        \/ /\ path' \in Pools /\ refreshing' = {}
           /\ \/ saving' = {}
              \/ saving' = saving \ DialogFlags /\ count'.mount = count.mount
        \/ saving' = {} /\ refreshing' = {}
    BY <1>12 DEF NavigateAway, PageTyped
  <2>3. OnlyDeleteLists'
    BY <2>1 DEF OnlyDeleteLists
  <2>4. FlagsAway' /\ NoControlStuck'
    BY <2>1, <2>2 DEF NoControlStuck, DialogFlags
  <2> QED
    BY <2>3, <2>4
<1>13. CASE UNCHANGED pageVars
  BY <1>13 DEF pageVars, OnlyDeleteLists, NoControlStuck
<1> QED
  BY <1>1, <1>2, <1>3, <1>4, <1>5, <1>6, <1>8, <1>9, <1>10, <1>11, <1>12, <1>13
     DEF PageNext, Arrive, Handler

-----------------------------------------------------------------------------
(* The pool of the path is what is loaded *)

(* A load of the pool of the path keeps LoadsPath. *)
LEMMA PathLoaded ==
  ASSUME PageTyped, NEW p \in Pools, NEW pg \in PageStates, StartLoad(p, pg),
         path' = p, pg.hasLoaded => pg.detail # NoDetail /\ pg.detail.pool = p
  PROVE  LoadsPath'
<1>1. /\ page'.hasLoaded = pg.hasLoaded /\ page'.detail = pg.detail
      /\ ~pg.hasLoaded => page'.loading
  BY DEF StartLoad, PageStates
<1> QED
  BY <1>1 DEF StartLoad, LoadsPath

(* Loading again is loading the pool of the address. *)
LEMMA RefreshLoads ==
  ASSUME PageTyped, LoadsPath, refreshData, path' = path, strayed' = strayed
  PROVE  LoadsPath'
<1>1. CASE path \in Pools /\ ~strayed
  BY <1>1, PathLoaded DEF refreshData, LoadsPath, PageTyped
<1>2. CASE ~(path \in Pools /\ ~strayed)
  BY <1>2 DEF LoadsPath
<1> QED
  BY <1>1, <1>2

(* Every step keeps that the pool of the address is loaded or being loaded. *)
LEMMA LoadsPathStep ==
  ASSUME PageTyped, AwayIsEmpty, NewestIsFresh, LoadsPath, [PageNext]_pageVars
  PROVE  LoadsPath'
<1> USE PoolsAssumption
<1> DEFINE pg == IF path = "away" THEN FreshPage ELSE [page EXCEPT !.hasLoaded = FALSE]
<1>0. pg \in PageStates /\ ~pg.hasLoaded
  BY FreshPageTyped DEF PageTyped, PageStates, FreshPage
<1>1. ASSUME NEW l \in loads, ServeLoad(l) PROVE LoadsPath'
  BY <1>1 DEF ServeLoad, LoadsPath
<1>2. ASSUME NEW l \in loads, LoadArrives(l) PROVE LoadsPath'
  <2>1. UNCHANGED <<path, asked, strayed>>
    BY <1>2 DEF LoadArrives
  <2>2. CASE l.seq = page.seq
    <3>1. page' = [page EXCEPT !.hasLoaded = TRUE, !.loading = FALSE,
                     !.detail = [pool |-> l.pool, ver |-> l.ver, row |-> l.row]]
      BY <1>2, <2>2 DEF LoadArrives
    <3>2. page'.hasLoaded /\ page'.detail # NoDetail /\ page'.detail.pool = l.pool
      BY <3>1, NoDetailAssumption DEF PageTyped, PageStates, LoadStates
    <3>3. l.pool = asked
      BY <2>2 DEF NewestIsFresh
    <3> QED
      BY <2>1, <3>2, <3>3 DEF LoadsPath
  <2>3. CASE l.seq # page.seq
    BY <1>2, <2>1, <2>3 DEF LoadArrives, LoadsPath
  <2> QED
    BY <2>2, <2>3
<1>3. ASSUME NEW l \in loads, LoadFails(l) PROVE LoadsPath'
  <2>1. UNCHANGED <<path, asked, strayed>>
    BY <1>3 DEF LoadFails
  <2>2. /\ page'.hasLoaded = page.hasLoaded /\ page'.detail = page.detail
        /\ page' = page \/ page'.error
    BY <1>3 DEF LoadFails, PageTyped, PageStates
  <2> QED
    BY <2>1, <2>2 DEF LoadsPath
<1>4. ASSUME NEW p \in Pools \cup {"bad"}, Open(p) PROVE LoadsPath'
  <2>1. CASE p \in Pools
    <3>1. StartLoad(p, pg) /\ path' = p
      BY <1>4, <2>1 DEF Open
    <3> HIDE DEF pg
    <3> QED
      BY <1>0, <2>1, <3>1, PathLoaded
  <2>2. CASE p \notin Pools
    BY <1>4, <2>2 DEF Open, LoadsPath
  <2> QED
    BY <2>1, <2>2
<1>5. CASE Leave
  BY <1>5 DEF Leave, LoadsPath
<1>6. CASE Retry
  <2>1. CASE strayed
    BY <1>6, <2>1 DEF Retry, LoadsPath
  <2>2. CASE ~strayed
    BY <1>6, <2>2, PathLoaded DEF Retry, LoadsPath, PageTyped
  <2> QED
    BY <2>1, <2>2
<1>7. CASE Gesture
  <2>1. PICK op \in Handlers, flag \in DialogFlags \cup {"policy", "none"},
             pool \in Pools, put \in Rows : Begins(op, flag, pool, put)
    BY <1>7, GestureBegins
  <2> QED
    BY <2>1 DEF Begins, Begin, LoadsPath
<1>8. ASSUME NEW o \in ops, Apply(o) \/ SecondRequest(o) PROVE LoadsPath'
  BY <1>8 DEF Apply, SecondRequest, LoadsPath
<1>9. ASSUME NEW o \in ops, NEW ok \in BOOLEAN, Finish(o, ok) PROVE LoadsPath'
  <2>0. /\ path' = path /\ AfterAnswer(o, ok)
        /\ strayed' = (strayed \/ (CallsLoad(o, ok) /\ o.load # path))
    BY <1>9 DEF Finish
  <2>1. CASE strayed \/ path \notin Pools
    BY <2>0, <2>1 DEF LoadsPath
  <2>2. CASE ~strayed /\ path \in Pools /\ refreshData
    <3>1. page \in PageStates /\ StartLoad(path, page)
      BY <2>2 DEF refreshData, PageTyped
    <3> QED
      BY <2>0, <2>2, <3>1, PathLoaded DEF LoadsPath
  <2>3. CASE ~strayed /\ path \in Pools /\ CallsLoad(o, ok) /\ StartLoad(o.load, page)
    <3>1. CASE o.load = path
      BY <2>0, <2>3, <3>1, PathLoaded DEF LoadsPath, PageTyped
    <3>2. CASE o.load # path
      BY <2>0, <2>3, <3>2 DEF LoadsPath
    <3> QED
      BY <3>1, <3>2
  <2>4. CASE ~strayed /\ path \in Pools /\ ~CallsLoad(o, ok) /\ NoLoad
    BY <2>0, <2>4 DEF NoLoad, LoadsPath
  <2> QED
    BY <2>0, <2>1, <2>2, <2>3, <2>4 DEF AfterAnswer
<1>10. ASSUME NEW o \in ops, DeletedAnswer(o) PROVE LoadsPath'
  BY <1>10, RefreshLoads DEF DeletedAnswer
<1>11. ASSUME NEW o \in ops, NavigateAway(o) PROVE LoadsPath'
  <2>1. strayed' = (strayed /\ path' = path)
    BY <1>11 DEF NavigateAway
  <2>2. \/ path' = path /\ UNCHANGED <<page, asked>>
        \/ path' \in Pools /\ StartLoad(path', pg)
        \/ path' = "away"
    BY <1>11 DEF NavigateAway
  <2> HIDE DEF pg
  <2>3. CASE path' = path /\ UNCHANGED <<page, asked>>
    BY <2>1, <2>3 DEF LoadsPath
  <2>4. CASE path' \in Pools /\ StartLoad(path', pg)
    <3>1. PICK q \in Pools : q = path' /\ StartLoad(q, pg)
      BY <2>4
    <3> QED
      BY <1>0, <3>1, PathLoaded
  <2>5. CASE path' = "away"
    BY <2>5 DEF LoadsPath
  <2> QED
    BY <2>2, <2>3, <2>4, <2>5
<1>12. CASE UNCHANGED pageVars
  BY <1>12 DEF pageVars, LoadsPath
<1> HIDE DEF pg
<1> QED
  BY <1>1, <1>2, <1>3, <1>4, <1>5, <1>6, <1>7, <1>8, <1>9, <1>10, <1>11, <1>12
     DEF PageNext, Arrive, Handler

-----------------------------------------------------------------------------
(* Every change is asked for again *)

(* Every step keeps that a change has a handler that will ask for it. *)
LEMMA ChangesAnnouncedStep ==
  ASSUME PageTyped, ChangesAnnounced, [PageNext]_pageVars
  PROVE  ChangesAnnounced'
<1> USE PoolsAssumption
<1> USE DEF ChangesAnnounced
<1>1. ASSUME NEW l \in loads, ServeLoad(l) \/ LoadArrives(l) \/ LoadFails(l)
      PROVE  ChangesAnnounced'
  BY <1>1 DEF ServeLoad, LoadArrives, LoadFails
<1>2. ASSUME NEW p \in Pools \cup {"bad"}, Open(p) PROVE ChangesAnnounced'
  BY <1>2 DEF Open, StartLoad
<1>3. CASE Leave
  BY <1>3 DEF Leave
<1>4. CASE Retry
  BY <1>4 DEF Retry, StartLoad
<1>5. CASE Gesture
  <2>1. PICK op \in Handlers, flag \in DialogFlags \cup {"policy", "none"},
             pool \in Pools, put \in Rows : Begins(op, flag, pool, put)
    BY <1>5, GestureBegins
  <2>2. ops \subseteq ops' /\ UNCHANGED <<path, unannounced, floor, version>>
    BY <2>1 DEF Begins, Begin
  <2> QED
    BY <2>2
<1>6. ASSUME NEW o \in ops, Apply(o) PROVE ChangesAnnounced'
  <2> DEFINE x == [o EXCEPT !.st = "applied", !.done = TRUE]
  <2>1. x.done /\ x.st # "listing"
    BY DEF PageTyped, OpStates
  <2>2. x \in ops'
    BY <1>6 DEF Apply
  <2> QED
    BY <2>1, <2>2
<1>7. ASSUME NEW o \in ops, SecondRequest(o) PROVE ChangesAnnounced'
  <2> DEFINE x == [o EXCEPT !.st = "sent", !.first = FALSE]
  <2>1. x.done = o.done /\ x.st # "listing"
    BY DEF PageTyped, OpStates
  <2>2. ops' = (ops \ {o}) \cup {x} /\ UNCHANGED <<path, unannounced, floor, version>>
    BY <1>7 DEF SecondRequest
  <2> HIDE DEF x
  <2> QED
    BY <2>1, <2>2
<1>8. ASSUME NEW o \in ops, NEW ok \in BOOLEAN, Finish(o, ok) PROVE ChangesAnnounced'
  <2>0. /\ ops' = ops \ {o} /\ UNCHANGED <<path, version>> /\ AfterAnswer(o, ok)
        /\ unannounced' = IF CallsRefresh(o, ok) \/ CallsLoad(o, ok) THEN FALSE
                          ELSE unannounced \/ o.done
    BY <1>8 DEF Finish
  <2>1. CASE refreshData
    BY <2>0, <2>1 DEF refreshData, StartLoad
  <2>2. CASE StartLoad(o.load, page)
    BY <2>0, <2>2 DEF StartLoad
  <2>3. CASE ~CallsRefresh(o, ok) /\ ~CallsLoad(o, ok) /\ NoLoad
    <3>1. unannounced' = (unannounced \/ o.done) /\ floor' = floor
      BY <2>0, <2>3 DEF NoLoad
    <3> QED
      BY <2>0, <3>1
  <2> QED
    BY <2>0, <2>1, <2>2, <2>3 DEF AfterAnswer
<1>9. ASSUME NEW o \in ops, DeletedAnswer(o) PROVE ChangesAnnounced'
  BY <1>9 DEF DeletedAnswer, refreshData, StartLoad
<1>10. ASSUME NEW o \in ops, NavigateAway(o) PROVE ChangesAnnounced'
  <2>1. /\ ops' = ops \ {o} /\ o.st = "listing" /\ version' = version
        /\ unannounced' = (unannounced /\ path' \notin Pools \ {path})
    BY <1>10 DEF NavigateAway
  <2>2. \/ path' = path /\ floor' = floor
        \/ floor' = version
        \/ path' = "away"
    BY <1>10 DEF NavigateAway, StartLoad
  <2> QED
    BY <2>1, <2>2
<1>11. CASE UNCHANGED pageVars
  BY <1>11 DEF pageVars
<1> QED
  BY <1>1, <1>2, <1>3, <1>4, <1>5, <1>6, <1>7, <1>8, <1>9, <1>10, <1>11
     DEF PageNext, Arrive, Handler

-----------------------------------------------------------------------------
(* The theorems *)

(* The page's invariant holds before a pool is opened. *)
LEMMA InitPageInv == PageInit => PageInv
<1> SUFFICES ASSUME PageInit PROVE PageInv
  OBVIOUS
<1> USE PoolsAssumption
<1>1. PageTyped
  BY InitTyped
<1>2. page.detail = NoDetail
  BY DEF PageInit, FreshPage
<1>3. AwayIsEmpty /\ LoadsNumbered /\ OnlyDeleteLists
  BY DEF PageInit, AwayIsEmpty, LoadsNumbered, OnlyDeleteLists
<1>4. NewestIsFresh
  BY <1>2 DEF PageInit, NewestIsFresh
<1>5. LoadsPath /\ ChangesAnnounced /\ ShowsNewest /\ SkeletonAwaitsAnswer /\ NoControlStuck
  BY DEF PageInit, LoadsPath, ChangesAnnounced, ShowsNewest, SkeletonAwaitsAnswer,
         NoControlStuck
<1> QED
  BY <1>1, <1>3, <1>4, <1>5 DEF PageInv

(* Every step keeps the page's invariant. *)
LEMMA PageInvStep == PageInv /\ [PageNext]_pageVars => PageInv'
<1> SUFFICES ASSUME PageInv, [PageNext]_pageVars PROVE PageInv'
  OBVIOUS
<1> USE DEF PageInv
<1>1. PageTyped'
  BY TypedStep
<1>2. LoadInv'
  BY <1>1, LoadInvStep DEF LoadInv, NothingAway, AwayIsEmpty
<1>3. ControlInv'
  BY <1>1, ControlInvStep DEF ControlInv, FlagsAway, AwayIsEmpty
<1>4. LoadsPath' /\ ChangesAnnounced'
  BY LoadsPathStep, ChangesAnnouncedStep
<1>5. AwayIsEmpty'
  BY <1>2, <1>3 DEF LoadInv, ControlInv, NothingAway, FlagsAway, AwayIsEmpty
<1> QED
  BY <1>1, <1>2, <1>3, <1>4, <1>5 DEF LoadInv, ControlInv

(* The inductive invariant of the pool page holds in every reachable state. *)
THEOREM PageInvHolds == PageSpec => []PageInv
BY InitPageInv, PageInvStep, PTL DEF PageSpec

(* Every variable of the pool page keeps its type. *)
THEOREM PageTypedHolds == PageSpec => []PageTyped
<1>1. PageInv => PageTyped
  BY DEF PageInv
<1> QED
  BY <1>1, PageInvHolds, PTL

(* The skeleton of PoolDetailPage is shown only while the answer to its newest *)
(* load is awaited, whatever was lost, overtaken or left before.               *)
THEOREM SkeletonAwaitsAnswerHolds == PageSpec => []SkeletonAwaitsAnswer
<1>1. PageInv => SkeletonAwaitsAnswer
  BY DEF PageInv
<1> QED
  BY <1>1, PageInvHolds, PTL

(* Each busy flag of the page and each account marked as refreshing has a handler *)
(* in flight that will clear it.                                                  *)
THEOREM NoControlStuckHolds == PageSpec => []NoControlStuck
<1>1. PageInv => NoControlStuck
  BY DEF PageInv
<1> QED
  BY <1>1, PageInvHolds, PTL

(* The pool on the screen is the pool of the path, unless a handler's own load was *)
(* called for another pool since the path changed.                                 *)
THEOREM OpenPoolIsShownHolds == PageSpec => []OpenPoolIsShown
<1>1. PageInv => OpenPoolIsShown
  <2> SUFFICES ASSUME PageInv, Screen = "pool", path \in Pools, ~strayed
               PROVE  page.detail.pool = path
    BY DEF OpenPoolIsShown
  <2>1. ~page.loading /\ ~page.error
    BY DEF Screen
  <2> QED
    BY <2>1 DEF PageInv, LoadsPath
<1> QED
  BY <1>1, PageInvHolds, PTL

(* A page that awaits nothing shows the server's present state of the pool, unless *)
(* a handler whose answer was lost could not ask for it.                           *)
THEOREM QuietPageIsCurrentHolds == PageSpec => []QuietPageIsCurrent
<1>1. PageInv => QuietPageIsCurrent
  <2> SUFFICES ASSUME PageInv, path \in Pools, Screen = "pool", loads = {}, ops = {},
                      ~unannounced
               PROVE  page.detail.ver = version
    BY DEF QuietPageIsCurrent
  <2>1. ~page.loading /\ ~page.error
    BY DEF Screen
  <2>2. floor = version
    BY DEF PageInv, ChangesAnnounced
  <2>3. page.detail # NoDetail /\ floor <= page.detail.ver /\ page.detail.ver <= version
    BY <2>1 DEF PageInv, ShowsNewest, NewestIsFresh, Pending
  <2>4. page.detail.ver \in Nat /\ version \in Nat
    BY <2>3 DEF PageInv, PageTyped, PageStates
  <2> QED
    BY <2>2, <2>3, <2>4
<1> QED
  BY <1>1, PageInvHolds, PTL

-----------------------------------------------------------------------------
(* The page implements FreshView *)

ShownView == IF page.detail = NoDetail THEN NoDetail
             ELSE [key |-> page.detail.pool, ver |-> page.detail.ver]

(* An initial state of the page is one of the abstract view. *)
LEMMA ViewInit == PageInit => View!FreshInit
<1> SUFFICES ASSUME PageInit PROVE View!FreshInit
  OBVIOUS
<1>1. page.detail = NoDetail
  BY DEF PageInit, FreshPage
<1>2. ~Pending
  BY DEF PageInit, Pending
<1> QED
  BY <1>1, <1>2 DEF PageInit, View!FreshInit, Pending

(* Every step of the page is a step of the abstract view, or none. *)
LEMMA ViewStep ==
  ASSUME PageInv, PageInv', [PageNext]_pageVars
  PROVE  [View!FreshNext]_(View!viewVars)
<1> USE PoolsAssumption, NoDetailAssumption
<1> SUFFICES \/ UNCHANGED <<version, asked, floor, Pending, ShownView>>
             \/ version' = version + 1 /\ UNCHANGED <<asked, floor, Pending, ShownView>>
             \/ /\ asked' \in Pools /\ floor' = version /\ Pending'
                /\ UNCHANGED <<version, ShownView>>
             \/ /\ Pending /\ ~Pending'
                /\ UNCHANGED <<version, asked, floor>>
                /\ \/ ShownView' = ShownView
                   \/ \E v \in floor .. version : ShownView' = [key |-> asked, ver |-> v]
             \/ ~Pending' /\ ShownView' = NoDetail /\ UNCHANGED <<version, asked, floor>>
  BY Zenon DEF View!FreshNext, View!viewVars, View!Change, View!Ask, View!Show, View!GiveUp,
         View!Forget, Pending, ShownView
<1> USE DEF PageInv
<1>1. ASSUME NEW l \in loads, ServeLoad(l)
      PROVE  UNCHANGED <<version, asked, floor, Pending, ShownView>>
  <2> DEFINE m == [l EXCEPT !.st = "answered", !.ver = version, !.row = row[l.pool]]
  <2>1. m.seq = l.seq
    BY DEF PageTyped, LoadStates
  <2>2. loads' = (loads \ {l}) \cup {m} /\ UNCHANGED <<page, version, asked, floor>>
    BY <1>1 DEF ServeLoad
  <2> HIDE DEF m
  <2> QED
    BY <2>1, <2>2 DEF Pending, ShownView
<1>2. ASSUME NEW l \in loads, LoadArrives(l)
      PROVE  \/ UNCHANGED <<version, asked, floor, Pending, ShownView>>
             \/ /\ Pending /\ ~Pending' /\ UNCHANGED <<version, asked, floor>>
                /\ \E v \in floor .. version : ShownView' = [key |-> asked, ver |-> v]
  <2>1. loads' = loads \ {l} /\ UNCHANGED <<asked, floor, version>> /\ l.st = "answered"
        /\ l \in LoadStates
    BY <1>2 DEF LoadArrives, PageTyped
  <2>2. CASE l.seq = page.seq
    <3>1. page' = [page EXCEPT !.hasLoaded = TRUE, !.loading = FALSE,
                     !.detail = [pool |-> l.pool, ver |-> l.ver, row |-> l.row]]
      BY <1>2, <2>2 DEF LoadArrives
    <3>2. /\ page'.seq = page.seq /\ page'.detail # NoDetail
          /\ page'.detail.ver = l.ver /\ page'.detail.pool = l.pool
      BY <2>1, <3>1 DEF PageTyped, PageStates, LoadStates
    <3>3. Pending /\ ~Pending'
      BY <2>1, <2>2, <3>2 DEF Pending, LoadsNumbered
    <3>4. l.pool = asked /\ l.ver \in floor .. version
      BY <2>1, <2>2 DEF NewestIsFresh, PageTyped, LoadStates
    <3>5. ShownView' = [key |-> asked, ver |-> l.ver]
      BY <3>2, <3>4 DEF ShownView
    <3> QED
      BY <2>1, <3>3, <3>4, <3>5
  <2>3. CASE l.seq # page.seq
    <3>1. page' = page
      BY <1>2, <2>3 DEF LoadArrives
    <3> QED
      BY <2>1, <2>3, <3>1 DEF Pending, ShownView
  <2> QED
    BY <2>2, <2>3
<1>3. ASSUME NEW l \in loads, LoadFails(l)
      PROVE  \/ UNCHANGED <<version, asked, floor, Pending, ShownView>>
             \/ Pending /\ ~Pending' /\ UNCHANGED <<version, asked, floor, ShownView>>
  <2>1. loads' = loads \ {l} /\ UNCHANGED <<asked, floor, version>>
    BY <1>3 DEF LoadFails
  <2>2. CASE l.seq = page.seq
    <3>1. page'.seq = page.seq /\ page'.detail = page.detail
      BY <1>3, <2>2 DEF LoadFails, PageTyped, PageStates
    <3>2. Pending /\ ~Pending'
      BY <2>1, <2>2, <3>1 DEF Pending, LoadsNumbered
    <3> QED
      BY <2>1, <3>1, <3>2 DEF ShownView
  <2>3. CASE l.seq # page.seq
    <3>1. page' = page
      BY <1>3, <2>3 DEF LoadFails
    <3> QED
      BY <2>1, <2>3, <3>1 DEF Pending, ShownView
  <2> QED
    BY <2>2, <2>3
<1>4. ASSUME Keeps PROVE UNCHANGED <<version, asked, floor, Pending, ShownView>>
  BY <1>4 DEF Keeps, Pending, ShownView
<1>5. ASSUME Starts
      PROVE  /\ asked' \in Pools /\ floor' = version /\ Pending'
             /\ UNCHANGED <<version, ShownView>>
  <2>1. PICK p \in Pools, pg \in PageStates :
          /\ pg.seq = page.seq /\ pg.detail = page.detail
          /\ StartLoad(p, pg) /\ version' = version
    BY <1>5 DEF Starts
  <2>2. page'.seq = pg.seq + 1 /\ page'.detail = page.detail
    BY <2>1 DEF StartLoad, PageStates
  <2>3. Pending'
    BY <2>1, <2>2 DEF StartLoad, Pending
  <2> QED
    BY <2>1, <2>2, <2>3 DEF StartLoad, ShownView
<1>6. ASSUME IsBad PROVE UNCHANGED <<version, asked, floor, Pending, ShownView>>
  BY <1>6 DEF IsBad, Pending, ShownView
<1>7. ASSUME Closes
      PROVE  ~Pending' /\ ShownView' = NoDetail /\ UNCHANGED <<version, asked, floor>>
  <2>1. page'.detail = NoDetail
    BY <1>7 DEF Closes, FreshPage
  <2> QED
    BY <1>7, <2>1 DEF Closes, Pending, ShownView
<1>8. ASSUME Grows
      PROVE  version' = version + 1 /\ UNCHANGED <<asked, floor, Pending, ShownView>>
  BY <1>8 DEF Grows, Pending, ShownView
<1> QED
  BY <1>1, <1>2, <1>3, <1>4, <1>5, <1>6, <1>7, <1>8, StepShape

(* PoolDetailPage's loader implements FreshView: what it takes over is the answer *)
(* to its newest request, for the pool asked for, and no older than the request.  *)
THEOREM PageIsFreshViewHolds == PageSpec => PageIsFreshView
<1>1. PageInv /\ PageInv' /\ [PageNext]_pageVars => [View!FreshNext]_(View!viewVars)
  BY ViewStep
<1> QED
  BY <1>1, ViewInit, PageInvHolds, PTL DEF PageSpec, PageIsFreshView, View!FreshSpec

-----------------------------------------------------------------------------
(* Saves of a pool's row *)

Columns == {"label", "policy", "enabled"}
Saves == [policy |-> "policy", label |-> "label", status |-> "enabled"]

\* A row that was read is the server's until the row changes.
RowsRead ==
  /\ \A p \in Pools : stamp[p] <= version
  /\ \A l \in loads : l.st = "answered" /\ stamp[l.pool] <= l.ver => l.row = row[l.pool]
  /\ page.detail # NoDetail /\ stamp[page.detail.pool] <= page.detail.ver
       => page.detail.row = row[page.detail.pool]

\* A save begun on such a row differs from it in the field it is about, at most.
SaveFits(o) ==
  /\ o.base <= version
  /\ o.op \in DOMAIN Saves /\ o.from = o.pool /\ stamp[o.pool] <= o.base =>
       \A f \in Columns : o.put[f] # row[o.pool][f] => f = Saves[o.op]

SavesFit == \A o \in ops : SaveFits(o)

(* Only the server's carrying out of a handler changes a row. *)
LEMMA RowStep ==
  ASSUME PageTyped, [PageNext]_pageVars
  PROVE  (\E o \in ops : Apply(o)) \/ UNCHANGED <<row, stamp>>
<1>1. CASE Gesture
  BY <1>1, GestureBegins DEF Begins, Begin
<1>2. CASE Arrive
  BY <1>2 DEF Arrive, ServeLoad, LoadArrives, LoadFails
<1>3. CASE (\E p \in Pools \cup {"bad"} : Open(p)) \/ Leave \/ Retry
  BY <1>3 DEF Open, Leave, Retry
<1>4. CASE Handler
  BY <1>4 DEF Handler, SecondRequest, Finish, DeletedAnswer, NavigateAway
<1>5. CASE UNCHANGED pageVars
  BY <1>5 DEF pageVars
<1> QED BY <1>1, <1>2, <1>3, <1>4, <1>5 DEF PageNext

(* What the server does to a row that is saved: its stamp is beyond what anyone read. *)
LEMMA ApplyRow ==
  ASSUME PageTyped, NEW o \in ops, Apply(o)
  PROVE  /\ version' = version + 1 /\ o.pool \in Pools
         /\ \A p \in Pools \ {o.pool} : row'[p] = row[p] /\ stamp'[p] = stamp[p]
         /\ \/ row'[o.pool] = row[o.pool] /\ stamp'[o.pool] = stamp[o.pool]
            \/ stamp'[o.pool] = version + 1
         /\ \A f \in Columns : row'[o.pool][f] # row[o.pool][f] =>
              o.op \in DOMAIN Saves /\ o.put[f] # row[o.pool][f]
<1>1. o.pool \in Pools /\ o.put \in Rows /\ version' = version + 1
      /\ row \in [Pools -> Rows] /\ stamp \in [Pools -> Nat] /\ row[o.pool] \in Rows
  BY DEF PageTyped, OpStates, Apply
<1>2. stamp' = IF row' # row THEN [stamp EXCEPT ![o.pool] = version + 1] ELSE stamp
  BY DEF Apply
<1>3. CASE o.op \in {"policy", "label"}
  <2>1. row' = [row EXCEPT ![o.pool] = o.put]
    BY <1>3 DEF Apply
  <2> QED BY <1>1, <1>2, <1>3, <2>1 DEF Saves
<1>4. CASE o.op = "status"
  <2>1. row' = [row EXCEPT ![o.pool].enabled = o.put.enabled]
    BY <1>4 DEF Apply
  <2>2. \A f \in {"label", "policy"} : row'[o.pool][f] = row[o.pool][f]
    BY <1>1, <2>1 DEF Rows
  <2>3. row'[o.pool]["enabled"] = o.put["enabled"]
    BY <1>1, <2>1 DEF Rows
  <2>4. \A p \in Pools \ {o.pool} : row'[p] = row[p]
    BY <1>1, <2>1
  <2> QED BY <1>1, <1>2, <1>4, <2>2, <2>3, <2>4 DEF Saves, Columns
<1>5. CASE o.op \notin {"policy", "label", "status"}
  BY <1>1, <1>2, <1>5 DEF Apply
<1> QED BY <1>3, <1>4, <1>5

(* The rows that were read stay true until they are stale. *)
LEMMA RowsReadStep ==
  ASSUME PageInv, RowsRead, [PageNext]_pageVars PROVE RowsRead'
<1>0. PageTyped /\ AwayIsEmpty /\ NewestIsFresh /\ version \in Nat
  BY DEF PageInv, PageTyped
<1>1. CASE \E o \in ops : Apply(o)
  <2> PICK o \in ops : Apply(o)
    BY <1>1
  <2>1. UNCHANGED <<page, loads>> /\ version' = version + 1
    BY DEF Apply
  <2>2. \A p \in Pools : stamp'[p] <= version' /\
          \A n \in Nat : n <= version /\ stamp'[p] <= n => stamp[p] <= n /\ row'[p] = row[p]
    BY <1>0, <2>1, ApplyRow DEF RowsRead, PageTyped
  <2>3. \A l \in loads : l.st = "answered" => l.pool \in Pools /\ l.ver \in Nat /\ l.ver <= version
    BY <1>0 DEF NewestIsFresh, PageTyped, LoadStates
  <2>4. page.detail # NoDetail =>
          page.detail.pool \in Pools /\ page.detail.ver \in Nat /\ page.detail.ver <= version
    BY <1>0 DEF NewestIsFresh, PageTyped, PageStates
  <2> QED BY <2>1, <2>2, <2>3, <2>4 DEF RowsRead
<1>2. CASE UNCHANGED <<row, stamp>>
  <2>1. \/ \E l \in loads : ServeLoad(l) \/ LoadArrives(l) \/ LoadFails(l)
        \/ Keeps \/ Starts \/ IsBad \/ Closes \/ Grows
    BY <1>0, StepShape
  <2>2. ASSUME NEW l \in loads, ServeLoad(l) PROVE RowsRead'
    <3> DEFINE m == [l EXCEPT !.st = "answered", !.ver = version, !.row = row[l.pool]]
    <3>1. m.row = row[m.pool]
      BY <1>0, <2>2 DEF PageTyped, LoadStates
    <3>2. loads' = (loads \ {l}) \cup {m} /\ UNCHANGED <<version, page>>
      BY <2>2 DEF ServeLoad
    <3> HIDE DEF m
    <3> QED BY <1>2, <3>1, <3>2 DEF RowsRead
  <2>3. ASSUME NEW l \in loads, LoadArrives(l) PROVE RowsRead'
    <3>1. l.st = "answered" /\ loads' \subseteq loads /\ version' = version
      BY <2>3 DEF LoadArrives
    <3>2. page'.detail = page.detail
          \/ page'.detail = [pool |-> l.pool, ver |-> l.ver, row |-> l.row]
      BY <1>0, <2>3 DEF LoadArrives, PageTyped, PageStates
    <3> QED BY <1>2, <3>1, <3>2 DEF RowsRead
  <2>4. ASSUME NEW l \in loads, LoadFails(l) PROVE RowsRead'
    <3>1. loads' \subseteq loads /\ version' = version /\ page'.detail = page.detail
      BY <1>0, <2>4 DEF LoadFails, PageTyped, PageStates
    <3> QED BY <1>2, <3>1 DEF RowsRead
  <2>5. CASE Keeps \/ Grows
    BY <1>0, <1>2, <2>5 DEF Keeps, Grows, RowsRead, PageTyped
  <2>6. CASE Starts
    <3>1. page'.detail = page.detail /\ version' = version
          /\ \A l \in loads' : l \in loads \/ l.st = "sent"
      BY <2>6 DEF Starts, StartLoad, PageStates
    <3> QED BY <1>2, <3>1 DEF RowsRead
  <2>7. CASE IsBad
    BY <1>2, <2>7 DEF IsBad, RowsRead
  <2>8. CASE Closes
    BY <1>2, <2>8 DEF Closes, FreshPage, RowsRead
  <2> QED BY <2>1, <2>2, <2>3, <2>4, <2>5, <2>6, <2>7, <2>8
<1> QED BY <1>0, <1>1, <1>2, RowStep

\* What a save keeps of its beginning.
Alike(o, q) ==
  q.op = o.op /\ q.pool = o.pool /\ q.put = o.put /\ q.base = o.base /\ q.from = o.from

(* A step begins at most one handler, from what is shown; the others keep their values. *)
LEMMA SavesStep ==
  ASSUME PageTyped, [PageNext]_pageVars
  PROVE  /\ ~Gesture => \A q \in ops' : \E o \in ops : Alike(o, q)
         /\ Gesture =>
              /\ UNCHANGED <<version, row, stamp>>
              /\ page.detail \in [pool : Pools, ver : Nat, row : Rows]
              /\ \A q \in ops' : q \in ops \/
                   /\ q.base = page.detail.ver /\ q.from = page.detail.pool
                   /\ q.op \in DOMAIN Saves =>
                        \A f \in Columns : q.put[f] # page.detail.row[f] => f = Saves[q.op]
<1>1. CASE Gesture
  <2>1. Screen = "pool" /\ UNCHANGED <<version, row, stamp>>
    BY <1>1, GestureBegins DEF Begins, Begin
  <2>2. page.detail \in [pool : Pools, ver : Nat, row : Rows] /\ page.detail.row \in Rows
    BY <2>1, ShownTyped
  <2>3. PICK op \in Handlers, put \in Rows :
          /\ \A q \in ops' : q \in ops \/
               /\ q.base = page.detail.ver /\ q.from = page.detail.pool
               /\ q.op = op /\ q.put = put
          /\ op \in DOMAIN Saves =>
               \A f \in Columns : put[f] # page.detail.row[f] => f = Saves[op]
    <3> USE DEF Begin, Saves, Columns, Shown, Handlers
    <3>1. CASE toggleRoutingPolicy
      <4> DEFINE put == [Shown EXCEPT !.policy = IF @ = "ordered" THEN "health_first" ELSE "ordered"]
      <4>1. put \in Rows /\ put.label = Shown.label /\ put.enabled = Shown.enabled
        BY <2>2 DEF Rows
      <4>2. Begin("policy", "policy", path, put)
        BY <3>1 DEF toggleRoutingPolicy
      <4> HIDE DEF put
      <4> QED BY <4>1, <4>2
    <3>2. ASSUME NEW l \in {0, 1}, saveLabel(l)
          PROVE  \E op \in Handlers, put \in Rows :
                   /\ \A q \in ops' : q \in ops \/
                        /\ q.base = page.detail.ver /\ q.from = page.detail.pool
                        /\ q.op = op /\ q.put = put
                   /\ op \in DOMAIN Saves =>
                        \A f \in Columns : put[f] # page.detail.row[f] => f = Saves[op]
      <4> DEFINE put == [Shown EXCEPT !.label = l]
      <4>1. put \in Rows /\ put.policy = Shown.policy /\ put.enabled = Shown.enabled
        BY <2>2 DEF Rows
      <4>2. Begin("label", "label", page.detail.pool, put)
        BY <3>2 DEF saveLabel
      <4> HIDE DEF put
      <4> QED BY <4>1, <4>2
    <3>3. CASE setPoolEnabled
      <4> DEFINE put == [Shown EXCEPT !.enabled = ~@]
      <4>1. put \in Rows /\ put.policy = Shown.policy /\ put.label = Shown.label
        BY <2>2 DEF Rows
      <4>2. Begin("status", "status", page.detail.pool, put)
        BY <3>3 DEF setPoolEnabled
      <4> HIDE DEF put
      <4> QED BY <4>1, <4>2
    <3>4. CASE \/ reorderMembers \/ toggleMember \/ handleCrossZoneMove \/ refreshAccount
               \/ deleteAccount \/ SheetSave \/ deletePool
      <4>1. PICK op \in Handlers \ DOMAIN Saves, flag \in {"none", "delete"}, pool \in {path, page.detail.pool} :
              Begin(op, flag, pool, Shown)
        BY <3>4 DEF reorderMembers, toggleMember, handleCrossZoneMove, refreshAccount,
           deleteAccount, SheetSave, deletePool
      <4> QED BY <2>2, <4>1
    <3> QED BY <1>1, <3>1, <3>2, <3>3, <3>4 DEF Gesture
  <2> QED BY <1>1, <2>1, <2>2, <2>3
<1>2. CASE ~Gesture
  <2>1. \A q \in ops : Alike(q, q)
    BY DEF Alike
  <2>2. ASSUME NEW o \in ops, Apply(o) PROVE \A q \in ops' : \E p \in ops : Alike(p, q)
    <3>1. Alike(o, [o EXCEPT !.st = "applied", !.done = TRUE])
      BY DEF PageTyped, OpStates, Alike
    <3> QED BY <2>1, <2>2, <3>1 DEF Apply
  <2>3. ASSUME NEW o \in ops, SecondRequest(o) PROVE \A q \in ops' : \E p \in ops : Alike(p, q)
    <3>1. Alike(o, [o EXCEPT !.st = "sent", !.first = FALSE])
      BY DEF PageTyped, OpStates, Alike
    <3> QED BY <2>1, <2>3, <3>1 DEF SecondRequest
  <2>4. ASSUME NEW o \in ops, DeletedAnswer(o) PROVE \A q \in ops' : \E p \in ops : Alike(p, q)
    <3>1. Alike(o, [o EXCEPT !.st = "listing"])
      BY DEF PageTyped, OpStates, Alike
    <3> QED BY <2>1, <2>4, <3>1 DEF DeletedAnswer
  <2>5. ASSUME NEW o \in ops, NavigateAway(o) \/ \E ok \in BOOLEAN : Finish(o, ok)
        PROVE  ops' \subseteq ops
    BY <2>5 DEF NavigateAway, Finish
  <2>6. CASE Arrive \/ (\E p \in Pools \cup {"bad"} : Open(p)) \/ Leave \/ Retry \/ UNCHANGED pageVars
    <3>1. ops' = ops
      BY <2>6 DEF Arrive, ServeLoad, LoadArrives, LoadFails, Open, Leave, Retry, pageVars
    <3> QED BY <1>2, <2>1, <3>1
  <2> QED BY <1>2, <2>1, <2>2, <2>3, <2>4, <2>5, <2>6 DEF PageNext, Handler
<1> QED BY <1>1, <1>2

(* A save fits as long as its row does not change, and is stale afterwards. *)
LEMMA SavesFitStep ==
  ASSUME PageInv, RowsRead, SavesFit, [PageNext]_pageVars PROVE SavesFit'
<1>0. PageTyped /\ NewestIsFresh /\ version \in Nat /\ ops \subseteq OpStates
  BY DEF PageInv, PageTyped
<1>1. CASE Gesture
  <2>1. UNCHANGED <<version, row, stamp>> /\ page.detail \in [pool : Pools, ver : Nat, row : Rows]
        /\ \A q \in ops' : q \in ops \/
             /\ q.base = page.detail.ver /\ q.from = page.detail.pool
             /\ q.op \in DOMAIN Saves =>
                  \A f \in Columns : q.put[f] # page.detail.row[f] => f = Saves[q.op]
    BY <1>0, <1>1, SavesStep
  <2>2. page.detail # NoDetail
    BY <2>1, NoDetailAssumption
  <2>3. page.detail.ver <= version
    BY <1>0, <2>2 DEF NewestIsFresh
  <2>4. ASSUME NEW q \in ops' PROVE SaveFits(q)'
    <3>1. CASE q \in ops
      BY <2>1, <3>1 DEF SavesFit, SaveFits
    <3>2. CASE q \notin ops
      BY <2>1, <2>2, <2>3, <3>2 DEF SaveFits, RowsRead
    <3> QED BY <3>1, <3>2
  <2> QED BY <2>4 DEF SavesFit
<1>2. CASE ~Gesture
  <2>1. \A q \in ops' : \E o \in ops : Alike(o, q)
    BY <1>0, <1>2, SavesStep
  <2>2. \A o \in ops : SaveFits(o)'
    <3> TAKE o \in ops
    <3>0. o.base \in Nat /\ o.pool \in Pools /\ SaveFits(o)
      BY <1>0 DEF OpStates, SavesFit
    <3>1. CASE UNCHANGED <<row, stamp>>
      <4>1. version' \in Nat /\ version <= version'
        <5>1. \/ \E l \in loads : ServeLoad(l) \/ LoadArrives(l) \/ LoadFails(l)
              \/ Keeps \/ Starts \/ IsBad \/ Closes \/ Grows
          BY StepShape DEF PageInv
        <5>2. version' = version \/ version' = version + 1
          BY <5>1, Zenon
             DEF ServeLoad, LoadArrives, LoadFails, Keeps, Starts, IsBad, Closes, Grows
        <5> QED BY <1>0, <5>2
      <4> QED BY <1>0, <3>0, <3>1, <4>1 DEF SaveFits
    <3>2. ASSUME NEW p \in ops, Apply(p) PROVE SaveFits(o)'
      <4>1. version' = version + 1
            /\ (stamp'[o.pool] = version + 1
                \/ (stamp'[o.pool] = stamp[o.pool] /\ row'[o.pool] = row[o.pool]))
        BY <1>0, <3>0, <3>2, ApplyRow
      <4> QED BY <1>0, <3>0, <4>1 DEF SaveFits
    <3> QED BY <1>0, <3>1, <3>2, RowStep
  <2> QED BY <2>1, <2>2 DEF SavesFit, SaveFits, Alike
<1> QED BY <1>1, <1>2

(* The rows that were read, and the saves begun on them, in every reachable state. *)
THEOREM SavesFitHolds == PageSpec => [](RowsRead /\ SavesFit)
<1>1. PageInit => RowsRead /\ SavesFit
  BY DEF PageInit, FreshPage, RowsRead, SavesFit
<1>2. PageInv /\ RowsRead /\ SavesFit /\ [PageNext]_pageVars => RowsRead' /\ SavesFit'
  BY RowsReadStep, SavesFitStep
<1> QED BY <1>1, <1>2, PageInvHolds, PTL DEF PageSpec

\* A save of the whole row undoes another field of it only when the row changed after
\* the page had loaded it, or the page showed another pool than it saved.
THEOREM LostUpdateNeedsOverlapHolds == PageSpec => LostUpdateNeedsOverlap
<1> DEFINE Kept ==
      \A o \in ops : \A f \in {"label", "policy", "enabled"} :
       (/\ o.st = "sent" /\ o \notin ops' /\ stamp[o.pool] <= o.base /\ o.from = o.pool
        /\ row'[o.pool][f] # row[o.pool][f])
         => f = [policy |-> "policy", label |-> "label", status |-> "enabled"][o.op]
<1>1. PageInv /\ SavesFit /\ [PageNext]_pageVars => Kept
  <2> SUFFICES ASSUME PageInv, SavesFit, [PageNext]_pageVars, NEW o \in ops,
                      NEW f \in {"label", "policy", "enabled"}, o \notin ops',
                      stamp[o.pool] <= o.base, o.from = o.pool,
                      row'[o.pool][f] # row[o.pool][f]
               PROVE  f = Saves[o.op]
    BY DEF Saves
  <2>1. PICK p \in ops : Apply(p)
    BY RowStep DEF PageInv
  <2>2. o = p
    BY <2>1 DEF Apply
  <2>3. o.op \in DOMAIN Saves /\ o.put[f] # row[o.pool][f]
    BY <2>1, <2>2, ApplyRow DEF PageInv, Columns
  <2> QED BY <2>3 DEF SavesFit, SaveFits, Columns
<1>2. PageInv /\ SavesFit /\ [PageNext]_pageVars => [Kept]_pageVars
  BY <1>1
<1> QED
  BY <1>2, PageInvHolds, SavesFitHolds, PTL DEF PageSpec, LostUpdateNeedsOverlap

-----------------------------------------------------------------------------
(* The sidebar *)

Runs == [gen : Nat, st : {"list", "details", "read"}, ver : Nat]
Creates == [n : Nat, st : {"counting", "counted", "created"}, priority : Nat]

SidebarTyped ==
  /\ poolChanges \in Nat
  /\ priorities \in Seq(Nat)
  /\ dataVersion \in Nat
  /\ fetches \subseteq Runs
  /\ sidePools \in Nat \cup {NoList} /\ sideSnaps \in Nat \cup {NoList}
  /\ askedAt \in Nat
  /\ dialog \in [open : BOOLEAN, saving : BOOLEAN]
  /\ creates \subseteq Creates
  /\ made \in Nat
  /\ wentBad \in BOOLEAN

\* One run of the effect is the newest, and it began before what it read.
NewestRun ==
  /\ askedAt <= poolChanges
  /\ \A f \in fetches : f.gen <= dataVersion
  /\ \A f, g \in fetches : ~Cancelled(f) /\ ~Cancelled(g) => f = g

\* A run shows the list before it asks for the details.
ReadInOrder ==
  \A f \in fetches : ~Cancelled(f) /\ f.st \in {"details", "read"} =>
    /\ sidePools # NoList /\ askedAt <= sidePools /\ sidePools <= poolChanges
    /\ f.st = "read" => sidePools <= f.ver /\ f.ver <= poolChanges

\* Creations one after another number the pools from one on.
NumberedInOrder ==
  ~wentBad =>
    /\ \A i \in 1 .. Len(priorities) : priorities[i] = i
    /\ \A c, d \in creates : c = d
    /\ \A c \in creates : c.st = "counted" => c.priority = Len(priorities) + 1

SidebarInv ==
  SidebarTyped /\ NewestRun /\ ReadInOrder /\ SnapshotsFollowList /\ NumberedInOrder

(* The sidebar's invariant holds when the console opens. *)
LEMMA SidebarInvInit == SidebarInit => SidebarInv
<1> SUFFICES ASSUME SidebarInit
             PROVE  SidebarInv
  OBVIOUS
<1>0. /\ poolChanges = 0 /\ dataVersion = 0 /\ askedAt = 0 /\ creates = {}
      /\ fetches = {[gen |-> 0, st |-> "list", ver |-> 0]}
      /\ sidePools = NoList /\ sideSnaps = NoList
  BY DEF SidebarInit
<1>1. priorities \in Seq(Nat) /\ Len(priorities) = 2
      /\ priorities[1] = 1 /\ priorities[2] = 2
  BY DEF SidebarInit
<1>2. SidebarTyped
  <2>1. dialog \in [open : BOOLEAN, saving : BOOLEAN] /\ made \in Nat /\ wentBad \in BOOLEAN
    BY DEF SidebarInit
  <2>2. fetches \subseteq Runs
    BY <1>0 DEF Runs
  <2> QED BY <1>0, <1>1, <2>1, <2>2 DEF SidebarTyped
<1>3. NewestRun /\ ReadInOrder /\ SnapshotsFollowList
  BY <1>0 DEF NewestRun, ReadInOrder, SnapshotsFollowList, Cancelled
<1>4. \A i \in 1 .. Len(priorities) : i = 1 \/ i = 2
  BY <1>1
<1>5. NumberedInOrder
  BY <1>0, <1>1, <1>4 DEF NumberedInOrder
<1> QED BY <1>2, <1>3, <1>5 DEF SidebarInv

\* A pool that is deleted leaves a list of priorities.
LEMMA RemovedTyped ==
  ASSUME NEW s \in Seq(Nat), NEW i \in 1 .. Len(s)
  PROVE  RemoveAt(s, i) \in Seq(Nat)
<1>1. \A k \in 1 .. Len(s) : s[k] \in Nat
  OBVIOUS
<1>2. SubSeq(s, 1, i - 1) \in Seq(Nat) /\ SubSeq(s, i + 1, Len(s)) \in Seq(Nat)
  BY <1>1, SubSeqProperties
<1> QED BY <1>2, ConcatProperties DEF RemoveAt

\* A run that begins supersedes the ones before it.
LEMMA RefetchInv ==
  ASSUME SidebarInv, Refetch, UNCHANGED <<poolChanges, priorities, sidePools, sideSnaps>>,
         creates' \subseteq creates, made' \in Nat, wentBad' = wentBad,
         dialog' \in [open : BOOLEAN, saving : BOOLEAN]
  PROVE  SidebarInv'
<1> DEFINE new == [gen |-> dataVersion + 1, st |-> "list", ver |-> 0]
<1>0. /\ dataVersion' = dataVersion + 1 /\ fetches' = fetches \cup {new} /\ askedAt' = poolChanges
      /\ new \in Runs /\ new.gen = dataVersion + 1 /\ new.st = "list"
      /\ dataVersion \in Nat /\ poolChanges \in Nat /\ fetches \subseteq Runs
  BY DEF Refetch, SidebarInv, SidebarTyped, Runs
<1> HIDE DEF new
<1>1. \A f \in fetches' : f.gen <= dataVersion' /\ (~Cancelled(f)' => f = new)
  <2>1. \A f \in fetches : f.gen \in Nat /\ f.gen <= dataVersion
    BY <1>0 DEF Runs, SidebarInv, NewestRun
  <2> QED BY <1>0, <2>1 DEF Cancelled
<1>2. SidebarTyped'
  BY <1>0 DEF SidebarInv, SidebarTyped
<1>3. NewestRun' /\ ReadInOrder'
  BY <1>0, <1>1 DEF NewestRun, ReadInOrder, Cancelled
<1>4. SnapshotsFollowList'
  BY <1>0 DEF SnapshotsFollowList, Cancelled
<1>5. NumberedInOrder'
  BY DEF SidebarInv, NumberedInOrder
<1> QED BY <1>2, <1>3, <1>4, <1>5 DEF SidebarInv

\* The pools change at the server.
LEMMA PoolsChange ==
  ASSUME SidebarInv, poolChanges' = poolChanges + 1,
         UNCHANGED <<dataVersion, fetches, sidePools, sideSnaps, askedAt, dialog, made>>,
         priorities' \in Seq(Nat), creates' \subseteq Creates, wentBad' \in BOOLEAN,
         NumberedInOrder'
  PROVE  SidebarInv'
<1>0. /\ poolChanges \in Nat /\ askedAt \in Nat /\ sidePools \in Nat \cup {NoList}
      /\ fetches \subseteq Runs
  BY DEF SidebarInv, SidebarTyped
<1>1. SidebarTyped'
  BY <1>0 DEF SidebarInv, SidebarTyped
<1>2. NewestRun'
  BY <1>0 DEF SidebarInv, NewestRun, Cancelled
<1>3. ReadInOrder'
  <2>1. \A f \in fetches : f.ver \in Nat
    BY <1>0 DEF Runs
  <2> QED BY <1>0, <2>1, NoListAssumption DEF SidebarInv, ReadInOrder, Cancelled
<1>4. SnapshotsFollowList'
  BY DEF SidebarInv, SnapshotsFollowList, Cancelled
<1> QED BY <1>1, <1>2, <1>3, <1>4 DEF SidebarInv

\* Only creations go on.
LEMMA CreatesGoOn ==
  ASSUME SidebarInv,
         UNCHANGED <<poolChanges, priorities, dataVersion, fetches, sidePools, sideSnaps, askedAt>>,
         creates' \subseteq Creates, wentBad' \in BOOLEAN, made' \in Nat,
         dialog' \in [open : BOOLEAN, saving : BOOLEAN], NumberedInOrder'
  PROVE  SidebarInv'
<1>1. SidebarTyped'
  BY DEF SidebarInv, SidebarTyped
<1>2. NewestRun' /\ ReadInOrder' /\ SnapshotsFollowList'
  BY DEF SidebarInv, NewestRun, ReadInOrder, SnapshotsFollowList, Cancelled
<1> QED BY <1>1, <1>2 DEF SidebarInv

\* The requests of a run are answered.
LEMMA RunInv ==
  ASSUME SidebarInv, NEW f \in fetches,
         ListArrives(f) \/ DetailsRead(f) \/ DetailsArrive(f) \/ ListFails(f)
  PROVE  SidebarInv'
<1>0. /\ SidebarTyped /\ NewestRun /\ ReadInOrder /\ SnapshotsFollowList /\ NumberedInOrder
      /\ f \in Runs /\ fetches \subseteq Runs /\ poolChanges \in Nat /\ askedAt \in Nat
      /\ sidePools \in Nat \cup {NoList} /\ sideSnaps \in Nat \cup {NoList}
      /\ \A g \in fetches : g.ver \in Nat
  BY DEF SidebarInv, SidebarTyped, Runs
<1>u. UNCHANGED <<poolChanges, priorities, dataVersion, askedAt, dialog, creates, made, wentBad>>
  BY DEF ListArrives, DetailsRead, DetailsArrive, ListFails
<1>n. NumberedInOrder'
  BY <1>0, <1>u DEF NumberedInOrder
<1>1. ASSUME NEW st \in {"details", "read"}, NEW g \in Runs, g = [f EXCEPT !.st = st, !.ver = poolChanges],
             fetches' = (fetches \ {f}) \cup {g},
             IF Cancelled(f) THEN UNCHANGED <<sidePools, sideSnaps>>
             ELSE /\ sidePools' = IF st = "details" THEN poolChanges ELSE sidePools
                  /\ sideSnaps' = sideSnaps
                  /\ st = "read" => f.st = "details"
      PROVE  SidebarInv'
  <2>1. g.gen = f.gen /\ g.st = st /\ g.ver = poolChanges
    BY <1>0, <1>1 DEF Runs
  <2>2. SidebarTyped'
    BY <1>0, <1>u, <1>1 DEF SidebarTyped
  <2>3. NewestRun'
    BY <1>0, <1>u, <1>1, <2>1 DEF NewestRun, Cancelled
  <2>4. ReadInOrder'
    <3>1. CASE Cancelled(f)
      BY <1>0, <1>u, <1>1, <2>1, <3>1 DEF ReadInOrder, Cancelled
    <3>2. CASE ~Cancelled(f)
      <4>1. \A h \in fetches' : ~Cancelled(h) => h = g
        BY <1>0, <1>1, <3>2 DEF NewestRun
      <4>2. ~Cancelled(f) /\ st = "read" => sidePools # NoList /\ askedAt <= sidePools
                                            /\ sidePools <= poolChanges
        BY <1>0, <1>1 DEF ReadInOrder
      <4>3. askedAt <= poolChanges /\ poolChanges # NoList
        BY <1>0, NoListAssumption DEF NewestRun
      <4>4. /\ sidePools' # NoList /\ askedAt <= sidePools' /\ sidePools' <= poolChanges
            /\ g.st = "read" => sidePools' <= g.ver /\ g.ver <= poolChanges
        <5>1. CASE st = "details"
          BY <1>0, <1>1, <2>1, <3>2, <4>3, <5>1
        <5>2. CASE st = "read"
          BY <1>0, <1>1, <2>1, <3>2, <4>2, <5>2
        <5> QED BY <5>1, <5>2
      <4> QED BY <1>u, <4>1, <4>4 DEF ReadInOrder, Cancelled
    <3> QED BY <3>1, <3>2
  <2>5. SnapshotsFollowList'
    <3>1. CASE Cancelled(f)
      BY <1>0, <1>u, <1>1, <2>1, <3>1 DEF SnapshotsFollowList, Cancelled
    <3>2. CASE ~Cancelled(f)
      BY <1>u, <1>1, <2>1, <3>2 DEF SnapshotsFollowList, Cancelled
    <3> QED BY <3>1, <3>2
  <2> QED BY <1>n, <2>2, <2>3, <2>4, <2>5 DEF SidebarInv
<1>2. ASSUME fetches' = fetches \ {f}, sidePools' \in Nat \cup {NoList},
             sideSnaps' \in Nat \cup {NoList},
             Cancelled(f) => UNCHANGED <<sidePools, sideSnaps>>,
             ~Cancelled(f) => \/ sidePools' = NoList /\ sideSnaps' = NoList
                              \/ sidePools' # NoList /\ sideSnaps' # NoList
                                 /\ sidePools' >= askedAt /\ sideSnaps' >= sidePools'
      PROVE  SidebarInv'
  <2>1. SidebarTyped' /\ NewestRun'
    BY <1>0, <1>u, <1>2 DEF SidebarTyped, NewestRun, Cancelled
  <2>2. ~Cancelled(f) => \A h \in fetches' : Cancelled(h)
    BY <1>0, <1>2 DEF NewestRun
  <2>3. ReadInOrder'
    BY <1>0, <1>u, <1>2, <2>2 DEF ReadInOrder, Cancelled
  <2>4. SnapshotsFollowList'
    BY <1>0, <1>u, <1>2 DEF SnapshotsFollowList, Cancelled
  <2> QED BY <1>n, <2>1, <2>3, <2>4 DEF SidebarInv
<1>3. CASE ListArrives(f)
  <2>1. CASE Cancelled(f)
    BY <1>0, <1>2, <1>3, <2>1 DEF ListArrives
  <2>2. CASE ~Cancelled(f)
    <3>1. [f EXCEPT !.st = "details", !.ver = poolChanges] \in Runs
      BY <1>0 DEF Runs
    <3> QED BY <1>1, <1>3, <2>2, <3>1 DEF ListArrives
  <2> QED BY <2>1, <2>2
<1>4. CASE DetailsRead(f)
  <2>1. [f EXCEPT !.st = "read", !.ver = poolChanges] \in Runs
    BY <1>0 DEF Runs
  <2> QED BY <1>1, <1>4, <2>1 DEF DetailsRead
<1>5. CASE DetailsArrive(f)
  <2>1. ~Cancelled(f) => /\ sidePools # NoList /\ askedAt <= sidePools
                         /\ sidePools <= f.ver /\ f.ver # NoList
    BY <1>0, <1>5, NoListAssumption DEF ReadInOrder, DetailsArrive
  <2> QED BY <1>0, <1>2, <1>5, <2>1 DEF DetailsArrive
<1>6. CASE ListFails(f)
  BY <1>0, <1>2, <1>6 DEF ListFails
<1> QED BY <1>3, <1>4, <1>5, <1>6

\* Pools change elsewhere; one that is deleted there leaves a gap.
LEMMA ElsewhereInv == SidebarInv /\ ChangeElsewhere => SidebarInv'
<1> SUFFICES ASSUME SidebarInv, ChangeElsewhere
             PROVE  SidebarInv'
  OBVIOUS
<1>1. /\ priorities \in Seq(Nat) /\ creates \subseteq Creates /\ wentBad \in BOOLEAN
      /\ NumberedInOrder
  BY DEF SidebarInv, SidebarTyped
<1>2. priorities' \in Seq(Nat) /\ creates' \subseteq Creates /\ wentBad' \in BOOLEAN
  BY <1>1, RemovedTyped DEF ChangeElsewhere
<1>3. NumberedInOrder'
  BY <1>1 DEF ChangeElsewhere, NumberedInOrder
<1> QED BY <1>2, <1>3, PoolsChange DEF ChangeElsewhere

\* The dialog's two flags stay flags.
LEMMA DialogTyped ==
  ASSUME NEW d \in [open : BOOLEAN, saving : BOOLEAN], NEW b \in BOOLEAN
  PROVE  /\ [d EXCEPT !.open = b] \in [open : BOOLEAN, saving : BOOLEAN]
         /\ [d EXCEPT !.saving = b] \in [open : BOOLEAN, saving : BOOLEAN]
OBVIOUS

\* The dialog is opened, closed, and starts a creation.
LEMMA DialogInv ==
  SidebarInv /\ (openCreatePool \/ closeCreatePool \/ createPool) => SidebarInv'
<1> SUFFICES ASSUME SidebarInv, openCreatePool \/ closeCreatePool \/ createPool
             PROVE  SidebarInv'
  OBVIOUS
<1>0. /\ creates \subseteq Creates /\ wentBad \in BOOLEAN /\ made \in Nat /\ NumberedInOrder
      /\ dialog \in [open : BOOLEAN, saving : BOOLEAN]
  BY DEF SidebarInv, SidebarTyped
<1>1. CASE openCreatePool \/ closeCreatePool
  <2>1. dialog' \in [open : BOOLEAN, saving : BOOLEAN]
    <3>1. CASE openCreatePool
      BY <3>1 DEF openCreatePool
    <3>2. CASE closeCreatePool
      BY <1>0, <3>2, DialogTyped DEF closeCreatePool
    <3> QED BY <1>1, <3>1, <3>2
  <2>2. NumberedInOrder'
    BY <1>0, <1>1 DEF openCreatePool, closeCreatePool, NumberedInOrder
  <2> QED BY <1>0, <1>1, <2>1, <2>2, CreatesGoOn DEF openCreatePool, closeCreatePool
<1>2. CASE createPool
  <2> DEFINE new == [n |-> made + 1, st |-> "counting", priority |-> 0]
  <2>1. /\ new \in Creates /\ new.st = "counting" /\ creates' = creates \cup {new}
        /\ wentBad' = (wentBad \/ creates # {}) /\ priorities' = priorities
    BY <1>0, <1>2 DEF createPool, Creates
  <2> HIDE DEF new
  <2>2. dialog' \in [open : BOOLEAN, saving : BOOLEAN] /\ made' \in Nat
    <3>1. dialog' = [dialog EXCEPT !.saving = TRUE] /\ made' = made + 1
      BY <1>2 DEF createPool
    <3>2. dialog' \in [open : BOOLEAN, saving : BOOLEAN]
      BY <1>0, <3>1, DialogTyped
    <3> QED BY <1>0, <3>1, <3>2
  <2>3. NumberedInOrder'
    BY <1>0, <2>1 DEF NumberedInOrder
  <2> QED BY <1>0, <1>2, <2>1, <2>2, <2>3, CreatesGoOn DEF createPool
<1> QED BY <1>1, <1>2

\* The pools are counted, the new one is inserted; its answer, or none, arrives.
LEMMA CreationInv ==
  ASSUME SidebarInv, NEW c \in creates,
         CountPools(c) \/ InsertPool(c) \/ CreateArrives(c) \/ CreateFails(c)
  PROVE  SidebarInv'
<1>0. /\ creates \subseteq Creates /\ wentBad \in BOOLEAN /\ made \in Nat /\ NumberedInOrder
      /\ dialog \in [open : BOOLEAN, saving : BOOLEAN] /\ priorities \in Seq(Nat)
      /\ c \in Creates
  BY DEF SidebarInv, SidebarTyped
<1>l. Len(priorities) \in Nat
  BY <1>0
<1>1. CASE CountPools(c)
  <2> DEFINE new == [c EXCEPT !.st = "counted", !.priority = Len(priorities) + 1]
  <2>1. /\ new \in Creates /\ new.priority = Len(priorities) + 1
        /\ creates' = (creates \ {c}) \cup {new}
    <3>1. creates' = (creates \ {c}) \cup {new}
      BY <1>1 DEF CountPools
    <3>2. Len(priorities) + 1 \in Nat
      BY <1>l
    <3>3. new \in Creates /\ new.priority = Len(priorities) + 1
      BY <1>0, <3>2 DEF Creates
    <3> QED BY <3>1, <3>3
  <2> HIDE DEF new
  <2>2. NumberedInOrder'
    BY <1>0, <1>1, <2>1 DEF NumberedInOrder, CountPools
  <2> QED BY <1>0, <1>1, <2>1, <2>2, CreatesGoOn DEF CountPools
<1>2. CASE InsertPool(c)
  <2> DEFINE new == [c EXCEPT !.st = "created"]
  <2>1. /\ new \in Creates /\ new.st = "created"
        /\ creates' = (creates \ {c}) \cup {new} /\ c.priority \in Nat
    BY <1>0, <1>2 DEF InsertPool, Creates
  <2> HIDE DEF new
  <2>2. /\ priorities' \in Seq(Nat) /\ Len(priorities') = Len(priorities) + 1
        /\ priorities'[Len(priorities) + 1] = c.priority
        /\ \A i \in 1 .. Len(priorities) : priorities'[i] = priorities[i]
    BY <1>0, <1>2, <2>1 DEF InsertPool
  <2>3. NumberedInOrder'
    <3> SUFFICES ASSUME ~wentBad'
                 PROVE  NumberedInOrder'
      BY DEF NumberedInOrder
    <3>1. ~wentBad /\ c.priority = Len(priorities) + 1
      BY <1>0, <1>2 DEF NumberedInOrder, InsertPool
    <3>2. \A i \in 1 .. Len(priorities') : priorities'[i] = i
      BY <1>0, <1>l, <2>2, <3>1 DEF NumberedInOrder
    <3>3. creates' = {new}
      BY <1>0, <2>1, <3>1 DEF NumberedInOrder
    <3> QED BY <2>1, <3>2, <3>3 DEF NumberedInOrder
  <2> QED BY <1>0, <1>2, <2>1, <2>2, <2>3, PoolsChange DEF InsertPool
<1>3. CASE CreateArrives(c)
  BY <1>0, <1>3, RefetchInv DEF CreateArrives
<1>4. CASE CreateFails(c)
  <2>1. dialog' \in [open : BOOLEAN, saving : BOOLEAN]
    BY <1>0, <1>4, DialogTyped DEF CreateFails
  <2>2. NumberedInOrder'
    BY <1>0, <1>4 DEF CreateFails, NumberedInOrder
  <2> QED BY <1>0, <1>4, <2>1, <2>2, CreatesGoOn DEF CreateFails
<1> QED BY <1>1, <1>2, <1>3, <1>4

(* Every step of the sidebar and the dialog keeps it. *)
LEMMA SidebarInvStep == SidebarInv /\ [SidebarNext]_sideVars => SidebarInv'
<1> SUFFICES ASSUME SidebarInv, [SidebarNext]_sideVars
             PROVE  SidebarInv'
  OBVIOUS
<1>1. CASE \E f \in fetches : ListArrives(f) \/ DetailsRead(f) \/ DetailsArrive(f) \/ ListFails(f)
  BY <1>1, RunInv
<1>2. CASE ChangeElsewhere
  BY <1>2, ElsewhereInv
<1>3. CASE RefreshElsewhere
  <2>1. made \in Nat /\ dialog \in [open : BOOLEAN, saving : BOOLEAN]
    BY DEF SidebarInv, SidebarTyped
  <2> QED BY <1>3, <2>1, RefetchInv DEF RefreshElsewhere
<1>4. CASE openCreatePool \/ closeCreatePool \/ createPool
  BY <1>4, DialogInv
<1>5. CASE \E c \in creates : CountPools(c) \/ InsertPool(c) \/ CreateArrives(c) \/ CreateFails(c)
  BY <1>5, CreationInv
<1>6. CASE UNCHANGED sideVars
  BY <1>6 DEF sideVars, SidebarInv, SidebarTyped, NewestRun, ReadInOrder, SnapshotsFollowList,
     NumberedInOrder, Cancelled
<1> QED BY <1>1, <1>2, <1>3, <1>4, <1>5, <1>6 DEF SidebarNext

(* The inductive invariant of the sidebar (Shell.tsx:204-262) and of the dialog that
   creates a pool: the effect that is not cancelled reads nothing older than what was
   asked for, and the list never goes behind its snapshots. *)
THEOREM SidebarInvHolds == SidebarSpec => []SidebarInv
BY SidebarInvInit, SidebarInvStep, PTL DEF SidebarSpec

\* The sidebar's snapshots are never older than its list once a run has ended, and a
\* pool created while no other was being created or deleted comes last in priority.
THEOREM SidebarIsSoundHolds == SidebarSpec => []SidebarIsSound
<1>1. SidebarInv => SidebarIsSound
  BY DEF SidebarInv, SidebarIsSound, NumberedInOrder, NewPoolIsLast
<1> QED BY <1>1, SidebarInvHolds, PTL

\* What the abstract loader sees of the sidebar.
Newest == \E f \in fetches : ~Cancelled(f)
ShownSnaps == IF sideSnaps = NoList THEN NoList ELSE [key |-> "pools", ver |-> sideSnaps]

(* An initial state of the sidebar is one of the abstract view. *)
LEMMA SidebarViewInit == SidebarInit => SidebarView!FreshInit
BY DEF SidebarInit, SidebarView!FreshInit

\* A step of the abstract loader, said of the sidebar's state.
ViewMoves ==
  \/ UNCHANGED <<poolChanges, askedAt, Newest, ShownSnaps>>
  \/ poolChanges' = poolChanges + 1 /\ UNCHANGED <<askedAt, Newest, ShownSnaps>>
  \/ askedAt' = poolChanges /\ Newest' /\ UNCHANGED <<poolChanges, ShownSnaps>>
  \/ /\ Newest /\ ~Newest' /\ UNCHANGED <<poolChanges, askedAt>>
     /\ \E v \in askedAt .. poolChanges : ShownSnaps' = [key |-> "pools", ver |-> v]
  \/ ~Newest' /\ ShownSnaps' = NoList /\ UNCHANGED <<poolChanges, askedAt>>

(* Each of the sidebar's ways to move the view is a step of it, or none. *)
LEMMA MovesAreSteps == ViewMoves => [SidebarView!FreshNext]_(SidebarView!viewVars)
BY Zenon DEF ViewMoves, SidebarView!FreshNext, SidebarView!viewVars, SidebarView!Change, SidebarView!Ask,
   SidebarView!Show, SidebarView!GiveUp, SidebarView!Forget, Newest, ShownSnaps

(* Every step of the sidebar moves the view in one of these ways. *)
LEMMA SidebarViewStep ==
  ASSUME SidebarInv, [SidebarNext]_sideVars
  PROVE  ViewMoves
<1>0. /\ NewestRun /\ ReadInOrder /\ fetches \subseteq Runs /\ poolChanges \in Nat
      /\ askedAt \in Nat
  BY DEF SidebarInv, SidebarTyped
<1>1. ASSUME NEW f \in fetches,
             ListArrives(f) \/ DetailsRead(f) \/ DetailsArrive(f) \/ ListFails(f)
      PROVE  ViewMoves
  <2>0. f \in Runs /\ UNCHANGED <<poolChanges, dataVersion, askedAt>>
    BY <1>0, <1>1 DEF ListArrives, DetailsRead, DetailsArrive, ListFails
  <2>1. ASSUME NEW g, g.gen = f.gen, fetches' = (fetches \ {f}) \cup {g}, sideSnaps' = sideSnaps
        PROVE  ViewMoves
    BY <2>0, <2>1 DEF ViewMoves, Newest, ShownSnaps, Cancelled
  <2>2. ASSUME fetches' = fetches \ {f}, Cancelled(f), sideSnaps' = sideSnaps
        PROVE  ViewMoves
    BY <2>0, <2>2 DEF ViewMoves, Newest, ShownSnaps, Cancelled
  <2>3. ASSUME fetches' = fetches \ {f}, ~Cancelled(f)
        PROVE  Newest /\ ~Newest'
    BY <1>0, <2>0, <2>3 DEF Newest, NewestRun, Cancelled
  <2>4. CASE ListArrives(f)
    <3>1. [f EXCEPT !.st = "details", !.ver = poolChanges].gen = f.gen
      BY <2>0 DEF Runs
    <3> QED BY <2>1, <2>2, <2>4, <3>1 DEF ListArrives
  <2>5. CASE DetailsRead(f)
    <3>1. [f EXCEPT !.st = "read", !.ver = poolChanges].gen = f.gen
      BY <2>0 DEF Runs
    <3> QED BY <2>1, <2>5, <3>1 DEF DetailsRead
  <2>6. CASE DetailsArrive(f)
    <3>1. CASE Cancelled(f)
      BY <2>2, <2>6, <3>1 DEF DetailsArrive
    <3>2. CASE ~Cancelled(f)
      <4>1. fetches' = fetches \ {f} /\ sideSnaps' = f.ver /\ f.st = "read"
        BY <2>6, <3>2 DEF DetailsArrive
      <4>2. f.ver \in Nat /\ sidePools \in Nat /\ askedAt <= sidePools /\ sidePools <= f.ver
            /\ f.ver <= poolChanges
        BY <1>0, <2>0, <3>2, <4>1 DEF ReadInOrder, Runs, SidebarInv, SidebarTyped
      <4>3. f.ver \in askedAt .. poolChanges /\ f.ver # NoList
        BY <1>0, <4>2, NoListAssumption
      <4>4. ShownSnaps' = [key |-> "pools", ver |-> f.ver]
        BY <4>1, <4>3 DEF ShownSnaps
      <4> QED BY <2>0, <2>3, <3>2, <4>1, <4>3, <4>4 DEF ViewMoves
    <3> QED BY <3>1, <3>2
  <2>7. CASE ListFails(f)
    <3>1. CASE Cancelled(f)
      BY <2>2, <2>7, <3>1 DEF ListFails
    <3>2. CASE ~Cancelled(f)
      <4>1. fetches' = fetches \ {f} /\ sideSnaps' = NoList
        BY <2>7, <3>2 DEF ListFails
      <4>2. ShownSnaps' = NoList
        BY <4>1 DEF ShownSnaps
      <4> QED BY <2>0, <2>3, <3>2, <4>1, <4>2 DEF ViewMoves
    <3> QED BY <3>1, <3>2
  <2> QED BY <1>1, <2>4, <2>5, <2>6, <2>7
<1>2. ASSUME Refetch, UNCHANGED <<poolChanges, sideSnaps>>
      PROVE  ViewMoves
  <2>1. Newest'
    <3> DEFINE new == [gen |-> dataVersion + 1, st |-> "list", ver |-> 0]
    <3>1. new \in fetches' /\ new.gen = dataVersion'
      BY <1>2 DEF Refetch
    <3> HIDE DEF new
    <3> QED BY <3>1 DEF Newest, Cancelled
  <2> QED BY <1>2, <2>1 DEF Refetch, ViewMoves, ShownSnaps
<1>3. ASSUME UNCHANGED <<dataVersion, fetches, sideSnaps, askedAt>>,
             poolChanges' = poolChanges \/ poolChanges' = poolChanges + 1
      PROVE  ViewMoves
  BY <1>3 DEF ViewMoves, Newest, ShownSnaps, Cancelled
<1>4. CASE ChangeElsewhere \/ openCreatePool \/ closeCreatePool \/ createPool
  BY <1>3, <1>4 DEF ChangeElsewhere, openCreatePool, closeCreatePool, createPool
<1>5. CASE RefreshElsewhere
  BY <1>2, <1>5 DEF RefreshElsewhere
<1>6. CASE \E c \in creates : CountPools(c) \/ InsertPool(c) \/ CreateArrives(c) \/ CreateFails(c)
  <2> PICK c \in creates : CountPools(c) \/ InsertPool(c) \/ CreateArrives(c) \/ CreateFails(c)
    BY <1>6
  <2>1. CASE CreateArrives(c)
    BY <1>2, <2>1 DEF CreateArrives
  <2>2. CASE CountPools(c) \/ InsertPool(c) \/ CreateFails(c)
    BY <1>3, <2>2 DEF CountPools, InsertPool, CreateFails
  <2> QED BY <2>1, <2>2
<1>7. CASE UNCHANGED sideVars
  BY <1>3, <1>7 DEF sideVars
<1> QED BY <1>1, <1>4, <1>5, <1>6, <1>7 DEF SidebarNext

\* The frame's effect implements FreshView: what it takes over is the answer of its
\* newest run, and no older than that run; a cancelled run leaves nothing behind.
THEOREM SidebarIsFreshViewHolds == SidebarSpec => SidebarIsFreshView
<1>1. SidebarInv /\ [SidebarNext]_sideVars => [SidebarView!FreshNext]_(SidebarView!viewVars)
  BY SidebarViewStep, MovesAreSteps
<1> QED
  BY <1>1, SidebarViewInit, SidebarInvHolds, PTL DEF SidebarSpec, SidebarIsFreshView,
     SidebarView!FreshSpec

-----------------------------------------------------------------------------
(* The token of the page: requests, waiters, and the self-check *)

ProbeSteps == {"none", "probe", "post", "done"}
Checks ==
  [phase : {"idle", "token", "probing"},
   at : [Accounts -> [step : ProbeSteps, left : Int, ok : BOOLEAN, stored : BOOLEAN]]]

TokensTyped ==
  /\ shownPool \in TokenPools \cup {NoToken}
  /\ cache \in SUBSET TokenPools
  /\ inFlight \in SUBSET TokenPools
  /\ posts \in [TokenPools -> Nat]
  /\ waiting \in SUBSET [who : {"auto", "setup", "sheet", "check"}, token : TokenPools]
  /\ check \in Checks
  /\ probe \in [Accounts -> Verdicts \cup {"unknown"}]

\* A token is asked for, known or neither, and was sent for accordingly.
RequestsCounted ==
  /\ inFlight \cap cache = {}
  /\ \A t \in TokenPools : posts[t] = IF t \in inFlight \cup cache THEN 1 ELSE 0

\* A verdict that was stored is what the server has while the check runs, and
\* what the page has loaded once it ended.
VerdictsKept ==
  \A a \in Accounts : check.at[a].step = "done" /\ check.at[a].stored =>
    IF check.phase = "probing" THEN probe[a] = Verdict(a) ELSE loaded[a] = Verdict(a)

SharedInv ==
  /\ TokensTyped
  /\ RequestsCounted
  /\ WaitersAreServed
  /\ VerdictsKept

\* The states of a check in which no account has its verdict yet.
NoneIsThrough(c) == c \in Checks /\ \A a \in Accounts : c.at[a].step # "done"

(* Nothing is asked for at first. *)
LEMMA SharedInvInit == TokensInit => SharedInv
<1> SUFFICES ASSUME TokensInit PROVE SharedInv
  OBVIOUS
<1>1. Idle \in Checks /\ \A a \in Accounts : Idle.at[a].step = "none"
  BY DEF Idle, Checks, ProbeSteps
<1>2. TokensTyped
  BY <1>1 DEF TokensInit, TokensTyped
<1>3. VerdictsKept
  BY <1>1 DEF TokensInit, VerdictsKept
<1> QED BY <1>2, <1>3 DEF TokensInit, SharedInv, RequestsCounted, WaitersAreServed

(* A check begins with no verdict. *)
LEMMA ChecksBegin ==
  ASSUME NEW models \in [Accounts -> 0 .. 2],
         NEW c, c = (IF \A a \in Accounts : models[a] = 0 THEN Idle ELSE Probing(models))
  PROVE  NoneIsThrough(c)
<1>1. NoneIsThrough(Idle)
  BY DEF Idle, NoneIsThrough, Checks, ProbeSteps
<1>2. NoneIsThrough(Probing(models))
  BY DEF Probing, NoneIsThrough, Checks, ProbeSteps
<1> QED BY <1>1, <1>2

(* Asking for a token that is not known: the request that runs, or a new one. *)
LEMMA RevealShared ==
  ASSUME SharedInv, NEW t \in TokenPools \ cache, NEW who \in {"auto", "setup", "sheet", "check"},
         revealPoolToken(t, who), UNCHANGED cache
  PROVE  /\ RequestsCounted' /\ WaitersAreServed'
         /\ inFlight' \in SUBSET TokenPools
         /\ posts' \in [TokenPools -> Nat]
         /\ waiting' \in SUBSET [who : {"auto", "setup", "sheet", "check"}, token : TokenPools]
BY DEF SharedInv, TokensTyped, RequestsCounted, WaitersAreServed, revealPoolToken

(* Gestures that leave the check alone. *)
LEMMA GestureShared ==
  ASSUME SharedInv, (\E p \in TokenPools : TakeOver(p)) \/ openSetupWithToken \/ resolveToken
                    \/ CloseSetup
  PROVE  SharedInv'
<1>1. UNCHANGED <<check, probe, loaded, cache>> /\ shownPool' \in TokenPools \cup {NoToken}
  BY DEF SharedInv, TokensTyped, TakeOver, openSetupWithToken, resolveToken, CloseSetup
<1>2. \/ UNCHANGED <<inFlight, posts, waiting>>
      \/ \E t \in TokenPools \ cache, who \in {"auto", "setup", "sheet", "check"} : revealPoolToken(t, who)
  <2>1. ASSUME NEW p \in TokenPools, TakeOver(p)
        PROVE  <1>2!2 \/ UNCHANGED <<inFlight, posts, waiting>>
    BY <2>1 DEF TakeOver, NoReveal
  <2>2. CASE openSetupWithToken \/ resolveToken
    <3>1. Known = NoToken => shownPool \in TokenPools \ cache
      BY <2>2 DEF SharedInv, TokensTyped, Known, openSetupWithToken, resolveToken
    <3> QED BY <2>2, <3>1 DEF openSetupWithToken, resolveToken, NoReveal
  <2>3. CASE CloseSetup
    BY <2>3 DEF CloseSetup
  <2> QED BY <2>1, <2>2, <2>3
<1>3. /\ RequestsCounted' /\ WaitersAreServed'
      /\ inFlight' \in SUBSET TokenPools
      /\ posts' \in [TokenPools -> Nat]
      /\ waiting' \in SUBSET [who : {"auto", "setup", "sheet", "check"}, token : TokenPools]
  <2>1. CASE UNCHANGED <<inFlight, posts, waiting>>
    BY <1>1, <2>1 DEF SharedInv, TokensTyped, RequestsCounted, WaitersAreServed
  <2> QED BY <1>1, <1>2, <2>1, RevealShared
<1>4. TokensTyped'
  BY <1>1, <1>3 DEF SharedInv, TokensTyped
<1>5. VerdictsKept'
  BY <1>1 DEF SharedInv, VerdictsKept, Verdict
<1> QED BY <1>3, <1>4, <1>5 DEF SharedInv

(* A self-check begins, or waits for the token. *)
LEMMA SelfCheckShared == ASSUME SharedInv, runSelfCheck PROVE SharedInv'
<1>1. /\ UNCHANGED <<shownPool, cache, probe, loaded>> /\ check.phase = "idle"
      /\ check \in Checks
  BY DEF runSelfCheck, SharedInv, TokensTyped
<1>2. CASE Known # NoToken
  <2>1. PICK models \in [Accounts -> 0 .. 2] :
          check' = IF \A a \in Accounts : models[a] = 0 THEN Idle ELSE Probing(models)
    BY <1>2 DEF runSelfCheck
  <2>2. NoneIsThrough(check')
    BY <2>1, ChecksBegin
  <2>3. UNCHANGED <<inFlight, posts, waiting>>
    BY <1>2 DEF runSelfCheck, NoReveal
  <2>4. VerdictsKept'
    BY <2>2 DEF NoneIsThrough, VerdictsKept
  <2> QED
    BY <1>1, <2>2, <2>3, <2>4
    DEF SharedInv, TokensTyped, RequestsCounted, WaitersAreServed, NoneIsThrough
<1>3. CASE Known = NoToken
  <2>1. revealPoolToken(shownPool, "check") /\ check' = [check EXCEPT !.phase = "token"]
    BY <1>3 DEF runSelfCheck
  <2>2. shownPool \in TokenPools \ cache
    BY <1>3 DEF SharedInv, TokensTyped, Known, runSelfCheck
  <2>3. check' \in Checks /\ check'.at = check.at /\ check'.phase = "token"
    BY <1>1, <2>1 DEF Checks
  <2>4. VerdictsKept'
    BY <1>1, <2>3 DEF SharedInv, VerdictsKept, Verdict
  <2>5. TokensTyped' /\ RequestsCounted' /\ WaitersAreServed'
    BY <1>1, <2>1, <2>2, <2>3, RevealShared DEF SharedInv, TokensTyped
  <2> QED BY <2>4, <2>5 DEF SharedInv
<1> QED BY <1>2, <1>3

(* A reveal is answered, or fails: everyone who awaited it goes on. *)
LEMMA AnswerShared ==
  ASSUME SharedInv, NEW t \in TokenPools, RevealArrives(t) \/ RevealFails(t)
  PROVE  SharedInv'
<1>1. t \in inFlight /\ inFlight' = inFlight \ {t} /\ waiting' = {w \in waiting : w.token # t}
      /\ UNCHANGED <<shownPool, probe, loaded>>
  BY DEF RevealArrives, RevealFails
<1>2. check' = check \/ NoneIsThrough(check')
  <2>1. NoneIsThrough(Idle)
    BY DEF Idle, NoneIsThrough, Checks, ProbeSteps
  <2>2. CASE RevealArrives(t)
    <3> DEFINE woken == {w.who : w \in {v \in waiting : v.token = t}}
    <3>1. check' = check \/ \E models \in [Accounts -> 0 .. 2] :
            check' = IF \A a \in Accounts : models[a] = 0 THEN Idle ELSE Probing(models)
      BY <2>2 DEF RevealArrives
    <3> QED BY <3>1, ChecksBegin
  <2>3. CASE RevealFails(t)
    BY <2>1, <2>3 DEF RevealFails
  <2> QED BY <2>2, <2>3
<1>3. TokensTyped' /\ RequestsCounted'
  <2>1. CASE RevealArrives(t)
    BY <1>1, <1>2, <2>1 DEF RevealArrives, SharedInv, TokensTyped, RequestsCounted, NoneIsThrough
  <2>2. CASE RevealFails(t)
    BY <1>1, <1>2, <2>2 DEF RevealFails, SharedInv, TokensTyped, RequestsCounted, NoneIsThrough
  <2> QED BY <2>1, <2>2
<1>4. WaitersAreServed'
  BY <1>1 DEF SharedInv, WaitersAreServed
<1>5. VerdictsKept'
  BY <1>1, <1>2 DEF SharedInv, VerdictsKept, Verdict, NoneIsThrough
<1> QED BY <1>3, <1>4, <1>5 DEF SharedInv

(* One account of the check moves on, or the check ends. *)
LEMMA CheckShared ==
  ASSUME SharedInv,
         (\E a \in Accounts : PostVerdict(a) \/ \E ok \in BOOLEAN : Attempt(a, ok)) \/ CheckEnds
  PROVE  SharedInv'
<1>0. check.phase = "probing" /\ check \in Checks
      /\ UNCHANGED <<shownPool, cache, inFlight, posts, waiting>>
  BY DEF SharedInv, TokensTyped, PostVerdict, Attempt, CheckEnds
<1>1. RequestsCounted' /\ WaitersAreServed'
  BY <1>0 DEF SharedInv, RequestsCounted, WaitersAreServed
<1>2. ASSUME NEW a \in Accounts, NEW ok \in BOOLEAN, Attempt(a, ok)
      PROVE  TokensTyped' /\ VerdictsKept'
  <2>1. check.at[a] \in [step : ProbeSteps, left : Int, ok : BOOLEAN, stored : BOOLEAN]
        /\ check.at[a].step = "probe"
    BY <1>0, <1>2 DEF Checks, Attempt
  <2>2. /\ check'.phase = "probing" /\ check' \in Checks
        /\ \A b \in Accounts \ {a} : check'.at[b] = check.at[b]
        /\ check'.at[a].step \in {"probe", "post"}
    <3>1. check' = [check EXCEPT !.at[a].ok = @ \/ ok, !.at[a].left = @ - 1,
                       !.at[a].step = IF check.at[a].left = 1 THEN "post" ELSE @]
      BY <1>2 DEF Attempt
    <3>2. check'.phase = "probing" /\ \A b \in Accounts \ {a} : check'.at[b] = check.at[b]
      BY <1>0, <3>1 DEF Checks
    <3>3. check'.at[a] = [step |-> IF check.at[a].left = 1 THEN "post" ELSE "probe",
                          left |-> check.at[a].left - 1, ok |-> check.at[a].ok \/ ok,
                          stored |-> check.at[a].stored]
      BY <1>0, <2>1, <3>1 DEF Checks
    <3>4. check' \in Checks
      <4>1. check.at[a].left - 1 \in Int /\ (check.at[a].ok \/ ok) \in BOOLEAN
        BY <2>1
      <4>2. (IF check.at[a].left = 1 THEN "post" ELSE check.at[a].step) \in ProbeSteps
        BY <2>1 DEF ProbeSteps
      <4> QED BY <1>0, <2>1, <3>1, <4>1, <4>2 DEF Checks
    <3> QED BY <2>1, <3>2, <3>3, <3>4
  <2>3. UNCHANGED <<probe, loaded>>
    BY <1>2 DEF Attempt
  <2>4. TokensTyped'
    BY <1>0, <2>2, <2>3 DEF SharedInv, TokensTyped
  <2>5. VerdictsKept'
    <3> SUFFICES ASSUME NEW b \in Accounts, check'.at[b].step = "done" /\ check'.at[b].stored
                 PROVE  probe'[b] = Verdict(b)'
      BY <2>2 DEF VerdictsKept
    <3>1. b # a
      BY <2>2
    <3>2. check'.at[b] = check.at[b]
      BY <1>0, <2>2, <3>1 DEF Checks
    <3> QED BY <1>0, <2>3, <3>2 DEF SharedInv, VerdictsKept, Verdict
  <2> QED BY <2>4, <2>5
<1>3. ASSUME NEW a \in Accounts, PostVerdict(a)
      PROVE  TokensTyped' /\ VerdictsKept'
  <2>1. PICK stored \in BOOLEAN :
          /\ probe' = IF stored THEN [probe EXCEPT ![a] = Verdict(a)] ELSE probe
          /\ check' = [check EXCEPT !.at[a].step = "done", !.at[a].stored = stored]
    BY <1>3 DEF PostVerdict
  <2>2. check.at[a] \in [step : ProbeSteps, left : Int, ok : BOOLEAN, stored : BOOLEAN]
    BY <1>0 DEF Checks
  <2>3. /\ check'.phase = "probing" /\ check' \in Checks
        /\ \A b \in Accounts \ {a} : check'.at[b] = check.at[b]
        /\ check'.at[a].ok = check.at[a].ok /\ check'.at[a].stored = stored
    <3>1. check'.phase = "probing" /\ \A b \in Accounts \ {a} : check'.at[b] = check.at[b]
      BY <1>0, <2>1 DEF Checks
    <3>2. check'.at[a] = [step |-> "done", left |-> check.at[a].left,
                          ok |-> check.at[a].ok, stored |-> stored]
      BY <1>0, <2>1, <2>2 DEF Checks
    <3>3. check' \in Checks
      BY <1>0, <2>1, <2>2 DEF Checks, ProbeSteps
    <3> QED BY <3>1, <3>2, <3>3
  <2>4. Verdict(a) \in Verdicts /\ Verdict(a)' = Verdict(a)
    BY <2>3 DEF Verdict, Verdicts
  <2>5. TokensTyped'
    BY <1>0, <2>1, <2>3, <2>4 DEF SharedInv, TokensTyped
  <2>6. VerdictsKept'
    <3> SUFFICES ASSUME NEW b \in Accounts, check'.at[b].step = "done" /\ check'.at[b].stored
                 PROVE  probe'[b] = Verdict(b)'
      BY <2>3 DEF VerdictsKept
    <3>1. CASE b = a
      BY <2>1, <2>3, <2>4, <3>1 DEF SharedInv, TokensTyped
    <3>2. CASE b # a
      <4>1. check'.at[b] = check.at[b] /\ probe'[b] = probe[b]
        BY <2>1, <2>3, <3>2 DEF SharedInv, TokensTyped
      <4> QED BY <1>0, <4>1 DEF SharedInv, VerdictsKept, Verdict
    <3> QED BY <3>1, <3>2
  <2> QED BY <2>5, <2>6
<1>4. CASE CheckEnds
  <2>1. check'.phase = "idle" /\ check'.at = check.at /\ check' \in Checks
        /\ loaded' = probe /\ probe' = probe
    BY <1>0, <1>4 DEF CheckEnds, Checks
  <2>2. TokensTyped'
    BY <1>0, <2>1 DEF SharedInv, TokensTyped
  <2>3. VerdictsKept'
    BY <1>0, <2>1 DEF SharedInv, VerdictsKept, Verdict
  <2> QED BY <1>1, <2>2, <2>3 DEF SharedInv
<1> QED BY <1>1, <1>2, <1>3, <1>4 DEF SharedInv

(* What the invariant says of the property. *)
LEMMA SharedInvTokens == SharedInv => TokenIsShared
<1> SUFFICES ASSUME SharedInv PROVE TokenIsShared
  OBVIOUS
<1>1. RevealedOnce
  BY DEF SharedInv, RequestsCounted, RevealedOnce
<1>2. VerdictsAreLoaded
  BY DEF SharedInv, VerdictsKept, VerdictsAreLoaded
<1> QED BY <1>1, <1>2 DEF SharedInv, TokenIsShared

(* Requests, waiters and verdicts fit in every reachable state. *)
THEOREM SharedInvHolds == TokensSpec => []SharedInv
<1>1. SharedInv /\ [TokensNext]_tokenVars => SharedInv'
  <2> SUFFICES ASSUME SharedInv, [TokensNext]_tokenVars PROVE SharedInv'
    OBVIOUS
  <2>1. CASE UNCHANGED tokenVars
    BY <2>1 DEF tokenVars, SharedInv, TokensTyped, RequestsCounted, WaitersAreServed, VerdictsKept, Verdict
  <2>2. CASE TokensNext
    BY <2>2, GestureShared, SelfCheckShared, AnswerShared, CheckShared DEF TokensNext
  <2> QED BY <2>1, <2>2
<1> QED BY <1>1, SharedInvInit, PTL DEF TokensSpec

\* A token's reveal is sent once, whoever asks for it and when; everyone who awaits
\* it awaits a request that runs; and the load after a self-check finds the verdicts.
THEOREM TokenIsSharedHolds == TokensSpec => []TokenIsShared
BY SharedInvHolds, SharedInvTokens, PTL

-----------------------------------------------------------------------------
(* The digest of the activity page *)

(* The requests of a day, and the invariant: the counts are numbers.  Nothing is *)
(* needed of the day before.                                                     *)
Tallies == [LogKinds -> Nat]
DigestInv == today \in Tallies

(* A kind is counted with at most its requests. *)
LEMMA AmongIs ==
  ASSUME NEW day \in Tallies, NEW K, NEW k \in LogKinds
  PROVE  Among(day, K, k) \in Nat /\ Among(day, K, k) <= day[k]
  BY DEF Among, Tallies

(* What is counted over any kinds is a number. *)
LEMMA TallyIs ==
  ASSUME NEW day \in Tallies, NEW K
  PROVE  TallyOf(day, K) \in Nat
<1>1. \A k \in LogKinds : Among(day, K, k) \in Nat
  BY AmongIs
<1> QED
  BY <1>1 DEF TallyOf, LogKinds

(* More kinds, more requests. *)
LEMMA TallyGrows ==
  ASSUME NEW day \in Tallies, NEW K, NEW L, \A k \in LogKinds : k \in K => k \in L
  PROVE  TallyOf(day, K) <= TallyOf(day, L)
<1>1. \A k \in LogKinds : Among(day, K, k) \in Nat /\ Among(day, L, k) \in Nat
                            /\ Among(day, K, k) <= Among(day, L, k)
  BY DEF Among, Tallies
<1> QED
  BY <1>1 DEF TallyOf, LogKinds

(* SankeyDiagram: the counts of nodes and links, written out as sums. *)
LEMMA FlowHolds == DigestInv => FlowIsConserved
<1> SUFFICES ASSUME DigestInv PROVE FlowIsConserved
  OBVIOUS
<1> DEFINE p == today["plain"] s == today["saved"] r == today["refused"]
           e == today["err1"]  g == today["err2"]
<1>1. /\ p \in Nat /\ s \in Nat /\ r \in Nat /\ e \in Nat /\ g \in Nat
  BY DEF DigestInv, Tallies, LogKinds
<1>2. /\ Trait["plain"].acct = 1 /\ Trait["saved"].acct = 2 /\ Trait["refused"].acct = 0
      /\ Trait["err1"].acct = 1 /\ Trait["err2"].acct = 2
      /\ Trait["plain"].pool = 1 /\ Trait["saved"].pool = 2 /\ Trait["refused"].pool = 1
      /\ Trait["err1"].pool = 1 /\ Trait["err2"].pool = 1
      /\ Trait["plain"].model = "a" /\ Trait["saved"].model = "b" /\ Trait["refused"].model = "b"
      /\ Trait["err1"].model = "a" /\ Trait["err2"].model = "a"
  BY DEF Trait
<1>3. Routed = {"plain", "saved", "err1", "err2"}
  BY <1>2 DEF Routed, LogKinds
<1>4. excludedUnrouted(today) = r
  BY <1>1, <1>3 DEF excludedUnrouted, TallyOf, Among, LogKinds
<1>5. TallyOf(today, LogKinds) = p + s + r + e + g
  BY <1>1 DEF TallyOf, Among, LogKinds
<1>6. NodesOf("acct") = {1, 2}
  BY <1>2, <1>3 DEF NodesOf
<1>7. /\ NodeValue(today, "acct", 1) = p + e
      /\ NodeValue(today, "acct", 2) = s + g
      /\ NodeValue(today, "pool", 1) = p + e + g
      /\ NodeValue(today, "pool", 2) = s
      /\ NodeValue(today, "model", "a") = p + e + g
      /\ NodeValue(today, "model", "b") = s
  <2>1. {k \in Routed : Trait[k]["acct"] = 1} = {"plain", "err1"}
    BY <1>2, <1>3
  <2>2. {k \in Routed : Trait[k]["acct"] = 2} = {"saved", "err2"}
    BY <1>2, <1>3
  <2>3. {k \in Routed : Trait[k]["pool"] = 1} = {"plain", "err1", "err2"}
    BY <1>2, <1>3
  <2>4. {k \in Routed : Trait[k]["pool"] = 2} = {"saved"}
    BY <1>2, <1>3
  <2>5. {k \in Routed : Trait[k]["model"] = "a"} = {"plain", "err1", "err2"}
    BY <1>2, <1>3
  <2>6. {k \in Routed : Trait[k]["model"] = "b"} = {"saved"}
    BY <1>2, <1>3
  <2> QED
    BY <1>1, <2>1, <2>2, <2>3, <2>4, <2>5, <2>6 DEF NodeValue, TallyOf, Among
<1>8. /\ LinkValue(today, "pool", 1, "acct", 1) = p + e
      /\ LinkValue(today, "pool", 2, "acct", 1) = 0
      /\ LinkValue(today, "pool", 1, "acct", 2) = g
      /\ LinkValue(today, "pool", 2, "acct", 2) = s
      /\ LinkValue(today, "acct", 1, "model", "a") = p + e
      /\ LinkValue(today, "acct", 1, "model", "b") = 0
      /\ LinkValue(today, "acct", 2, "model", "a") = g
      /\ LinkValue(today, "acct", 2, "model", "b") = s
  <2>1. {k \in Routed : Trait[k]["pool"] = 1 /\ Trait[k]["acct"] = 1} = {"plain", "err1"}
    BY <1>2, <1>3
  <2>2. {k \in Routed : Trait[k]["pool"] = 2 /\ Trait[k]["acct"] = 1} = {}
    BY <1>2, <1>3
  <2>3. {k \in Routed : Trait[k]["pool"] = 1 /\ Trait[k]["acct"] = 2} = {"err2"}
    BY <1>2, <1>3
  <2>4. {k \in Routed : Trait[k]["pool"] = 2 /\ Trait[k]["acct"] = 2} = {"saved"}
    BY <1>2, <1>3
  <2>5. {k \in Routed : Trait[k]["acct"] = 1 /\ Trait[k]["model"] = "a"} = {"plain", "err1"}
    BY <1>2, <1>3
  <2>6. {k \in Routed : Trait[k]["acct"] = 1 /\ Trait[k]["model"] = "b"} = {}
    BY <1>2, <1>3
  <2>7. {k \in Routed : Trait[k]["acct"] = 2 /\ Trait[k]["model"] = "a"} = {"err2"}
    BY <1>2, <1>3
  <2>8. {k \in Routed : Trait[k]["acct"] = 2 /\ Trait[k]["model"] = "b"} = {"saved"}
    BY <1>2, <1>3
  <2> QED
    BY <1>1, <2>1, <2>2, <2>3, <2>4, <2>5, <2>6, <2>7, <2>8 DEF LinkValue, TallyOf, Among
<1> QED
  BY <1>1, <1>4, <1>5, <1>6, <1>7, <1>8 DEF FlowIsConserved

(* The latencies of the successful requests, and how many lie below a bound. *)
LEMMA LatencyCounts ==
  ASSUME NEW day \in Tallies
  PROVE  /\ day["plain"] \in Nat /\ day["saved"] \in Nat
         /\ Latencies(day) = {k \in {"plain", "saved"} : day[k] > 0}
         /\ Trait["plain"].ms = 900 /\ Trait["saved"].ms = 9000
         /\ TallyOf(day, Latencies(day)) = day["plain"] + day["saved"]
         /\ UpTo(day, 900) = day["plain"] /\ UpTo(day, 7999) = day["plain"]
         /\ UpTo(day, 9000) = day["plain"] + day["saved"]
<1> DEFINE p == day["plain"] s == day["saved"]
<1>1. p \in Nat /\ s \in Nat
  BY DEF Tallies, LogKinds
<1>2. /\ Trait["plain"].ok /\ Trait["saved"].ok
      /\ ~Trait["refused"].ok /\ ~Trait["err1"].ok /\ ~Trait["err2"].ok
      /\ Trait["plain"].ms = 900 /\ Trait["saved"].ms = 9000
  BY DEF Trait
<1>3. Latencies(day) = {k \in {"plain", "saved"} : day[k] > 0}
  BY <1>2 DEF Latencies, LogKinds
<1>4. TallyOf(day, Latencies(day)) = p + s
  BY <1>1, <1>3 DEF TallyOf, Among
<1>5. \A m \in {900, 7999} : UpTo(day, m) = p
  <2> TAKE m \in {900, 7999}
  <2>1. {k \in Latencies(day) : Trait[k].ms <= m} = {k \in {"plain"} : day[k] > 0}
    BY <1>2, <1>3
  <2> QED
    BY <1>1, <2>1 DEF UpTo, TallyOf, Among
<1>6. UpTo(day, 9000) = p + s
  <2>1. {k \in Latencies(day) : Trait[k].ms <= 9000} = {k \in {"plain", "saved"} : day[k] > 0}
    BY <1>2, <1>3
  <2> QED
    BY <1>1, <2>1 DEF UpTo, TallyOf, Among
<1> QED
  BY <1>1, <1>2, <1>3, <1>4, <1>5, <1>6

(* percentile(): the quick requests come first, so the p-th is quick as long as *)
(* their number exceeds the rank floor((n - 1) * p / 100).                      *)
LEMMA PercentileIs ==
  ASSUME NEW day \in Tallies, NEW p \in {50, 95, 99}
  PROVE  LET ps == day["plain"]
             n  == ps + day["saved"]
         IN Percentile(day, p) = IF n = 0 THEN 0
                                 ELSE IF 100 * ps > (n - 1) * p THEN 900 ELSE 9000
<1> DEFINE ps == day["plain"] s == day["saved"] n == TallyOf(day, Latencies(day))
           rank == ((n - 1) * p) \div 100
<1>1. /\ ps \in Nat /\ s \in Nat /\ n \in Nat
      /\ Latencies(day) = {k \in {"plain", "saved"} : day[k] > 0}
      /\ Trait["plain"].ms = 900 /\ Trait["saved"].ms = 9000
      /\ n = ps + s
      /\ UpTo(day, 900) = ps /\ UpTo(day, 9000) = n
  BY LatencyCounts
<1>2. CASE n = 0
  <2>1. Percentile(day, p) = 0
    BY <1>2 DEF Percentile
  <2> QED
    BY <1>1, <1>2, <2>1
<1>3. CASE n > 0
  <2>1. rank \in Int /\ rank < n /\ rank >= 0
    <3>1. CASE p = 50
      BY <1>1, <1>3, <3>1
    <3>2. CASE p = 95
      BY <1>1, <1>3, <3>2
    <3>3. CASE p = 99
      BY <1>1, <1>3, <3>3
    <3> QED
      BY <3>1, <3>2, <3>3
  <2>2. ps > rank <=> 100 * ps > (n - 1) * p
    <3>1. CASE p = 50
      BY <1>1, <1>3, <3>1
    <3>2. CASE p = 95
      BY <1>1, <1>3, <3>2
    <3>3. CASE p = 99
      BY <1>1, <1>3, <3>3
    <3> QED
      BY <3>1, <3>2, <3>3
  <2> DEFINE V(ms) == /\ UpTo(day, ms) > rank
                      /\ \A k \in Latencies(day) : UpTo(day, Trait[k].ms) > rank => ms <= Trait[k].ms
             M == {Trait[k].ms : k \in Latencies(day)}
  <2>3. Percentile(day, p) = CHOOSE ms \in M : V(ms)
    <3>1. n # 0
      BY <1>1, <1>3
    <3> QED
      BY <3>1, Zenon DEF Percentile
  <2>4. CASE ps > rank
    <3>1. "plain" \in Latencies(day)
      BY <1>1, <2>1, <2>4
    <3>2. 900 \in M /\ V(900)
      BY <1>1, <2>4, <3>1
    <3>3. \A ms \in M : V(ms) => ms = 900
      <4> TAKE ms \in M
      <4>1. ms \in {900, 9000}
        BY <1>1
      <4>2. V(ms) => ms <= 900
        <5>1. UpTo(day, Trait["plain"].ms) > rank
          BY <1>1, <2>4
        <5>2. V(ms) => ms <= Trait["plain"].ms
          <6> HIDE DEF rank
          <6> QED
            BY <3>1, <5>1
        <5> HIDE DEF V, M
        <5> QED
          BY <1>1, <5>2
      <4> HIDE DEF V, M
      <4> QED
        BY <4>1, <4>2
    <3>4. (CHOOSE ms \in M : V(ms)) = 900
      <4> HIDE DEF V, M
      <4> QED
        BY <3>2, <3>3
    <3> QED
      BY <1>1, <1>3, <2>2, <2>3, <2>4, <3>4
  <2>5. CASE ~(ps > rank)
    <3>1. "saved" \in Latencies(day)
      BY <1>1, <2>1, <2>5
    <3>2. 9000 \in M
      BY <1>1, <3>1
    <3>3. ~(UpTo(day, 900) > rank) /\ UpTo(day, 9000) > rank
      BY <1>1, <2>1, <2>5
    <3>4. V(9000)
      <4>1. \A k \in Latencies(day) : k = "saved" \/ Trait[k].ms = 900
        BY <1>1
      <4> HIDE DEF rank, n
      <4> QED
        BY <1>1, <3>3, <4>1
    <3>5. \A ms \in M : V(ms) => ms = 9000
      <4> TAKE ms \in M
      <4>1. ms \in {900, 9000}
        BY <1>1
      <4>2. ~V(900)
        BY <3>3
      <4> HIDE DEF V, M
      <4> QED
        BY <4>1, <4>2
    <3>6. (CHOOSE ms \in M : V(ms)) = 9000
      <4> HIDE DEF V, M
      <4> QED
        BY <3>2, <3>4, <3>5
    <3> QED
      BY <1>1, <1>3, <2>2, <2>3, <2>5, <3>6
  <2> QED
    BY <2>4, <2>5
<1> QED
  BY <1>1, <1>2, <1>3

(* The p95 tells whether one request in twenty is slow, and percentiles are ordered. *)
LEMMA TailHolds == DigestInv => PercentileIsTail
<1> SUFFICES ASSUME DigestInv PROVE PercentileIsTail
  OBVIOUS
<1> DEFINE ps == today["plain"] s == today["saved"] n == ps + s
<1>1. /\ ps \in Nat /\ s \in Nat
      /\ TallyOf(today, Latencies(today)) = n /\ UpTo(today, 7999) = ps
  BY LatencyCounts DEF DigestInv
<1>2. \A p \in {50, 95, 99} :
        Percentile(today, p) = IF n = 0 THEN 0 ELSE IF 100 * ps > (n - 1) * p THEN 900 ELSE 9000
  BY PercentileIs DEF DigestInv
<1>3. Percentile(today, 95) = IF n = 0 THEN 0 ELSE IF 100 * ps > (n - 1) * 95 THEN 900 ELSE 9000
  BY <1>2
<1>4. Percentile(today, 50) = IF n = 0 THEN 0 ELSE IF 100 * ps > (n - 1) * 50 THEN 900 ELSE 9000
  BY <1>2
<1>5. Percentile(today, 99) = IF n = 0 THEN 0 ELSE IF 100 * ps > (n - 1) * 99 THEN 900 ELSE 9000
  BY <1>2
<1> HIDE DEF ps, s
<1> QED
  BY <1>1, <1>3, <1>4, <1>5 DEF PercentileIsTail

(* Two values are two, when they differ. *)
LEMMA PairSize ==
  ASSUME NEW a, NEW b
  PROVE  /\ IsFiniteSet({a, b})
         /\ Cardinality({a, b}) \in 1 .. 2
         /\ a # b => Cardinality({a, b}) = 2
<1>1. IsFiniteSet({a}) /\ Cardinality({a}) = 1
  BY FS_Singleton, Zenon
<1>2. /\ IsFiniteSet({a} \cup {b})
      /\ Cardinality({a} \cup {b}) = IF b \in {a} THEN Cardinality({a}) ELSE Cardinality({a}) + 1
  BY <1>1, FS_AddElement, Zenon
<1>3. {a} \cup {b} = {a, b}
  OBVIOUS
<1> QED
  BY <1>1, <1>2, <1>3

(* Three values are at most three. *)
LEMMA ThreeAtMost ==
  ASSUME NEW a, NEW b, NEW c
  PROVE  IsFiniteSet({a, b, c}) /\ Cardinality({a, b, c}) \in 1 .. 3
<1>1. IsFiniteSet({a, b}) /\ Cardinality({a, b}) \in 1 .. 2
  BY PairSize
<1>2. /\ IsFiniteSet({a, b} \cup {c})
      /\ Cardinality({a, b} \cup {c}) = IF c \in {a, b} THEN Cardinality({a, b}) ELSE Cardinality({a, b}) + 1
  BY <1>1, FS_AddElement, Zenon
<1>3. {a, b} \cup {c} = {a, b, c}
  OBVIOUS
<1> QED
  BY <1>1, <1>2, <1>3

(* Seven values are finitely many. *)
LEMMA SevenFinite ==
  ASSUME NEW a, NEW b, NEW c, NEW d, NEW e, NEW g, NEW h
  PROVE  IsFiniteSet({a, b, c, d, e, g, h})
<1>1. IsFiniteSet({a, b, c})
  BY ThreeAtMost
<1>2. IsFiniteSet({a, b, c} \cup {d})
  BY <1>1, FS_AddElement, Zenon
<1>3. IsFiniteSet(({a, b, c} \cup {d}) \cup {e})
  BY <1>2, FS_AddElement, Zenon
<1>4. IsFiniteSet((({a, b, c} \cup {d}) \cup {e}) \cup {g})
  BY <1>3, FS_AddElement, Zenon
<1>5. IsFiniteSet(((({a, b, c} \cup {d}) \cup {e}) \cup {g}) \cup {h})
  BY <1>4, FS_AddElement, Zenon
<1>6. ((({a, b, c} \cup {d}) \cup {e}) \cup {g}) \cup {h} = {a, b, c, d, e, g, h}
  OBVIOUS
<1> QED
  BY <1>5, <1>6

(* slice(0, 2) of the sorted candidates: when no two have the same priority, those *)
(* with fewer than two above them are at most two.                                 *)
LEMMA TopTwo ==
  ASSUME NEW C, IsFiniteSet(C),
         \A x \in C : x.prio \in Nat,
         \A x, y \in C : x.prio = y.prio => x = y
  PROVE  LET T == {x \in C : Cardinality({y \in C : y.prio > x.prio}) < 2}
         IN \E a, b : T \subseteq {a, b}
<1> DEFINE H(x) == {y \in C : y.prio > x.prio}
           T == {x \in C : Cardinality(H(x)) < 2}
<1>1. \A x \in T : \A a, b \in C : a # b /\ a \in H(x) /\ b \in H(x) => FALSE
  <2> SUFFICES ASSUME NEW x \in T, NEW a \in C, NEW b \in C, a # b, a \in H(x), b \in H(x)
               PROVE  FALSE
    OBVIOUS
  <2>1. IsFiniteSet(H(x)) /\ Cardinality(H(x)) \in Nat
    BY FS_Subset, FS_CardinalityType
  <2>2. Cardinality({a, b}) = 2
    BY PairSize
  <2>3. Cardinality({a, b}) <= Cardinality(H(x))
    <3>1. {a, b} \in SUBSET H(x)
      OBVIOUS
    <3> HIDE DEF H
    <3> QED
      BY <2>1, <3>1, FS_Subset
  <2> QED
    BY <2>1, <2>2, <2>3
<1>2. \A x, y, z \in T : x = y \/ y = z \/ x = z
  <2> SUFFICES ASSUME NEW x \in T, NEW y \in T, NEW z \in T, x # y, y # z, x # z
               PROVE  FALSE
    OBVIOUS
  <2>1. x \in C /\ y \in C /\ z \in C
    OBVIOUS
  <2>2. \/ y \in H(x) /\ z \in H(x)
        \/ x \in H(y) /\ z \in H(y)
        \/ x \in H(z) /\ y \in H(z)
    <3>1. /\ x.prio \in Nat /\ y.prio \in Nat /\ z.prio \in Nat
          /\ x.prio # y.prio /\ y.prio # z.prio /\ x.prio # z.prio
      BY <2>1
    <3> QED
      BY <2>1, <3>1
  <2> QED
    BY <1>1, <2>1, <2>2
<1> HIDE DEF T
<1>3. T = {} => \E a, b : T \subseteq {a, b}
  OBVIOUS
<1>4. T # {} => \E a, b : T \subseteq {a, b}
  <2> HAVE T # {}
  <2>1. PICK a \in T : TRUE
    OBVIOUS
  <2>2. T = {a} => T \subseteq {a, a}
    OBVIOUS
  <2>3. T # {a} => \E b : T \subseteq {a, b}
    <3> HAVE T # {a}
    <3>1. PICK b \in T : b # a
      BY <2>1
    <3>2. T \subseteq {a, b}
      BY <1>2, <2>1, <3>1
    <3> QED
      BY <3>2
  <2> QED
    BY <2>2, <2>3
<1>5. \E a, b : T \subseteq {a, b}
  BY <1>3, <1>4
<1> QED
  BY <1>5 DEF T

(* The seven builders give finitely many candidates, with different priorities, and *)
(* only the line of refused requests is above 95.                                   *)
LEMMA LinesDiffer ==
  ASSUME NEW f
  PROVE  /\ IsFiniteSet(Candidates(f))
         /\ \A x \in Candidates(f) : x.prio \in Nat
         /\ \A x, y \in Candidates(f) : x.prio = y.prio => x = y
         /\ \A x \in Candidates(f) : x.prio <= 100 /\ (x.prio > 95 => x = [key |-> "route-rejected", prio |-> 100])
<1>1. /\ buildRouteRejectedLine(f) \subseteq {[key |-> "route-rejected", prio |-> 100]}
      /\ buildTopErrorLine(f) \subseteq {[key |-> "top-error", prio |-> 70]}
      /\ buildBusyHourLine(f) \subseteq {[key |-> "busy-hour", prio |-> 15]}
      /\ buildRetriesLine(f) \subseteq {[key |-> "retries", prio |-> 10]}
  BY DEF buildRouteRejectedLine, buildTopErrorLine, buildBusyHourLine, buildRetriesLine, Line
<1>2. \E q \in {40, 60, 95} : buildSuccessRateLine(f) \subseteq {[key |-> "success-rate", prio |-> q]}
  BY DEF buildSuccessRateLine, Line, Tone
<1>3. \E q \in {50, 30} : buildLatencyLine(f) \subseteq {[key |-> "latency", prio |-> q]}
  BY DEF buildLatencyLine, Line
<1>4. \E q \in {25, 20} : buildConcentrationLine(f) \subseteq {[key |-> "concentration", prio |-> q]}
  BY DEF buildConcentrationLine, Line
<1>5. PICK q2 \in {40, 60, 95} : buildSuccessRateLine(f) \subseteq {[key |-> "success-rate", prio |-> q2]}
  BY <1>2
<1>6. PICK q4 \in {50, 30} : buildLatencyLine(f) \subseteq {[key |-> "latency", prio |-> q4]}
  BY <1>3
<1>7. PICK q5 \in {25, 20} : buildConcentrationLine(f) \subseteq {[key |-> "concentration", prio |-> q5]}
  BY <1>4
<1> DEFINE c1 == [key |-> "route-rejected", prio |-> 100]
           c2 == [key |-> "success-rate", prio |-> q2]
           c3 == [key |-> "top-error", prio |-> 70]
           c4 == [key |-> "latency", prio |-> q4]
           c5 == [key |-> "concentration", prio |-> q5]
           c6 == [key |-> "busy-hour", prio |-> 15]
           c7 == [key |-> "retries", prio |-> 10]
           All == {c1, c2, c3, c4, c5, c6, c7}
<1>8. \A x \in Candidates(f) : x \in All
  <2> TAKE x \in Candidates(f)
  <2>1. \/ x \in buildRouteRejectedLine(f) \/ x \in buildSuccessRateLine(f)
        \/ x \in buildTopErrorLine(f) \/ x \in buildLatencyLine(f)
        \/ x \in buildConcentrationLine(f) \/ x \in buildBusyHourLine(f)
        \/ x \in buildRetriesLine(f)
    BY DEF Candidates
  <2> QED
    BY <1>1, <1>5, <1>6, <1>7, <2>1
<1>9. IsFiniteSet(Candidates(f))
  <2>1. IsFiniteSet(All)
    <3> HIDE DEF c1, c2, c3, c4, c5, c6, c7
    <3> QED
      BY SevenFinite, Zenon
  <2>2. Candidates(f) \in SUBSET All
    BY <1>8
  <2> QED
    BY <2>1, <2>2, FS_Subset
<1> QED
  BY <1>8, <1>9

(* computeDigestFacts: the refused requests are among all, and without requests *)
(* there is no success.                                                         *)
LEMMA FactsAre ==
  ASSUME NEW day \in Tallies, NEW prev
  PROVE  LET f == computeDigestFacts(day, prev)
         IN /\ f.total \in Nat /\ f.refused \in Nat /\ f.refused <= f.total
            /\ f.success \in Int
            /\ f.total = 0 => f.success = 0
<1> DEFINE failed == TallyOf(day, {k \in LogKinds : ~Trait[k].ok})
           total == TallyOf(day, LogKinds)
           refused == TallyOf(day, {k \in LogKinds : ~Trait[k].ok /\ Trait[k].att = 0})
           f == computeDigestFacts(day, prev)
<1>1. failed \in Nat /\ total \in Nat /\ refused \in Nat
  BY TallyIs
<1>2. failed <= total
  BY TallyGrows
<1>3. refused <= total
  BY TallyGrows
<1>4. f.total = total /\ f.refused = refused /\ f.success = total - failed
  BY DEF computeDigestFacts
<1> HIDE DEF failed, total, refused, f
<1>5. QED
  BY <1>1, <1>2, <1>3, <1>4 DEF f

(* DailyDigest: the two alarms are among the lines that are shown, at most three. *)
LEMMA AlarmsHold == DigestInv => AlarmsAreShown
<1> SUFFICES ASSUME DigestInv PROVE AlarmsAreShown
  OBVIOUS
<1> DEFINE f == computeDigestFacts(today, former)
           C == Candidates(f)
           H(x) == {y \in C : y.prio > x.prio}
           T == {x \in C : Cardinality(H(x)) < 2}
           told == DailyDigest(f)
           refusal == [key |-> "route-rejected", prio |-> 100]
           rate == [key |-> "success-rate", prio |-> 95]
<1>1. /\ f.total \in Nat /\ f.refused \in Nat /\ f.refused <= f.total
      /\ f.success \in Int /\ (f.total = 0 => f.success = 0)
  BY FactsAre DEF DigestInv
<1> HIDE DEF f
<1>2. /\ IsFiniteSet(C)
      /\ \A x \in C : x.prio \in Nat
      /\ \A x, y \in C : x.prio = y.prio => x = y
      /\ \A x \in C : x.prio <= 100 /\ (x.prio > 95 => x = refusal)
  BY LinesDiffer
<1>3. f.total # 0 => told = {"volume"} \cup {c.key : c \in T}
  BY DEF DailyDigest
<1>4. f.refused > 0 => "route-rejected" \in told
  <2> HAVE f.refused > 0
  <2>1. refusal \in C
    BY <1>1 DEF Candidates, buildRouteRejectedLine, Line
  <2>2. H(refusal) = {}
    BY <1>2
  <2>3. refusal \in T
    BY <2>1, <2>2, FS_EmptySet
  <2>4. refusal.key = "route-rejected"
    OBVIOUS
  <2> HIDE DEF T, told, refusal
  <2>5. "route-rejected" \in {c.key : c \in T}
    BY <2>3, <2>4
  <2> QED
    BY <1>1, <1>3, <2>5
<1>5. f.total >= MinSamples /\ Tone(f) = "red" => "success-rate" \in told
  <2> HAVE f.total >= MinSamples /\ Tone(f) = "red"
  <2>1. f.total # 0
    BY <1>1 DEF Tone
  <2>2. rate \in C
    <3>1. ~(f.total < MinSamples)
      BY <1>1, MinSamplesAssumption
    <3>2. buildSuccessRateLine(f) = {rate}
      BY <3>1 DEF buildSuccessRateLine, Line
    <3> QED
      BY <3>2 DEF Candidates
  <2>3. H(rate) \in SUBSET {refusal}
    BY <1>2
  <2>4. Cardinality(H(rate)) < 2
    <3>1. IsFiniteSet({refusal}) /\ Cardinality({refusal}) = 1
      BY FS_Singleton
    <3> HIDE DEF H, refusal
    <3>2. IsFiniteSet(H(rate)) /\ Cardinality(H(rate)) <= 1
      BY <2>3, <3>1, FS_Subset
    <3>3. Cardinality(H(rate)) \in Nat
      BY <3>2, FS_CardinalityType
    <3> QED
      BY <3>2, <3>3
  <2>5. rate \in T
    BY <2>2, <2>4
  <2>6. rate.key = "success-rate"
    OBVIOUS
  <2> HIDE DEF T, told, rate
  <2>7. "success-rate" \in {c.key : c \in T}
    BY <2>5, <2>6
  <2> QED
    BY <1>3, <2>1, <2>7
<1>6. Cardinality(told) <= 3
  <2>1. CASE f.total = 0
    <3>1. told = {"idle"}
      BY <2>1 DEF DailyDigest
    <3>2. Cardinality({"idle"}) = 1
      BY FS_Singleton, Zenon
    <3> QED
      BY <3>1, <3>2
  <2>2. CASE f.total # 0
    <3>1. PICK a, b : T \subseteq {a, b}
      <4> HIDE DEF C
      <4> QED
        BY <1>2, TopTwo
    <3> HIDE DEF T, told
    <3>2. told \in SUBSET {"volume", a.key, b.key}
      BY <1>3, <2>2, <3>1
    <3>3. IsFiniteSet({"volume", a.key, b.key}) /\ Cardinality({"volume", a.key, b.key}) \in 1 .. 3
      BY ThreeAtMost
    <3>4. IsFiniteSet(told) /\ Cardinality(told) <= Cardinality({"volume", a.key, b.key})
      BY <3>2, <3>3, FS_Subset
    <3>5. Cardinality(told) \in Nat
      BY <3>4, FS_CardinalityType
    <3> QED
      BY <3>3, <3>4, <3>5
  <2> QED
    BY <2>1, <2>2
<1> QED
  BY <1>4, <1>5, <1>6 DEF AlarmsAreShown, f

(* For any number of requests of each kind, and any threshold of samples: alarms are *)
(* told, percentiles tell of the tail, and the flow diagram loses no request.        *)
THEOREM DigestIsTrueHolds == DigestSpec => []DigestIsTrue
<1>1. DigestInit => DigestInv
  BY DEF DigestInit, DigestInv, NoTally, Tallies
<1>2. DigestInv /\ [DigestNext]_digestVars => DigestInv'
  <2> SUFFICES ASSUME DigestInv, [DigestNext]_digestVars PROVE DigestInv'
    OBVIOUS
  <2>1. ASSUME NEW k \in LogKinds, RequestEnds(k) PROVE DigestInv'
    BY <2>1 DEF RequestEnds, DigestInv, Tallies
  <2>2. CASE DayPasses
    BY <2>2 DEF DayPasses, DigestInv, NoTally, Tallies
  <2>3. CASE UNCHANGED digestVars
    BY <2>3 DEF digestVars, DigestInv
  <2> QED
    BY <2>1, <2>2, <2>3 DEF DigestNext
<1>3. DigestInv => DigestIsTrue
  BY FlowHolds, TailHolds, AlarmsHold DEF DigestIsTrue
<1> QED
  BY <1>1, <1>2, <1>3, PTL DEF DigestSpec

-----------------------------------------------------------------------------
(* The charts of the activity page *)

(* The hours passed, the hour of the change and the leap are what they seem. *)
TrendInv == clock \in Int /\ leapAt \in Int /\ leap \in {-1, 0, 1}

(* A day is the 24 local hours from its midnight. *)
LEMMA DivByDay ==
  ASSUME NEW l \in Int
  PROVE  /\ Day(l) \in Int
         /\ 24 * Day(l) <= l /\ l <= 24 * Day(l) + 23
  BY DEF Day

(* The day of an hour is found from any 24 hours that hold it. *)
LEMMA DayOf ==
  ASSUME NEW l \in Int, NEW d \in Int, 24 * d <= l, l <= 24 * d + 23
  PROVE  Day(l) = d
<1>1. Day(l) \in Int /\ 24 * Day(l) <= l /\ l <= 24 * Day(l) + 23
  BY DivByDay
<1> QED
  BY <1>1

(* Setting the clock to a local hour and reading it again gives that hour, or the *)
(* one after it when the hour was skipped.                                          *)
LEMMA Clocks ==
  ASSUME TrendInv, NEW l \in Int
  PROVE  /\ Local(l) \in Int /\ Absolute(l) \in Int
         /\ Absolute(l) = l \/ Absolute(l) = l - leap
         /\ l <= Local(Absolute(l))
         /\ Local(Absolute(l)) # l => leap = 1 /\ l = leapAt
  BY DEF TrendInv, Local, Absolute

(* What the clock shows at a later hour is no earlier, even when it went back *)
(* by one (hours are whole).                                                    *)
LEMMA LocalGrows ==
  ASSUME TrendInv, NEW s \in Int, NEW t \in Int, s <= t
  PROVE  Local(s) <= Local(t)
  BY DEF TrendInv, Local

(* buildBuckets for 24 hours: the bucket of a request has its local hour, when the *)
(* clocks were not changed in between.                                             *)
LEMMA HoursHold == TrendInv => HoursAreTrue
<1> SUFFICES ASSUME TrendInv, leap = 0 \/ leapAt \notin HourStart .. clock,
                    NEW t \in clock - 23 .. clock
             PROVE  /\ HourIndex(t) \in 0 .. 23
                    /\ HourLabel(HourIndex(t)) = Local(t) % 24
  BY DEF HoursAreTrue
<1>1. t \in Int /\ clock \in Int /\ HourStart \in Int
  BY DEF TrendInv, HourStart, Local, Absolute
<1>2. HourStart = clock - 23
  BY <1>1 DEF TrendInv, HourStart, Local, Absolute
<1>3. HourIndex(t) \in 0 .. 23
  BY <1>1, <1>2 DEF HourIndex
<1>4. Local(Absolute(Local(HourStart) + HourIndex(t))) = Local(t)
  BY <1>1, <1>2 DEF TrendInv, HourIndex, Local, Absolute
<1> QED
  BY <1>3, <1>4 DEF HourLabel

(* buildBuckets for days: the bucket of a request exists, and is that of its local *)
(* day; the midnights are 23, 24 or 25 hours apart.                                *)
LEMMA DaysHold == ChartDays \subseteq Nat \ {0} /\ TrendInv => DaysAreTrue
<1> SUFFICES ASSUME ChartDays \subseteq Nat \ {0}, TrendInv,
                    NEW n \in ChartDays, NEW t \in DayStart(n) .. clock
             PROVE  /\ DayIndex(n, t) \in 0 .. (n - 1)
                    /\ (leap < 1 \/ leapAt < DayStart(n) \/ Absolute(Midnight(Local(t))) < leapAt)
                         => DayLabel(n, DayIndex(n, t)) = Day(Local(t))
  BY DEF DaysAreTrue
<1> DEFINE d  == Day(Local(t))
           d0 == Day(Local(clock)) - (n - 1)
<1>1. n \in Int /\ n >= 1 /\ clock \in Int /\ leapAt \in Int /\ leap \in {-1, 0, 1}
  BY DEF TrendInv
<1>2. Local(clock) \in Int /\ Day(Local(clock)) \in Int /\ d0 \in Int
  <2>1. Local(clock) \in Int
    BY <1>1, Clocks
  <2>2. Day(Local(clock)) \in Int
    BY <2>1, DivByDay
  <2> QED
    BY <2>1, <2>2, <1>1
<1>3. /\ DayStart(n) = Absolute(24 * d0)
      /\ DayStart(n) \in Int /\ t \in Int
  BY <1>1, <1>2, Clocks DEF DayStart
<1>4. /\ Local(t) \in Int /\ d \in Int
      /\ 24 * d <= Local(t) /\ Local(t) <= 24 * d + 23
  BY <1>3, Clocks, DivByDay
<1>5. d0 <= d
  <2>1. 24 * d0 <= Local(DayStart(n))
    BY <1>2, <1>3, Clocks
  <2>2. Local(DayStart(n)) <= Local(t)
    BY <1>3, LocalGrows
  <2>3. Local(DayStart(n)) \in Int
    BY <1>3, Clocks
  <2> QED
    BY <2>1, <2>2, <2>3, <1>2, <1>4
<1>6. d <= d0 + (n - 1)
  <2>1. Local(t) <= Local(clock)
    BY <1>1, <1>3, LocalGrows
  <2>2. Local(clock) <= 24 * Day(Local(clock)) + 23
    BY <1>2, DivByDay
  <2> QED
    BY <2>1, <2>2, <1>1, <1>2, <1>4
<1> DEFINE i == (Absolute(24 * d) - Absolute(24 * d0)) \div 24
<1>7. DayIndex(n, t) = i
  BY <1>3 DEF DayIndex, Midnight
<1>8. /\ Absolute(24 * d) \in Int /\ Absolute(24 * d0) \in Int
      /\ Absolute(24 * d) = 24 * d \/ Absolute(24 * d) = 24 * d - leap
      /\ Absolute(24 * d0) = 24 * d0 \/ Absolute(24 * d0) = 24 * d0 - leap
  BY <1>2, <1>4, Clocks
<1> HIDE DEF d, d0
<1>9. i = d - d0 \/ (i = d - d0 - 1 /\ d > d0)
  BY <1>1, <1>2, <1>4, <1>5, <1>8
<1>10. i \in 0 .. (n - 1)
  BY <1>1, <1>2, <1>4, <1>5, <1>6, <1>9
<1>11. ASSUME leap < 1 \/ leapAt < DayStart(n) \/ Absolute(24 * d) < leapAt
       PROVE  i = d - d0 /\ Local(DayStart(n)) = 24 * d0
  BY <1>1, <1>2, <1>3, <1>4, <1>5, <1>11 DEF Local, Absolute
<1>12. ASSUME i = d - d0, Local(DayStart(n)) = 24 * d0
       PROVE  DayLabel(n, i) = d
  <2>1. Local(DayStart(n)) + 24 * i = 24 * d
    BY <1>2, <1>4, <1>12
  <2>2. /\ Local(Absolute(24 * d)) \in Int
        /\ 24 * d <= Local(Absolute(24 * d)) /\ Local(Absolute(24 * d)) <= 24 * d + 23
    BY <1>1, <1>4 DEF Local, Absolute
  <2>3. Day(Local(Absolute(24 * d))) = d
    BY <2>2, <1>4, DayOf
  <2> QED
    BY <2>1, <2>3 DEF DayLabel
<1> QED
  BY <1>7, <1>10, <1>11, <1>12 DEF Midnight, d

(* Whenever the clocks are changed, and by whichever of the three leaps, the charts *)
(* of the activity page count every request at its own local hour and day.          *)
THEOREM BucketsAreTrueHolds == TrendSpec => []BucketsAreTrue
<1>1. TrendInit => TrendInv
  BY ChartAssumption DEF TrendInit, TrendInv
<1>2. TrendInv /\ [TrendNext]_trendVars => TrendInv'
  BY DEF TrendInv, TrendNext, HourPasses, trendVars
<1>3. TrendInv => BucketsAreTrue
  BY HoursHold, DaysHold, ChartAssumption DEF BucketsAreTrue
<1> QED
  BY <1>1, <1>2, <1>3, PTL DEF TrendSpec

=============================================================================
