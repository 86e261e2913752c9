------------------------------ MODULE PoolPage ------------------------------
(***************************************************************************)
(* The page of one pool in the web console (PoolDetailPage.tsx), from the   *)
(* path to the requests it sends: the load that is made again on every       *)
(* change of pool or of dataVersion (AdminUI.tsx) and whose late answers are *)
(* told apart by a sequence number, the handlers that change the pool on the *)
(* server and what each does when its answer comes, and the pool settings    *)
(* dialog.  A handler is a record of ops: it keeps the values of the render  *)
(* it was started from (its closure) and outlives the page.                  *)
(***************************************************************************)
EXTENDS Naturals, FiniteSets

CONSTANTS Pools,      \* pools that exist when the console is opened
          NoDetail,   \* the page has not taken over any answer yet
          MaxGestures \* bound: handlers started, changes of path, retries of a failed load

VARIABLES path,       \* a pool, "bad" (/admin/pools/x) or "away" (another page)
          version,    \* changes the server has seen
          row,        \* the server's pools: label, policy, enabled
          stamp,      \* version of the last change of each pool's row
          gone,       \* pools deleted on the server
          page,       \* the page's state: loading, error, detail, hasLoaded, seq
          loads,      \* GET /pools/:id in flight
          ops,        \* handlers that await an answer
          saving,     \* the page's "saving" flags that are set
          refreshing, \* refreshingAccountIdsRef, one account for each pool
          count,      \* handlers started, moves made, mounts of the page
          asked, floor, \* pool and version of the newest load (for FreshView)
          unannounced, \* a change was made whose handler asked for no new load
          strayed     \* a handler of another pool's render has called its load

pageVars == <<path, version, row, stamp, gone, page, loads, ops, saving,
              refreshing, count, asked, floor, unannounced, strayed>>

Rows == [label : {0, 1}, policy : {"ordered", "health_first"}, enabled : BOOLEAN]

\* The two paths that are no pool, and what stands for "no answer yet".
ASSUME PoolsAssumption == Pools \cap {"bad", "away"} = {}
ASSUME NoDetailAssumption == NoDetail \notin [pool : Pools, ver : Nat, row : Rows]

FreshPage == [loading |-> TRUE, error |-> FALSE, detail |-> NoDetail,
              hasLoaded |-> FALSE, seq |-> 0]

PageInit ==
  /\ asked \in Pools
  /\ path = "away"
  /\ version = 0
  /\ row = [p \in Pools |-> [label |-> IF p = asked THEN 1 ELSE 0,
                              policy |-> "health_first", enabled |-> TRUE]]
  /\ stamp = [p \in Pools |-> 0]
  /\ gone = {}
  /\ page = FreshPage
  /\ loads = {}
  /\ ops = {}
  /\ saving = {}
  /\ refreshing = {}
  /\ count = [ops |-> 0, moves |-> 0, mount |-> 0]
  /\ floor = 0
  /\ unannounced = FALSE
  /\ strayed = FALSE

\* What the render shows: the skeleton, the error, "missing" or the pool.
Screen ==
  IF page.loading THEN "loading"
  ELSE IF page.error THEN "error"
  ELSE IF page.detail = NoDetail THEN "missing" ELSE "pool"

-----------------------------------------------------------------------------
(* The load *)

\* load() of the closure of pool p, on page state pg.
StartLoad(p, pg) ==
  /\ page' = [pg EXCEPT !.seq = @ + 1, !.error = FALSE,
                        !.loading = @ \/ ~pg.hasLoaded]
  /\ loads' = loads \cup {[seq |-> pg.seq + 1, pool |-> p, st |-> "sent",
                           ver |-> 0, row |-> row[p]]}
  /\ asked' = p
  /\ floor' = version

NoLoad == UNCHANGED <<page, loads, asked, floor>>

\* Faulty variant: the effect does not depend on dataVersion.
refreshData_NoEffect == NoLoad

\* refreshData(): the effect on dataVersion loads the pool of the path.
refreshData ==
  IF path \in Pools THEN StartLoad(path, page)
  ELSE /\ page' = IF path = "bad" THEN [page EXCEPT !.loading = FALSE, !.error = TRUE]
                  ELSE page
       /\ UNCHANGED <<loads, asked, floor>>

\* The server answers a load with the pool's present row.
ServeLoad(l) ==
  /\ l \in loads
  /\ l.st = "sent"
  /\ l.pool \notin gone
  /\ loads' = (loads \ {l}) \cup
       {[l EXCEPT !.st = "answered", !.ver = version, !.row = row[l.pool]]}
  /\ UNCHANGED <<path, version, row, stamp, gone, page, ops, saving, refreshing,
                 count, asked, floor, unannounced, strayed>>

\* The settings dialog's effect on the pool's label clears its saving flags.
DialogFlags == {"label", "status", "delete"}

\* Faulty variant: an answer is compared with the pool, not with loadSeqRef.
LoadArrives_ByPool(l) ==
  /\ l \in loads
  /\ l.st = "answered"
  /\ loads' = loads \ {l}
  /\ page' = IF l.pool # path THEN page
             ELSE [page EXCEPT !.hasLoaded = TRUE, !.loading = FALSE,
                     !.detail = [pool |-> l.pool, ver |-> l.ver, row |-> l.row]]
  /\ UNCHANGED <<path, version, row, stamp, gone, ops, saving, refreshing, count,
                 asked, floor, unannounced, strayed>>

\* then and finally of the load: only the newest one counts.
LoadArrives(l) ==
  /\ l \in loads
  /\ l.st = "answered"
  /\ loads' = loads \ {l}
  /\ page' = IF l.seq # page.seq THEN page
             ELSE [page EXCEPT !.hasLoaded = TRUE, !.loading = FALSE,
                     !.detail = [pool |-> l.pool, ver |-> l.ver, row |-> l.row]]
  /\ saving' = IF l.seq = page.seq /\ page.detail # NoDetail
                  /\ page.detail.row.label # l.row.label
               THEN saving \ DialogFlags ELSE saving
  /\ UNCHANGED <<path, version, row, stamp, gone, ops, refreshing, count,
                 asked, floor, unannounced, strayed>>

\* Faulty variant: the flag is cleared after a success only.
LoadFails_NoFinally(l) ==
  /\ l \in loads
  /\ loads' = loads \ {l}
  /\ page' = IF l.seq # page.seq THEN page ELSE [page EXCEPT !.error = TRUE]
  /\ UNCHANGED <<path, version, row, stamp, gone, ops, saving, refreshing, count,
                 asked, floor, unannounced, strayed>>

\* catch and finally: the request, or its answer, was lost, or the pool is gone.
LoadFails(l) ==
  /\ l \in loads
  /\ loads' = loads \ {l}
  /\ page' = IF l.seq # page.seq THEN page
             ELSE [page EXCEPT !.error = TRUE, !.loading = FALSE]
  /\ UNCHANGED <<path, version, row, stamp, gone, ops, saving, refreshing, count,
                 asked, floor, unannounced, strayed>>

-----------------------------------------------------------------------------
(* The path *)

\* A new path (navigate, a link, the browser's back button).  The page stays
\* mounted from pool to pool: its effect on the pool resets hasLoaded and the
\* set of refreshes, then load runs.  The page mounts afresh from elsewhere.
Open(p) ==
  /\ p # path
  /\ count.ops + count.moves < MaxGestures
  /\ count' = [count EXCEPT !.moves = @ + 1, !.mount = IF path = "away" THEN @ + 1 ELSE @]
  /\ path' = p
  /\ refreshing' = {}
  /\ saving' = IF path = "away" THEN {} ELSE saving \ DialogFlags
  /\ LET pg == IF path = "away" THEN FreshPage ELSE [page EXCEPT !.hasLoaded = FALSE]
     IN IF p \in Pools THEN StartLoad(p, pg)
        ELSE /\ page' = [pg EXCEPT !.loading = FALSE, !.error = TRUE]
             /\ UNCHANGED <<loads, asked, floor>>
  /\ unannounced' = (unannounced /\ p \notin Pools)
  /\ strayed' = FALSE
  /\ UNCHANGED <<version, row, stamp, gone, ops>>

Leave ==
  /\ path # "away"
  /\ path' = "away"
  /\ page' = FreshPage
  /\ loads' = {}
  /\ saving' = {}
  /\ refreshing' = {}
  /\ UNCHANGED <<version, row, stamp, gone, ops, count, asked, floor, unannounced, strayed>>

\* The error screen's retry calls load.
Retry ==
  /\ path \in Pools
  /\ Screen \in {"error", "missing"}
  /\ count.ops + count.moves < MaxGestures
  /\ count' = [count EXCEPT !.moves = @ + 1]
  /\ StartLoad(path, page)
  /\ unannounced' = FALSE
  /\ UNCHANGED <<path, version, row, stamp, gone, ops, saving, refreshing, strayed>>

-----------------------------------------------------------------------------
(* The handlers: a gesture on the pool that is shown starts one *)

Begin(op, flag, pool, put) ==
  /\ path \in Pools
  /\ Screen = "pool"
  /\ flag \notin saving
  /\ count.ops + count.moves < MaxGestures
  /\ count' = [count EXCEPT !.ops = @ + 1]
  /\ ops' = ops \cup {[op |-> op, n |-> count.ops + 1, pool |-> pool, put |-> put,
                       base |-> page.detail.ver, from |-> page.detail.pool,
                       st |-> "sent", first |-> op = "cross", done |-> FALSE,
                       mount |-> count.mount, load |-> path]}
  /\ saving' = saving \cup ({flag} \ {"none"})
  /\ UNCHANGED <<path, version, row, stamp, gone, page, loads, asked, floor, unannounced, strayed>>

Shown == page.detail.row

reorderMembers == Begin("reorder", "none", path, Shown) /\ UNCHANGED refreshing
toggleMember == Begin("toggle", "none", path, Shown) /\ UNCHANGED refreshing
handleCrossZoneMove == Begin("cross", "none", path, Shown) /\ UNCHANGED refreshing

\* Faulty variant: the body of the PUT enables the pool.
toggleRoutingPolicy_Enables ==
  /\ Begin("policy", "policy", path, [Shown EXCEPT !.policy = "ordered", !.enabled = TRUE])
  /\ UNCHANGED refreshing

toggleRoutingPolicy ==
  /\ Begin("policy", "policy", path,
       [Shown EXCEPT !.policy = IF @ = "ordered" THEN "health_first" ELSE "ordered"])
  /\ UNCHANGED refreshing

refreshAccount ==
  /\ path \notin refreshing
  /\ Begin("refresh", "none", path, Shown)
  /\ refreshing' = refreshing \cup {path}

deleteAccount == Begin("account", "none", path, Shown) /\ UNCHANGED refreshing

\* The account's sheet saves a change of the account, then calls load.
SheetSave == Begin("sheet", "none", path, Shown) /\ UNCHANGED refreshing

saveLabel(l) ==
  /\ Begin("label", "label", page.detail.pool, [Shown EXCEPT !.label = l])
  /\ UNCHANGED refreshing

setPoolEnabled ==
  /\ Begin("status", "status", page.detail.pool, [Shown EXCEPT !.enabled = ~@])
  /\ UNCHANGED refreshing

deletePool == Begin("delete", "delete", page.detail.pool, Shown) /\ UNCHANGED refreshing

\* The server carries out a handler's request.  PUT /pools/:id writes the row
\* the request holds, POST .../enable and .../disable the one field.
Apply(o) ==
  /\ o \in ops
  /\ o.st = "sent"
  /\ o.pool \notin gone
  /\ version' = version + 1
  /\ row' = CASE o.op \in {"policy", "label"} -> [row EXCEPT ![o.pool] = o.put]
              [] o.op = "status" -> [row EXCEPT ![o.pool].enabled = o.put.enabled]
              [] OTHER -> row
  /\ stamp' = IF row' # row THEN [stamp EXCEPT ![o.pool] = version + 1] ELSE stamp
  /\ gone' = IF o.op = "delete" THEN gone \cup {o.pool} ELSE gone
  /\ ops' = (ops \ {o}) \cup {[o EXCEPT !.st = "applied", !.done = TRUE]}
  /\ UNCHANGED <<path, page, loads, saving, refreshing, count, asked, floor,
                 unannounced, strayed>>

\* The second request of a move between the zones.
SecondRequest(o) ==
  /\ o \in ops
  /\ o.st = "applied"
  /\ o.first
  /\ ops' = (ops \ {o}) \cup {[o EXCEPT !.st = "sent", !.first = FALSE]}
  /\ UNCHANGED <<path, version, row, stamp, gone, page, loads, saving, refreshing,
                 count, asked, floor, unannounced, strayed>>

\* Handlers that call refreshData whether or not their request succeeded.
InFinally == {"reorder", "toggle", "cross"}

\* The handler's answer makes the page load: refreshData is a function of the
\* context and works after the page is gone, load one of the handler's render.
CallsRefresh(o, ok) == o.op \in InFinally \/ (ok /\ o.op # "sheet")

CallsLoad(o, ok) ==
  /\ \/ o.op = "policy" /\ ~ok
     \/ o.op = "sheet" /\ ok
  /\ o.mount = count.mount
  /\ path # "away"

AfterAnswer(o, ok) ==
  \/ CallsRefresh(o, ok) /\ refreshData
  \/ CallsLoad(o, ok) /\ StartLoad(o.load, page)
  \/ ~CallsRefresh(o, ok) /\ ~CallsLoad(o, ok) /\ NoLoad

\* The answer of a handler's last request arrives; or one of its requests is
\* refused or lost, or the answer to it is, after the server has carried it out.
Finish(o, ok) ==
  /\ o \in ops
  /\ o.st \in {"sent", "applied"}
  /\ ok => o.st = "applied" /\ ~o.first /\ o.op # "delete"
  /\ ops' = ops \ {o}
  /\ saving' = IF o.mount = count.mount THEN saving \ {o.op} ELSE saving
  /\ refreshing' = IF o.op = "refresh" /\ o.mount = count.mount
                   THEN refreshing \ {o.pool} ELSE refreshing
  /\ AfterAnswer(o, ok)
  /\ unannounced' = IF CallsRefresh(o, ok) \/ CallsLoad(o, ok) THEN FALSE
                    ELSE unannounced \/ o.done
  /\ strayed' = (strayed \/ (CallsLoad(o, ok) /\ o.load # path))
  /\ UNCHANGED <<path, version, row, stamp, gone, count>>

\* onDeleted: the dialog closes, refreshData runs, and the list of pools is
\* asked for to open another pool, or the overview when there is none.
DeletedAnswer(o) ==
  /\ o \in ops
  /\ o.op = "delete"
  /\ o.st = "applied"
  /\ ops' = (ops \ {o}) \cup {[o EXCEPT !.st = "listing"]}
  /\ refreshData
  /\ unannounced' = FALSE
  /\ UNCHANGED <<path, version, row, stamp, gone, saving, refreshing, count, strayed>>

\* The list, or its failure, decides where to go; the page that was opened in
\* the meantime is left too.  navigate ignores the path of its own render.
NavigateAway(o) ==
  /\ o \in ops
  /\ o.st = "listing"
  /\ ops' = ops \ {o}
  /\ \E next \in (Pools \ (gone \cup {o.pool})) \cup {"away"} :
       /\ path' = next
       /\ \/ /\ next = path
             /\ saving' = saving \ {"delete"}
             /\ UNCHANGED <<page, loads, asked, floor, refreshing, count>>
          \/ /\ next # path /\ next \in Pools
             /\ count' = [count EXCEPT !.mount = IF path = "away" THEN @ + 1 ELSE @]
             /\ refreshing' = {}
             /\ saving' = IF path = "away" THEN {} ELSE saving \ DialogFlags
             /\ StartLoad(next, IF path = "away" THEN FreshPage
                                ELSE [page EXCEPT !.hasLoaded = FALSE])
          \/ /\ next # path /\ next = "away"
             /\ page' = FreshPage
             /\ loads' = {}
             /\ saving' = {}
             /\ refreshing' = {}
             /\ UNCHANGED <<asked, floor, count>>
  /\ unannounced' = (unannounced /\ path' \notin Pools \ {path})
  /\ strayed' = (strayed /\ path' = path)
  /\ UNCHANGED <<version, row, stamp, gone>>

Arrive == \E l \in loads : ServeLoad(l) \/ LoadArrives(l) \/ LoadFails(l)

Gesture ==
  \/ reorderMembers \/ toggleMember \/ handleCrossZoneMove \/ toggleRoutingPolicy
  \/ refreshAccount \/ deleteAccount \/ SheetSave
  \/ \E l \in {0, 1} : saveLabel(l)
  \/ setPoolEnabled \/ deletePool

Handler ==
  \E o \in ops : \/ Apply(o) \/ SecondRequest(o)
                 \/ \E ok \in BOOLEAN : Finish(o, ok)
                 \/ DeletedAnswer(o) \/ NavigateAway(o)

PageNext ==
  \/ Arrive
  \/ \E p \in Pools \cup {"bad"} : Open(p)
  \/ Leave
  \/ Retry
  \/ Gesture
  \/ Handler

PageSpec == PageInit /\ [][PageNext]_pageVars

-----------------------------------------------------------------------------
(* Properties *)

Handlers == {"reorder", "toggle", "cross", "policy", "refresh", "account", "sheet",
             "label", "status", "delete"}
PageStates == [loading : BOOLEAN, error : BOOLEAN, hasLoaded : BOOLEAN, seq : Nat,
               detail : {NoDetail} \cup [pool : Pools, ver : Nat, row : Rows]]
LoadStates == [seq : Nat, pool : Pools, st : {"sent", "answered"}, ver : Nat, row : Rows]
OpStates == [op : Handlers, n : Nat, pool : Pools, put : Rows, base : Nat, from : Pools,
             st : {"sent", "applied", "listing"}, first : BOOLEAN, done : BOOLEAN,
             mount : Nat, load : Pools]

\* Every variable of the page keeps its type; the flags are those of the handlers
\* that set one.
PageTyped ==
  /\ path \in Pools \cup {"bad", "away"}
  /\ version \in Nat
  /\ row \in [Pools -> Rows]
  /\ stamp \in [Pools -> Nat]
  /\ gone \subseteq Pools
  /\ page \in PageStates
  /\ loads \subseteq LoadStates
  /\ ops \subseteq OpStates
  /\ saving \subseteq DialogFlags \cup {"policy"}
  /\ refreshing \subseteq Pools
  /\ count \in [ops : Nat, moves : Nat, mount : Nat]
  /\ asked \in Pools /\ floor \in Nat
  /\ unannounced \in BOOLEAN /\ strayed \in BOOLEAN

\* The page implements the latest-wins loader: an answer is taken over only if
\* it belongs to the newest load, whatever order the answers arrive in.
View == INSTANCE FreshView WITH
          Keys <- Pools, NoView <- NoDetail, src <- version, want <- asked,
          pending <- \E l \in loads : l.seq = page.seq,
          shown <- IF page.detail = NoDetail THEN NoDetail
                   ELSE [key |-> page.detail.pool, ver |-> page.detail.ver]
PageIsFreshView == View!FreshSpec

\* The pool on the screen is the pool of the path, unless a handler started on
\* another pool has called the load of its own render since the path changed.
OpenPoolIsShown == Screen = "pool" /\ path \in Pools /\ ~strayed => page.detail.pool = path

\* When nothing is in flight the page shows the server's present state: every
\* handler that changed something has made the page load again, unless the
\* answer to its request was lost (or its page is gone) and it only reports it.
QuietPageIsCurrent ==
  path \in Pools /\ Screen = "pool" /\ loads = {} /\ ops = {} /\ ~unannounced
    => page.detail.ver = version

\* The skeleton is shown only while an answer that will replace it is awaited.
SkeletonAwaitsAnswer ==
  path # "away" /\ Screen = "loading" => \E l \in loads : l.seq = page.seq

\* No control stays disabled: each busy flag has a handler in flight, of this
\* mount of the page, that will clear it.
NoControlStuck ==
  /\ \A p \in refreshing : \E o \in ops : o.op = "refresh" /\ o.pool = p /\ o.mount = count.mount
  /\ \A f \in saving : \E o \in ops : o.op = f /\ o.mount = count.mount

\* A save of the whole row undoes another field of it only when the row changed
\* after the page had loaded it (or the page showed another pool than it saved).
LostUpdateNeedsOverlap ==
  [][\A o \in ops : \A f \in {"label", "policy", "enabled"} :
       (/\ o.st = "sent" /\ o \notin ops' /\ stamp[o.pool] <= o.base /\ o.from = o.pool
        /\ row'[o.pool][f] # row[o.pool][f])
         => f = [policy |-> "policy", label |-> "label", status |-> "enabled"][o.op]]_pageVars

Pending == \E l \in loads : l.seq = page.seq

\* A page that is not mounted holds nothing.
AwayIsEmpty ==
  path = "away" => page = FreshPage /\ loads = {} /\ saving = {} /\ refreshing = {}

\* Sequence numbers tell the loads apart, and none is beyond the page's.
LoadsNumbered ==
  /\ \A l \in loads : l.seq <= page.seq
  /\ \A l, k \in loads : l.seq = k.seq => l = k

\* The newest load is the one the page asked for; what answers it, or was taken
\* over from such an answer, is no older than the request and no newer than now.
NewestIsFresh ==
  /\ floor <= version
  /\ \A l \in loads : l.seq = page.seq =>
       /\ l.pool = asked
       /\ l.st = "answered" => floor <= l.ver
  /\ \A l \in loads : l.st = "answered" => l.ver <= version
  /\ page.detail # NoDetail => page.detail.ver <= version

\* Only a deletion asks for the list of pools afterwards.
OnlyDeleteLists == \A o \in ops : o.st = "listing" => o.op = "delete"

\* What is loaded, or being loaded, is the pool of the path.
LoadsPath ==
  path \in Pools /\ ~strayed =>
    /\ asked = path
    /\ page.hasLoaded => page.detail # NoDetail /\ page.detail.pool = path
    /\ ~page.hasLoaded => page.loading \/ page.error

\* A change of the server is asked for again, or the handler that made it still is
\* to come back, or it came back without asking.
ChangesAnnounced ==
  path \in Pools /\ ~unannounced /\ floor # version =>
    \E o \in ops : o.done /\ o.st # "listing"

\* A page that shows a pool and awaits nothing shows the answer to its newest load.
ShowsNewest ==
  path \in Pools /\ ~page.error /\ ~page.loading /\ ~Pending =>
    page.detail # NoDetail /\ floor <= page.detail.ver

\* The inductive invariant: what numbers the loads, what the newest of them and the
\* page cover, which changes are still to be told, that the skeleton has an answer
\* coming and a disabled control a handler that will enable it.
PageInv ==
  /\ PageTyped
  /\ AwayIsEmpty
  /\ LoadsNumbered
  /\ NewestIsFresh
  /\ OnlyDeleteLists
  /\ LoadsPath
  /\ ChangesAnnounced
  /\ ShowsNewest
  /\ SkeletonAwaitsAnswer
  /\ NoControlStuck

=============================================================================
