---------------------------- MODULE ActivityLogs ----------------------------
(***************************************************************************)
(* The request log of the activity page (ActivityPage.tsx): the load, made  *)
(* of several requests for pages of the log that the server goes on writing, *)
(* its refresh every 30 seconds and the number that tells late loads apart;  *)
(* the filters and pages of the table; and the jump to one request, from the *)
(* list of errors or from the hash of the address (#logs-<request id>), with *)
(* the highlight that a timer takes away.                                    *)
(* A request is a number, the order of its arrival.  Of the four filters the *)
(* model keeps two, the status and the request id: pool and model filter are *)
(* set, reset and applied like the status.                                   *)
(***************************************************************************)
EXTENDS Naturals, Sequences, FiniteSets, SequencesExt

CONSTANTS NoLog,       \* no request, no bundle
          PageLen,     \* PAGE_SIZE: requests in an answer of the server
          PageCap,     \* MAX_PAGES: answers a load collects at most
          RowsPerPage, \* LOGS_PER_PAGE
          MaxLogs,     \* bound: requests the gateway serves
          MaxRefresh,  \* bound: loads started in a visit
          MaxClicks    \* bound: visits, filters, jumps, copies, pages turned

ASSUME PageCapAssumption == PageCap \in Nat \ {0}

VARIABLES ledger,      \* the server's log, oldest first: [id, ok]
          served,      \* requests the gateway has served
          fetches,     \* loads in flight
          tab,         \* the page's state, or NoLog while another page is open
          hash,        \* request named by the hash of the address
          clicks,      \* bound: gestures of the user
          touched      \* a filter was changed since the last jump

logsVars == <<ledger, served, fetches, tab, hash, clicks, touched>>

Ids == 1..MaxLogs

\* Page k of GET /usage: the newest requests come first.
UsagePage(k) ==
  LET newest == Reverse(ledger)
      n == Len(newest)
      lo == (k - 1) * PageLen + 1
      hi == IF k * PageLen < n THEN k * PageLen ELSE n
  IN SubSeq(newest, lo, hi)

CeilDiv(a, b) == (a + b - 1) \div b

FreshTab ==
  [req |-> 1, loading |-> TRUE, error |-> FALSE, usage |-> NoLog,
   status |-> "all", search |-> NoLog, cur |-> 1,
   high |-> NoLog, timer |-> NoLog, handled |-> NoLog]

Fetch(n) == [req |-> n, total |-> NoLog, upto |-> 0, got |-> <<>>, added |-> FALSE]

LogsInit ==
  /\ ledger = <<>>
  /\ served = 0
  /\ fetches = {}
  /\ tab = NoLog
  /\ hash = NoLog
  /\ clicks = 0
  /\ touched = FALSE

-----------------------------------------------------------------------------
(* The server *)

LogRequest(ok) ==
  /\ served < MaxLogs
  /\ served' = served + 1
  /\ ledger' = Append(ledger, [id |-> served + 1, ok |-> ok])
  /\ fetches' = {[f EXCEPT !.added = @ \/ f.total # NoLog] : f \in fetches}
  /\ UNCHANGED <<tab, hash, clicks, touched>>

\* The oldest request leaves the 30 days, or is pruned.
LogExpires ==
  /\ ledger # <<>>
  /\ ledger' = Tail(ledger)
  /\ UNCHANGED <<served, fetches, tab, hash, clicks, touched>>

-----------------------------------------------------------------------------
(* What the table shows *)

Bundle(t) == IF t.usage = NoLog THEN <<>> ELSE t.usage.logs

Matching(t) ==
  SelectSeq(Bundle(t), LAMBDA g :
    /\ t.status = "success" => g.ok
    /\ t.status = "error" => ~g.ok
    /\ t.search # NoLog => g.id = t.search)

PageCount(t) ==
  LET n == CeilDiv(Len(Matching(t)), RowsPerPage) IN IF n = 0 THEN 1 ELSE n

ClampedPage(t) ==
  LET p == IF t.cur < 1 THEN 1 ELSE t.cur
  IN IF p < PageCount(t) THEN p ELSE PageCount(t)

PagedRows(t) ==
  LET rows == Matching(t)
      hi == ClampedPage(t) * RowsPerPage
  IN SubSeq(rows, (ClampedPage(t) - 1) * RowsPerPage + 1,
            IF hi < Len(rows) THEN hi ELSE Len(rows))

\* The skeleton, the error in place of the whole page, or the page.
TabScreen(t) == IF t.loading /\ t.usage = NoLog THEN "skeleton"
                ELSE IF t.error THEN "error" ELSE "table"

-----------------------------------------------------------------------------
(* The load *)

\* load() on page state t.
LoadAgain(t) ==
  /\ t.req < MaxRefresh
  /\ tab' = [t EXCEPT !.req = @ + 1, !.loading = TRUE, !.error = FALSE]
  /\ fetches' = fetches \cup {Fetch(t.req + 1)}

AutoRefresh ==
  /\ tab # NoLog
  /\ LoadAgain(tab)
  /\ UNCHANGED <<ledger, served, hash, clicks, touched>>

\* The button, or the retry of the error screen.
handleManualRefresh ==
  /\ tab # NoLog
  /\ TabScreen(tab) = "error" \/ (TabScreen(tab) = "table" /\ ~tab.loading)
  /\ clicks < MaxClicks
  /\ clicks' = clicks + 1
  /\ LoadAgain(tab)
  /\ UNCHANGED <<ledger, served, hash, touched>>

\* loadUsage30d: the first page says how many more to ask for; those are asked
\* for together, and answered in any order.
FirstPage(f) ==
  /\ f \in fetches
  /\ f.total = NoLog
  /\ LET pages == CeilDiv(Len(ledger), PageLen)
         n == IF pages < 1 THEN 1 ELSE IF pages < PageCap THEN pages ELSE PageCap
     IN fetches' = (fetches \ {f}) \cup
          {[f EXCEPT !.total = Len(ledger), !.upto = served,
                     !.got = [k \in 1..n |-> IF k = 1 THEN UsagePage(1) ELSE NoLog]]}
  /\ UNCHANGED <<ledger, served, tab, hash, clicks, touched>>

NextPage(f, k) ==
  /\ f \in fetches
  /\ k \in DOMAIN f.got
  /\ f.got[k] = NoLog
  /\ fetches' = (fetches \ {f}) \cup {[f EXCEPT !.got[k] = UsagePage(k)]}
  /\ UNCHANGED <<ledger, served, tab, hash, clicks, touched>>

Collected(f) == f.total # NoLog /\ \A k \in DOMAIN f.got : f.got[k] # NoLog

\* jumpToLog(r) on page state t: all filters give way to the request's id; an
\* unknown request is only reported.  The filters' effect goes to page 1.
Jumps(t, r) == \E i \in DOMAIN Bundle(t) : Bundle(t)[i].id = r

Jumped(t, r) ==
  IF Jumps(t, r)
  THEN [t EXCEPT !.status = "all", !.search = r, !.high = r,
                 !.timer = r, !.cur = IF t.status = "all" /\ t.search = r THEN @ ELSE 1]
  ELSE t

\* The effect on loading, usage and jumpToLog: it follows the hash once.
FollowsHash(t) == hash # NoLog /\ ~t.loading /\ t.usage # NoLog /\ t.handled # hash

AfterHash(t) ==
  IF FollowsHash(t) THEN Jumped([t EXCEPT !.handled = hash], hash) ELSE t

SettleTab(t) ==
  /\ tab' = AfterHash(t)
  /\ touched' = (touched /\ ~(FollowsHash(t) /\ Jumps(t, hash)))

\* Faulty variant: the number of the load is not compared.
BundleArrives_NoSeq(f) ==
  /\ f \in fetches
  /\ Collected(f)
  /\ fetches' = fetches \ {f}
  /\ tab # NoLog
  /\ SettleTab([tab EXCEPT !.loading = FALSE,
       !.usage = [req |-> f.req, logs |-> FlattenSeq(f.got), upto |-> f.upto,
                  added |-> f.added, truncated |-> CeilDiv(f.total, PageLen) > PageCap]])
  /\ UNCHANGED <<ledger, served, hash, clicks>>

\* then and finally of the newest load.
BundleArrives(f) ==
  /\ f \in fetches
  /\ Collected(f)
  /\ fetches' = fetches \ {f}
  /\ IF tab # NoLog /\ tab.req = f.req
     THEN SettleTab([tab EXCEPT !.loading = FALSE,
            !.usage = [req |-> f.req, logs |-> FlattenSeq(f.got), upto |-> f.upto,
                       added |-> f.added,
                       truncated |-> CeilDiv(f.total, PageLen) > PageCap]])
     ELSE UNCHANGED <<tab, touched>>
  /\ UNCHANGED <<ledger, served, hash, clicks>>

\* catch and finally: one of the requests failed.
BundleFails(f) ==
  /\ f \in fetches
  /\ fetches' = fetches \ {f}
  /\ IF tab # NoLog /\ tab.req = f.req
     THEN SettleTab([tab EXCEPT !.loading = FALSE, !.error = TRUE])
     ELSE UNCHANGED <<tab, touched>>
  /\ UNCHANGED <<ledger, served, hash, clicks>>

-----------------------------------------------------------------------------
(* The user *)

\* The page is opened, perhaps by a copied link.  Answers to a page that was
\* left change nothing: they are dropped when it is.
OpenActivity(h) ==
  /\ tab = NoLog
  /\ clicks < MaxClicks
  /\ clicks' = clicks + 1
  /\ tab' = FreshTab
  /\ fetches' = {Fetch(1)}
  /\ hash' = h
  /\ touched' = FALSE
  /\ UNCHANGED <<ledger, served>>

LeaveActivity ==
  /\ tab # NoLog
  /\ tab' = NoLog
  /\ fetches' = {}
  /\ hash' = NoLog
  /\ UNCHANGED <<ledger, served, clicks, touched>>

Click ==
  /\ tab # NoLog
  /\ TabScreen(tab) = "table"
  /\ clicks < MaxClicks
  /\ clicks' = clicks + 1
  /\ UNCHANGED <<ledger, served, fetches>>

SetStatus(s) ==
  /\ Click
  /\ s # tab.status
  /\ tab' = [tab EXCEPT !.status = s, !.cur = 1]
  /\ touched' = TRUE
  /\ UNCHANGED hash

\* The chip "one request" clears the search and the hash.
ClearChip ==
  /\ Click
  /\ tab.search # NoLog
  /\ tab' = [tab EXCEPT !.search = NoLog, !.cur = 1]
  /\ hash' = NoLog
  /\ touched' = TRUE

\* TopErrors: jump to the sample of an error.
JumpToSample(r) ==
  /\ Click
  /\ \E i \in DOMAIN Bundle(tab) : Bundle(tab)[i].id = r /\ ~Bundle(tab)[i].ok
  /\ tab' = Jumped(tab, r)
  /\ hash' = r
  /\ touched' = FALSE

\* A row's link is copied, and put into the address.
copyPermalink(r) ==
  /\ Click
  /\ \E i \in DOMAIN PagedRows(tab) : PagedRows(tab)[i].id = r
  /\ hash' = r
  /\ UNCHANGED <<tab, touched>>

TurnPage(d) ==
  /\ Click
  /\ PageCount(tab) > 1
  /\ \/ d = "prev" /\ ClampedPage(tab) > 1
        /\ tab' = [tab EXCEPT !.cur = ClampedPage(tab) - 1]
     \/ d = "next" /\ ClampedPage(tab) < PageCount(tab)
        /\ tab' = [tab EXCEPT !.cur = ClampedPage(tab) + 1]
  /\ UNCHANGED <<hash, touched>>

HighlightEnds ==
  /\ tab # NoLog
  /\ tab.timer # NoLog
  /\ tab' = [tab EXCEPT !.high = NoLog, !.timer = NoLog]
  /\ UNCHANGED <<ledger, served, fetches, hash, clicks, touched>>

LogsNext ==
  \/ \E ok \in BOOLEAN : LogRequest(ok)
  \/ LogExpires
  \/ AutoRefresh
  \/ handleManualRefresh
  \/ \E f \in fetches : \/ FirstPage(f) \/ (\E k \in 2..PageCap : NextPage(f, k))
                        \/ BundleArrives(f) \/ BundleFails(f)
  \/ \E h \in Ids \cup {NoLog} : OpenActivity(h)
  \/ LeaveActivity
  \/ \E s \in {"all", "success", "error"} : SetStatus(s)
  \/ ClearChip
  \/ \E r \in Ids : JumpToSample(r) \/ copyPermalink(r)
  \/ \E d \in {"prev", "next"} : TurnPage(d)
  \/ HighlightEnds

LogsSpec == LogsInit /\ [][LogsNext]_logsVars

-----------------------------------------------------------------------------
(* Properties *)

\* A page that has stopped loading shows the answer of its newest load, or the
\* error of that load; one that is loading has that load in flight.
SettledShowsNewest ==
  tab # NoLog =>
    IF tab.loading THEN \E f \in fetches : f.req = tab.req
    ELSE tab.error \/ (tab.usage # NoLog /\ tab.usage.req = tab.req)

\* The bundle put together from several answers, which the server gives in any
\* order, is the log: newest first, nothing twice, and nothing missing that is
\* still in the log (down to the cap, when there is more than the load asks for).
\* Only a request logged between two of the answers can spoil it.
BundleIsWhole ==
  tab # NoLog /\ tab.usage # NoLog /\ ~tab.usage.added =>
    LET b == Bundle(tab)
        first == IF tab.usage.truncated THEN tab.usage.upto - PageLen * PageCap + 1 ELSE 1
    IN /\ \A i \in 1..Len(b) - 1 : b[i + 1].id < b[i].id
       /\ \A i \in DOMAIN ledger : ledger[i].id \in first..tab.usage.upto
            => \E j \in DOMAIN b : b[j] = ledger[i]

\* However the list shrinks under the user, a page of it is shown as long as it
\* has any row.
RowsAreShown ==
  tab # NoLog /\ Matching(tab) # <<>> => PagedRows(tab) # <<>>

\* The request that is highlighted is on the screen, until the user changes a
\* filter or the request leaves the log.
HighlightIsVisible ==
  tab # NoLog /\ tab.high # NoLog /\ ~touched /\ Jumps(tab, tab.high)
    => \E i \in DOMAIN PagedRows(tab) : PagedRows(tab)[i].id = tab.high

\* Through loads that overtake each other, rows added and pruned while pages of the
\* log are downloaded, filters and jumps: what is shown is the newest load, it is
\* the log, and the page and the highlighted row are on the screen.
LogIsTrue ==
  /\ SettledShowsNewest
  /\ BundleIsWhole
  /\ RowsAreShown
  /\ HighlightIsVisible

=============================================================================
