--------------------------- MODULE OverviewAlerts ---------------------------
(***************************************************************************)
(* The overview (OverviewPage.tsx) and its alerts (alertUtils.ts,            *)
(* AlertConstellation.tsx): the load in two stages, the list and then the    *)
(* detail of each pool, that a new dataVersion cancels; and the alerts the   *)
(* user has marked as read, which are kept in the browser's storage and      *)
(* pruned against every list of alerts that is rendered.                     *)
(***************************************************************************)
EXTENDS Naturals, FiniteSets

CONSTANTS Expiring,    \* alerts of accounts that expire (can be marked as read)
          Critical,    \* the other alerts
          NoOverview,  \* nothing loaded, or the page is not open
          MaxChanges,  \* bound: changes on the server and refreshes
          MaxVisits2   \* bound: visits and retries

\* "Nothing loaded" is not a set of alerts.
ASSUME NoOverviewAssumption ==
  \A S \in SUBSET (Expiring \cup Critical) : S # NoOverview

VARIABLES srvAlerts,   \* the alerts the server would report
          srvVer,      \* changes on the server
          readMarks,   \* localStorage: fingerprints marked as read
          over,        \* the page's state, or NoOverview
          olds,        \* loads in flight
          visits,      \* visits and retries; their number names a load
          read,        \* marked as read in this visit, in every list since
          overlapped   \* a retry's load was joined by another one

overVars == <<srvAlerts, srvVer, readMarks, over, olds, visits, read, overlapped>>

\* filterVisible: only an alert about an expiry can be silenced.
Visible(o) ==
  IF o.alerts = NoOverview THEN {} ELSE {a \in o.alerts : a \in Expiring => a \notin o.dismissed}

\* The effect that prunes what was marked as read: before the first answer the
\* list it compares with is empty.
Pruned(dismissed, alerts) ==
  dismissed \cap (IF alerts = NoOverview THEN {} ELSE alerts \cap Expiring)

Load2(n, own) == [n |-> n, stage |-> "list", own |-> own, ver |-> 0]

OverInit ==
  /\ srvAlerts = {}
  /\ srvVer = 0
  /\ readMarks \in SUBSET Expiring
  /\ over = NoOverview
  /\ olds = {}
  /\ visits = 0
  /\ read = {}
  /\ overlapped = FALSE

AlertsChange(S) ==
  /\ srvVer < MaxChanges
  /\ S # srvAlerts
  /\ srvAlerts' = S
  /\ srvVer' = srvVer + 1
  /\ UNCHANGED <<readMarks, over, olds, visits, read, overlapped>>

\* Mount: the readMarks set is read, the first effects prune it and load.
OpenOverview ==
  /\ over = NoOverview
  /\ visits < MaxVisits2
  /\ visits' = visits + 1
  /\ over' = [loading |-> TRUE, error |-> FALSE, alerts |-> NoOverview, ver |-> 0,
              details |-> FALSE, dismissed |-> Pruned(readMarks, NoOverview), newest |-> visits + 1]
  /\ readMarks' = Pruned(readMarks, NoOverview)
  /\ olds' = {Load2(visits + 1, TRUE)}
  /\ read' = {}
  /\ overlapped' = FALSE
  /\ UNCHANGED <<srvAlerts, srvVer>>

LeaveOverview ==
  /\ over # NoOverview
  /\ over' = NoOverview
  /\ olds' = {}
  /\ UNCHANGED <<srvAlerts, srvVer, readMarks, visits, read, overlapped>>

\* load() once more: for a new dataVersion the cleanup of the effect cancels its
\* own load before (which then changes nothing); a retry's load is nobody's.
StartOver(own) ==
  /\ over # NoOverview
  /\ visits < MaxVisits2
  /\ visits' = visits + 1
  /\ over' = [over EXCEPT !.loading = TRUE, !.error = FALSE, !.newest = visits + 1]
  /\ olds' = {l \in olds : own => ~l.own} \cup {Load2(visits + 1, own)}
  /\ overlapped' = (overlapped \/ {l \in olds : own => ~l.own} # {})
  /\ UNCHANGED <<srvAlerts, srvVer, readMarks, read>>

refreshOverview == StartOver(TRUE)

RetryOverview ==
  /\ over # NoOverview
  /\ over.error /\ ~over.loading
  /\ StartOver(FALSE)

\* The overview and the list of pools are there: they are rendered (behind the
\* skeleton), and the read marks pruned, before the details are asked for.
ListArrives(l) ==
  /\ l \in olds
  /\ l.stage = "list"
  /\ olds' = (olds \ {l}) \cup {[l EXCEPT !.stage = "details", !.ver = srvVer]}
  /\ LET left == Pruned(over.dismissed, srvAlerts)
     IN /\ over' = [over EXCEPT !.alerts = srvAlerts, !.ver = srvVer, !.dismissed = left]
        /\ readMarks' = IF left = over.dismissed THEN readMarks ELSE left
  /\ read' = read \cap srvAlerts
  /\ UNCHANGED <<srvAlerts, srvVer, visits, overlapped>>

\* Details that fail are left out; the stage itself does not.
DetailsArrive(l) ==
  /\ l \in olds
  /\ l.stage = "details"
  /\ olds' = olds \ {l}
  /\ over' = [over EXCEPT !.details = TRUE, !.loading = FALSE]
  /\ UNCHANGED <<srvAlerts, srvVer, readMarks, visits, read, overlapped>>

ListFails(l) ==
  /\ l \in olds
  /\ l.stage = "list"
  /\ olds' = olds \ {l}
  /\ over' = [over EXCEPT !.error = TRUE, !.loading = FALSE]
  /\ UNCHANGED <<srvAlerts, srvVer, readMarks, visits, read, overlapped>>

\* Faulty variant: a later mark overwrites the earlier ones in the storage.
handleDismiss_OnlyLast(a) ==
  /\ over # NoOverview
  /\ ~over.loading /\ ~over.error
  /\ a \in Visible(over) \cap Expiring
  /\ over' = [over EXCEPT !.dismissed = @ \cup {a}]
  /\ readMarks' = {a}
  /\ read' = read \cup {a}
  /\ UNCHANGED <<srvAlerts, srvVer, olds, visits, overlapped>>

\* The cross next to an alert (onDismiss).
handleDismiss(a) ==
  /\ over # NoOverview
  /\ ~over.loading /\ ~over.error
  /\ a \in Visible(over) \cap Expiring
  /\ over' = [over EXCEPT !.dismissed = @ \cup {a}]
  /\ readMarks' = over.dismissed \cup {a}
  /\ read' = read \cup {a}
  /\ UNCHANGED <<srvAlerts, srvVer, olds, visits, overlapped>>

OverNext ==
  \/ \E S \in SUBSET (Expiring \cup Critical) : AlertsChange(S)
  \/ OpenOverview \/ LeaveOverview \/ refreshOverview \/ RetryOverview
  \/ \E l \in olds : ListArrives(l) \/ DetailsArrive(l) \/ ListFails(l)
  \/ \E a \in Expiring : handleDismiss(a)

OverSpec == OverInit /\ [][OverNext]_overVars

-----------------------------------------------------------------------------
(* Properties *)

\* The skeleton awaits an answer, and what replaces it is the answer of the newest
\* load; only loads that nobody can cancel, those of a retry, can mix.
OverviewSettles ==
  over # NoOverview /\ ~overlapped =>
    /\ over.loading <=> \E l \in olds : l.n = over.newest
    /\ \A l \in olds : l.n = over.newest

\* What was marked as read stays hidden as long as the page is open and every
\* list has the alert; the marks in storage are those of the page.
ReadStaysHidden ==
  over # NoOverview /\ over.alerts # NoOverview =>
    /\ read \cap Visible(over) = {}
    /\ readMarks = over.dismissed

\* Through loads that are given up and marks kept in the browser, the overview
\* shows the newest answer and keeps hidden what was read.
AlertsAreTrue ==
  /\ OverviewSettles
  /\ ReadStaysHidden

=============================================================================
