---------------------------- MODULE DeviceLogin ----------------------------
(***************************************************************************)
(* The Device Code login of the "add account" drawer (AddAccountDrawer.tsx): *)
(* starting or resuming a login session, the polling effect that follows it, *)
(* cancelling it, and the copy of the session kept in localStorage so that a *)
(* login can be resumed after the drawer or the browser was closed.          *)
(* A state update and the effects it runs are one step.  The polling effect  *)
(* depends on the session object: every setLoginSession ends the running     *)
(* effect (disposed) and begins a new one, which polls if the session is     *)
(* active.  The drawer stays mounted while it is closed.                     *)
(***************************************************************************)
EXTENDS LoginSessions

CONSTANTS NoSession,  \* no login session
          Budgets     \* bounds: sessions, openings, failures and restarts together

ASSUME NoSessionAssumption ==
  NoSession \notin Ids \cup [id : Ids, status : {"none"} \cup ActiveStatus \cup Ended]
ASSUME BudgetsAssumption ==
  Budgets \subseteq [sessions : Nat, opens : Nat, fails : Nat, restarts : Nat]

VARIABLES drawer,     \* open or not, and the step shown (1, 3 or 4)
          session,    \* loginSession: NoSession or its id and status
          stored,     \* the id kept in localStorage, or NoSession
          poll,       \* what pollRef holds: "off", the poll's timer, a retry's
          polls,      \* polling requests in flight
          refreshes,  \* discover-models requests after a successful login
          flow,       \* the drawer's own requests that are awaited
          loading,    \* the flag that disables the drawer's buttons
          done,       \* sessions after whose success refreshData was called
          left,       \* sessions, openings, failures and restarts that are left
          silenced    \* a poll of an ended effect has stopped the running one

drawerVars == <<drawer, session, stored, poll, polls, refreshes, flow, loading, done,
                left, silenced>>
loginVars == <<sessVars, drawerVars>>

Active(s) == s # NoSession /\ s.status \notin Ended

LoginInit ==
  /\ drawer = [open |-> FALSE, step |-> 1]
  /\ session = NoSession
  /\ stored = NoSession
  /\ SessInit
  /\ poll = "off"
  /\ polls = {}
  /\ refreshes = {}
  /\ flow = {}
  /\ loading = FALSE
  /\ done = {}
  /\ left \in Budgets
  /\ silenced = FALSE

\* setLoginSession(s), and what it does to the polling effect.
SetSession(s) ==
  /\ session' = s
  /\ poll' = IF Active(s) THEN "timer" ELSE "off"
  /\ polls' = {[p EXCEPT !.disposed = TRUE] : p \in polls}
  /\ silenced' = FALSE

CanFail == left.fails > 0
Failed == left' = [left EXCEPT !.fails = @ - 1]

-----------------------------------------------------------------------------
(* The server *)

Progress(i) ==
  /\ PollerStep(i) \/ Expire(i)
  /\ UNCHANGED drawerVars

\* The process restarts; here no request of the drawer is being served.
ServerRestarts ==
  /\ left.restarts > 0
  /\ flow = {} /\ \A p \in polls : p.status # "unread"
  /\ Restart
  /\ left' = [left EXCEPT !.restarts = @ - 1]
  /\ UNCHANGED <<drawer, session, stored, poll, polls, refreshes, flow, loading, done, silenced>>

-----------------------------------------------------------------------------
(* Opening and closing *)

OpenDrawer ==
  /\ ~drawer.open
  /\ left.opens > 0
  /\ left' = [left EXCEPT !.opens = @ - 1]
  /\ drawer' = [drawer EXCEPT !.open = TRUE]
  /\ loading' = TRUE
  /\ flow' = flow \cup {[op |-> "open", n |-> left.opens, id |-> NoSession]}
  /\ UNCHANGED <<session, stored, sessVars, poll, polls, refreshes, done, silenced>>

\* The effect on closing resets the drawer; a poll in flight is not stopped.
CloseDrawer ==
  /\ drawer.open
  /\ drawer' = [open |-> FALSE, step |-> 1]
  /\ SetSession(NoSession)
  /\ UNCHANGED <<stored, sessVars, refreshes, flow, loading, done, left>>

\* Pools and service are loaded.  With the service there, the stored session
\* or else the server's active one is restored.
OpenLoaded(f) ==
  /\ f \in flow
  /\ f.op = "open"
  /\ LET found == IF stored # NoSession THEN {stored} ELSE ActiveAtServer
     IN \/ /\ found = {}
           /\ flow' = flow \ {f}
           /\ loading' = FALSE
        \/ /\ \E i \in found : flow' = (flow \ {f}) \cup {[f EXCEPT !.op = "restore", !.id = i]}
           /\ UNCHANGED loading
  /\ UNCHANGED <<drawer, session, stored, sessVars, poll, polls, refreshes, done, left, silenced>>

\* The service is not available: nothing is restored.
OpenFails(f) ==
  /\ f \in flow
  /\ f.op = "open"
  /\ CanFail /\ Failed
  /\ flow' = flow \ {f}
  /\ loading' = FALSE
  /\ UNCHANGED <<drawer, session, stored, sessVars, poll, polls, refreshes, done, silenced>>

\* restoreBySession: the session is shown; an active one is stored again, one
\* that succeeded in the meantime waits for its account to be refreshed.
RestoreArrives(f) ==
  /\ f \in flow
  /\ f.op = "restore"
  /\ SetSession([id |-> f.id, status |-> server[f.id]])
  /\ drawer' = [drawer EXCEPT !.step = 3]
  /\ IF server[f.id] = "succeeded"
     THEN /\ flow' = (flow \ {f}) \cup {[f EXCEPT !.op = "restored"]}
          /\ UNCHANGED <<stored, loading>>
     ELSE /\ flow' = flow \ {f}
          /\ stored' = IF server[f.id] \in Ended THEN NoSession ELSE f.id
          /\ loading' = FALSE
  /\ UNCHANGED <<sessVars, refreshes, done, left>>

\* Its account is refreshed (or that failed): the last step is shown.
RestoredRefreshed(f) ==
  /\ f \in flow
  /\ f.op = "restored"
  /\ flow' = flow \ {f}
  /\ done' = done \cup {f.id}
  /\ drawer' = [drawer EXCEPT !.step = 4]
  /\ stored' = NoSession
  /\ loading' = FALSE
  /\ UNCHANGED <<session, sessVars, poll, polls, refreshes, left, silenced>>

RestoreFails(f) ==
  /\ f \in flow
  /\ f.op = "restore"
  /\ CanFail /\ Failed
  /\ flow' = flow \ {f}
  /\ stored' = IF stored = f.id THEN NoSession ELSE stored
  /\ loading' = FALSE
  /\ UNCHANGED <<drawer, session, sessVars, poll, polls, refreshes, done, silenced>>

\* The steps 1 and 2 are gone through, or back to.
GoToLogin ==
  /\ drawer.open /\ drawer.step = 1
  /\ drawer' = [drawer EXCEPT !.step = 3]
  /\ UNCHANGED <<session, stored, sessVars, poll, polls, refreshes, flow, loading, done, left, silenced>>

GoBack ==
  /\ drawer.open /\ drawer.step = 3
  /\ ~Active(session)
  /\ drawer' = [drawer EXCEPT !.step = 1]
  /\ UNCHANGED <<session, stored, sessVars, poll, polls, refreshes, flow, loading, done, left, silenced>>

-----------------------------------------------------------------------------
(* Start and cancel *)

\* "start" or "start again"; not offered after a success.
Startable == IF session = NoSession THEN TRUE ELSE session.status \in {"failed", "cancelled"}

startCpaLogin ==
  /\ drawer.open /\ drawer.step = 3
  /\ Startable
  /\ ~loading
  /\ left.sessions > 0 \/ ActiveAtServer # {}
  /\ loading' = TRUE
  /\ flow' = flow \cup {[op |-> "lookup", n |-> left.opens, id |-> NoSession]}
  /\ UNCHANGED <<drawer, session, stored, sessVars, poll, polls, refreshes, done, left, silenced>>

\* The server's active session is taken over, or a new one is created.
StartArrives(f) ==
  /\ f \in flow
  /\ f.op = "lookup"
  /\ \E i \in Ids :
       /\ \/ i \in ActiveAtServer /\ UNCHANGED <<sessVars, left>>
          \/ /\ ActiveAtServer = {}
             /\ left.sessions > 0
             /\ left' = [left EXCEPT !.sessions = @ - 1]
             /\ NewSession(i)
             /\ UNCHANGED creating
       /\ SetSession([id |-> i, status |-> server'[i]])
       /\ stored' = i
  /\ drawer' = [drawer EXCEPT !.step = 3]
  /\ flow' = flow \ {f}
  /\ loading' = FALSE
  /\ UNCHANGED <<refreshes, done>>

StartFails(f) ==
  /\ f \in flow
  /\ f.op = "lookup"
  /\ CanFail /\ Failed
  /\ flow' = flow \ {f}
  /\ loading' = FALSE
  /\ UNCHANGED <<drawer, session, stored, sessVars, poll, polls, refreshes, done, silenced>>

cancelCpaLogin ==
  /\ drawer.open /\ drawer.step = 3
  /\ session # NoSession /\ session.status = "pending"
  /\ ~loading
  /\ loading' = TRUE
  /\ flow' = flow \cup {[op |-> "cancel", n |-> left.opens, id |-> session.id]}
  /\ UNCHANGED <<drawer, session, stored, sessVars, poll, polls, refreshes, done, left, silenced>>

\* The server refuses to cancel a session that has ended.
CancelServed(f) ==
  /\ f \in flow
  /\ f.op = "cancel"
  /\ IF server[f.id] \in Ended
     THEN flow' = flow \ {f} /\ loading' = FALSE /\ UNCHANGED sessVars
     ELSE /\ CancelSession(f.id)
          /\ flow' = (flow \ {f}) \cup {[f EXCEPT !.op = "cancelled"]}
          /\ UNCHANGED loading
  /\ UNCHANGED <<drawer, session, stored, poll, polls, refreshes, done, left, silenced>>

CancelArrives(f) ==
  /\ f \in flow
  /\ f.op = "cancelled"
  /\ SetSession([id |-> f.id, status |-> "cancelled"])
  /\ stored' = NoSession
  /\ flow' = flow \ {f}
  /\ loading' = FALSE
  /\ UNCHANGED <<drawer, sessVars, refreshes, done, left>>

-----------------------------------------------------------------------------
(* The polling effect *)

PollTimer ==
  /\ poll = "timer"
  /\ poll' = "off"
  /\ polls' = polls \cup {[id |-> session.id, status |-> "unread", disposed |-> FALSE]}
  /\ UNCHANGED <<drawer, session, stored, sessVars, refreshes, flow, loading, done, left, silenced>>

\* Faulty variant: the status comes from a cache, not from the server.
PollServed_Cached(p) ==
  /\ p \in polls
  /\ p.status = "unread"
  /\ polls' = (polls \ {p}) \cup {[p EXCEPT !.status = "pending"]}
  /\ UNCHANGED <<drawer, session, stored, sessVars, poll, refreshes, flow, loading, done, left, silenced>>

PollServed(p) ==
  /\ p \in polls
  /\ p.status = "unread"
  /\ polls' = (polls \ {p}) \cup {[p EXCEPT !.status = server[p.id]]}
  /\ UNCHANGED <<drawer, session, stored, sessVars, poll, refreshes, flow, loading, done, left, silenced>>

\* Faulty variant: an ended session stays in localStorage.
PollArrives_KeepsStored(p) ==
  /\ p \in polls
  /\ p.status # "unread"
  /\ session' = [id |-> p.id, status |-> p.status]
  /\ poll' = IF p.status \in Ended THEN "off" ELSE "timer"
  /\ polls' = {[q EXCEPT !.disposed = TRUE] : q \in polls \ {p}}
  /\ stored' = p.id
  /\ silenced' = FALSE
  /\ UNCHANGED <<drawer, sessVars, refreshes, flow, loading, done, left>>

\* The answer sets the session whether or not the effect was disposed.  A
\* success has the account refreshed; by then this effect has been disposed by
\* the session it has just set.
PollArrives(p) ==
  /\ p \in polls
  /\ p.status # "unread"
  /\ session' = [id |-> p.id, status |-> p.status]
  /\ poll' = IF p.status \in Ended THEN "off" ELSE "timer"
  /\ polls' = {[q EXCEPT !.disposed = TRUE] : q \in polls \ {p}}
  /\ stored' = IF p.status \in Ended THEN NoSession ELSE p.id
  /\ refreshes' = IF p.status = "succeeded"
                  THEN refreshes \cup {[id |-> p.id, disposed |-> TRUE]} ELSE refreshes
  /\ silenced' = FALSE
  /\ UNCHANGED <<drawer, sessVars, flow, loading, done, left>>

\* A poll that fails is tried again by setting the session to a copy of itself.
\* When its effect has ended it clears pollRef, which the running effect shares.
PollFails(p) ==
  /\ p \in polls
  /\ CanFail /\ Failed
  /\ polls' = polls \ {p}
  /\ poll' = IF p.disposed THEN "off" ELSE "retry"
  /\ silenced' = (silenced \/ (p.disposed /\ poll # "off"))
  /\ UNCHANGED <<drawer, session, stored, sessVars, refreshes, flow, loading, done>>

RetryTimer ==
  /\ poll = "retry"
  /\ SetSession(session)
  /\ UNCHANGED <<drawer, stored, sessVars, refreshes, flow, loading, done, left>>

\* The account of a login that was seen to succeed has been refreshed:
\* refreshData, and the last step unless the effect was disposed.
LoginRefreshed(r) ==
  /\ r \in refreshes
  /\ refreshes' = refreshes \ {r}
  /\ done' = done \cup {r.id}
  /\ drawer' = IF r.disposed THEN drawer ELSE [drawer EXCEPT !.step = 4]
  /\ UNCHANGED <<session, stored, sessVars, poll, polls, flow, loading, left, silenced>>

\* "Add another" on the last step.
resetForNextAccount ==
  /\ drawer.open /\ drawer.step = 4
  /\ drawer' = [drawer EXCEPT !.step = 1]
  /\ SetSession(NoSession)
  /\ stored' = NoSession
  /\ UNCHANGED <<sessVars, refreshes, flow, loading, done, left>>

FlowStep(f) ==
  \/ OpenLoaded(f) \/ OpenFails(f) \/ RestoreArrives(f) \/ RestoredRefreshed(f) \/ RestoreFails(f)
  \/ StartArrives(f) \/ StartFails(f) \/ CancelServed(f) \/ CancelArrives(f)

PollStep == \E p \in polls : PollServed(p) \/ PollArrives(p) \/ PollFails(p)

LoginNext ==
  \/ \E i \in Ids : Progress(i)
  \/ ServerRestarts
  \/ OpenDrawer \/ CloseDrawer \/ GoToLogin \/ GoBack
  \/ \E f \in flow : FlowStep(f)
  \/ startCpaLogin \/ cancelCpaLogin
  \/ PollTimer \/ PollStep \/ RetryTimer
  \/ \E r \in refreshes : LoginRefreshed(r)
  \/ resetForNextAccount

\* Timers fire, every request is answered or fails, and the deadline of a session
\* passes; the user need do nothing, at the provider either.
LoginFairness ==
  /\ WF_loginVars((\E i \in Ids : Expire(i)) /\ UNCHANGED drawerVars)
  /\ WF_loginVars(PollTimer \/ RetryTimer)
  /\ WF_loginVars(PollStep)
  /\ WF_loginVars(\E f \in flow : FlowStep(f))
  /\ WF_loginVars(\E r \in refreshes : LoginRefreshed(r))

LoginSpec == LoginInit /\ [][LoginNext]_loginVars /\ LoginFairness

-----------------------------------------------------------------------------
(* Properties *)

Quiet == polls = {} /\ flow = {} /\ refreshes = {}

\* When nothing is in flight, a login that is shown as ended is not kept for a
\* later visit: late answers that brought it back have been followed up.
EndedIsForgotten ==
  Quiet /\ session # NoSession /\ ~Active(session) => stored # session.id

\* An active login that is shown is being polled: the answers of ended effects,
\* a refused cancel and a drawer closed in between do not stop it.  Only the
\* failure of a poll whose effect has ended does: it clears the shared timer.
ActiveIsPolled ==
  Active(session) => poll # "off" \/ (\E p \in polls : p.id = session.id) \/ silenced

\* The end of a login is noticed: the drawer does not show it as active for
\* ever, unless its polling was stopped that way.
SessionEndIsNoticed ==
  \A i \in Ids : (Active(session) /\ session.id = i /\ server[i] \in Ended)
                   ~> (~(Active(session) /\ session.id = i) \/ silenced)

\* Once a login is shown as succeeded, the pages are told to load again.
SuccessIsPublished ==
  \A i \in Ids : session = [id |-> i, status |-> "succeeded"] ~> i \in done

\* "Once authorized, no manual refresh is needed: this page continues by
\* itself" (AddAccountDrawer.tsx:1313): a success does not stay in the login step
\* until the user goes back or closes the drawer.
LoginContinues ==
  (drawer.open /\ drawer.step = 3 /\ session # NoSession /\ session.status = "succeeded")
    ~> (drawer.step # 3 \/ ~drawer.open)

\* The drawer follows a login as long as it is active and forgets it afterwards,
\* whichever of the disposed effects' answers come late.
LoginIsFollowed ==
  /\ EndedIsForgotten
  /\ ActiveIsPolled

\* The end of a login at the server reaches the drawer and its success the pages.
LoginEnds ==
  /\ SessionEndIsNoticed
  /\ SuccessIsPublished

=============================================================================
