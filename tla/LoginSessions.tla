--------------------------- MODULE LoginSessions ----------------------------
(***************************************************************************)
(* Login sessions at the server: the session store (cpa/session.go) and the  *)
(* goroutine that polls the provider for one (admin/handler.go,              *)
(* pollLoginSession).  The goroutine writes its result without looking at    *)
(* the status, so a session that was cancelled or expired while it asked can *)
(* become active again.  "expired" is written "failed": no one tells them    *)
(* apart but for the message.  When a deadline passes is left open.          *)
(***************************************************************************)
EXTENDS Naturals, FiniteSets

CONSTANTS MaxSessions,  \* bound: login sessions
          MaxCreating   \* bound: requests for a new session at a time

VARIABLES server,      \* status of each session; kept in a file
          poller,      \* what its goroutine does: in memory only
          revived,     \* sessions made active again after they had ended
          creating     \* requests that wait for a device code

sessVars == <<server, poller, revived, creating>>

Ids == 1 .. MaxSessions
Ended == {"succeeded", "failed", "cancelled"}
ActiveStatus == {"pending", "authorized"}
ActiveAtServer == {i \in Ids : server[i] \in ActiveStatus}

SessInit ==
  /\ server = [i \in Ids |-> "none"]
  /\ poller = [i \in Ids |-> "none"]
  /\ revived = {}
  /\ creating = 0

\* createLoginSession finds no active session and requests a device code.
RequestDeviceCode ==
  /\ ActiveAtServer = {}
  /\ creating < MaxCreating
  /\ creating' = creating + 1
  /\ UNCHANGED <<server, poller, revived>>

NewSession(i) ==
  /\ server[i] = "none"
  /\ \A j \in 1 .. i - 1 : server[j] # "none"
  /\ server' = [server EXCEPT ![i] = "pending"]
  /\ poller' = [poller EXCEPT ![i] = "waiting"]
  /\ UNCHANGED revived

\* With the code: the store looks again for an active session under its lock,
\* and the goroutine is started.
CreateSession(i) ==
  /\ creating > 0
  /\ ActiveAtServer = {}
  /\ NewSession(i)
  /\ creating' = creating - 1

\* The request for a code fails, or an active session is found (409).
CreateRefused ==
  /\ creating > 0
  /\ creating' = creating - 1
  /\ UNCHANGED <<server, poller, revived>>

\* CancelSession of a session that is active: its context is cancelled too.
CancelSession(i) ==
  /\ server[i] \in ActiveStatus
  /\ server' = [server EXCEPT ![i] = "cancelled"]
  /\ UNCHANGED <<poller, revived, creating>>

\* normalizeLocked, on any access after the deadline.
Expire(i) ==
  /\ server[i] \in ActiveStatus
  /\ server' = [server EXCEPT ![i] = "failed"]
  /\ UNCHANGED <<poller, revived, creating>>

\* The ticker: a cancelled session ends the goroutine, any other is asked for.
PollTick(i) ==
  /\ poller[i] = "waiting"
  /\ poller' = [poller EXCEPT ![i] = IF server[i] = "cancelled" THEN "gone" ELSE "asking"]
  /\ UNCHANGED <<server, revived, creating>>

\* The context has ended: cancelled, or its deadline has passed.
ContextDone(i) ==
  /\ poller[i] = "waiting"
  /\ poller' = [poller EXCEPT ![i] = "gone"]
  /\ server' = [server EXCEPT ![i] = IF @ \in ActiveStatus THEN "failed" ELSE @]
  /\ UNCHANGED <<revived, creating>>

\* Not yet authorized, asked too fast, or a transient error: ask again.
TokenPending(i) ==
  /\ poller[i] = "asking"
  /\ poller' = [poller EXCEPT ![i] = "waiting"]
  /\ UNCHANGED <<server, revived, creating>>

\* Expired, denied, or an error, the cancelled context's included.
TokenRefused(i) ==
  /\ poller[i] = "asking"
  /\ poller' = [poller EXCEPT ![i] = "gone"]
  /\ server' = [server EXCEPT ![i] = "failed"]
  /\ UNCHANGED <<revived, creating>>

TokenGranted(i) ==
  /\ poller[i] = "asking"
  /\ poller' = [poller EXCEPT ![i] = "finalizing"]
  /\ server' = [server EXCEPT ![i] = "authorized"]
  /\ revived' = IF server[i] \in Ended THEN revived \cup {i} ELSE revived
  /\ UNCHANGED creating

\* The account is written and put in its pool, or one of these steps fails.
finalizeLogin(i) ==
  /\ poller[i] = "finalizing"
  /\ poller' = [poller EXCEPT ![i] = "gone"]
  /\ \E s \in {"succeeded", "failed"} : server' = [server EXCEPT ![i] = s]
  /\ UNCHANGED <<revived, creating>>

\* Faulty variant: the sessions are loaded and not resumed.
Restart_NotResumed ==
  /\ poller' = [i \in Ids |-> IF poller[i] = "none" THEN "none" ELSE "gone"]
  /\ creating' = 0
  /\ UNCHANGED <<server, revived>>

\* Restart: the file is read and resumeActiveLoginSessions starts a goroutine for
\* each active session; what the old one was doing is lost.  A session whose
\* service is missing or that has expired fails.
Restart ==
  /\ \E lost \in SUBSET ActiveAtServer :
       /\ poller' = [i \in Ids |-> IF i \in ActiveAtServer \ lost THEN "waiting"
                                   ELSE IF poller[i] = "none" THEN "none" ELSE "gone"]
       /\ server' = [i \in Ids |-> IF i \in lost THEN "failed" ELSE server[i]]
  /\ creating' = 0
  /\ UNCHANGED revived

PollerStep(i) ==
  \/ PollTick(i) \/ ContextDone(i)
  \/ TokenPending(i) \/ TokenRefused(i) \/ TokenGranted(i) \/ finalizeLogin(i)

\* Any number of consoles, and a process that restarts at any time.
SessNext ==
  \/ RequestDeviceCode \/ CreateRefused \/ Restart
  \/ \E i \in Ids : CreateSession(i) \/ CancelSession(i) \/ Expire(i) \/ PollerStep(i)

SessSpec == SessInit /\ [][SessNext]_sessVars

-----------------------------------------------------------------------------
(* Properties *)

\* A session that the server calls active has a goroutine behind it that will end
\* it, across cancelling, expiry and a restart at any point: the drawer takes an
\* active session over and would otherwise wait for nobody.
ActiveIsServed ==
  \A i \in ActiveAtServer : poller[i] \in {"waiting", "asking", "finalizing"}

\* However many consoles ask for a session while others wait for a device code,
\* one login is active at a time; the exception is a login that was ended by the
\* user or by its deadline while the provider was being asked, and comes back.
OneActiveLogin == Cardinality(ActiveAtServer \ revived) <= 1

\* Across cancelling, expiry, restarts and consoles that ask at the same time,
\* there is one active login and a goroutine that will end it.
SessionsAreServed ==
  /\ ActiveIsServed
  /\ OneActiveLogin

=============================================================================
