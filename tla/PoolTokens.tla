----------------------------- MODULE PoolTokens -----------------------------
(***************************************************************************)
(* The part of the pool's page that needs the pool's token in clear         *)
(* (PoolDetailPage.tsx): the reveal request, shared by everyone who asks for *)
(* it while it runs; the token kept for the Codex setup and the playground;  *)
(* and the self-check, which probes every enabled account through the        *)
(* gateway with it, stores each verdict and has the page loaded again.       *)
(* A pool has one token, named by the pool.                                  *)
(***************************************************************************)
EXTENDS Naturals, FiniteSets

CONSTANTS TokenPools,  \* the pools the page may show
          Accounts,    \* the enabled accounts of the pool shown
          NoToken,     \* no token
          MaxClicks    \* bound: gestures

VARIABLES shownPool,   \* the pool whose detail the page has taken over last
          cache,       \* revealedTokenCache
          inFlight,    \* revealInFlightRef: POST /tokens/:id/reveal that run
          posts,       \* how often each token's reveal was sent and not refused
          waiting,     \* closures that await a reveal
          connect,     \* connectTokenValue
          setup,       \* Codex setup dialog: open, token
          check,       \* the self-check: phase, and where each account is
          probe,       \* the server's last_probe_status of each account
          loaded,      \* probe as the load after the last self-check found it
          clicks

tokenVars == <<shownPool, cache, inFlight, posts, waiting, connect, setup, check,
               probe, loaded, clicks>>

Verdicts == {"healthy", "error"}
Idle == [phase |-> "idle", at |-> [a \in Accounts |-> [step |-> "none", left |-> 0,
                                                        ok |-> FALSE, stored |-> TRUE]]]

TokensInit ==
  /\ shownPool = NoToken
  /\ cache = {}
  /\ inFlight = {}
  /\ posts = [t \in TokenPools |-> 0]
  /\ waiting = {}
  /\ connect = NoToken
  /\ setup = [open |-> FALSE, token |-> NoToken]
  /\ check = Idle
  /\ probe = [a \in Accounts |-> "unknown"]
  /\ loaded = [a \in Accounts |-> "unknown"]
  /\ clicks = 0

-----------------------------------------------------------------------------

\* revealPoolToken: the cached value, the request that runs, or a new one.
revealPoolToken(t, who) ==
  /\ inFlight' = inFlight \cup {t}
  /\ posts' = IF t \in inFlight THEN posts ELSE [posts EXCEPT ![t] = @ + 1]
  /\ waiting' = waiting \cup {[who |-> who, token |-> t]}

NoReveal == UNCHANGED <<inFlight, posts, waiting>>

\* The page takes over the detail of pool p.  When that changes the token set
\* the connect choice is dropped; the primary token is revealed unless cached.
TakeOver(p) ==
  /\ clicks < MaxClicks
  /\ p # shownPool
  /\ clicks' = clicks + 1
  /\ shownPool' = p
  /\ connect' = NoToken
  /\ IF p \in cache THEN NoReveal ELSE revealPoolToken(p, "auto")
  /\ UNCHANGED <<cache, setup, check, probe, loaded>>

\* getTokenForConnect: the connect choice, else the primary token.
Known == IF connect # NoToken THEN connect
         ELSE IF shownPool \in cache THEN shownPool ELSE NoToken

\* openSetupWithToken; the button is disabled without a token.
openSetupWithToken ==
  /\ shownPool # NoToken
  /\ clicks < MaxClicks
  /\ clicks' = clicks + 1
  /\ IF Known # NoToken
     THEN /\ connect' = Known
          /\ setup' = [open |-> TRUE, token |-> Known]
          /\ NoReveal
     ELSE revealPoolToken(shownPool, "setup") /\ UNCHANGED <<connect, setup>>
  /\ UNCHANGED <<shownPool, cache, check, probe, loaded>>

\* resolveToken of the account sheet's playground.
resolveToken ==
  /\ shownPool # NoToken
  /\ clicks < MaxClicks
  /\ clicks' = clicks + 1
  /\ IF Known # NoToken THEN connect' = Known /\ NoReveal
     ELSE revealPoolToken(shownPool, "sheet") /\ UNCHANGED connect
  /\ UNCHANGED <<shownPool, cache, setup, check, probe, loaded>>

CloseSetup ==
  /\ setup.open
  /\ setup' = [setup EXCEPT !.open = FALSE]
  /\ UNCHANGED <<shownPool, cache, inFlight, posts, waiting, connect, check, probe,
                 loaded, clicks>>

-----------------------------------------------------------------------------
(* The self-check *)

\* The accounts with a model to probe, and how many models are tried for each.
Probing(models) ==
  [phase |-> "probing",
   at |-> [a \in Accounts |->
             [step |-> IF models[a] = 0 THEN "none" ELSE "probe",
              left |-> models[a], ok |-> FALSE, stored |-> TRUE]]]

\* runSelfCheck up to the token; a second click while it runs does nothing.
runSelfCheck ==
  /\ shownPool # NoToken
  /\ check.phase = "idle"
  /\ clicks < MaxClicks
  /\ clicks' = clicks + 1
  /\ IF Known # NoToken
     THEN /\ connect' = Known
          /\ \E models \in [Accounts -> 0 .. 2] : check' =
               IF \A a \in Accounts : models[a] = 0 THEN Idle ELSE Probing(models)
          /\ NoReveal
     ELSE /\ revealPoolToken(shownPool, "check")
          /\ check' = [check EXCEPT !.phase = "token"]
          /\ UNCHANGED connect
  /\ UNCHANGED <<shownPool, cache, setup, probe, loaded>>

\* The reveal is answered: everyone who awaited it goes on.  Each of them but
\* the automatic one makes the token the connect choice.
RevealArrives(t) ==
  /\ t \in inFlight
  /\ inFlight' = inFlight \ {t}
  /\ cache' = cache \cup {t}
  /\ waiting' = {w \in waiting : w.token # t}
  /\ LET woken == {w.who : w \in {v \in waiting : v.token = t}}
     IN /\ connect' = IF woken \ {"auto"} # {} THEN t ELSE connect
        /\ setup' = IF "setup" \in woken THEN [open |-> TRUE, token |-> t] ELSE setup
        /\ IF "check" \in woken
           THEN \E models \in [Accounts -> 0 .. 2] : check' =
                  IF \A a \in Accounts : models[a] = 0 THEN Idle ELSE Probing(models)
           ELSE UNCHANGED check
  /\ UNCHANGED <<shownPool, posts, probe, loaded, clicks>>

\* Faulty variant: the self-check returns without clearing its flag.
RevealFails_CheckStays(t) ==
  /\ t \in inFlight
  /\ inFlight' = inFlight \ {t}
  /\ posts' = [posts EXCEPT ![t] = @ - 1]
  /\ waiting' = {w \in waiting : w.token # t}
  /\ UNCHANGED <<shownPool, cache, connect, setup, check, probe, loaded, clicks>>

\* The reveal fails: a toast, and a self-check that awaited it ends.
RevealFails(t) ==
  /\ t \in inFlight
  /\ inFlight' = inFlight \ {t}
  /\ posts' = [posts EXCEPT ![t] = @ - 1]
  /\ waiting' = {w \in waiting : w.token # t}
  /\ check' = IF [who |-> "check", token |-> t] \in waiting THEN Idle ELSE check
  /\ UNCHANGED <<shownPool, cache, connect, setup, probe, loaded, clicks>>

\* One model of account a is answered, or its timer aborts it; when all are
\* the verdict is "any of them succeeded" and it is sent to the server.
Attempt(a, ok) ==
  /\ check.phase = "probing"
  /\ check.at[a].step = "probe"
  /\ check' = [check EXCEPT !.at[a].ok = @ \/ ok, !.at[a].left = @ - 1,
                            !.at[a].step = IF check.at[a].left = 1 THEN "post" ELSE @]
  /\ UNCHANGED <<shownPool, cache, inFlight, posts, waiting, connect, setup, probe,
                 loaded, clicks>>

Verdict(a) == IF check.at[a].ok THEN "healthy" ELSE "error"

\* POST /accounts/:id/probe-result, awaited; a failure of it is swallowed.
PostVerdict(a) ==
  /\ check.phase = "probing"
  /\ check.at[a].step = "post"
  /\ \E stored \in BOOLEAN :
       /\ probe' = IF stored THEN [probe EXCEPT ![a] = Verdict(a)] ELSE probe
       /\ check' = [check EXCEPT !.at[a].step = "done", !.at[a].stored = stored]
  /\ UNCHANGED <<shownPool, cache, inFlight, posts, waiting, connect, setup, loaded, clicks>>

\* Faulty variant: refreshData is not called.
CheckEnds_NoRefresh ==
  /\ check.phase = "probing"
  /\ \A a \in Accounts : check.at[a].step \in {"none", "done"}
  /\ check' = [check EXCEPT !.phase = "idle"]
  /\ UNCHANGED <<shownPool, cache, inFlight, posts, waiting, connect, setup, probe, loaded, clicks>>

\* All accounts are through: refreshData, and the load finds the server's state.
CheckEnds ==
  /\ check.phase = "probing"
  /\ \A a \in Accounts : check.at[a].step \in {"none", "done"}
  /\ check' = [check EXCEPT !.phase = "idle"]
  /\ loaded' = probe
  /\ UNCHANGED <<shownPool, cache, inFlight, posts, waiting, connect, setup, probe, clicks>>

TokensNext ==
  \/ \E p \in TokenPools : TakeOver(p)
  \/ openSetupWithToken \/ resolveToken \/ CloseSetup \/ runSelfCheck
  \/ \E t \in TokenPools : RevealArrives(t) \/ RevealFails(t)
  \/ \E a \in Accounts : PostVerdict(a) \/ \E ok \in BOOLEAN : Attempt(a, ok)
  \/ CheckEnds

\* The browser answers or fails every request, and the self-check's timer
\* aborts a probe that hangs.
TokensFairness ==
  /\ \A t \in TokenPools : WF_tokenVars(RevealArrives(t) \/ RevealFails(t))
  /\ \A a \in Accounts : WF_tokenVars(\E ok \in BOOLEAN : Attempt(a, ok))
                        /\ WF_tokenVars(PostVerdict(a))
  /\ WF_tokenVars(CheckEnds)

TokensSpec == TokensInit /\ [][TokensNext]_tokenVars /\ TokensFairness

-----------------------------------------------------------------------------
(* Properties *)

\* The in-flight promise and the cache together keep the reveal from being
\* sent twice for one token, whoever asks for it and when; only a reveal that
\* failed is sent again.
RevealedOnce == \A t \in TokenPools : posts[t] <= 1

\* Whoever awaits a token awaits a request that runs.
WaitersAreServed == \A w \in waiting : w.token \in inFlight

\* The load that follows a self-check finds every verdict that was stored, of
\* every account: the verdicts are awaited before the page is told to load.
VerdictsAreLoaded ==
  check.phase = "idle" =>
    \A a \in Accounts : check.at[a].step = "done" /\ check.at[a].stored
                          => loaded[a] = Verdict(a)

\* A self-check always ends, so the button it disables comes back: no token,
\* no model, a probe that hangs and a verdict that is not stored included.
SelfCheckEnds == check.phase # "idle" ~> check.phase = "idle"

\* Copying, the setup and the self-check share one request for a token: it is sent
\* once, everyone who awaits it is served, and the load after the self-check finds
\* the verdicts that were made with it.
TokenIsShared ==
  /\ RevealedOnce
  /\ WaitersAreServed
  /\ VerdictsAreLoaded

=============================================================================
