---------------------------- MODULE Notifications ----------------------------
(***************************************************************************)
(* The notification settings (NotificationsSection.tsx): the robot (switch,  *)
(* webhook URL, mentions), one subscription with its text, and the days      *)
(* before an expiry.  Each of the three commits with a PUT, keeps its own    *)
(* sequence number, and drops the answers of superseded commits.  "Send      *)
(* test" saves a URL that is still a draft before it asks for the test.      *)
(***************************************************************************)
EXTENDS Naturals, FiniteSets

CONSTANTS Urls,      \* webhook URLs the server accepts
          BadUrl,    \* one it refuses
          Bodies,    \* texts of the subscription
          MaxPuts,   \* bound: commits
          MaxTests   \* bound: tests

Kinds == {"robot", "sub", "days"}

VARIABLES server,    \* what is stored, by kind
          screen,    \* what the section holds, by kind
          urlDraft,  \* webhookUrlDraft
          text,      \* bodyDisplay of the subscription's row
          robotBusy, \* settingsSaving
          rowField,  \* rowSavingField of the row: "none", "subscribed", "body"
          commitSeq, \* newest commit of each kind
          puts,      \* commits in flight
          test,      \* the test under way: st, what the user sees, what is used
          muddled,   \* kinds in which commits overlapped or an answer was lost (ghost)
          used       \* commits and tests so far

noteVars == <<server, screen, urlDraft, text, robotBusy, rowField, commitSeq, puts, test, muddled, used>>

NoTest == [st |-> "none", seen |-> BadUrl, with |-> BadUrl, quiet |-> TRUE]

NotesInit ==
  /\ \E u \in Urls, b \in Bodies, on \in BOOLEAN :
       server = [robot |-> [enabled |-> on, url |-> u, mentions |-> FALSE],
                 sub   |-> [subscribed |-> on, body |-> b],
                 days  |-> 1]
  /\ screen = server
  /\ urlDraft = server.robot.url
  /\ text = server.sub.body
  /\ robotBusy = FALSE
  /\ rowField = "none"
  /\ commitSeq = [k \in Kinds |-> 0]
  /\ puts = {}
  /\ test = NoTest
  /\ muddled = {}
  /\ used = [puts |-> 0, tests |-> 0]

PutsOf(k) == {p \in puts : p.kind = k}

\* A value of kind k, in the place of its kind.
Only(k, v) ==
  [[robot |-> [enabled |-> FALSE, url |-> BadUrl, mentions |-> FALSE],
    sub |-> [subscribed |-> FALSE, body |-> BadUrl], days |-> 0] EXCEPT ![k] = v]

\* A commit: its number, what is sent, and what to go back to.
Put(k, next, by) ==
  /\ used.puts < MaxPuts
  /\ commitSeq' = [commitSeq EXCEPT ![k] = @ + 1]
  /\ puts' = puts \cup {[kind |-> k, seq |-> commitSeq[k] + 1, by |-> by, st |-> "sent",
                         next |-> Only(k, next), prev |-> Only(k, screen[k])]}
  /\ muddled' = IF PutsOf(k) # {} THEN muddled \cup {k} ELSE muddled

Spend == used' = [used EXCEPT !.puts = @ + 1]

-----------------------------------------------------------------------------
(* The robot *)

\* commitSettings from the switch, the URL's blur or a mention: shown at once.
CommitRobot(next) ==
  /\ ~robotBusy
  /\ Put("robot", next, "form")
  /\ Spend
  /\ screen' = [screen EXCEPT !.robot = next]
  /\ robotBusy' = TRUE
  /\ test' = [test EXCEPT !.quiet = @ /\ test.st \in {"none", "done"}]
  /\ UNCHANGED <<server, text, rowField>>

\* A URL is typed and the input left.
EnterUrl(u) ==
  /\ u # urlDraft
  /\ urlDraft' = u
  /\ IF u = screen.robot.url
     THEN ~robotBusy /\ UNCHANGED <<server, screen, text, robotBusy, rowField, commitSeq, puts, test, muddled, used>>
     ELSE CommitRobot([screen.robot EXCEPT !.url = u])

\* The switch takes a pending draft of the URL along; a mention does not.
ToggleRobot ==
  /\ CommitRobot([screen.robot EXCEPT !.enabled = ~@, !.url = urlDraft])
  /\ UNCHANGED urlDraft

ToggleMention ==
  /\ CommitRobot([screen.robot EXCEPT !.mentions = ~@])
  /\ UNCHANGED urlDraft

\* Faulty variant: a draft is not saved before the test.
runTest_NoPresave ==
  /\ screen.robot.enabled
  /\ test.st \in {"none", "done"}
  /\ used.tests < MaxTests
  /\ test' = [st |-> "posted", seen |-> urlDraft, with |-> BadUrl, quiet |-> PutsOf("robot") = {}]
  /\ used' = [used EXCEPT !.tests = @ + 1]
  /\ UNCHANGED <<server, screen, urlDraft, text, robotBusy, rowField, commitSeq, puts, muddled>>

\* runTest: a URL that is not the section's is saved first.
runTest ==
  /\ screen.robot.enabled
  /\ test.st \in {"none", "done"}
  /\ used.tests < MaxTests
  /\ IF urlDraft # screen.robot.url
     THEN /\ Put("robot", [screen.robot EXCEPT !.url = urlDraft], "test")
          /\ robotBusy' = TRUE
          /\ used' = [puts |-> used.puts + 1, tests |-> used.tests + 1]
          /\ test' = [st |-> "presave", seen |-> urlDraft, with |-> BadUrl, quiet |-> PutsOf("robot") = {}]
     ELSE /\ test' = [st |-> "posted", seen |-> urlDraft, with |-> BadUrl, quiet |-> PutsOf("robot") = {}]
          /\ used' = [used EXCEPT !.tests = @ + 1]
          /\ UNCHANGED <<robotBusy, commitSeq, puts, muddled>>
  /\ UNCHANGED <<server, screen, urlDraft, text, rowField>>

\* The server sends the test to the URL it holds by then, or it fails.
TestServed ==
  /\ test.st = "posted"
  /\ test' = [test EXCEPT !.st = "done", !.with = server.robot.url]
  /\ UNCHANGED <<server, screen, urlDraft, text, robotBusy, rowField, commitSeq, puts, muddled, used>>

-----------------------------------------------------------------------------
(* The subscription and the days *)

\* commitSubscription: nothing is shown before the answer.
CommitSub(field, next) ==
  /\ Put("sub", next, field)
  /\ Spend
  /\ rowField' = field
  /\ UNCHANGED <<server, screen, urlDraft, robotBusy, test>>

\* The text is edited (or reset) and the editor left.
EnterBody(b) ==
  /\ rowField # "body"
  /\ b # text
  /\ text' = b
  /\ IF b = screen.sub.body
     THEN UNCHANGED <<server, screen, urlDraft, robotBusy, rowField, commitSeq, puts, test, muddled, used>>
     ELSE CommitSub("body", [screen.sub EXCEPT !.body = b])

ToggleSubscribed ==
  /\ rowField # "subscribed"
  /\ CommitSub("subscribed", [screen.sub EXCEPT !.subscribed = ~@])
  /\ UNCHANGED text

\* saveExpiringDays: shown at once.
saveExpiringDays(d) ==
  /\ d # screen.days
  /\ Put("days", d, "input")
  /\ Spend
  /\ screen' = [screen EXCEPT !.days = d]
  /\ UNCHANGED <<server, urlDraft, text, robotBusy, rowField, test>>

-----------------------------------------------------------------------------
(* Answers *)

Accepted(p) == p.kind = "robot" => p.next.robot.url \in Urls

\* The server stores and answers with what it stored; it refuses; or it
\* stores and the answer is lost.
PutServed(p) ==
  /\ p \in puts
  /\ p.st = "sent"
  /\ \E ok \in BOOLEAN, written \in BOOLEAN :
       /\ ok => written
       /\ written => Accepted(p)
       /\ server' = IF written THEN [server EXCEPT ![p.kind] = p.next[p.kind]] ELSE server
       /\ puts' = (puts \ {p}) \cup {[p EXCEPT !.st = IF ok THEN "ok" ELSE "failed"]}
       /\ muddled' = IF written /\ ~ok THEN muddled \cup {p.kind} ELSE muddled
  /\ UNCHANGED <<screen, urlDraft, text, robotBusy, rowField, commitSeq, test, used>>

Latest(p) == commitSeq[p.kind] = p.seq

\* What an answer means for the test that waits for it: it goes on unless
\* commitSettings throws, and that it does only for the newest commit.
TestAfter(p) ==
  IF p.by # "test" THEN test
  ELSE [test EXCEPT !.st = IF p.st = "failed" /\ Latest(p) THEN "done" ELSE "posted",
                    !.quiet = @ /\ Latest(p)]

\* The flags are cleared by the newest commit only.
Settle(p) ==
  /\ robotBusy' = IF p.kind = "robot" /\ Latest(p) THEN FALSE ELSE robotBusy
  /\ rowField' = IF p.kind = "sub" /\ Latest(p) THEN "none" ELSE rowField
  /\ puts' = puts \ {p}
  /\ test' = TestAfter(p)

PutDone(p) ==
  /\ p \in puts
  /\ p.st = "ok"
  /\ Settle(p)
  /\ screen' = IF Latest(p) THEN [screen EXCEPT ![p.kind] = p.next[p.kind]] ELSE screen
  /\ urlDraft' = IF p.kind = "robot" /\ Latest(p) THEN p.next.robot.url ELSE urlDraft
  /\ UNCHANGED <<server, text, commitSeq, muddled, used>>

\* Back to what was there before; the typed URL and the typed text stay.
PutFailed(p) ==
  /\ p \in puts
  /\ p.st = "failed"
  /\ Settle(p)
  /\ screen' = IF Latest(p) /\ p.kind # "sub" THEN [screen EXCEPT ![p.kind] = p.prev[p.kind]] ELSE screen
  /\ UNCHANGED <<server, urlDraft, text, commitSeq, muddled, used>>

NotesNext ==
  \/ \E u \in Urls \cup {BadUrl} : EnterUrl(u)
  \/ ToggleRobot \/ ToggleMention \/ runTest \/ TestServed
  \/ \E b \in Bodies : EnterBody(b)
  \/ ToggleSubscribed
  \/ \E d \in 1..2 : saveExpiringDays(d)
  \/ \E p \in puts : PutServed(p) \/ PutDone(p) \/ PutFailed(p)

NotesSpec == NotesInit /\ [][NotesNext]_noteVars

-----------------------------------------------------------------------------
(* Properties *)

\* With no commit in flight the section holds what the server has stored, for
\* every kind whose commits never overlapped and never lost an answer.
QuietNotesAgree ==
  \A k \in Kinds \ muddled : PutsOf(k) = {} => screen[k] = server[k]

\* The test goes to the URL the user sees, unless a commit of the robot was
\* already under way when it was asked for: a URL still to be saved is saved
\* first, and a refused one is not tested.
TestSeesSavedUrl ==
  test.st = "done" /\ test.with # BadUrl /\ test.quiet /\ "robot" \notin muddled => test.with = test.seen

\* No control stays disabled: a flag is up only while its commit is in flight.
NotesNotStuck ==
  /\ robotBusy => PutsOf("robot") # {}
  /\ rowField # "none" => \E p \in PutsOf("sub") : p.by = rowField
  /\ test.st = "presave" => \E p \in puts : p.by = "test"

\* However the three kinds of commits and the test overlap, fail and are rolled
\* back: the section ends up with what is stored, the test uses the URL on the
\* screen, and no control stays disabled.
NotesAgree ==
  /\ QuietNotesAgree
  /\ TestSeesSavedUrl
  /\ NotesNotStuck

=============================================================================
