------------------------- MODULE ConsoleFormsProofs -------------------------
(***************************************************************************)
(* Proofs about the console's forms and lists that save in the background, *)
(* for any number of requests, however these overlap and are answered: the *)
(* alerts of the overview, the token table, the notification settings, and *)
(* the numeric settings with their clean-up and the import of a whole.     *)
(***************************************************************************)
EXTENDS OverviewAlerts, TokenTable, Notifications, SettingsFields, FiniteSetTheorems, TLAPS

-----------------------------------------------------------------------------
(* The alerts of the overview *)

Alerts == Expiring \cup Critical
OverLoads == [n : Nat, stage : {"list", "details"}, own : BOOLEAN, ver : Nat]
OverStates ==
  [loading : BOOLEAN, error : BOOLEAN, alerts : (SUBSET Alerts) \cup {NoOverview}, ver : Nat,
   details : BOOLEAN, dismissed : SUBSET Expiring, newest : Nat]

OverTyped ==
  /\ srvAlerts \in SUBSET Alerts
  /\ srvVer \in Nat
  /\ readMarks \in SUBSET Expiring
  /\ olds \in SUBSET OverLoads
  /\ visits \in Nat
  /\ read \in SUBSET Expiring

\* A number names one load.
LoadsNamed ==
  /\ \A l \in olds : l.n <= visits
  /\ \A l, m \in olds : l.n = m.n => l = m

\* While the page is open: what it hides is what is marked in storage, and
\* what was marked in this visit is among it.
OpenInv ==
  /\ over \in OverStates
  /\ readMarks = over.dismissed
  /\ over.alerts # NoOverview => read \subseteq over.dismissed
  /\ over.alerts = NoOverview => read = {}
  /\ ~overlapped => /\ over.loading <=> \E l \in olds : l.n = over.newest
                    /\ \A l \in olds : l.n = over.newest

OverInv ==
  /\ OverTyped
  /\ LoadsNamed
  /\ OpenInv \/ (over = NoOverview /\ olds = {})

(* The invariant holds before the overview is opened. *)
LEMMA OverInvInit == OverInit => OverInv
BY DEF OverInit, OverInv, OverTyped, LoadsNamed

(* The server reports other alerts, or the page is left. *)
LEMMA OverOutsideInv ==
  ASSUME OverInv, (\E S \in SUBSET Alerts : AlertsChange(S)) \/ LeaveOverview
  PROVE  OverInv'
<1>1. CASE \E S \in SUBSET Alerts : AlertsChange(S)
  BY <1>1 DEF AlertsChange, OverInv, OverTyped, LoadsNamed, OpenInv
<1>2. CASE LeaveOverview
  BY <1>2 DEF LeaveOverview, OverInv, OverTyped, LoadsNamed
<1> QED BY <1>1, <1>2

(* A visit begins with nothing marked and one load. *)
LEMMA OpenOverviewInv == ASSUME OverInv, OpenOverview PROVE OverInv'
<1> DEFINE new == [loading |-> TRUE, error |-> FALSE, alerts |-> NoOverview, ver |-> 0,
                   details |-> FALSE, dismissed |-> {}, newest |-> visits + 1]
           l0 == Load2(visits + 1, TRUE)
<1>1. over' = new /\ readMarks' = {} /\ read' = {} /\ olds' = {l0}
  BY DEF OpenOverview, Pruned
<1>2. new \in OverStates
  BY DEF OverStates, OverInv, OverTyped
<1>3. l0 \in OverLoads /\ l0.n = visits + 1
  BY DEF Load2, OverLoads, OverInv, OverTyped
<1> HIDE DEF l0
<1>4. OverTyped' /\ LoadsNamed'
  <2>1. OverTyped /\ visits' = visits + 1 /\ UNCHANGED <<srvAlerts, srvVer>>
    BY DEF OverInv, OpenOverview
  <2>2. OverTyped'
    BY <1>1, <1>3, <2>1 DEF OverTyped
  <2>3. LoadsNamed'
    BY <1>1, <1>3, <2>1 DEF OverTyped, LoadsNamed
  <2> QED BY <2>2, <2>3
<1>5. OpenInv'
  BY <1>1, <1>2, <1>3 DEF OpenInv
<1> QED BY <1>4, <1>5 DEF OverInv

(* Loading once more: alone, or beside loads that nobody can cancel. *)
LEMMA StartOverInv ==
  ASSUME OverInv, NEW own \in BOOLEAN, StartOver(own) PROVE OverInv'
<1> DEFINE rest == {l \in olds : own => ~l.own}
           l0 == Load2(visits + 1, own)
           new == [over EXCEPT !.loading = TRUE, !.error = FALSE, !.newest = visits + 1]
<1>1. OpenInv /\ OverTyped /\ LoadsNamed
  BY DEF OverInv, StartOver
<1>2. over' = new /\ olds' = rest \cup {l0} /\ overlapped' = (overlapped \/ rest # {})
      /\ visits' = visits + 1
  BY DEF StartOver
<1>3. l0 \in OverLoads /\ l0.n = visits + 1
  BY <1>1 DEF Load2, OverLoads, OverTyped
<1>4. over \in OverStates /\ visits + 1 \in Nat
  BY <1>1 DEF OpenInv, OverTyped
<1>8. new \in OverStates /\ new.newest = visits + 1 /\ new.loading
      /\ new.alerts = over.alerts /\ new.dismissed = over.dismissed
  <2>1. new \in OverStates
    BY <1>4 DEF OverStates
  <2>2. new.newest = visits + 1 /\ new.alerts = over.alerts /\ new.dismissed = over.dismissed
    BY <1>4 DEF OverStates
  <2>3. new.loading
    BY <1>4 DEF OverStates
  <2> QED BY <2>1, <2>2, <2>3
<1> HIDE DEF l0, new
<1>5. OverTyped'
  BY <1>1, <1>2, <1>3 DEF OverTyped, StartOver
<1>6. LoadsNamed'
  BY <1>1, <1>2, <1>3 DEF LoadsNamed, OverTyped, OverLoads
<1>7. OpenInv'
  <2>1. ~overlapped' => olds' = {l0}
    BY <1>1, <1>2 DEF OverTyped
  <2> QED BY <1>1, <1>2, <1>3, <1>8, <2>1 DEF OpenInv, StartOver
<1> QED BY <1>5, <1>6, <1>7 DEF OverInv

(* The list is rendered, and the marks pruned against it. *)
LEMMA ListArrivesInv ==
  ASSUME OverInv, NEW l \in olds, ListArrives(l) PROVE OverInv'
<1> DEFINE next == [l EXCEPT !.stage = "details", !.ver = srvVer]
           left == Pruned(over.dismissed, srvAlerts)
           new == [over EXCEPT !.alerts = srvAlerts, !.ver = srvVer, !.dismissed = left]
<1>1. OpenInv /\ OverTyped /\ LoadsNamed
  BY DEF OverInv
<1>2. srvAlerts # NoOverview
  BY <1>1, NoOverviewAssumption DEF OverTyped, Alerts
<1>3. left = over.dismissed \cap srvAlerts
  BY <1>1, <1>2 DEF Pruned, OpenInv, OverStates
<1>4. next \in OverLoads /\ next.n = l.n
  BY <1>1 DEF OverTyped, OverLoads
<1>5. new \in OverStates /\ new.alerts = srvAlerts /\ new.dismissed = left
      /\ new.loading = over.loading /\ new.newest = over.newest
  BY <1>1, <1>3 DEF OpenInv, OverStates, OverTyped
<1>6. over' = new /\ olds' = (olds \ {l}) \cup {next} /\ readMarks' = left
      /\ read' = read \cap srvAlerts /\ overlapped' = overlapped
  BY <1>1 DEF ListArrives, OpenInv
<1> HIDE DEF next, left, new
<1>7. OverTyped'
  BY <1>1, <1>3, <1>4, <1>5, <1>6 DEF OverTyped, ListArrives, OpenInv, OverStates
<1>8. LoadsNamed'
  BY <1>1, <1>4, <1>6 DEF LoadsNamed, ListArrives
<1>9. OpenInv'
  BY <1>1, <1>2, <1>3, <1>4, <1>5, <1>6 DEF OpenInv
<1> QED BY <1>7, <1>8, <1>9 DEF OverInv

(* The details are there, or the load has failed: the skeleton ends. *)
LEMMA LoadEndsInv ==
  ASSUME OverInv, NEW l \in olds, DetailsArrive(l) \/ ListFails(l) PROVE OverInv'
<1>1. OpenInv /\ OverTyped /\ LoadsNamed
  BY DEF OverInv
<1>2. over' \in OverStates /\ over'.loading = FALSE /\ over'.newest = over.newest
      /\ over'.alerts = over.alerts /\ over'.dismissed = over.dismissed
  BY <1>1 DEF DetailsArrive, ListFails, OpenInv, OverStates
<1>3. olds' = olds \ {l} /\ UNCHANGED <<srvAlerts, srvVer, readMarks, visits, read, overlapped>>
  BY DEF DetailsArrive, ListFails
<1>4. OverTyped' /\ LoadsNamed'
  BY <1>1, <1>3 DEF OverTyped, LoadsNamed
<1>5. OpenInv'
  BY <1>1, <1>2, <1>3 DEF OpenInv, LoadsNamed
<1> QED BY <1>4, <1>5 DEF OverInv

(* An alert is marked as read. *)
LEMMA DismissInv ==
  ASSUME OverInv, NEW a \in Expiring, handleDismiss(a) PROVE OverInv'
<1>1. OpenInv /\ OverTyped /\ LoadsNamed
  BY DEF OverInv, handleDismiss
<1>2. over.alerts # NoOverview
  BY DEF handleDismiss, Visible
<1>3. over' \in OverStates /\ over'.loading = over.loading /\ over'.newest = over.newest
      /\ over'.alerts = over.alerts /\ over'.dismissed = over.dismissed \cup {a}
  BY <1>1 DEF handleDismiss, OpenInv, OverStates
<1>4. OverTyped' /\ LoadsNamed'
  BY <1>1 DEF OverTyped, LoadsNamed, handleDismiss, OpenInv, OverStates
<1>5. OpenInv'
  BY <1>1, <1>2, <1>3 DEF OpenInv, handleDismiss
<1> QED BY <1>4, <1>5 DEF OverInv

(* Every step of the overview keeps its invariant. *)
LEMMA OverInvStep == OverInv /\ [OverNext]_overVars => OverInv'
<1> SUFFICES ASSUME OverInv, [OverNext]_overVars PROVE OverInv'
  OBVIOUS
<1>1. CASE UNCHANGED overVars
  BY <1>1 DEF overVars, OverInv, OverTyped, LoadsNamed, OpenInv
<1>2. CASE OverNext
  <2>1. CASE refreshOverview \/ RetryOverview
    BY <2>1, StartOverInv DEF refreshOverview, RetryOverview
  <2> QED BY <1>2, <2>1, OverOutsideInv, OpenOverviewInv, ListArrivesInv, LoadEndsInv, DismissInv
          DEF OverNext, Alerts
<1> QED BY <1>1, <1>2

(* The inductive invariant of the overview (OverviewPage.tsx): a number names one load,
   and the marks of the page are those in storage. *)
THEOREM OverInvHolds == OverSpec => []OverInv
BY OverInvInit, OverInvStep, PTL DEF OverSpec

(* Through loads that are given up, retried and overtaken, the overview shows the
   newest answer and keeps hidden what was marked as read (OverviewPage.tsx,
   alertUtils.ts), for any alerts and any number of visits. *)
THEOREM AlertsAreTrueHolds == OverSpec => []AlertsAreTrue
<1>1. OverInv => AlertsAreTrue
  BY DEF OverInv, OpenInv, OverTyped, AlertsAreTrue, OverviewSettles, ReadStaysHidden, Visible
<1> QED BY <1>1, OverInvHolds, PTL

-----------------------------------------------------------------------------
(* The token table *)

Edits == {"rename", "replace"}
TokenRows == [value : Nat, name : Nat]
TokenCalls ==
  [op : {"reveal", "copy", "regenerate"} \cup Edits, t : Tokens, v : Nat, n : Nat,
   st : {"sent", "ok", "failed"}, was : TokenRows]
TokenDialogs == [kind : {"regenerate"} \cup Edits, t : Tokens]

TableTyped ==
  /\ secret \in [Tokens -> TokenRows]
  /\ row \in [Tokens -> TokenRows]
  /\ revealed \in [Tokens -> Nat]
  /\ dialog \in {Shut} \cup TokenDialogs
  /\ calls \in SUBSET TokenCalls
  /\ crossed \in SUBSET Tokens
  /\ turn \in [calls : Nat, value : Nat, name : Nat]

CacheFits(t) == revealed[t] \in {None, secret[t].value}

\* What the only request of its token has done to it, and will undo.
Fits(c) ==
  /\ c.op \in {"reveal", "copy"} =>
       /\ row[c.t] = secret[c.t] /\ CacheFits(c.t)
       /\ c.st = "ok" => c.v = secret[c.t].value
  /\ c.op = "rename" =>
       /\ row[c.t] = [value |-> c.was.value, name |-> c.v] /\ CacheFits(c.t)
       /\ secret[c.t] = IF c.st = "ok" THEN row[c.t] ELSE c.was
  /\ c.op = "replace" =>
       /\ row[c.t] = [value |-> c.v, name |-> c.was.name]
       /\ IF c.st = "ok" THEN secret[c.t] = row[c.t]
          ELSE secret[c.t] = c.was /\ CacheFits(c.t)
  /\ c.op = "regenerate" =>
       IF c.st = "ok" THEN secret[c.t] = [value |-> c.v, name |-> row[c.t].name]
       ELSE secret[c.t] = row[c.t] /\ CacheFits(c.t)

\* A token whose requests never crossed has one at most, and its row and its
\* cached value are what that one leaves.
TokenInv(t) ==
  t \notin crossed =>
    /\ \A c, d \in CallsOf(t) : c = d
    /\ CallsOf(t) = {} => row[t] = secret[t] /\ CacheFits(t)
    /\ \A c \in CallsOf(t) : Fits(c)

\* The editing dialogs are locked by one request, their own.
EditInv ==
  /\ \A c, d \in calls : c.op \in Edits /\ d.op \in Edits => c = d
  /\ \A c \in calls : c.op \in Edits => locked /\ dialog = [kind |-> c.op, t |-> c.t]
  /\ locked => \E c \in calls : c.op \in Edits

TableInv ==
  /\ TableTyped
  /\ \A t \in Tokens : TokenInv(t)
  /\ CopiedTokenIsLive
  /\ EditInv

(* The invariant holds when the page is loaded. *)
LEMMA TableInvInit == TableInit => TableInv
<1> SUFFICES ASSUME TableInit PROVE TableInv
  OBVIOUS
<1>1. TableTyped
  BY DEF TableInit, TableTyped, TokenRows, None
<1>2. \A t \in Tokens : TokenInv(t)
  BY DEF TableInit, TokenInv, CallsOf, CacheFits
<1>3. CopiedTokenIsLive /\ EditInv
  BY DEF TableInit, CopiedTokenIsLive, EditInv
<1> QED BY <1>1, <1>2, <1>3 DEF TableInv

(* A step that moves one token leaves the others as they are. *)
LEMMA OneToken ==
  ASSUME TableInv, NEW u \in Tokens, crossed \subseteq crossed', TokenInv(u)',
         \A t \in Tokens \ {u} : /\ secret'[t] = secret[t] /\ row'[t] = row[t]
                                 /\ revealed'[t] = revealed[t]
                                 /\ CallsOf(t)' = CallsOf(t)
  PROVE  \A t \in Tokens : TokenInv(t)'
<1> SUFFICES ASSUME NEW t \in Tokens \ {u}, t \notin crossed' PROVE TokenInv(t)'
  BY DEF TokenInv
<1>1. TokenInv(t) /\ t \notin crossed
  BY DEF TableInv
<1>2. CacheFits(t)' <=> CacheFits(t)
  BY DEF CacheFits
<1>3. \A c \in CallsOf(t) : Fits(c)' <=> Fits(c)
  <2> SUFFICES ASSUME NEW c \in CallsOf(t) PROVE Fits(c)' <=> Fits(c)
    OBVIOUS
  <2>1. c.t = t
    BY DEF CallsOf
  <2> QED BY <1>2, <2>1 DEF Fits
<1> QED BY <1>1, <1>2, <1>3 DEF TokenInv

(* A request is sent: alone, or across another one for the token. *)
LEMMA CallInv ==
  ASSUME TableInv, NEW u \in Tokens,
         NEW op \in {"reveal", "copy", "regenerate"} \cup Edits, NEW v \in Nat, Call(op, u, v),
         UNCHANGED <<secret, revealed>>,
         row' = CASE op = "rename"  -> [row EXCEPT ![u].name = v]
                  [] op = "replace" -> [row EXCEPT ![u].value = v]
                  [] OTHER          -> row
  PROVE  /\ \A t \in Tokens : TokenInv(t)'
         /\ calls' \in SUBSET TokenCalls /\ crossed' \in SUBSET Tokens /\ crossed \subseteq crossed'
         /\ row' \in [Tokens -> TokenRows]
         /\ \E c \in TokenCalls : calls' = calls \cup {c} /\ c.op = op /\ c.t = u
<1> DEFINE after == CASE op = "rename"  -> [value |-> row[u].value, name |-> v]
                      [] op = "replace" -> [value |-> v, name |-> row[u].name]
                      [] OTHER          -> row[u]
<1>0. TableTyped /\ TokenInv(u)
  BY DEF TableInv
<1>1. PICK new \in TokenCalls : /\ new.op = op /\ new.t = u /\ new.v = v /\ new.st = "sent"
                                /\ new.was = row[u] /\ calls' = calls \cup {new}
  <2> DEFINE c0 == [op |-> op, t |-> u, v |-> v, n |-> turn.calls, st |-> "sent", was |-> row[u]]
  <2>1. c0 \in TokenCalls
    BY <1>0 DEF TableTyped, TokenCalls
  <2>2. calls' = calls \cup {c0}
    BY DEF Call
  <2> QED BY <2>1, <2>2
<1>2. crossed' = IF CallsOf(u) = {} THEN crossed ELSE crossed \cup {u}
  BY DEF Call
<1>3. row' = [row EXCEPT ![u] = after] /\ after \in TokenRows
  <2>1. row \in [Tokens -> TokenRows] /\ row[u] \in TokenRows
    BY <1>0 DEF TableTyped
  <2>2. /\ [row EXCEPT ![u].name = v] = [row EXCEPT ![u] = [value |-> row[u].value, name |-> v]]
        /\ [row EXCEPT ![u].value = v] = [row EXCEPT ![u] = [value |-> v, name |-> row[u].name]]
        /\ row = [row EXCEPT ![u] = row[u]]
    <3>1. row = [row EXCEPT ![u] = row[u]]
      BY <2>1
    <3>2. /\ [row[u] EXCEPT !.name = v] = [value |-> row[u].value, name |-> v]
          /\ [row[u] EXCEPT !.value = v] = [value |-> v, name |-> row[u].name]
      BY <2>1 DEF TokenRows
    <3> QED BY <3>1, <3>2, Zenon
  <2>3. after \in TokenRows
    BY <2>1 DEF TokenRows
  <2>4. CASE op = "rename"
    BY <2>2, <2>3, <2>4
  <2>5. CASE op = "replace"
    BY <2>2, <2>3, <2>5
  <2>6. CASE op \notin Edits
    BY <2>2, <2>3, <2>6 DEF Edits
  <2> QED BY <2>4, <2>5, <2>6 DEF Edits
<1>4. \A t \in Tokens \ {u} : CallsOf(t)' = CallsOf(t)
  BY <1>1, <1>2 DEF CallsOf
<1>5. TokenInv(u)'
  <2> SUFFICES ASSUME u \notin crossed' PROVE TokenInv(u)'
    BY DEF TokenInv
  <2>1. u \notin crossed /\ CallsOf(u) = {}
    BY <1>0, <1>2
  <2>2. CallsOf(u)' = {new}
    BY <1>1, <1>2, <2>1 DEF CallsOf
  <2>3. row[u] = secret[u] /\ CacheFits(u)
    BY <1>0, <2>1 DEF TokenInv
  <2>4. CacheFits(u)'
    BY <2>3 DEF CacheFits
  <2>5. row'[u] = after
    BY <1>0, <1>3 DEF TableTyped
  <2>6. row'[new.t] = after /\ secret'[new.t] = row[u] /\ CacheFits(new.t)' /\ row[u] \in TokenRows
    BY <1>0, <1>1, <2>3, <2>4, <2>5 DEF TableTyped
  <2>7. Fits(new)'
    BY <1>1, <2>6 DEF Fits, Edits
  <2> QED BY <2>2, <2>7 DEF TokenInv
<1>6. \A t \in Tokens : TokenInv(t)'
  BY <1>0, <1>2, <1>3, <1>4, <1>5, OneToken DEF TableTyped
<1> QED BY <1>0, <1>1, <1>2, <1>3, <1>6 DEF TableTyped

(* A request that edits nothing leaves the dialogs as they are. *)
LEMMA NoEdit ==
  ASSUME EditInv, UNCHANGED <<dialog, locked>>,
         \A c \in calls' : c.op \in Edits => c \in calls,
         \A c \in calls : c.op \in Edits => c \in calls'
  PROVE  EditInv'
BY DEF EditInv

(* What was copied stays as it was; that a token's requests crossed is not forgotten. *)
LEMMA SameCopies ==
  ASSUME CopiedTokenIsLive, copied' = copied, crossed \subseteq crossed'
  PROVE  CopiedTokenIsLive'
BY DEF CopiedTokenIsLive

(* Showing and copying: from the cache, or with a request. *)
LEMMA LooksInv ==
  ASSUME TableInv, NEW t \in Tokens, toggleReveal(t) \/ copyToken(t)
  PROVE  TableInv'
<1>1. TableTyped /\ EditInv /\ CopiedTokenIsLive /\ TokenInv(t)
  BY DEF TableInv
<1>2. UNCHANGED <<secret, row, revealed, dialog, locked>>
  BY DEF toggleReveal, copyToken
<1>3. CASE UNCHANGED <<calls, crossed, turn>>
  <2>1. TableTyped' /\ EditInv'
    BY <1>1, <1>2, <1>3 DEF TableTyped, EditInv
  <2>2. \A u \in Tokens : TokenInv(u)'
    BY <1>2, <1>3 DEF TableInv, TokenInv, CallsOf, CacheFits, Fits
  <2>3. CopiedTokenIsLive'
    <3>1. CASE copied' = copied
      BY <1>1, <1>3, <3>1, SameCopies
    <3>2. CASE revealed[t] # None /\ copied' = {[t |-> t, value |-> revealed[t],
                                                 now |-> secret[t].value, idle |-> CallsOf(t) = {}]}
      <4>1. t \notin crossed /\ CallsOf(t) = {} => revealed[t] = secret[t].value
        BY <1>1, <3>2 DEF TokenInv, CacheFits
      <4>2. ASSUME NEW c \in copied', c.t \notin crossed, c.idle PROVE c.value = c.now
        <5>1. c.t = t /\ c.value = revealed[t] /\ c.now = secret[t].value
          BY <3>2, <4>2
        <5>2. CallsOf(t) = {}
          <6>1. c = [t |-> t, value |-> revealed[t], now |-> secret[t].value, idle |-> CallsOf(t) = {}]
            BY <3>2, <4>2
          <6>2. c.idle = (CallsOf(t) = {})
            BY <6>1, Zenon
          <6> QED BY <4>2, <6>2
        <5> QED BY <4>1, <4>2, <5>1, <5>2
      <4> QED BY <1>3, <4>2 DEF CopiedTokenIsLive
    <3>3. \/ copied' = copied
          \/ revealed[t] # None /\ copied' = {[t |-> t, value |-> revealed[t],
                                               now |-> secret[t].value, idle |-> CallsOf(t) = {}]}
      <4>1. CASE toggleReveal(t)
        BY <4>1 DEF toggleReveal
      <4>2. CASE copyToken(t)
        BY <4>2 DEF copyToken
      <4> QED BY <4>1, <4>2
    <3> QED BY <3>1, <3>2, <3>3
  <2> QED BY <2>1, <2>2, <2>3 DEF TableInv
<1>4. ASSUME NEW op \in {"reveal", "copy"}, Call(op, t, None), Count, copied' = copied
      PROVE  TableInv'
  <2>1. None \in Nat /\ row' = CASE op = "rename"  -> [row EXCEPT ![t].name = None]
                                 [] op = "replace" -> [row EXCEPT ![t].value = None]
                                 [] OTHER          -> row
    BY <1>2 DEF None
  <2>2. /\ \A u \in Tokens : TokenInv(u)'
        /\ calls' \in SUBSET TokenCalls /\ crossed' \in SUBSET Tokens /\ crossed \subseteq crossed'
        /\ \E c \in TokenCalls : calls' = calls \cup {c} /\ c.op = op /\ c.t = t
    BY <1>2, <1>4, <2>1, CallInv
  <2>3. turn' \in [calls : Nat, value : Nat, name : Nat]
    BY <1>1, <1>4 DEF Count, TableTyped
  <2>4. TableTyped'
    BY <1>1, <1>2, <2>2, <2>3 DEF TableTyped
  <2>5. EditInv'
    BY <1>1, <1>2, <2>2, NoEdit DEF Edits
  <2> QED BY <1>1, <1>4, <2>2, <2>4, <2>5, SameCopies DEF TableInv
<1>5. CASE toggleReveal(t)
  BY <1>3, <1>4, <1>5 DEF toggleReveal
<1>6. CASE copyToken(t)
  BY <1>3, <1>4, <1>6 DEF copyToken
<1> QED BY <1>5, <1>6

(* Opening and closing the dialogs. *)
LEMMA DialogsInv ==
  ASSUME TableInv,
         CloseDialog \/ \E t \in Tokens, k \in {"rename", "replace", "regenerate"} : OpenDialog(k, t)
  PROVE  TableInv'
<1>1. TableTyped /\ EditInv /\ CopiedTokenIsLive
  BY DEF TableInv
<1>2. UNCHANGED <<secret, row, revealed, locked, calls, crossed, copied, turn>>
  BY DEF CloseDialog, OpenDialog
<1>3. ~locked
  BY <1>1 DEF CloseDialog, OpenDialog, EditInv, Shut
<1>4. dialog' \in {Shut} \cup TokenDialogs
  BY DEF CloseDialog, OpenDialog, TokenDialogs, Edits
<1>5. TableTyped' /\ EditInv'
  BY <1>1, <1>2, <1>3, <1>4 DEF TableTyped, EditInv
<1>6. \A u \in Tokens : TokenInv(u)'
  BY <1>2 DEF TableInv, TokenInv, CallsOf, CacheFits, Fits
<1> QED BY <1>1, <1>2, <1>5, <1>6, SameCopies DEF TableInv

(* A dialog is submitted: the two that edit are locked by their request. *)
LEMMA SubmitsInv ==
  ASSUME TableInv, submitRename \/ submitTokenReplace \/ confirmRegenerateToken
  PROVE  TableInv'
<1>1. TableTyped /\ EditInv /\ CopiedTokenIsLive
  BY DEF TableInv
<1>2. PICK op \in {"regenerate"} \cup Edits : /\ dialog.kind = op
                                              /\ op \in Edits => ~locked
                                              /\ locked' = (IF op \in Edits THEN TRUE ELSE locked)
  BY DEF submitRename, submitTokenReplace, confirmRegenerateToken, Edits
<1>3. dialog \in TokenDialogs /\ dialog.t \in Tokens /\ dialog = [kind |-> op, t |-> dialog.t]
  BY <1>1, <1>2 DEF TableTyped, TokenDialogs, Shut, Edits
<1>4. PICK u \in Tokens, v \in Nat : /\ u = dialog.t /\ Call(op, u, v)
                                     /\ row' = CASE op = "rename"  -> [row EXCEPT ![u].name = v]
                                                 [] op = "replace" -> [row EXCEPT ![u].value = v]
                                                 [] OTHER          -> row
  <2>1. turn.value + 1 \in Nat /\ turn.name + 1 \in Nat
    BY <1>1 DEF TableTyped
  <2>2. CASE submitRename
    BY <1>2, <1>3, <2>1, <2>2 DEF submitRename
  <2>3. CASE submitTokenReplace
    BY <1>2, <1>3, <2>1, <2>3 DEF submitTokenReplace
  <2>4. CASE confirmRegenerateToken
    BY <1>2, <1>3, <2>1, <2>4 DEF confirmRegenerateToken
  <2> QED BY <2>2, <2>3, <2>4
<1>5. UNCHANGED <<secret, revealed, dialog, copied>>
  BY DEF submitRename, submitTokenReplace, confirmRegenerateToken
<1>6. /\ \A t \in Tokens : TokenInv(t)'
      /\ calls' \in SUBSET TokenCalls /\ crossed' \in SUBSET Tokens /\ crossed \subseteq crossed'
      /\ row' \in [Tokens -> TokenRows]
      /\ \E c \in TokenCalls : calls' = calls \cup {c} /\ c.op = op /\ c.t = u
  BY <1>4, <1>5, CallInv
<1>7. turn' \in [calls : Nat, value : Nat, name : Nat]
  <2>1. turn \in [calls : Nat, value : Nat, name : Nat]
    BY <1>1 DEF TableTyped
  <2>2. \/ turn' = [turn EXCEPT !.calls = @ + 1, !.name = @ + 1]
        \/ turn' = [turn EXCEPT !.calls = @ + 1, !.value = @ + 1]
    BY DEF submitRename, submitTokenReplace, confirmRegenerateToken
  <2>3. turn.calls + 1 \in Nat /\ turn.value + 1 \in Nat /\ turn.name + 1 \in Nat
    BY <2>1
  <2>4. CASE turn' = [turn EXCEPT !.calls = @ + 1, !.name = @ + 1]
    BY <2>1, <2>3, <2>4
  <2>5. CASE turn' = [turn EXCEPT !.calls = @ + 1, !.value = @ + 1]
    BY <2>1, <2>3, <2>5
  <2> QED BY <2>2, <2>4, <2>5
<1>8. TableTyped'
  BY <1>1, <1>5, <1>6, <1>7 DEF TableTyped
<1>9. EditInv'
  <2>1. CASE op \in Edits
    BY <1>1, <1>2, <1>3, <1>4, <1>5, <1>6, <2>1 DEF EditInv
  <2>2. CASE op \notin Edits
    BY <1>1, <1>2, <1>5, <1>6, <2>2, NoEdit
  <2> QED BY <2>1, <2>2
<1> QED BY <1>1, <1>5, <1>6, <1>8, <1>9, SameCopies DEF TableInv

(* The server has done what a request asks, or not, and says so, or not. *)
LEMMA CallServedInv ==
  ASSUME TableInv, NEW c \in calls, CallServed(c)
  PROVE  TableInv'
<1> DEFINE u == c.t
<1>1. TableTyped /\ EditInv /\ CopiedTokenIsLive /\ c \in TokenCalls /\ u \in Tokens /\ TokenInv(u)
  BY DEF TableInv, TableTyped, TokenCalls
<1>2. c.st = "sent" /\ UNCHANGED <<row, revealed, dialog, locked, copied, turn>>
  BY DEF CallServed
<1>3. PICK ok \in BOOLEAN, written \in BOOLEAN :
        /\ ok => written
        /\ secret' = IF written THEN [secret EXCEPT ![u] = Applied(c)] ELSE secret
        /\ calls' = (calls \ {c}) \cup
             {[c EXCEPT !.st = IF ok THEN "ok" ELSE "failed",
                        !.v = IF c.op \in {"reveal", "copy"} THEN secret[u].value ELSE @]}
        /\ crossed' = IF secret' # secret /\ ~ok THEN crossed \cup {u} ELSE crossed
  BY DEF CallServed
<1>4. secret[u] \in TokenRows /\ row[u] \in TokenRows
  BY <1>1 DEF TableTyped
<1>5. PICK d \in TokenCalls :
        /\ d.op = c.op /\ d.t = u /\ d.was = c.was /\ d.st = IF ok THEN "ok" ELSE "failed"
        /\ d.v = IF c.op \in {"reveal", "copy"} THEN secret[u].value ELSE c.v
        /\ calls' = (calls \ {c}) \cup {d}
  <2> DEFINE st == IF ok THEN "ok" ELSE "failed"
             v == IF c.op \in {"reveal", "copy"} THEN secret[u].value ELSE c.v
             d0 == [c EXCEPT !.st = st, !.v = v]
  <2>1. st \in {"sent", "ok", "failed"} /\ v \in Nat
    BY <1>1, <1>4 DEF TokenCalls, TokenRows
  <2>2. calls' = (calls \ {c}) \cup {d0}
    BY <1>3
  <2> HIDE DEF st, v
  <2>3. d0 \in TokenCalls /\ d0.op = c.op /\ d0.t = u /\ d0.was = c.was /\ d0.st = st /\ d0.v = v
    BY <1>1, <2>1 DEF TokenCalls
  <2> QED BY <2>2, <2>3 DEF st, v
<1>6. Applied(c) \in TokenRows
  BY <1>1, <1>4 DEF Applied, TokenCalls, TokenRows
<1>7. TableTyped'
  <2>1. secret' \in [Tokens -> TokenRows]
    BY <1>1, <1>3, <1>6 DEF TableTyped
  <2> QED BY <1>1, <1>2, <1>3, <1>5, <2>1 DEF TableTyped
<1>8. EditInv'
  BY <1>1, <1>2, <1>5 DEF EditInv
<1>9. crossed \subseteq crossed'
  BY <1>3
<1>10. TokenInv(u)'
  <2> SUFFICES ASSUME u \notin crossed' PROVE TokenInv(u)'
    BY DEF TokenInv
  <2>1. u \notin crossed /\ Fits(c) /\ \A e \in CallsOf(u) : e = c
    BY <1>1, <1>9 DEF TokenInv, CallsOf
  <2>2. CallsOf(u)' = {d}
    BY <1>5, <2>1 DEF CallsOf
  <2>3. secret'[u] = IF ok THEN Applied(c) ELSE secret[u]
    BY <1>1, <1>3 DEF TableTyped
  <2>4. row'[u] = row[u] /\ revealed'[u] = revealed[u]
    BY <1>2
  <2>5. CacheFits(u)' <=> revealed[u] \in {None, secret'[u].value}
    BY <2>4 DEF CacheFits
  <2>6. Fits(d)'
    <3>0. c.op \in {"reveal", "copy", "rename", "replace", "regenerate"}
      BY <1>1 DEF TokenCalls, Edits
    <3>1. CASE ~ok
      BY <1>2, <1>5, <2>1, <2>3, <2>4, <2>5, <3>1 DEF Fits, CacheFits
    <3>2. CASE ok /\ c.op \in {"reveal", "copy"}
      BY <1>2, <1>5, <2>1, <2>3, <2>4, <2>5, <3>2 DEF Fits, CacheFits, Applied
    <3>3. CASE ok /\ c.op = "rename"
      <4>1. Applied(c) = [value |-> secret[u].value, name |-> c.v]
        BY <1>4, <3>3 DEF Applied, TokenRows
      <4> QED BY <1>2, <1>5, <2>1, <2>3, <2>4, <2>5, <3>3, <4>1 DEF Fits, CacheFits
    <3>4. CASE ok /\ c.op = "replace"
      BY <1>2, <1>5, <2>1, <2>3, <2>4, <2>5, <3>4 DEF Fits, Applied
    <3>5. CASE ok /\ c.op = "regenerate"
      <4>1. Applied(c) = [value |-> c.v, name |-> secret[u].name]
        BY <1>4, <3>5 DEF Applied, TokenRows
      <4> QED BY <1>2, <1>5, <2>1, <2>3, <2>4, <2>5, <3>5, <4>1 DEF Fits, CacheFits
    <3> QED BY <3>0, <3>1, <3>2, <3>3, <3>4, <3>5
  <2> QED BY <2>2, <2>6 DEF TokenInv
<1>11. \A t \in Tokens : TokenInv(t)'
  <2>1. \A t \in Tokens \ {u} : secret'[t] = secret[t]
    BY <1>1, <1>3 DEF TableTyped
  <2>2. \A t \in Tokens \ {u} : CallsOf(t)' = CallsOf(t)
    BY <1>5 DEF CallsOf
  <2> QED BY <1>1, <1>2, <1>9, <1>10, <2>1, <2>2, OneToken
<1> QED BY <1>1, <1>2, <1>7, <1>8, <1>9, <1>11, SameCopies DEF TableInv

(* The answer to a token's only request leaves its row as the server's. *)
LEMMA Answered ==
  ASSUME TableInv, NEW c \in calls, calls' = calls \ {c}, UNCHANGED <<secret, crossed>>,
         \A t \in Tokens \ {c.t} : row'[t] = row[t] /\ revealed'[t] = revealed[t],
         Fits(c) => row'[c.t] = secret[c.t] /\ revealed'[c.t] \in {None, secret[c.t].value}
  PROVE  \A t \in Tokens : TokenInv(t)'
<1>1. c.t \in Tokens /\ TokenInv(c.t)
  BY DEF TableInv, TableTyped, TokenCalls
<1>2. \A t \in Tokens \ {c.t} : CallsOf(t)' = CallsOf(t)
  BY DEF CallsOf
<1>3. TokenInv(c.t)'
  <2> SUFFICES ASSUME c.t \notin crossed PROVE TokenInv(c.t)'
    BY DEF TokenInv
  <2>1. Fits(c) /\ \A e \in CallsOf(c.t) : e = c
    BY <1>1 DEF TokenInv, CallsOf
  <2>2. CallsOf(c.t)' = {}
    BY <2>1 DEF CallsOf
  <2> QED BY <2>1, <2>2 DEF TokenInv, CacheFits
<1> QED BY <1>1, <1>2, <1>3, OneToken

(* Every answer keeps the invariant. *)
LEMMA AnswersInv ==
  ASSUME TableInv, NEW c \in calls,
         RevealAnswered(c) \/ RenameAnswered(c) \/ ReplaceAnswered(c)
         \/ RegenerateAnswered(c) \/ CallFailed(c)
  PROVE  TableInv'
<1> DEFINE u == c.t
<1>1. TableTyped /\ EditInv /\ CopiedTokenIsLive /\ c \in TokenCalls /\ u \in Tokens /\ TokenInv(u)
      /\ row[u] \in TokenRows
  BY DEF TableInv, TableTyped, TokenCalls
<1>2. calls' = calls \ {c} /\ UNCHANGED <<secret, crossed, turn>>
  BY DEF RevealAnswered, RenameAnswered, ReplaceAnswered, RegenerateAnswered, CallFailed
<1>3. c.op \in {"reveal", "copy", "rename", "replace", "regenerate"} /\ c.v \in Nat /\ c.was \in TokenRows
  BY <1>1 DEF TokenCalls, Edits
<1>4. PICK r \in TokenRows, x \in Nat :
        /\ row' = [row EXCEPT ![u] = r] /\ revealed' = [revealed EXCEPT ![u] = x]
        /\ Fits(c) => r = secret[u] /\ x \in {None, secret[u].value}
  <2>1. row = [row EXCEPT ![u] = row[u]] /\ revealed = [revealed EXCEPT ![u] = revealed[u]]
        /\ revealed[u] \in Nat
    BY <1>1 DEF TableTyped
  <2>2. CASE RevealAnswered(c)
    <3>1. Fits(c) => row[u] = secret[u] /\ c.v = secret[u].value
      BY <2>2 DEF RevealAnswered, Fits
    <3> QED BY <1>1, <1>3, <2>1, <2>2, <3>1 DEF RevealAnswered
  <2>3. CASE RenameAnswered(c)
    <3>1. Fits(c) => row[u] = secret[u] /\ revealed[u] \in {None, secret[u].value}
      BY <2>3 DEF RenameAnswered, Fits, CacheFits
    <3> QED BY <1>1, <2>1, <2>3, <3>1 DEF RenameAnswered
  <2>4. CASE ReplaceAnswered(c)
    <3> DEFINE r0 == [value |-> c.v, name |-> c.was.name]
    <3>1. Fits(c) => r0 = secret[u]
      BY <2>4 DEF ReplaceAnswered, Fits
    <3>2. r0 \in TokenRows /\ None \in Nat
      BY <1>3 DEF TokenRows, None
    <3> QED BY <2>4, <3>1, <3>2 DEF ReplaceAnswered
  <2>5. CASE RegenerateAnswered(c)
    <3> DEFINE r0 == [value |-> c.v, name |-> row[u].name]
    <3>1. Fits(c) => r0 = secret[u]
      BY <2>5 DEF RegenerateAnswered, Fits
    <3>2. r0 \in TokenRows /\ r0.value = c.v
      BY <1>1, <1>3 DEF TokenRows
    <3>3. row' = [row EXCEPT ![u] = r0]
      <4>1. [row[u] EXCEPT !.value = c.v] = r0
        BY <1>1 DEF TokenRows
      <4> QED BY <2>5, <4>1, Zenon DEF RegenerateAnswered
    <3>4. Fits(c) => c.v \in {None, secret[u].value}
      BY <3>1, <3>2
    <3> QED BY <1>3, <2>5, <3>1, <3>2, <3>3, <3>4 DEF RegenerateAnswered
  <2>6. CASE CallFailed(c) /\ c.op = "rename"
    <3> DEFINE r0 == [value |-> row[u].value, name |-> c.was.name]
    <3>1. Fits(c) => r0 = secret[u] /\ revealed[u] \in {None, secret[u].value}
      <4>1. c.was = [value |-> c.was.value, name |-> c.was.name]
        BY <1>3 DEF TokenRows
      <4> QED BY <2>6, <4>1 DEF CallFailed, Fits, CacheFits
    <3>2. r0 \in TokenRows
      BY <1>1, <1>3 DEF TokenRows
    <3>3. row' = [row EXCEPT ![u] = r0]
      <4>1. [row[u] EXCEPT !.name = c.was.name] = r0
        BY <1>1 DEF TokenRows
      <4> QED BY <2>6, <4>1, Zenon DEF CallFailed
    <3> QED BY <2>1, <2>6, <3>1, <3>2, <3>3 DEF CallFailed
  <2>7. CASE CallFailed(c) /\ c.op = "replace"
    <3>1. Fits(c) => c.was = secret[u] /\ revealed[u] \in {None, secret[u].value}
      BY <2>7 DEF CallFailed, Fits, CacheFits
    <3> QED BY <1>3, <2>1, <2>7, <3>1 DEF CallFailed
  <2>8. CASE CallFailed(c) /\ c.op \notin Edits
    <3>1. Fits(c) => row[u] = secret[u] /\ revealed[u] \in {None, secret[u].value}
      BY <1>3, <2>8 DEF CallFailed, Fits, CacheFits, Edits
    <3> QED BY <1>1, <2>1, <2>8, <3>1 DEF CallFailed, Edits
  <2> QED BY <2>2, <2>3, <2>4, <2>5, <2>6, <2>7, <2>8 DEF Edits
<1>5. dialog' \in {Shut} \cup TokenDialogs
  BY <1>1 DEF RevealAnswered, RenameAnswered, ReplaceAnswered, RegenerateAnswered, CallFailed,
     TableTyped
<1>6. TableTyped'
  BY <1>1, <1>2, <1>4, <1>5 DEF TableTyped
<1>7. \A t \in Tokens : TokenInv(t)'
  <2>1. \A t \in Tokens \ {u} : row'[t] = row[t] /\ revealed'[t] = revealed[t]
    BY <1>1, <1>4 DEF TableTyped
  <2>2. row'[u] = r /\ revealed'[u] = x
    BY <1>1, <1>4 DEF TableTyped
  <2> QED BY <1>2, <1>4, <2>1, <2>2, Answered
<1>8. EditInv'
  <2>1. CASE c.op \in Edits
    <3>1. locked' = FALSE /\ \A d \in calls' : d.op \notin Edits
      BY <1>1, <1>2, <2>1 DEF EditInv, Edits, RevealAnswered, RenameAnswered, ReplaceAnswered,
         RegenerateAnswered, CallFailed
    <3> QED BY <3>1 DEF EditInv
  <2>2. CASE c.op \notin Edits
    <3>1. locked' = locked
      BY <2>2 DEF Edits, RevealAnswered, RenameAnswered, ReplaceAnswered, RegenerateAnswered, CallFailed
    <3>2. \A d \in calls : d.op \in Edits => dialog' = dialog
      BY <1>1, <2>2 DEF EditInv, Edits, RevealAnswered, RenameAnswered, ReplaceAnswered,
         RegenerateAnswered, CallFailed
    <3> QED BY <1>1, <1>2, <2>2, <3>1, <3>2 DEF EditInv
  <2> QED BY <2>1, <2>2
<1>9. CopiedTokenIsLive'
  <2>1. CASE RevealAnswered(c) /\ c.op = "copy"
    <3>1. copied' = {[t |-> c.t, value |-> c.v, now |-> secret[c.t].value, idle |-> CallsOf(c.t) = {c}]}
      BY <2>1 DEF RevealAnswered
    <3>2. u \notin crossed => c.v = secret[u].value
      BY <1>1, <2>1 DEF RevealAnswered, TokenInv, CallsOf, Fits
    <3> QED BY <1>2, <3>1, <3>2 DEF CopiedTokenIsLive
  <2>2. CASE ~(RevealAnswered(c) /\ c.op = "copy")
    <3>1. copied' = copied
      BY <2>2 DEF RevealAnswered, RenameAnswered, ReplaceAnswered, RegenerateAnswered, CallFailed
    <3> QED BY <1>1, <1>2, <3>1, SameCopies
  <2> QED BY <2>1, <2>2
<1> QED BY <1>6, <1>7, <1>8, <1>9 DEF TableInv

(* Every step of the table keeps its invariant. *)
LEMMA TableInvStep == TableInv /\ [TableNext]_tokenVars => TableInv'
<1> SUFFICES ASSUME TableInv, [TableNext]_tokenVars PROVE TableInv'
  OBVIOUS
<1>1. CASE UNCHANGED tokenVars
  <2>1. TableTyped' /\ EditInv' /\ CopiedTokenIsLive'
    BY <1>1 DEF tokenVars, TableInv, TableTyped, EditInv, CopiedTokenIsLive
  <2>2. \A t \in Tokens : TokenInv(t)'
    BY <1>1 DEF tokenVars, TableInv, TokenInv, CallsOf, CacheFits, Fits
  <2> QED BY <2>1, <2>2 DEF TableInv
<1>2. CASE TableNext
  BY <1>2, LooksInv, DialogsInv, SubmitsInv, CallServedInv, AnswersInv DEF TableNext
<1> QED BY <1>1, <1>2

(* The inductive invariant of the token table (SettingsPage.tsx): what the only request of
   a token has done to row, cache and server, and who holds a locked dialog. *)
THEOREM TableInvHolds == TableSpec => []TableInv
BY TableInvInit, TableInvStep, PTL DEF TableSpec

(* However reveals, copies, renamings, replacements and regenerations of any number of
   tokens overlap: rows, cache and clipboard hold the token that is valid, and a locked
   dialog is unlocked again (SettingsPage.tsx). *)
THEOREM TokensAgreeHolds == TableSpec => []TokensAgree
<1>1. TableInv => TokensAgree
  <2> SUFFICES ASSUME TableInv PROVE TokensAgree
    OBVIOUS
  <2>1. CachedTokenIsLive /\ CopiedTokenIsLive
    BY DEF TableInv, TokenInv, CachedTokenIsLive, CacheFits
  <2>2. DialogNotStuck
    BY DEF TableInv, EditInv, Edits, DialogNotStuck, Shut
  <2> QED BY <2>1, <2>2 DEF TokensAgree
<1> QED BY <1>1, TableInvHolds, PTL

-----------------------------------------------------------------------------
(* The notification settings *)

Links == Urls \cup {BadUrl}
Robots == [enabled : BOOLEAN, url : Links, mentions : BOOLEAN]
Subs == [subscribed : BOOLEAN, body : Bodies \cup {BadUrl}]
Notes == [robot : Robots, sub : Subs, days : Nat]
NotePuts ==
  [kind : Kinds, seq : Nat, by : {"form", "test", "subscribed", "body", "input"},
   st : {"sent", "ok", "failed"}, next : Notes, prev : Notes]
Tests == [st : {"none", "presave", "posted", "done"}, seen : Links, with : Links, quiet : BOOLEAN]

NotesTyped ==
  /\ server \in Notes /\ screen \in Notes
  /\ urlDraft \in Links
  /\ text \in Bodies
  /\ robotBusy \in BOOLEAN
  /\ rowField \in {"none", "subscribed", "body"}
  /\ commitSeq \in [Kinds -> Nat]
  /\ puts \in SUBSET NotePuts
  /\ test \in Tests
  /\ muddled \in SUBSET Kinds

\* The commits whose value is shown before the answer.
AtOnce(p) == p.by \in {"form", "input"}

\* What the only commit of its kind has done to the server and the section.
PutFits(p) ==
  /\ Latest(p)
  /\ server[p.kind] = IF p.st = "ok" THEN p.next[p.kind] ELSE p.prev[p.kind]
  /\ screen[p.kind] = IF AtOnce(p) THEN p.next[p.kind] ELSE p.prev[p.kind]

\* A kind whose commits never overlapped has one at most, and the section and
\* the server hold what that one leaves.
KindInv(k) ==
  k \notin muddled =>
    /\ \A p, q \in PutsOf(k) : p = q
    /\ PutsOf(k) = {} => screen[k] = server[k]
    /\ \A p \in PutsOf(k) : PutFits(p)

\* A control is disabled by the newest commit, which is in flight.
FlagsInv ==
  /\ robotBusy => \E p \in PutsOf("robot") : Latest(p)
  /\ rowField # "none" => \E p \in PutsOf("sub") : Latest(p) /\ p.by = rowField

TestPuts == {p \in puts : p.by = "test"}

\* A test that waits for its commit waits for one, of the URL it was asked for;
\* once it is on its way the server has that URL, if nothing else is under way.
TestInv ==
  /\ test.st = "presave" <=> TestPuts # {}
  /\ \A p \in TestPuts : p.kind = "robot"
  /\ \A p, q \in TestPuts : p = q
  /\ \A p \in puts : p.kind = "sub" => ~AtOnce(p)
  /\ test.st # "done" => test.with = BadUrl
  /\ test.quiet /\ "robot" \notin muddled =>
       /\ \A p \in TestPuts : p.next.robot.url = test.seen
       /\ test.st = "posted" => PutsOf("robot") = {} /\ server.robot.url = test.seen
       /\ test.with \in {BadUrl, test.seen}

NotesInv ==
  /\ NotesTyped
  /\ \A k \in Kinds : KindInv(k)
  /\ FlagsInv
  /\ TestInv

(* One kind of settings is replaced, the others stay. *)
LEMMA NoteChanged ==
  ASSUME NEW r \in Notes, NEW s \in Notes, NEW k \in Kinds
  PROVE  /\ [r EXCEPT ![k] = s[k]] \in Notes
         /\ [r EXCEPT ![k] = s[k]][k] = s[k]
         /\ \A j \in Kinds \ {k} : [r EXCEPT ![k] = s[k]][j] = r[j]
<1>1. CASE k = "robot"
  BY <1>1 DEF Notes, Kinds
<1>2. CASE k = "sub"
  BY <1>2 DEF Notes, Kinds
<1>3. CASE k = "days"
  BY <1>3 DEF Notes, Kinds
<1> QED BY <1>1, <1>2, <1>3 DEF Kinds

(* What a commit sends and what it goes back to are settings of its kind. *)
LEMMA OnlyNotes ==
  ASSUME NEW k \in Kinds, NEW v, k = "robot" => v \in Robots, k = "sub" => v \in Subs,
         k = "days" => v \in Nat
  PROVE  Only(k, v) \in Notes /\ Only(k, v)[k] = v
<1> DEFINE base == [robot |-> [enabled |-> FALSE, url |-> BadUrl, mentions |-> FALSE],
                    sub |-> [subscribed |-> FALSE, body |-> BadUrl], days |-> 0]
<1>0. base \in Notes
  <2>1. [enabled |-> FALSE, url |-> BadUrl, mentions |-> FALSE] \in Robots
    BY DEF Robots, Links
  <2>2. [subscribed |-> FALSE, body |-> BadUrl] \in Subs
    BY DEF Subs
  <2> QED BY <2>1, <2>2 DEF Notes
<1>1. Only(k, v) = [base EXCEPT ![k] = v]
  BY DEF Only
<1> HIDE DEF base
<1>2. CASE k = "robot"
  BY <1>0, <1>1, <1>2 DEF Notes
<1>3. CASE k = "sub"
  BY <1>0, <1>1, <1>3 DEF Notes
<1>4. CASE k = "days"
  BY <1>0, <1>1, <1>4 DEF Notes
<1> QED BY <1>2, <1>3, <1>4 DEF Kinds

(* The invariant holds before anything is committed. *)
LEMMA NotesInvInit == NotesInit => NotesInv
<1> SUFFICES ASSUME NotesInit PROVE NotesInv
  OBVIOUS
<1>1. PICK u \in Urls, b \in Bodies, on \in BOOLEAN :
        server = [robot |-> [enabled |-> on, url |-> u, mentions |-> FALSE],
                  sub   |-> [subscribed |-> on, body |-> b],
                  days  |-> 1]
  BY DEF NotesInit
<1>2. server \in Notes /\ server.robot.url = u /\ server.sub.body = b
  <2>1. [enabled |-> on, url |-> u, mentions |-> FALSE] \in Robots
    BY DEF Robots, Links
  <2>2. [subscribed |-> on, body |-> b] \in Subs
    BY DEF Subs
  <2> QED BY <1>1, <2>1, <2>2 DEF Notes
<1>3. NotesTyped
  <2>1. test \in Tests
    BY DEF NotesInit, NoTest, Tests, Links
  <2> QED BY <1>2, <2>1 DEF NotesInit, NotesTyped, Links
<1>4. FlagsInv /\ \A k \in Kinds : KindInv(k)
  BY DEF NotesInit, FlagsInv, KindInv, PutsOf
<1>5. TestInv
  BY DEF NotesInit, NoTest, TestInv, TestPuts
<1> QED BY <1>3, <1>4, <1>5 DEF NotesInv

(* A kind that a step does not touch stays as it is. *)
LEMMA OtherKind ==
  ASSUME NEW k \in Kinds, KindInv(k), PutsOf(k)' = PutsOf(k), server'[k] = server[k],
         screen'[k] = screen[k], commitSeq'[k] = commitSeq[k], k \in muddled => k \in muddled'
  PROVE  KindInv(k)'
<1>1. \A p \in PutsOf(k) : p.kind = k
  BY DEF PutsOf
<1>2. \A p \in PutsOf(k) : PutFits(p) => PutFits(p)'
  BY <1>1 DEF PutFits, Latest, AtOnce
<1> QED BY <1>2 DEF KindInv

\* A commit p begins.
Begun(p) ==
  /\ p \in NotePuts /\ p.st = "sent" /\ p.seq = commitSeq[p.kind] + 1
  /\ p.prev[p.kind] = screen[p.kind]
  /\ p.kind = "sub" => ~AtOnce(p)
  /\ commitSeq' = [commitSeq EXCEPT ![p.kind] = @ + 1]
  /\ puts' = puts \cup {p}
  /\ muddled' = IF PutsOf(p.kind) # {} THEN muddled \cup {p.kind} ELSE muddled
  /\ screen' = IF AtOnce(p) THEN [screen EXCEPT ![p.kind] = p.next[p.kind]] ELSE screen
  /\ server' = server

(* A commit of a kind that has none under way fits; the others are not touched. *)
LEMMA BegunKinds ==
  ASSUME NotesInv, NEW p, Begun(p) PROVE \A k \in Kinds : KindInv(k)'
<1>1. p \in NotePuts /\ p.kind \in Kinds /\ p.next \in Notes /\ screen \in Notes
      /\ commitSeq \in [Kinds -> Nat] /\ commitSeq'[p.kind] = p.seq
      /\ \A k \in Kinds \ {p.kind} : commitSeq'[k] = commitSeq[k]
  BY DEF Begun, NotePuts, NotesInv, NotesTyped
<1>2. \A k \in Kinds \ {p.kind} : KindInv(k)'
  <2> TAKE k \in Kinds \ {p.kind}
  <2>1. PutsOf(k)' = PutsOf(k)
    BY DEF Begun, PutsOf
  <2>2. screen'[k] = screen[k]
    BY <1>1, NoteChanged DEF Begun
  <2> QED BY <1>1, <2>1, <2>2, OtherKind DEF Begun, NotesInv
<1>3. KindInv(p.kind)'
  <2> SUFFICES ASSUME p.kind \notin muddled' PROVE KindInv(p.kind)'
    BY DEF KindInv
  <2>1. PutsOf(p.kind) = {} /\ p.kind \notin muddled
    BY <1>1 DEF Begun
  <2>2. screen[p.kind] = server[p.kind]
    BY <1>1, <2>1 DEF NotesInv, KindInv
  <2>3. PutsOf(p.kind)' = {p}
    BY <2>1 DEF Begun, PutsOf
  <2>4. Latest(p)'
    BY <1>1 DEF Latest
  <2>5. screen'[p.kind] = IF AtOnce(p) THEN p.next[p.kind] ELSE p.prev[p.kind]
    <3>1. CASE AtOnce(p)
      <4>1. screen' = [screen EXCEPT ![p.kind] = p.next[p.kind]]
        BY <3>1 DEF Begun
      <4>0. [screen EXCEPT ![p.kind] = p.next[p.kind]][p.kind] = p.next[p.kind]
        BY <1>1 DEF Notes, Kinds
      <4>2. screen'[p.kind] = p.next[p.kind]
        BY <4>0, <4>1, Zenon
      <4> QED BY <3>1, <4>2
    <3>2. CASE ~AtOnce(p)
      BY <3>2 DEF Begun
    <3> QED BY <3>1, <3>2
  <2>6. PutFits(p)'
    BY <2>2, <2>4, <2>5 DEF PutFits, Begun, AtOnce
  <2> QED BY <2>3, <2>6 DEF KindInv
<1> QED BY <1>2, <1>3

(* What Put does, as a commit that begins. *)
LEMMA PutBegun ==
  ASSUME NotesInv, NEW k \in Kinds, NEW next, NEW by \in {"form", "test", "subscribed", "body", "input"},
         k = "robot" => next \in Robots, k = "sub" => next \in Subs, k = "days" => next \in Nat,
         Put(k, next, by), server' = server, k = "sub" => by \in {"subscribed", "body"},
         screen' = IF by \in {"form", "input"} THEN [screen EXCEPT ![k] = next] ELSE screen
  PROVE  \E p : Begun(p) /\ p.kind = k /\ p.by = by /\ p.next[k] = next
<1> DEFINE p == [kind |-> k, seq |-> commitSeq[k] + 1, by |-> by, st |-> "sent",
                 next |-> Only(k, next), prev |-> Only(k, screen[k])]
<1>1. k = "robot" => screen[k] \in Robots
  BY DEF NotesInv, NotesTyped, Notes
<1>2. k = "sub" => screen[k] \in Subs
  BY DEF NotesInv, NotesTyped, Notes
<1>3. k = "days" => screen[k] \in Nat
  BY DEF NotesInv, NotesTyped, Notes
<1>4. Only(k, next) \in Notes /\ Only(k, next)[k] = next
  BY OnlyNotes
<1>5. Only(k, screen[k]) \in Notes /\ Only(k, screen[k])[k] = screen[k]
  BY <1>1, <1>2, <1>3, OnlyNotes
<1>6. commitSeq[k] + 1 \in Nat
  BY DEF NotesInv, NotesTyped
<1>7. p \in NotePuts
  BY <1>4, <1>5, <1>6 DEF NotePuts
<1>8. Begun(p)
  <2>1. puts' = puts \cup {p} /\ commitSeq' = [commitSeq EXCEPT ![k] = @ + 1]
        /\ muddled' = IF PutsOf(k) # {} THEN muddled \cup {k} ELSE muddled
    BY DEF Put
  <2>2. p.kind = k /\ p.by = by /\ p.st = "sent" /\ p.seq = commitSeq[k] + 1
        /\ p.next = Only(k, next) /\ p.prev = Only(k, screen[k])
    OBVIOUS
  <2> HIDE DEF p
  <2> QED BY <1>4, <1>5, <1>7, <2>1, <2>2 DEF Begun, AtOnce
<1> QED BY <1>4, <1>8

(* A commit disables its control until it is answered. *)
LEMMA BegunFlags ==
  ASSUME NotesInv, NEW p, Begun(p), robotBusy' = (robotBusy \/ p.kind = "robot"),
         rowField' = IF p.kind = "sub" THEN p.by ELSE rowField
  PROVE  FlagsInv'
<1>1. commitSeq'[p.kind] = p.seq /\ p \in puts' /\ puts \subseteq puts'
      /\ \A k \in Kinds \ {p.kind} : commitSeq'[k] = commitSeq[k]
  BY DEF Begun, NotePuts, NotesInv, NotesTyped
<1>2. robotBusy' => \E q \in PutsOf("robot")' : Latest(q)'
  <2>1. CASE p.kind = "robot"
    BY <1>1, <2>1 DEF PutsOf, Latest
  <2>2. CASE p.kind # "robot"
    BY <1>1, <2>2 DEF PutsOf, Latest, NotesInv, FlagsInv, Kinds
  <2> QED BY <2>1, <2>2
<1>3. rowField' # "none" => \E q \in PutsOf("sub")' : Latest(q)' /\ q.by = rowField'
  <2>1. CASE p.kind = "sub"
    BY <1>1, <2>1 DEF PutsOf, Latest
  <2>2. CASE p.kind # "sub"
    BY <1>1, <2>2 DEF PutsOf, Latest, NotesInv, FlagsInv, Kinds
  <2> QED BY <2>1, <2>2
<1> QED BY <1>2, <1>3 DEF FlagsInv

(* A commit from the form is not the test's, and spoils one that is under way. *)
LEMMA BegunTest ==
  ASSUME NotesInv, NEW p, Begun(p), p.by # "test",
         IF p.kind = "robot"
         THEN test' = [test EXCEPT !.quiet = @ /\ test.st \in {"none", "done"}]
         ELSE test' = test
  PROVE  TestInv' /\ test' \in Tests
<1>1. test \in Tests /\ TestInv
  BY DEF NotesInv, NotesTyped
<1>2. TestPuts' = TestPuts /\ puts' = puts \cup {p} /\ muddled \subseteq muddled' /\ server' = server
  BY DEF Begun, TestPuts
<1>3. /\ test' \in Tests /\ test'.st = test.st /\ test'.with = test.with /\ test'.seen = test.seen
      /\ test'.quiet => test.quiet /\ (p.kind = "robot" => test.st \in {"none", "done"})
  <2>1. CASE p.kind = "robot"
    BY <1>1, <2>1 DEF Tests
  <2>2. CASE p.kind # "robot"
    BY <1>1, <2>2
  <2> QED BY <2>1, <2>2
<1>4. p.kind # "robot" => PutsOf("robot")' = PutsOf("robot")
  BY <1>2 DEF PutsOf
<1>5. \A q \in puts' : q.kind = "sub" => ~AtOnce(q)
  BY <1>1, <1>2 DEF TestInv, Begun
<1> QED BY <1>1, <1>2, <1>3, <1>4, <1>5 DEF TestInv

(* What a commit that begins leaves typed. *)
LEMMA BegunTyped ==
  ASSUME NotesInv, NEW p, Begun(p)
  PROVE  /\ server' \in Notes /\ screen' \in Notes /\ commitSeq' \in [Kinds -> Nat]
         /\ puts' \in SUBSET NotePuts /\ muddled' \in SUBSET Kinds
<1>1. p \in NotePuts /\ p.kind \in Kinds /\ p.next \in Notes /\ NotesTyped
  BY DEF Begun, NotePuts, NotesInv
<1>2. screen' \in Notes
  <2>1. [screen EXCEPT ![p.kind] = p.next[p.kind]] \in Notes
    BY <1>1, NoteChanged DEF NotesTyped
  <2> QED BY <1>1, <2>1 DEF Begun, NotesTyped
<1> QED BY <1>1, <1>2 DEF Begun, NotesTyped

(* The switch, the URL and the mentions. *)
LEMMA CommitRobotInv ==
  ASSUME NotesInv, NEW next \in Robots, CommitRobot(next), urlDraft' \in Links
  PROVE  NotesInv'
<1>1. [screen EXCEPT !.robot = next] = [screen EXCEPT !["robot"] = next]
  OBVIOUS
<1>2. PICK p : Begun(p) /\ p.kind = "robot" /\ p.by = "form" /\ p.next["robot"] = next
  BY <1>1, PutBegun DEF CommitRobot, Kinds
<1>3. robotBusy' = TRUE /\ rowField' = rowField /\ text' = text
      /\ test' = [test EXCEPT !.quiet = @ /\ test.st \in {"none", "done"}]
  BY DEF CommitRobot
<1>4. FlagsInv'
  BY <1>2, <1>3, BegunFlags
<1>5. TestInv' /\ test' \in Tests
  BY <1>2, <1>3, BegunTest
<1>6. NotesTyped'
  BY <1>2, <1>3, <1>5, BegunTyped DEF NotesInv, NotesTyped
<1> QED BY <1>2, <1>4, <1>5, <1>6, BegunKinds DEF NotesInv

(* What the user types or switches at the robot. *)
LEMMA RobotInv ==
  ASSUME NotesInv, (\E u \in Links : EnterUrl(u)) \/ ToggleRobot \/ ToggleMention
  PROVE  NotesInv'
<1>0. screen.robot \in Robots /\ urlDraft \in Links
  BY DEF NotesInv, NotesTyped, Notes
<1>1. ASSUME NEW u \in Links, EnterUrl(u) PROVE NotesInv'
  <2>1. CASE u = screen.robot.url
    <3>1. UNCHANGED <<server, screen, text, robotBusy, rowField, commitSeq, puts, test, muddled>>
          /\ urlDraft' = u
      BY <1>1, <2>1 DEF EnterUrl
    <3> QED
      BY <3>1 DEF NotesInv, NotesTyped, KindInv, PutsOf, PutFits, Latest, FlagsInv, TestInv, TestPuts
  <2>2. CASE u # screen.robot.url
    <3>1. [screen.robot EXCEPT !.url = u] \in Robots
      BY <1>0 DEF Robots
    <3> QED BY <1>1, <2>2, <3>1, CommitRobotInv DEF EnterUrl
  <2> QED BY <2>1, <2>2
<1>2. CASE ToggleRobot
  <2>1. [screen.robot EXCEPT !.enabled = ~@, !.url = urlDraft] \in Robots
    BY <1>0 DEF Robots
  <2> QED BY <1>0, <1>2, <2>1, CommitRobotInv DEF ToggleRobot
<1>3. CASE ToggleMention
  <2>1. [screen.robot EXCEPT !.mentions = ~@] \in Robots
    BY <1>0 DEF Robots
  <2> QED BY <1>0, <1>3, <2>1, CommitRobotInv DEF ToggleMention
<1> QED BY <1>1, <1>2, <1>3

(* The text, the subscription and the days. *)
LEMMA RowsInv ==
  ASSUME NotesInv,
         (\E b \in Bodies : EnterBody(b)) \/ ToggleSubscribed \/ (\E d \in 1..2 : saveExpiringDays(d))
  PROVE  NotesInv'
<1>0. screen.sub \in Subs /\ NotesTyped
  BY DEF NotesInv, NotesTyped, Notes
<1>1. ASSUME NEW field \in {"subscribed", "body"}, NEW next \in Subs, CommitSub(field, next),
             text' \in Bodies
      PROVE  NotesInv'
  <2>1. PICK p : Begun(p) /\ p.kind = "sub" /\ p.by = field /\ p.next["sub"] = next
    BY <1>1, PutBegun DEF CommitSub, Kinds
  <2>2. UNCHANGED <<urlDraft, robotBusy, test>> /\ rowField' = field
    BY <1>1 DEF CommitSub
  <2>3. robotBusy' = (robotBusy \/ p.kind = "robot")
    BY <1>0, <2>1, <2>2 DEF NotesTyped
  <2>4. FlagsInv'
    BY <2>1, <2>2, <2>3, BegunFlags
  <2>5. TestInv' /\ test' \in Tests
    BY <2>1, <2>2, BegunTest
  <2>6. NotesTyped'
    BY <1>0, <1>1, <2>1, <2>2, <2>5, BegunTyped DEF NotesTyped
  <2> QED BY <2>1, <2>4, <2>5, <2>6, BegunKinds DEF NotesInv
<1>2. ASSUME NEW b \in Bodies, EnterBody(b) PROVE NotesInv'
  <2>1. CASE b = screen.sub.body
    <3>1. UNCHANGED <<server, screen, urlDraft, robotBusy, rowField, commitSeq, puts, test, muddled>>
          /\ text' = b
      BY <1>2, <2>1 DEF EnterBody
    <3> QED
      BY <3>1 DEF NotesInv, NotesTyped, KindInv, PutsOf, PutFits, Latest, FlagsInv, TestInv, TestPuts
  <2>2. CASE b # screen.sub.body
    <3>1. [screen.sub EXCEPT !.body = b] \in Subs
      BY <1>0 DEF Subs
    <3> QED BY <1>1, <1>2, <2>2, <3>1 DEF EnterBody
  <2> QED BY <2>1, <2>2
<1>3. CASE ToggleSubscribed
  <2>1. [screen.sub EXCEPT !.subscribed = ~@] \in Subs
    BY <1>0 DEF Subs
  <2> QED BY <1>0, <1>1, <1>3, <2>1 DEF ToggleSubscribed, NotesTyped
<1>4. ASSUME NEW d \in 1..2, saveExpiringDays(d) PROVE NotesInv'
  <2>1. [screen EXCEPT !.days = d] = [screen EXCEPT !["days"] = d]
    OBVIOUS
  <2>2. PICK p : Begun(p) /\ p.kind = "days" /\ p.by = "input" /\ p.next["days"] = d
    BY <1>4, <2>1, PutBegun DEF saveExpiringDays, Kinds
  <2>3. UNCHANGED <<urlDraft, text, robotBusy, rowField, test>>
    BY <1>4 DEF saveExpiringDays
  <2>4. robotBusy' = (robotBusy \/ p.kind = "robot")
    BY <1>0, <2>2, <2>3 DEF NotesTyped
  <2>5. FlagsInv'
    BY <2>2, <2>3, <2>4, BegunFlags
  <2>6. TestInv' /\ test' \in Tests
    BY <2>2, <2>3, BegunTest
  <2>7. NotesTyped'
    BY <1>0, <2>2, <2>3, <2>6, BegunTyped DEF NotesTyped
  <2> QED BY <2>2, <2>5, <2>6, <2>7, BegunKinds DEF NotesInv
<1> QED BY <1>2, <1>3, <1>4

(* A test is asked for, with or without a commit of the draft, or served. *)
LEMMA TestsInv == ASSUME NotesInv, runTest \/ TestServed PROVE NotesInv'
<1>0. NotesTyped /\ TestInv /\ test \in Tests /\ screen.robot \in Robots /\ urlDraft \in Links
      /\ server.robot.url \in Links
  BY DEF NotesInv, NotesTyped, Notes, Robots
<1>1. CASE runTest /\ urlDraft # screen.robot.url
  <2> DEFINE next == [screen.robot EXCEPT !.url = urlDraft]
             t == [st |-> "presave", seen |-> urlDraft, with |-> BadUrl,
                   quiet |-> PutsOf("robot") = {}]
  <2>1. next \in Robots /\ next.url = urlDraft
    BY <1>0 DEF Robots
  <2>2. Put("robot", next, "test") /\ UNCHANGED <<server, screen, urlDraft, text, rowField>>
        /\ robotBusy' = TRUE /\ test' = t /\ test.st \in {"none", "done"}
    BY <1>1 DEF runTest
  <2> HIDE DEF next
  <2>3. PICK p : Begun(p) /\ p.kind = "robot" /\ p.by = "test" /\ p.next["robot"] = next
    BY <2>1, <2>2, PutBegun DEF Kinds
  <2>4. FlagsInv'
    BY <2>2, <2>3, BegunFlags
  <2>5. t \in Tests /\ t.st = "presave" /\ t.seen = urlDraft /\ t.with = BadUrl
    BY <1>0 DEF Tests, Links
  <2> HIDE DEF t
  <2>6. NotesTyped'
    BY <1>0, <2>2, <2>3, <2>5, BegunTyped DEF NotesTyped
  <2>7. TestPuts' = {p}
    BY <1>0, <2>2, <2>3 DEF TestInv, TestPuts, Begun
  <2>8. TestInv'
    <3>1. \A q \in puts' : q.kind = "sub" => ~AtOnce(q)
      BY <1>0, <2>3 DEF TestInv, Begun
    <3>2. p.next.robot.url = urlDraft
      BY <2>1, <2>3
    <3> QED BY <2>2, <2>3, <2>5, <2>7, <3>1, <3>2 DEF TestInv
  <2> QED BY <2>3, <2>4, <2>6, <2>8, BegunKinds DEF NotesInv
<1>2. ASSUME UNCHANGED <<server, screen, urlDraft, text, robotBusy, rowField, commitSeq, puts, muddled>>,
             TestInv', test' \in Tests
      PROVE  NotesInv'
  BY <1>2 DEF NotesInv, NotesTyped, KindInv, PutsOf, PutFits, Latest, FlagsInv
<1>3. CASE runTest /\ urlDraft = screen.robot.url
  <2> DEFINE t == [st |-> "posted", seen |-> urlDraft, with |-> BadUrl,
                   quiet |-> PutsOf("robot") = {}]
  <2>1. UNCHANGED <<server, screen, urlDraft, text, robotBusy, rowField, commitSeq, puts, muddled>>
        /\ test' = t /\ test.st \in {"none", "done"}
    BY <1>3 DEF runTest
  <2>2. t \in Tests /\ t.st = "posted" /\ t.seen = urlDraft /\ t.with = BadUrl
        /\ (t.quiet => PutsOf("robot") = {})
    BY <1>0 DEF Tests, Links
  <2> HIDE DEF t
  <2>3. TestPuts' = TestPuts /\ TestPuts = {}
    BY <1>0, <2>1 DEF TestInv, TestPuts
  <2>4. t.quiet /\ "robot" \notin muddled => screen["robot"] = server["robot"]
    BY <2>2 DEF NotesInv, KindInv, Kinds
  <2>5. TestInv'
    BY <1>0, <1>3, <2>1, <2>2, <2>3, <2>4 DEF TestInv, PutsOf
  <2> QED BY <1>2, <2>1, <2>2, <2>5
<1>4. CASE TestServed
  <2>1. UNCHANGED <<server, screen, urlDraft, text, robotBusy, rowField, commitSeq, puts, muddled>>
        /\ test' = [test EXCEPT !.st = "done", !.with = server.robot.url] /\ test.st = "posted"
    BY <1>4 DEF TestServed
  <2>2. /\ test' \in Tests /\ test'.st = "done" /\ test'.seen = test.seen
        /\ test'.with = server.robot.url /\ test'.quiet = test.quiet
    BY <1>0, <2>1 DEF Tests
  <2>3. TestPuts' = TestPuts /\ TestPuts = {}
    BY <1>0, <2>1 DEF TestInv, TestPuts
  <2>4. TestInv'
    BY <1>0, <2>1, <2>2, <2>3 DEF TestInv
  <2> QED BY <1>2, <2>1, <2>2, <2>4
<1> QED BY <1>1, <1>3, <1>4

(* The server's answer to a commit, or its silence. *)
LEMMA PutServedInv == ASSUME NotesInv, NEW p \in puts, PutServed(p) PROVE NotesInv'
<1>0. NotesTyped /\ TestInv /\ FlagsInv /\ p \in NotePuts /\ p.kind \in Kinds /\ p.next \in Notes
      /\ p.st = "sent"
  BY DEF NotesInv, NotesTyped, NotePuts, PutServed
<1>1. PICK ok \in BOOLEAN, written \in BOOLEAN :
        /\ ok => written
        /\ server' = IF written THEN [server EXCEPT ![p.kind] = p.next[p.kind]] ELSE server
        /\ puts' = (puts \ {p}) \cup {[p EXCEPT !.st = IF ok THEN "ok" ELSE "failed"]}
        /\ muddled' = IF written /\ ~ok THEN muddled \cup {p.kind} ELSE muddled
  BY DEF PutServed
<1>2. UNCHANGED <<screen, urlDraft, text, robotBusy, rowField, commitSeq, test>>
  BY DEF PutServed
<1>3. PICK q \in NotePuts :
        /\ puts' = (puts \ {p}) \cup {q}
        /\ q.st = (IF ok THEN "ok" ELSE "failed")
        /\ q.kind = p.kind /\ q.seq = p.seq /\ q.by = p.by /\ q.next = p.next /\ q.prev = p.prev
  <2> DEFINE q0 == [p EXCEPT !.st = IF ok THEN "ok" ELSE "failed"]
  <2>1. q0 \in NotePuts /\ q0.st = (IF ok THEN "ok" ELSE "failed")
        /\ q0.kind = p.kind /\ q0.seq = p.seq /\ q0.by = p.by /\ q0.next = p.next /\ q0.prev = p.prev
    BY <1>0 DEF NotePuts
  <2>2. puts' = (puts \ {p}) \cup {q0}
    BY <1>1
  <2> HIDE DEF q0
  <2> QED BY <2>1, <2>2
<1>4. /\ server' \in Notes
      /\ \A k \in Kinds \ {p.kind} : server'[k] = server[k]
      /\ written => server'[p.kind] = p.next[p.kind]
  <2>1. CASE written
    <3>1. server' = [server EXCEPT ![p.kind] = p.next[p.kind]]
      BY <1>1, <2>1
    <3>2. [server EXCEPT ![p.kind] = p.next[p.kind]][p.kind] = p.next[p.kind]
      BY <1>0 DEF NotesTyped, Notes, Kinds
    <3>3. [server EXCEPT ![p.kind] = p.next[p.kind]] \in Notes
      BY <1>0, NoteChanged DEF NotesTyped
    <3>4. \A k \in Kinds \ {p.kind} : [server EXCEPT ![p.kind] = p.next[p.kind]][k] = server[k]
      BY <1>0, NoteChanged DEF NotesTyped
    <3> QED BY <3>1, <3>2, <3>3, <3>4, Zenon
  <2>2. CASE ~written
    BY <1>0, <1>1, <2>2 DEF NotesTyped
  <2> QED BY <2>1, <2>2
<1>5. NotesTyped'
  BY <1>0, <1>1, <1>2, <1>3, <1>4 DEF NotesTyped
<1>6. \A k \in Kinds : KindInv(k)'
  <2>1. \A k \in Kinds \ {p.kind} : KindInv(k)'
    <3> TAKE k \in Kinds \ {p.kind}
    <3>1. PutsOf(k)' = PutsOf(k)
      BY <1>3 DEF PutsOf
    <3> QED BY <1>1, <1>2, <1>4, <3>1, OtherKind DEF NotesInv
  <2>2. KindInv(p.kind)'
    <3> SUFFICES ASSUME p.kind \notin muddled' PROVE KindInv(p.kind)'
      BY DEF KindInv
    <3>1. p.kind \notin muddled /\ (written => ok) /\ KindInv(p.kind)
      BY <1>0, <1>1 DEF NotesInv
    <3>2. PutsOf(p.kind) = {p} /\ PutFits(p)
      BY <3>1 DEF KindInv, PutsOf
    <3>3. PutsOf(p.kind)' = {q}
      BY <1>3, <3>2 DEF PutsOf
    <3>4. PutFits(q)'
      <4>1. CASE ok
        BY <1>1, <1>2, <1>3, <1>4, <3>2, <4>1 DEF PutFits, Latest, AtOnce
      <4>2. CASE ~ok
        BY <1>0, <1>1, <1>2, <1>3, <3>1, <3>2, <4>2 DEF PutFits, Latest, AtOnce
      <4> QED BY <4>1, <4>2
    <3> QED BY <3>3, <3>4 DEF KindInv
  <2> QED BY <2>1, <2>2
<1>7. FlagsInv'
  BY <1>0, <1>2, <1>3 DEF FlagsInv, PutsOf, Latest
<1>8. TestInv'
  <2>1. muddled \subseteq muddled'
    BY <1>1
  <2>2. \A r \in puts' : r.kind = "sub" => ~AtOnce(r)
    BY <1>0, <1>3 DEF TestInv, AtOnce
  <2>3. \/ p.by # "test" /\ TestPuts' = TestPuts
        \/ TestPuts = {p} /\ TestPuts' = {q}
    BY <1>0, <1>3 DEF TestInv, TestPuts
  <2>4. PutsOf("robot") = {} => PutsOf("robot")' = {} /\ server'["robot"] = server["robot"]
    BY <1>0, <1>3, <1>4 DEF PutsOf, Kinds
  <2> QED BY <1>0, <1>2, <1>3, <2>1, <2>2, <2>3, <2>4 DEF TestInv
<1> QED BY <1>5, <1>6, <1>7, <1>8 DEF NotesInv

(* An answer arrives: the section takes it over, or goes back, if it is the newest. *)
LEMMA PutSettledInv ==
  ASSUME NotesInv, NEW p \in puts, PutDone(p) \/ PutFailed(p) PROVE NotesInv'
<1>0. NotesTyped /\ TestInv /\ FlagsInv /\ p \in NotePuts /\ p.kind \in Kinds
      /\ p.next \in Notes /\ p.prev \in Notes
  BY DEF NotesInv, NotesTyped, NotePuts
<1>1. /\ puts' = puts \ {p} /\ test' = TestAfter(p)
      /\ robotBusy' = (IF p.kind = "robot" /\ Latest(p) THEN FALSE ELSE robotBusy)
      /\ rowField' = (IF p.kind = "sub" /\ Latest(p) THEN "none" ELSE rowField)
      /\ UNCHANGED <<server, text, commitSeq, muddled>>
  BY DEF PutDone, PutFailed, Settle
<1>2. PICK v \in Notes :
        /\ screen' = screen \/ screen' = [screen EXCEPT ![p.kind] = v[p.kind]]
        /\ PutFits(p) => screen'[p.kind] = server[p.kind]
  <2>1. \A v \in Notes : [screen EXCEPT ![p.kind] = v[p.kind]][p.kind] = v[p.kind]
    BY <1>0 DEF NotesTyped, Notes, Kinds
  <2>2. CASE PutDone(p)
    <3>1. screen' = IF Latest(p) THEN [screen EXCEPT ![p.kind] = p.next[p.kind]] ELSE screen
      BY <2>2 DEF PutDone
    <3>2. p.st = "ok"
      BY <2>2 DEF PutDone
    <3>3. PutFits(p) => screen'[p.kind] = server[p.kind]
      BY <1>0, <2>1, <3>1, <3>2, Zenon DEF PutFits
    <3> QED BY <1>0, <3>1, <3>3
  <2>3. CASE PutFailed(p)
    <3>1. screen' = IF Latest(p) /\ p.kind # "sub" THEN [screen EXCEPT ![p.kind] = p.prev[p.kind]]
                    ELSE screen
      BY <2>3 DEF PutFailed
    <3>2. p.st = "failed" /\ (p.kind = "sub" => ~AtOnce(p))
      BY <1>0, <2>3 DEF PutFailed, TestInv
    <3>3. PutFits(p) => Latest(p) /\ server[p.kind] = p.prev[p.kind]
                        /\ (p.kind = "sub" => screen[p.kind] = p.prev[p.kind])
      BY <3>2 DEF PutFits
    <3>4. PutFits(p) => screen'[p.kind] = server[p.kind]
      <4>1. CASE p.kind = "sub"
        BY <3>1, <3>3, <4>1
      <4>2. CASE p.kind # "sub"
        BY <1>0, <2>1, <3>1, <3>3, <4>2, Zenon
      <4> QED BY <4>1, <4>2
    <3> QED BY <1>0, <3>1, <3>4
  <2> QED BY <2>2, <2>3
<1>3. screen' \in Notes /\ \A k \in Kinds \ {p.kind} : screen'[k] = screen[k]
  <2>1. CASE screen' = screen
    BY <1>0, <2>1 DEF NotesTyped
  <2>2. CASE screen' = [screen EXCEPT ![p.kind] = v[p.kind]]
    <3>1. [screen EXCEPT ![p.kind] = v[p.kind]] \in Notes
      BY <1>0, NoteChanged DEF NotesTyped
    <3>2. \A k \in Kinds \ {p.kind} : [screen EXCEPT ![p.kind] = v[p.kind]][k] = screen[k]
      BY <1>0, NoteChanged DEF NotesTyped
    <3> QED BY <2>2, <3>1, <3>2, Zenon
  <2> QED BY <1>2, <2>1, <2>2
<1>4. /\ test' \in Tests /\ test'.seen = test.seen /\ test'.with = test.with
      /\ test'.quiet => test.quiet
      /\ p.by # "test" => test' = test
      /\ p.by = "test" => /\ test'.st \in {"posted", "done"}
                          /\ test'.st = "posted" /\ test'.quiet => p.st # "failed"
  <2>1. CASE p.by # "test"
    BY <1>0, <1>1, <2>1 DEF TestAfter, NotesTyped
  <2>2. CASE p.by = "test"
    <3>1. test' = [test EXCEPT !.st = IF p.st = "failed" /\ Latest(p) THEN "done" ELSE "posted",
                              !.quiet = @ /\ Latest(p)]
      BY <1>1, <2>2 DEF TestAfter
    <3>2. test \in Tests /\ Latest(p) \in BOOLEAN
      BY <1>0 DEF NotesTyped, Latest
    <3> QED BY <2>2, <3>1, <3>2 DEF Tests
  <2> QED BY <2>1, <2>2
<1>5. urlDraft' \in Links
  BY <1>0 DEF PutDone, PutFailed, NotesTyped, Notes, Robots
<1>6. NotesTyped'
  BY <1>0, <1>1, <1>3, <1>4, <1>5 DEF NotesTyped
<1>7. \A k \in Kinds : KindInv(k)'
  <2>1. \A k \in Kinds \ {p.kind} : KindInv(k)'
    <3> TAKE k \in Kinds \ {p.kind}
    <3>1. PutsOf(k)' = PutsOf(k)
      BY <1>1 DEF PutsOf
    <3> QED BY <1>1, <1>3, <3>1, OtherKind DEF NotesInv
  <2>2. KindInv(p.kind)'
    <3> SUFFICES ASSUME p.kind \notin muddled PROVE KindInv(p.kind)'
      BY <1>1 DEF KindInv
    <3>1. PutsOf(p.kind) = {p} /\ PutFits(p)
      BY <1>0 DEF NotesInv, KindInv, PutsOf
    <3>2. PutsOf(p.kind)' = {}
      BY <1>1, <3>1 DEF PutsOf
    <3> QED BY <1>1, <1>2, <3>1, <3>2 DEF KindInv
  <2> QED BY <2>1, <2>2
<1>8. FlagsInv'
  <2>1. robotBusy' => \E r \in PutsOf("robot")' : Latest(r)'
    BY <1>0, <1>1 DEF FlagsInv, PutsOf, Latest
  <2>2. rowField' # "none" => \E r \in PutsOf("sub")' : Latest(r)' /\ r.by = rowField'
    BY <1>0, <1>1 DEF FlagsInv, PutsOf, Latest
  <2> QED BY <2>1, <2>2 DEF FlagsInv
<1>9. TestInv'
  <2>1. \A r \in puts' : r.kind = "sub" => ~AtOnce(r)
    BY <1>0, <1>1 DEF TestInv, AtOnce
  <2>2. CASE p.by # "test"
    <3>1. TestPuts' = TestPuts /\ test' = test
      BY <1>1, <1>4, <2>2 DEF TestPuts
    <3>2. PutsOf("robot") = {} => PutsOf("robot")' = {}
      BY <1>1 DEF PutsOf
    <3> QED BY <1>0, <1>1, <2>1, <3>1, <3>2 DEF TestInv
  <2>3. CASE p.by = "test"
    <3>1. TestPuts = {p} /\ TestPuts' = {} /\ test.st = "presave" /\ p.kind = "robot"
          /\ test.with = BadUrl
      BY <1>0, <1>1, <2>3 DEF TestInv, TestPuts
    <3>2. ASSUME test'.quiet, "robot" \notin muddled, test'.st = "posted"
          PROVE  PutsOf("robot")' = {} /\ server'.robot.url = test'.seen
      <4>1. PutsOf("robot") = {p} /\ PutFits(p)
        BY <1>0, <3>1, <3>2 DEF NotesInv, KindInv, PutsOf
      <4>2. p.st = "ok"
        BY <1>0, <1>4, <2>3, <3>2 DEF PutDone, PutFailed
      <4>3. server["robot"] = p.next["robot"]
        BY <3>1, <4>1, <4>2 DEF PutFits
      <4>4. p.next.robot.url = test.seen
        BY <1>0, <1>4, <3>1, <3>2 DEF TestInv
      <4> QED BY <1>1, <1>4, <4>1, <4>3, <4>4 DEF PutsOf
    <3> QED BY <1>1, <1>4, <2>1, <2>3, <3>1, <3>2 DEF TestInv
  <2> QED BY <2>2, <2>3
<1> QED BY <1>6, <1>7, <1>8, <1>9 DEF NotesInv

(* Every step of the notification settings keeps their invariant. *)
LEMMA NotesInvStep == NotesInv /\ [NotesNext]_noteVars => NotesInv'
<1> SUFFICES ASSUME NotesInv, [NotesNext]_noteVars PROVE NotesInv'
  OBVIOUS
<1>1. CASE UNCHANGED noteVars
  BY <1>1 DEF noteVars, NotesInv, NotesTyped, KindInv, PutsOf, PutFits, Latest, FlagsInv, TestInv, TestPuts
<1>2. CASE NotesNext
  BY <1>2, RobotInv, RowsInv, TestsInv, PutServedInv, PutSettledInv DEF NotesNext, Links
<1> QED BY <1>1, <1>2

(* The inductive invariant of the notification settings (NotificationsSection.tsx): what
   the only commit of a kind has done to server and section, who disables a control, and
   which commit a test waits for. *)
THEOREM NotesInvHolds == NotesSpec => []NotesInv
BY NotesInvInit, NotesInvStep, PTL DEF NotesSpec

(* However the three kinds of commits and the test overlap, fail and are rolled back: the
   section ends up with what is stored, the test uses the URL that was on the screen, and
   no control stays disabled (NotificationsSection.tsx). *)
THEOREM NotesAgreeHolds == NotesSpec => []NotesAgree
<1>1. NotesInv => NotesAgree
  <2> SUFFICES ASSUME NotesInv PROVE NotesAgree
    OBVIOUS
  <2>1. QuietNotesAgree
    BY DEF NotesInv, KindInv, QuietNotesAgree
  <2>2. TestSeesSavedUrl
    BY DEF NotesInv, TestInv, TestSeesSavedUrl
  <2>3. NotesNotStuck
    BY DEF NotesInv, FlagsInv, TestInv, TestPuts, NotesNotStuck
  <2> QED BY <2>1, <2>2, <2>3 DEF NotesAgree
<1> QED BY <1>1, NotesInvHolds, PTL

-----------------------------------------------------------------------------
(* The settings fields *)

Values == [Fields -> Nat]
SaveStates ==
  [f : Fields, seq : Nat, value : Nat, st : {"sent", "ok", "failed", "summary"},
   known : BOOLEAN, prev : Nat]
ReloadStates ==
  [n : Nat, st : {"sent", "served"}, snap : Values, touched : SUBSET Fields, cut : SUBSET Fields]
Announced == [days : Nat, used : Nat, seq : Nat, loads : Nat, sure : BOOLEAN]
PruneStates ==
  [asked : BOOLEAN, served : BOOLEAN, open : BOOLEAN, days : Nat, busy : BOOLEAN,
   told : SUBSET Announced]
Boards == [loading : BOOLEAN, error : BOOLEAN, saving : Fields \cup {"none"}]

FieldsTyped ==
  /\ stored \in Values
  /\ settings \in Values \cup {NoSettings}
  /\ form \in [FormFields -> Nat]
  /\ rows \in Values
  /\ board \in Boards
  /\ saveSeq \in Values
  /\ saves \in SUBSET SaveStates
  /\ reloads \in SUBSET ReloadStates
  /\ newest \in [Fields -> [st : {"none", "sent", "ok", "failed"}, value : Nat]]
  /\ excused \in SUBSET Fields
  /\ prune \in PruneStates
  /\ spent \in [loads : Nat, saves : Nat, prunes : Nat]

\* Numbers tell saves and loads apart; a spinning row has its newest save in flight.
SavesNumbered ==
  /\ \A s \in saves : /\ s.seq <= saveSeq[s.f]
                      /\ s.known => settings # NoSettings
                      /\ s.st = "summary" => s.f = "days"
  /\ \A s, t \in saves : s.f = t.f /\ s.seq = t.seq => s = t
  /\ board.saving # "none" => \E s \in SavesOf(board.saving) : Newest(s)
  /\ \A l \in reloads : l.n <= spent.loads
  /\ \A l, m \in reloads : l.n = m.n => l = m

\* The outcome of the newest save of a field is that of the save numbered so, and
\* once it is accepted its value is the page's, or its answer is on the way.
OutcomeFits(f) ==
  /\ \A s \in SavesOf(f) : Newest(s) /\ newest[f].st # "none" =>
       /\ s.value = newest[f].value
       /\ newest[f].st = "ok" => s.st \in {"ok", "summary"}
  /\ newest[f].st = "ok" /\ f \in FormFields /\ settings # NoSettings =>
       settings[f] = newest[f].value \/ \E s \in SavesOf(f) : Newest(s)

\* What an answered load carries is what the server still holds, unless the answer
\* cut it.
Sound(l, f) == l.st = "served" => f \in l.cut \/ l.snap[f] = stored[f]

\* A load in flight and a save in flight have crossed; the last load carries
\* what the server holds, and every load what it holds of the fields nobody touched,
\* but for a threshold the answer cut.
LoadsFit ==
  /\ reloads # {} \/ board.error => \A s \in saves : s.f \in excused
  /\ ~board.error => \A l \in reloads : \A f \in Fields \ excused : Sound(l, f) \/ reloads # {l}
  /\ \A l \in reloads : \A f \in Fields \ l.touched : SavesOf(f) = {} /\ Sound(l, f)

\* A row shows the value of the page.
RowsFit == Mounted(board) => \A f \in Fields \ excused : rows[f] = Shown(settings, form, f)

\* What the only save of a field has done to page and server, and will undo.
FieldSaved(s) ==
  /\ Newest(s) /\ s.known
  /\ Shown(settings, form, s.f) = s.value
  /\ s.f \in FormFields => settings[s.f] = s.prev
  /\ stored[s.f] = IF s.st \in {"ok", "summary"} THEN s.value ELSE s.prev

FieldFits(f) ==
  /\ \A s, t \in SavesOf(f) : s = t
  /\ SavesOf(f) = {} => settings[f] = stored[f] /\ Shown(settings, form, f) = stored[f]
  /\ \A s \in SavesOf(f) : FieldSaved(s)

\* With no load in flight a field has one save at most, and page and server hold
\* what that one leaves.
FieldsFit ==
  Mounted(board) /\ settings # NoSettings /\ reloads = {} =>
    \A f \in Fields \ excused : FieldFits(f)

\* What a prune announced is what the server would prune, until something changes.
ToldFits(t) ==
  /\ t.seq <= saveSeq["days"] /\ t.loads <= spent.loads
  /\ t.sure => t.used = t.days
  /\ prune.busy /\ t.sure /\ saveSeq["days"] = t.seq /\ spent.loads = t.loads =>
       /\ reloads = {} /\ SavesOf("days") = {}
       /\ "days" \in excused \/ stored["days"] = t.days

PruneInv ==
  /\ prune.open => Retention > 0
  /\ \A t \in prune.told : ToldFits(t)

FieldsInv ==
  /\ FieldsTyped
  /\ SavesNumbered
  /\ \A f \in Fields : OutcomeFits(f)
  /\ LoadsFit
  /\ RowsFit
  /\ FieldsFit
  /\ PruneInv


USE MaxValueAssumption DEF Fields, FormFields

(* What a field shows is a number. *)
LEMMA ShownNat ==
  ASSUME NEW s \in Values \cup {NoSettings}, NEW fm \in [FormFields -> Nat], NEW f \in Fields
  PROVE  Shown(s, fm, f) \in Nat
BY DEF Shown, Values

(* After a render a row shows the value of the page, if it did or if it shows what
   was typed. *)
LEMMA RowShows ==
  ASSUME NEW base, NEW f \in Fields, rows' = Rendered(base), Mounted(board'),
         Mounted(board) => base[f] \in {Shown(settings, form, f), Shown(settings', form', f)}
  PROVE  rows'[f] = Shown(settings', form', f)
BY DEF Rendered

(* A render keeps the rows' type. *)
LEMMA RowsStayTyped ==
  ASSUME NEW base \in Values, rows' = Rendered(base), FieldsTyped,
         settings' \in Values \cup {NoSettings}, form' \in [FormFields -> Nat]
  PROVE  rows' \in Values
<1>1. \A f \in Fields : Shown(settings', form', f) \in Nat /\ base[f] \in Nat
  BY ShownNat DEF Values
<1> QED BY <1>1 DEF Rendered, Values

(* A preview of no retention closes; nothing else of the card changes. *)
LEMMA PreviewCloses ==
  ASSUME NEW p \in PruneStates, NEW d \in Nat
  PROVE  LET q == WithoutRetention(p, d)
         IN /\ q \in PruneStates /\ q.told = p.told /\ q.busy = p.busy
            /\ q.open => p.open /\ d > 0
<1>1. CASE d = 0
  BY <1>1 DEF WithoutRetention, PruneStates
<1>2. CASE d # 0
  BY <1>2 DEF WithoutRetention, PruneStates
<1> QED BY <1>1, <1>2

(* The card after a step that may change the retention shown. *)
LEMMA RetentionFollowed ==
  ASSUME FieldsTyped, FollowRetention, settings' \in Values \cup {NoSettings},
         form' \in [FormFields -> Nat]
  PROVE  /\ prune' \in PruneStates /\ prune'.told = prune.told /\ prune'.busy = prune.busy
         /\ prune'.open => Retention' > 0
<1>1. Shown(settings', form', "days") \in Nat
  BY ShownNat
<1> QED BY <1>1, PreviewCloses DEF FieldsTyped, FollowRetention, Retention

(* What was announced stays true when neither loads nor saves nor the server's
   retention change. *)
LEMMA ToldKept ==
  ASSUME FieldsTyped, PruneInv, prune'.told = prune.told, prune'.busy = prune.busy,
         prune'.open => Retention' > 0,
         saveSeq["days"] <= saveSeq'["days"], spent.loads <= spent'.loads,
         saveSeq'["days"] \in Nat, spent'.loads \in Nat,
         (/\ saveSeq'["days"] = saveSeq["days"] /\ spent'.loads = spent.loads
          /\ reloads = {} /\ SavesOf("days") = {})
           => /\ reloads' = {} /\ SavesOf("days")' = {}
              /\ \/ "days" \in excused'
                 \/ "days" \notin excused /\ stored'["days"] = stored["days"]
  PROVE  PruneInv'
<1> SUFFICES ASSUME NEW t \in prune.told PROVE ToldFits(t)'
  BY DEF PruneInv
<1>1. ToldFits(t) /\ t \in Announced
  BY DEF PruneInv, FieldsTyped, PruneStates
<1>2. saveSeq["days"] \in Nat /\ spent.loads \in Nat
  BY DEF FieldsTyped, Values
<1> QED BY <1>1, <1>2 DEF ToldFits, Announced


-----------------------------------------------------------------------------
(* Its steps *)

(* The invariant holds when the page is opened. *)
LEMMA FieldsInvInit == FieldsInit => FieldsInv
<1> SUFFICES ASSUME FieldsInit PROVE FieldsInv
  OBVIOUS
<1>1. /\ stored \in Values /\ saves = {} /\ excused = {} /\ settings = NoSettings
      /\ form \in [FormFields -> Nat] /\ board.loading
      /\ board \in Boards /\ board.saving = "none" /\ ~board.error
  BY DEF FieldsInit, Values, Defaults, Boards
<1>2. Loading(1, stored) \in ReloadStates /\ Loading(1, stored).st = "sent" /\ Loading(1, stored).n = 1
  BY <1>1 DEF Loading, ReloadStates
<1>3. /\ saveSeq \in Values /\ rows \in Values
      /\ newest \in [Fields -> [st : {"none", "sent", "ok", "failed"}, value : Nat]]
      /\ \A f \in Fields : newest[f].st = "none"
      /\ reloads = {Loading(1, stored)}
  BY DEF FieldsInit, Values
<1>4. /\ prune \in PruneStates /\ prune.told = {} /\ ~prune.open
      /\ spent \in [loads : Nat, saves : Nat, prunes : Nat] /\ spent.loads = 1
  BY DEF FieldsInit, PruneStates
<1>5. FieldsTyped
  BY <1>1, <1>2, <1>3, <1>4 DEF FieldsTyped
<1>6. SavesNumbered
  BY <1>1, <1>2, <1>3, <1>4 DEF SavesNumbered
<1>7. \A f \in Fields : OutcomeFits(f)
  BY <1>1, <1>3 DEF OutcomeFits, SavesOf
<1>8. LoadsFit /\ RowsFit /\ FieldsFit /\ PruneInv
  BY <1>1, <1>2, <1>3, <1>4 DEF LoadsFit, Sound, SavesOf, RowsFit, FieldsFit, Mounted, PruneInv
<1> QED BY <1>5, <1>6, <1>7, <1>8 DEF FieldsInv

(* A load is served: it carries what the server holds. *)
LEMMA ReloadServedStep ==
  ASSUME FieldsInv, NEW l \in reloads, ReloadServed(l)
  PROVE  FieldsInv'
<1> DEFINE cut == IF stored.mem > stored.max THEN {"mem"} ELSE {}
<1>0. FieldsTyped /\ SavesNumbered /\ LoadsFit
  BY DEF FieldsInv
<1>a. /\ getSettings(stored) \in Values /\ cut \in SUBSET Fields
      /\ \A f \in Fields : f \in cut \/ getSettings(stored)[f] = stored[f]
  BY <1>0 DEF getSettings, Lower, FieldsTyped, Values
<1>b. PICK snap \in Values, c \in SUBSET Fields : snap = getSettings(stored) /\ c = cut
  BY <1>a
<1>1. PICK k : k = [l EXCEPT !.st = "served", !.snap = snap, !.cut = c]
  OBVIOUS
<1>2. /\ k \in ReloadStates /\ k.n = l.n /\ k.touched = l.touched
      /\ \A f \in Fields : f \in k.cut \/ k.snap[f] = stored[f]
      /\ reloads' = (reloads \ {l}) \cup {k}
  <2>1. l \in ReloadStates
    BY <1>0 DEF FieldsTyped
  <2>2. k \in ReloadStates /\ k.n = l.n /\ k.touched = l.touched /\ k.snap = snap /\ k.cut = c
    BY <1>1, <2>1 DEF ReloadStates
  <2>3. reloads' = (reloads \ {l}) \cup {k}
    BY <1>1, <1>b DEF ReloadServed
  <2>4. \A f \in Fields : f \in c \/ snap[f] = stored[f]
    BY <1>a, <1>b
  <2> QED BY <2>2, <2>3, <2>4
<1> HIDE DEF cut
<1>3. UNCHANGED <<stored, settings, form, rows, board, saveSeq, saves, newest, excused, prune, imp, spent>>
  BY DEF ReloadServed
<1>4. FieldsTyped'
  BY <1>0, <1>2, <1>3 DEF FieldsTyped
<1>5. SavesNumbered'
  BY <1>0, <1>2, <1>3 DEF SavesNumbered, SavesOf, Newest
<1>6. \A f \in Fields : OutcomeFits(f)'
  BY <1>3 DEF FieldsInv, OutcomeFits, SavesOf, Newest
<1>7. LoadsFit'
  <2>1. \A f \in Fields : Sound(k, f)'
    BY <1>2, <1>3 DEF Sound
  <2>2. \A q \in reloads, f \in Fields : Sound(q, f)' <=> Sound(q, f)
    BY <1>3 DEF Sound
  <2>3. ASSUME ~board'.error, NEW q \in reloads', NEW f \in Fields \ excused'
        PROVE  Sound(q, f)' \/ reloads' # {q}
    BY <1>2, <2>1
  <2>4. ASSUME NEW q \in reloads', NEW f \in Fields \ q.touched
        PROVE  SavesOf(f)' = {} /\ Sound(q, f)'
    <3>1. SavesOf(f)' = SavesOf(f)
      BY <1>3 DEF SavesOf
    <3> QED BY <1>0, <1>2, <2>1, <2>2, <3>1 DEF LoadsFit
  <2> QED BY <1>0, <1>2, <1>3, <2>3, <2>4 DEF LoadsFit
<1>8. RowsFit'
  BY <1>3 DEF FieldsInv, RowsFit, Mounted, Shown
<1>9. FieldsFit'
  BY <1>2 DEF FieldsFit
<1>10. PruneInv'
  <2>1. prune'.open => Retention' > 0
    BY <1>3 DEF FieldsInv, PruneInv, Retention, Shown
  <2> QED BY <1>0, <1>3, <2>1, ToldKept DEF FieldsInv, FieldsTyped, Values
<1> QED BY <1>4, <1>5, <1>6, <1>7, <1>8, <1>9, <1>10 DEF FieldsInv


(* A load arrives: when none is left, it carries what the server holds of every
   field but those that are excused. *)
LEMMA ReloadArrivesStep ==
  ASSUME FieldsInv, NEW l \in reloads, ReloadArrives(l)
  PROVE  FieldsInv'
<1>0. FieldsTyped /\ SavesNumbered /\ LoadsFit /\ l \in ReloadStates /\ l.snap \in Values
  BY DEF FieldsInv, FieldsTyped, ReloadStates
<1>1. /\ l.st = "served" /\ reloads' = reloads \ {l} /\ settings' = l.snap
      /\ form' = [f \in FormFields |-> l.snap[f]]
      /\ board' = [board EXCEPT !.loading = FALSE] /\ rows' = Rendered(rows)
      /\ excused' = IF reloads' # {} THEN Fields
                    ELSE {f \in excused : f \in l.touched \/ rows'[f] # l.snap[f]} \cup l.cut
      /\ newest' = [f \in Fields |-> [st |-> "none", value |-> 0]]
      /\ FollowRetention
      /\ UNCHANGED <<stored, saveSeq, saves, spent>>
  BY DEF ReloadArrives
<1>2. /\ settings' \in Values /\ form' \in [FormFields -> Nat]
      /\ settings' # NoSettings
      /\ \A f \in Fields : Shown(settings', form', f) = l.snap[f]
  BY <1>0, <1>1, NoSettingsAssumption DEF Values, Shown
<1>3. /\ board' \in Boards /\ board'.error = board.error /\ board'.saving = board.saving
  BY <1>0, <1>1 DEF FieldsTyped, Boards
<1>4. rows' \in Values
  BY <1>0, <1>1, <1>2, RowsStayTyped DEF FieldsTyped
<1>5. /\ prune' \in PruneStates /\ prune'.told = prune.told /\ prune'.busy = prune.busy
      /\ prune'.open => Retention' > 0
  BY <1>0, <1>1, <1>2, RetentionFollowed
<1>6. FieldsTyped'
  BY <1>0, <1>1, <1>2, <1>3, <1>4, <1>5 DEF FieldsTyped, ReloadStates
<1>7. SavesNumbered'
  BY <1>0, <1>1, <1>2, <1>3 DEF SavesNumbered, SavesOf, Newest
<1>8. \A f \in Fields : OutcomeFits(f)'
  BY <1>1 DEF OutcomeFits
<1>9. LoadsFit'
  <2>1. \A f \in Fields : SavesOf(f)' = SavesOf(f)
    BY <1>1 DEF SavesOf
  <2>2. \A q \in reloads, f \in Fields : Sound(q, f)' <=> Sound(q, f)
    BY <1>1 DEF Sound
  <2>3. reloads' # {} => excused' = Fields
    BY <1>1
  <2>4. \A s \in saves : s.f \in Fields
    BY <1>0 DEF FieldsTyped, SaveStates
  <2>5. reloads' # {} \/ board'.error => \A s \in saves' : s.f \in excused'
    <3>1. CASE reloads' # {}
      BY <1>1, <2>3, <2>4, <3>1
    <3>2. CASE reloads' = {} /\ board'.error
      <4>1. ASSUME NEW s \in saves PROVE s.f \in excused'
        <5>1. s.f \in excused /\ s \in SavesOf(s.f)
          BY <1>0 DEF LoadsFit, SavesOf
        <5>2. s.f \in l.touched
          BY <1>0, <2>4, <5>1 DEF LoadsFit
        <5> QED BY <1>1, <3>2, <5>1, <5>2
      <4> QED BY <1>1, <4>1
    <3> QED BY <3>1, <3>2
  <2> QED BY <1>0, <1>1, <2>1, <2>2, <2>3, <2>5 DEF LoadsFit
<1>10. ASSUME Mounted(board'), NEW f \in Fields \ excused', reloads' = {}
       PROVE  /\ SavesOf(f) = {}
              /\ l.snap[f] = stored[f]
  <2>1. reloads = {l} /\ ~board.error
    BY <1>1, <1>3, <1>10 DEF Mounted
  <2>2. CASE f \notin excused
    <3>1. SavesOf(f) = {}
      BY <1>0, <2>1, <2>2 DEF LoadsFit, SavesOf
    <3>2. Sound(l, f)
      BY <1>0, <2>1, <2>2 DEF LoadsFit
    <3> QED BY <1>1, <1>10, <3>1, <3>2 DEF Sound
  <2>3. CASE f \notin l.touched
    BY <1>0, <1>1, <1>10, <2>3 DEF LoadsFit, Sound
  <2> QED BY <1>1, <1>10, <2>2, <2>3
<1>11. RowsFit'
  <2>1. ASSUME Mounted(board'), NEW f \in Fields \ excused' PROVE rows'[f] = Shown(settings', form', f)
    <3>1. CASE f \in excused
      BY <1>1, <1>2, <2>1, <3>1
    <3>2. CASE f \notin excused
      BY <1>1, <2>1, <3>2, RowShows DEF FieldsInv, RowsFit
    <3> QED BY <3>1, <3>2
  <2> QED BY <2>1 DEF RowsFit
<1>12. FieldsFit'
  <2>1. \A f \in Fields : SavesOf(f)' = SavesOf(f)
    BY <1>1 DEF SavesOf
  <2> QED BY <1>1, <1>2, <1>10, <2>1 DEF FieldsFit, FieldFits
<1>13. PruneInv'
  BY <1>0, <1>1, <1>5, ToldKept DEF FieldsInv, FieldsTyped, Values
<1> QED BY <1>6, <1>7, <1>8, <1>9, <1>11, <1>12, <1>13 DEF FieldsInv

(* A load fails: the page is replaced by the error. *)
LEMMA ReloadFailsStep ==
  ASSUME FieldsInv, NEW l \in reloads, ReloadFails(l)
  PROVE  FieldsInv'
<1>0. FieldsTyped /\ SavesNumbered /\ LoadsFit
  BY DEF FieldsInv
<1>1. /\ reloads' = reloads \ {l}
      /\ board' = [board EXCEPT !.loading = FALSE, !.error = TRUE]
      /\ prune' = [prune EXCEPT !.asked = FALSE, !.open = FALSE, !.days = 0]
      /\ UNCHANGED <<stored, settings, form, rows, saveSeq, saves, newest, excused, spent>>
  BY DEF ReloadFails
<1>2. /\ board' \in Boards /\ board'.error /\ board'.saving = board.saving
      /\ prune' \in PruneStates /\ prune'.told = prune.told /\ prune'.busy = prune.busy
      /\ ~prune'.open
  BY <1>0, <1>1 DEF FieldsTyped, Boards, PruneStates
<1>3. FieldsTyped'
  BY <1>0, <1>1, <1>2 DEF FieldsTyped
<1>4. SavesNumbered'
  BY <1>0, <1>1, <1>2 DEF SavesNumbered, SavesOf, Newest
<1>5. \A f \in Fields : OutcomeFits(f)'
  BY <1>1 DEF FieldsInv, OutcomeFits, SavesOf, Newest
<1>6. LoadsFit'
  <2>1. \A f \in Fields : SavesOf(f)' = SavesOf(f)
    BY <1>1 DEF SavesOf
  <2>2. \A q \in reloads, f \in Fields : Sound(q, f)' <=> Sound(q, f)
    BY <1>1 DEF Sound
  <2> QED BY <1>0, <1>1, <1>2, <2>1, <2>2 DEF LoadsFit
<1>7. RowsFit' /\ FieldsFit'
  BY <1>2 DEF RowsFit, FieldsFit, Mounted
<1>8. PruneInv'
  BY <1>0, <1>1, <1>2, ToldKept DEF FieldsInv, FieldsTyped, Values
<1> QED BY <1>3, <1>4, <1>5, <1>6, <1>7, <1>8 DEF FieldsInv


(* A new load is asked for: the others go on, but may have been touched. *)
LEMMA ReloadStarts ==
  ASSUME FieldsTyped, SavesNumbered, NEW others \in SUBSET ReloadStates,
         \A l \in others : l.n <= spent.loads,
         \A l, m \in others : l.n = m.n => l = m,
         StartReload(others)
  PROVE  \E k \in ReloadStates :
           /\ k.st = "sent" /\ \A s \in saves : s.f \in k.touched
           /\ reloads' = others \cup {k} /\ k \notin others
           /\ \A l \in reloads' : l.n <= spent'.loads
           /\ \A l, m \in reloads' : l.n = m.n => l = m
           /\ spent' \in [loads : Nat, saves : Nat, prunes : Nat]
           /\ spent'.loads = spent.loads + 1
<1> DEFINE new == [Loading(spent.loads + 1, stored) EXCEPT !.touched = {s.f : s \in saves}]
<1>1. PICK k : k = new
  OBVIOUS
<1>2. /\ k \in ReloadStates /\ k.st = "sent" /\ k.n = spent.loads + 1
      /\ \A s \in saves : s.f \in k.touched
  BY <1>1 DEF FieldsTyped, Loading, ReloadStates, SaveStates
<1>3. reloads' = others \cup {k} /\ spent' = [spent EXCEPT !.loads = @ + 1]
  BY <1>1 DEF StartReload
<1>4. /\ spent.loads \in Nat /\ spent'.loads = spent.loads + 1
      /\ spent' \in [loads : Nat, saves : Nat, prunes : Nat]
  BY <1>3 DEF FieldsTyped
<1>5. \A l \in others : l.n \in Nat
  BY DEF ReloadStates
<1> QED BY <1>2, <1>3, <1>4, <1>5

(* The error's retry: the page comes back with what it had. *)
LEMMA RetryLoadStep == ASSUME FieldsInv, RetryLoad PROVE FieldsInv'
<1>0. FieldsTyped /\ SavesNumbered /\ LoadsFit
  BY DEF FieldsInv
<1>1. /\ board.error /\ StartReload(reloads) /\ board' = [board EXCEPT !.error = FALSE]
      /\ rows' = Rendered(rows)
      /\ UNCHANGED <<settings, form, stored, saveSeq, saves, newest, excused, prune, imp>>
  BY DEF RetryLoad
<1>2. PICK k \in ReloadStates :
        /\ k.st = "sent" /\ \A s \in saves : s.f \in k.touched
        /\ reloads' = reloads \cup {k} /\ k \notin reloads
        /\ \A l \in reloads' : l.n <= spent'.loads
        /\ \A l, m \in reloads' : l.n = m.n => l = m
        /\ spent' \in [loads : Nat, saves : Nat, prunes : Nat]
        /\ spent'.loads = spent.loads + 1
  BY <1>0, <1>1, ReloadStarts DEF FieldsTyped, SavesNumbered
<1>3. /\ board' \in Boards /\ board'.saving = board.saving
  BY <1>0, <1>1 DEF FieldsTyped, Boards
<1>4. rows' \in Values
  BY <1>0, <1>1, RowsStayTyped DEF FieldsTyped
<1>5. FieldsTyped'
  BY <1>0, <1>1, <1>2, <1>3, <1>4 DEF FieldsTyped
<1>6. SavesNumbered'
  BY <1>0, <1>1, <1>2, <1>3 DEF SavesNumbered, SavesOf, Newest
<1>7. \A f \in Fields : OutcomeFits(f)'
  BY <1>1 DEF FieldsInv, OutcomeFits, SavesOf, Newest
<1>8. \A f \in Fields : SavesOf(f)' = SavesOf(f)
  BY <1>1 DEF SavesOf
<1>9. LoadsFit'
  <2>1. \A q \in reloads, f \in Fields : Sound(q, f)' <=> Sound(q, f)
    BY <1>1 DEF Sound
  <2>2. \A f \in Fields : Sound(k, f)' /\ (f \notin k.touched => SavesOf(f) = {})
    BY <1>2 DEF Sound, SavesOf
  <2>3. \A q \in reloads : reloads' # {q}
    BY <1>2
  <2> QED BY <1>0, <1>1, <1>2, <1>8, <2>1, <2>2, <2>3 DEF LoadsFit
<1>10. RowsFit'
  BY <1>1, RowShows DEF RowsFit, Mounted
<1>11. FieldsFit'
  BY <1>2 DEF FieldsFit
<1>12. PruneInv'
  <2>1. prune'.open => Retention' > 0
    BY <1>1 DEF FieldsInv, PruneInv, Retention, Shown
  <2>2. spent.loads \in Nat
    BY <1>0 DEF FieldsTyped
  <2> QED BY <1>0, <1>1, <1>2, <2>1, <2>2, ToldKept DEF FieldsInv, FieldsTyped, Values
<1> QED BY <1>5, <1>6, <1>7, <1>9, <1>10, <1>11, <1>12 DEF FieldsInv

(* Loads that an import overtakes keep their numbers. *)
LEMMA OvertakenLoads ==
  ASSUME FieldsTyped, SavesNumbered
  PROVE  /\ Overtaken \in SUBSET ReloadStates
         /\ \A q \in Overtaken : \E l \in reloads :
              q.n = l.n /\ q.st = l.st /\ q.snap = l.snap /\ q.cut = l.cut /\ q.touched = Fields
         /\ \A q, r \in Overtaken : q.n = r.n => q = r
         /\ \A l \in reloads : \E q \in Overtaken : q.n = l.n
         /\ \A q \in Overtaken : q.n <= spent.loads
<1> DEFINE overtake(l) == [l EXCEPT !.touched = Fields]
<1>1. \A l \in reloads : /\ overtake(l) \in ReloadStates /\ overtake(l).n = l.n /\ overtake(l).st = l.st
                         /\ overtake(l).snap = l.snap /\ overtake(l).cut = l.cut 
                         /\ overtake(l).touched = Fields
  BY DEF FieldsTyped, ReloadStates
<1>2. Overtaken = {overtake(l) : l \in reloads}
  BY DEF Overtaken
<1> HIDE DEF overtake
<1> QED BY <1>1, <1>2 DEF SavesNumbered

(* An import is done: the page reloads. *)
LEMMA ImportDoneStep ==
  ASSUME FieldsInv, NEW s \in Imported, ImportDone(s)
  PROVE  FieldsInv'
<1>0. FieldsTyped /\ SavesNumbered /\ LoadsFit
  BY DEF FieldsInv
<1>1. /\ StartReload(Overtaken) /\ board' = [board EXCEPT !.error = FALSE]
      /\ rows' = Rendered(rows) /\ stored' = s
      /\ excused' = excused \cup {f \in Fields : SavesOf(f) # {}}
      /\ UNCHANGED <<settings, form, saveSeq, saves, newest, prune>>
  BY DEF ImportDone
<1>2. PICK k \in ReloadStates :
        /\ k.st = "sent" /\ \A t \in saves : t.f \in k.touched
        /\ reloads' = Overtaken \cup {k} /\ k \notin Overtaken
        /\ \A l \in reloads' : l.n <= spent'.loads
        /\ \A l, m \in reloads' : l.n = m.n => l = m
        /\ spent' \in [loads : Nat, saves : Nat, prunes : Nat]
        /\ spent'.loads = spent.loads + 1
  BY <1>0, <1>1, ReloadStarts, OvertakenLoads, Zenon
<1>3. /\ board' \in Boards /\ board'.saving = board.saving
      /\ board'.error = FALSE /\ board'.loading = board.loading
  BY <1>0, <1>1 DEF FieldsTyped, Boards
<1>4. rows' \in Values
  BY <1>0, <1>1, RowsStayTyped DEF FieldsTyped
<1>5. FieldsTyped'
  <2>1. stored' \in Values
    BY <1>0, <1>1 DEF Imported, FieldsTyped, Values
  <2> QED BY <1>0, <1>1, <1>2, <1>3, <1>4, <2>1, OvertakenLoads DEF FieldsTyped
<1>6. SavesNumbered'
  BY <1>0, <1>1, <1>2, <1>3 DEF SavesNumbered, SavesOf, Newest
<1>7. \A f \in Fields : OutcomeFits(f)'
  BY <1>1 DEF FieldsInv, OutcomeFits, SavesOf, Newest
<1>8. \A f \in Fields : SavesOf(f)' = SavesOf(f)
  BY <1>1 DEF SavesOf
<1>9. LoadsFit'
  <2>1. \A t \in saves : t.f \in Fields /\ t \in SavesOf(t.f)
    BY <1>0 DEF FieldsTyped, SaveStates, SavesOf
  <2>2. \A t \in saves : t.f \in excused'
    BY <1>1, <2>1
  <2>3. \A f \in Fields : Sound(k, f)' /\ (f \notin k.touched => SavesOf(f) = {})
    BY <1>2 DEF Sound, SavesOf
  <2>4. \A q \in Overtaken : reloads' # {q} /\ q.touched = Fields
    BY <1>0, <1>2, OvertakenLoads
  <2> QED BY <1>1, <1>2, <1>8, <2>2, <2>3, <2>4 DEF LoadsFit
<1>10. RowsFit'
  <2>1. ASSUME Mounted(board'), NEW f \in Fields \ excused' PROVE rows'[f] = Shown(settings', form', f)
    BY <1>1, <2>1, RowShows DEF FieldsInv, RowsFit
  <2> QED BY <2>1 DEF RowsFit
<1>11. FieldsFit'
  BY <1>2 DEF FieldsFit
<1>12. PruneInv'
  <2>1. prune'.open => Retention' > 0
    BY <1>1 DEF FieldsInv, PruneInv, Retention, Shown
  <2>2. spent.loads \in Nat
    BY <1>0 DEF FieldsTyped
  <2> QED BY <1>0, <1>1, <1>2, <2>1, <2>2, ToldKept DEF FieldsInv, FieldsTyped, Values
<1> QED BY <1>5, <1>6, <1>7, <1>9, <1>10, <1>11, <1>12 DEF FieldsInv

(* An import fails, before the server changed its settings or after. *)
LEMMA ImportFailsStep ==
  ASSUME FieldsInv, NEW s \in Imported, ImportFails(s)
  PROVE  FieldsInv'
<1>0. FieldsTyped /\ SavesNumbered /\ LoadsFit
  BY DEF FieldsInv
<1>1. /\ stored' = s /\ excused' = (IF s = stored THEN excused ELSE Fields)
      /\ reloads' = Overtaken
      /\ UNCHANGED <<settings, form, rows, board, saveSeq, saves, newest, prune, spent>>
  BY DEF ImportFails
<1>2. FieldsTyped'
  <2>1. stored' \in Values
    BY <1>0, <1>1 DEF Imported, FieldsTyped, Values
  <2> QED BY <1>0, <1>1, <2>1, OvertakenLoads DEF FieldsTyped
<1>3. SavesNumbered'
  BY <1>0, <1>1, OvertakenLoads DEF SavesNumbered, SavesOf, Newest
<1>4. \A f \in Fields : OutcomeFits(f)'
  BY <1>1 DEF FieldsInv, OutcomeFits, SavesOf, Newest
<1>5. \A f \in Fields : SavesOf(f)' = SavesOf(f)
  BY <1>1 DEF SavesOf
<1>6. reloads' = {} <=> reloads = {}
  BY <1>0, <1>1, OvertakenLoads
<1>7. LoadsFit'
  <2>1. \A t \in saves : t.f \in Fields
    BY <1>0 DEF FieldsTyped, SaveStates
  <2>2. ASSUME ~board'.error, NEW q \in reloads', NEW f \in Fields \ excused'
        PROVE  Sound(q, f)' \/ reloads' # {q}
    <3>1. s = stored /\ excused' = excused /\ ~board.error
      BY <1>1, <2>2
    <3>2. PICK l \in reloads : q.n = l.n /\ q.st = l.st /\ q.snap = l.snap /\ q.cut = l.cut
      BY <1>0, <1>1, OvertakenLoads
    <3>3. CASE reloads = {l}
      BY <1>0, <1>1, <3>1, <3>2, <3>3 DEF LoadsFit, Sound
    <3>4. CASE reloads # {l}
      <4>1. PICK m \in reloads : m # l
        BY <3>4
      <4>2. m.n # l.n
        BY <1>0, <4>1 DEF SavesNumbered
      <4> QED BY <1>0, <1>1, <3>2, <4>2, OvertakenLoads
    <3> QED BY <3>3, <3>4
  <2>3. \A q \in reloads' : q.touched = Fields
    BY <1>0, <1>1, OvertakenLoads
  <2> QED BY <1>0, <1>1, <1>6, <2>1, <2>2, <2>3 DEF LoadsFit
<1>8. RowsFit'
  BY <1>1 DEF FieldsInv, RowsFit, Mounted, Shown
<1>9. FieldsFit'
  <2>1. ASSUME Mounted(board'), settings' # NoSettings, reloads' = {}, NEW f \in Fields \ excused'
        PROVE  FieldFits(f)'
    <3>1. s = stored /\ excused' = excused
      BY <1>1, <2>1
    <3>2. FieldFits(f)
      BY <1>1, <1>6, <2>1, <3>1 DEF FieldsInv, FieldsFit
    <3>3. UNCHANGED <<settings, form, stored, saveSeq, SavesOf(f)>>
      BY <1>1, <1>5, <3>1
    <3> QED BY <3>2, <3>3 DEF FieldFits, FieldSaved, Newest, Shown
  <2> QED BY <2>1 DEF FieldsFit
<1>10. PruneInv'
  <2>1. prune'.open => Retention' > 0
    BY <1>1 DEF FieldsInv, PruneInv, Retention, Shown
  <2> QED BY <1>0, <1>1, <1>5, <1>6, <2>1, ToldKept DEF FieldsInv, FieldsTyped, Values
<1> QED BY <1>2, <1>3, <1>4, <1>7, <1>8, <1>9, <1>10 DEF FieldsInv


(* What a commit shows: the value in its own row, the threshold cut to a lower
   maximum, and all else as it was. *)
LEMMA CommitShows ==
  ASSUME FieldsTyped, NEW f \in Fields, NEW typed \in 0 .. MaxValue, CommitRow(f, typed)
  PROVE  \E v \in Nat :
           /\ v = typed \/ f \in excused'
           /\ settings' \in Values \cup {NoSettings} /\ form' \in [FormFields -> Nat]
           /\ settings' = NoSettings <=> settings = NoSettings
           /\ \A g \in FormFields : settings # NoSettings => settings'[g] = settings[g]
           /\ \A g \in Fields \ {f} : settings # NoSettings => settings'[g] = settings[g]
           /\ settings # NoSettings \/ f # "days" => Shown(settings', form', f) = v
           /\ \A g \in Fields \ ({f} \cup excused') :
                Shown(settings', form', g) = Shown(settings, form, g)
           /\ Save(f, v)
<1> DEFINE v == IF f = "mem" THEN Lower(typed, form.max) ELSE typed
<1>1. PICK w : w = v
  OBVIOUS
<1>2. /\ Save(f, w)
      /\ form' = CASE f = "max" -> [max |-> w, mem |-> Lower(form.mem, w)]
                   [] f = "mem" -> [form EXCEPT !.mem = w]
                   [] OTHER     -> form
      /\ settings' = IF f = "days" /\ settings # NoSettings
                     THEN [settings EXCEPT !.days = w] ELSE settings
      /\ w # typed => f \in excused'
      /\ f = "max" /\ form.mem > w => "mem" \in excused'
  BY <1>1 DEF CommitRow
<1>3. /\ typed \in Nat /\ form \in [FormFields -> Nat] /\ form.max \in Nat /\ form.mem \in Nat
  BY DEF FieldsTyped
<1>4. w \in Nat
  BY <1>1, <1>3 DEF Lower
<1> HIDE DEF v
<1>5. CASE f = "max"
  <2>1. form' = [max |-> w, mem |-> Lower(form.mem, w)] /\ settings' = settings
    BY <1>2, <1>5
  <2>2. /\ Lower(form.mem, w) \in Nat
        /\ "mem" \in excused' \/ Lower(form.mem, w) = form.mem
    BY <1>2, <1>3, <1>4, <1>5 DEF Lower
  <2>3. /\ form' \in [FormFields -> Nat] /\ form'["max"] = w
        /\ "mem" \in excused' \/ form'["mem"] = form["mem"]
    BY <1>4, <2>1, <2>2
  <2> QED BY <1>2, <1>4, <1>5, <2>1, <2>3 DEF FieldsTyped, Shown
<1>6. CASE f = "mem"
  <2>1. form' = [form EXCEPT !.mem = w] /\ settings' = settings
    BY <1>2, <1>6
  <2> QED BY <1>2, <1>3, <1>4, <1>6, <2>1 DEF FieldsTyped, Shown
<1>7. CASE f = "days" /\ settings # NoSettings
  <2>1. form' = form /\ settings' = [settings EXCEPT !.days = w] /\ settings \in Values
    BY <1>2, <1>7 DEF FieldsTyped
  <2>2. settings' \in Values /\ settings'["days"] = w /\ settings' # NoSettings
    BY <1>4, <2>1, NoSettingsAssumption DEF Values
  <2> QED BY <1>2, <1>3, <1>4, <1>7, <2>1, <2>2 DEF Values, Shown
<1>8. CASE f = "days" /\ settings = NoSettings
  <2>1. form' = form /\ settings' = settings
    BY <1>2, <1>8
  <2> QED BY <1>2, <1>3, <1>4, <1>8, <2>1 DEF FieldsTyped, Shown
<1> QED BY <1>5, <1>6, <1>7, <1>8


(* A save begins: it is the newest of its field. *)
LEMMA SaveBegins ==
  ASSUME FieldsTyped, NEW f \in Fields, NEW v \in Nat, Save(f, v)
  PROVE  \E new \in SaveStates :
           /\ new.f = f /\ new.seq = saveSeq[f] + 1 /\ new.value = v /\ new.st = "sent"
           /\ new.known => settings # NoSettings
           /\ settings # NoSettings => new.known /\ new.prev = settings[f]
           /\ saves' = saves \cup {new}
<1> DEFINE new == [f |-> f, seq |-> saveSeq[f] + 1, value |-> v, st |-> "sent",
                   known |-> settings # NoSettings,
                   prev |-> IF settings = NoSettings THEN 0 ELSE settings[f]]
<1>1. PICK known \in BOOLEAN : known = (settings # NoSettings)
  OBVIOUS
<1>2. PICK prev \in Nat : prev = IF settings = NoSettings THEN 0 ELSE settings[f]
  BY DEF FieldsTyped, Values
<1>3. PICK k : k = [f |-> f, seq |-> saveSeq[f] + 1, value |-> v, st |-> "sent",
                    known |-> known, prev |-> prev]
  OBVIOUS
<1>4. k = new
  BY <1>1, <1>2, <1>3, Zenon
<1>5. saves' = saves \cup {k}
  BY <1>4 DEF Save
<1>6. saveSeq[f] \in Nat
  BY DEF FieldsTyped, Values
<1> HIDE DEF new
<1>7. k \in SaveStates
  BY <1>3, <1>6 DEF SaveStates
<1>8. /\ k.f = f /\ k.seq = saveSeq[f] + 1 /\ k.value = v /\ k.st = "sent"
      /\ k.known = known /\ k.prev = prev
  BY <1>3
<1>9. (k.known => settings # NoSettings) /\ (settings # NoSettings => k.known)
  BY <1>1, <1>8, Zenon
<1> QED BY <1>2, <1>5, <1>7, <1>8, <1>9

(* What else happens when a save begins. *)
LEMMA SaveCounts ==
  ASSUME FieldsTyped, NEW f \in Fields, NEW v \in Nat, Save(f, v)
  PROVE  /\ saveSeq' \in Values /\ saveSeq'[f] = saveSeq[f] + 1
         /\ \A g \in Fields \ {f} : saveSeq'[g] = saveSeq[g] /\ newest'[g] = newest[g]
         /\ newest'[f] = [st |-> "sent", value |-> v]
         /\ newest' \in [Fields -> [st : {"none", "sent", "ok", "failed"}, value : Nat]]
         /\ board' \in Boards /\ (Mounted(board') <=> Mounted(board)) /\ board'.saving = f
         /\ board'.error = board.error
<1>1. /\ saveSeq' = [saveSeq EXCEPT ![f] = saveSeq[f] + 1]
      /\ board' = [board EXCEPT !.saving = f]
      /\ newest' = [newest EXCEPT ![f] = [st |-> "sent", value |-> v]]
  BY DEF Save
<1>2. saveSeq[f] \in Nat
  BY DEF FieldsTyped, Values
<1>3. /\ saveSeq' \in Values /\ saveSeq'[f] = saveSeq[f] + 1
      /\ \A g \in Fields \ {f} : saveSeq'[g] = saveSeq[g] /\ newest'[g] = newest[g]
      /\ newest'[f] = [st |-> "sent", value |-> v]
  BY <1>1, <1>2 DEF FieldsTyped, Values
<1>4. newest' \in [Fields -> [st : {"none", "sent", "ok", "failed"}, value : Nat]]
  BY <1>1 DEF FieldsTyped
<1>5. /\ board' \in Boards /\ (Mounted(board') <=> Mounted(board)) /\ board'.saving = f
      /\ board'.error = board.error
  BY <1>1 DEF FieldsTyped, Boards, Mounted
<1> QED BY <1>3, <1>4, <1>5

(* Loads that a save has touched keep their numbers. *)
LEMMA TouchedLoads ==
  ASSUME FieldsTyped, SavesNumbered, NEW f \in Fields, NEW v, Save(f, v)
  PROVE  /\ reloads' \in SUBSET ReloadStates
         /\ \A q \in reloads' : \E l \in reloads :
              /\ q.n = l.n /\ q.st = l.st /\ q.snap = l.snap /\ q.cut = l.cut /\ q.touched = l.touched \cup {f}
         /\ \A q, r \in reloads' : q.n = r.n => q = r
         /\ \A l \in reloads : \E q \in reloads' : q.n = l.n
         /\ \A q \in reloads' : q.n <= spent.loads
<1> DEFINE touch(l) == [l EXCEPT !.touched = @ \cup {f}]
<1>1. \A l \in reloads : /\ touch(l) \in ReloadStates /\ touch(l).n = l.n /\ touch(l).st = l.st
                         /\ touch(l).snap = l.snap /\ touch(l).cut = l.cut /\ touch(l).touched = l.touched \cup {f}
  BY DEF FieldsTyped, ReloadStates
<1>2. reloads' = {touch(l) : l \in reloads}
  BY DEF Save
<1> HIDE DEF touch
<1> QED BY <1>1, <1>2 DEF SavesNumbered

(* A value is committed. *)
LEMMA CommitRowStep ==
  ASSUME FieldsInv, NEW f \in Fields, NEW typed \in 0 .. MaxValue, CommitRow(f, typed)
  PROVE  FieldsInv'
<1>0. FieldsTyped /\ SavesNumbered /\ LoadsFit
  BY DEF FieldsInv
<1>1. PICK v \in Nat :
        /\ v = typed \/ f \in excused'
        /\ settings' \in Values \cup {NoSettings} /\ form' \in [FormFields -> Nat]
        /\ settings' = NoSettings <=> settings = NoSettings
        /\ \A g \in FormFields : settings # NoSettings => settings'[g] = settings[g]
        /\ \A g \in Fields \ {f} : settings # NoSettings => settings'[g] = settings[g]
        /\ settings # NoSettings \/ f # "days" => Shown(settings', form', f) = v
        /\ \A g \in Fields \ ({f} \cup excused') :
             Shown(settings', form', g) = Shown(settings, form, g)
        /\ Save(f, v)
  BY <1>0, CommitShows
<1>m. Mounted(board)
  BY DEF CommitRow
<1>s. Save(f, v)
  BY <1>1
<1>2. PICK new \in SaveStates :
        /\ new.f = f /\ new.seq = saveSeq[f] + 1 /\ new.value = v /\ new.st = "sent"
        /\ new.known => settings # NoSettings
        /\ settings # NoSettings => new.known /\ new.prev = settings[f]
        /\ saves' = saves \cup {new}
  BY <1>0, <1>s, SaveBegins, Zenon
<1>3. /\ saveSeq' \in Values /\ saveSeq'[f] = saveSeq[f] + 1
      /\ \A g \in Fields \ {f} : saveSeq'[g] = saveSeq[g] /\ newest'[g] = newest[g]
      /\ newest'[f] = [st |-> "sent", value |-> v]
      /\ newest' \in [Fields -> [st : {"none", "sent", "ok", "failed"}, value : Nat]]
      /\ board' \in Boards /\ Mounted(board') /\ board'.saving = f
      /\ board'.error = board.error
  BY <1>0, <1>m, <1>s, SaveCounts, Zenon
<1>4. /\ Mounted(board) /\ rows' = Rendered([rows EXCEPT ![f] = typed])
      /\ excused \subseteq excused' /\ excused' \in SUBSET Fields
      /\ SavesOf(f) # {} \/ settings = NoSettings => f \in excused'
      /\ reloads # {} => f \in excused'
      /\ spent' \in [loads : Nat, saves : Nat, prunes : Nat] /\ spent'.loads = spent.loads
      /\ FollowRetention /\ stored' = stored
  BY <1>0 DEF CommitRow, FieldsTyped
<1>5. /\ prune' \in PruneStates /\ prune'.told = prune.told /\ prune'.busy = prune.busy
      /\ prune'.open => Retention' > 0
  BY <1>0, <1>1, <1>4, RetentionFollowed
<1>6. FieldsTyped'
  <2>1. [rows EXCEPT ![f] = typed] \in Values
    BY <1>0 DEF FieldsTyped, Values
  <2>2. rows' \in Values
    BY <1>0, <1>1, <1>4, <2>1, RowsStayTyped
  <2> QED BY <1>0, <1>1, <1>2, <1>3, <1>4, <1>5, <2>2, TouchedLoads DEF FieldsTyped
<1>7. /\ \A g \in Fields \ {f} : SavesOf(g)' = SavesOf(g)
      /\ SavesOf(f)' = SavesOf(f) \cup {new}
  BY <1>2 DEF SavesOf
<1>8. saveSeq[f] \in Nat /\ \A t \in SavesOf(f) : t.seq \in Nat /\ t.seq <= saveSeq[f]
  BY <1>0 DEF FieldsTyped, Values, SavesNumbered, SavesOf, SaveStates
<1>9. SavesNumbered'
  <2>1. \A t \in saves' : /\ t.seq <= saveSeq'[t.f]
                          /\ t.known => settings' # NoSettings
                          /\ t.st = "summary" => t.f = "days"
    BY <1>0, <1>1, <1>2, <1>3, <1>8 DEF SavesNumbered, FieldsTyped, SaveStates, SavesOf
  <2>2. \A t, u \in saves' : t.f = u.f /\ t.seq = u.seq => t = u
    BY <1>0, <1>2, <1>8 DEF SavesNumbered, SavesOf
  <2>3. \E t \in SavesOf(board.saving)' : Newest(t)'
    BY <1>2, <1>3, <1>7 DEF Newest
  <2>4. \A l \in reloads' : l.n <= spent'.loads
    BY <1>0, <1>1, <1>4, TouchedLoads
  <2>5. \A l, m \in reloads' : l.n = m.n => l = m
    BY <1>0, <1>1, TouchedLoads
  <2> QED BY <2>1, <2>2, <2>3, <2>4, <2>5 DEF SavesNumbered
<1>10. ASSUME NEW g \in Fields PROVE OutcomeFits(g)'
  <2>1. CASE g = f
    BY <1>2, <1>3, <1>7, <1>8, <2>1 DEF OutcomeFits, Newest, SavesOf
  <2>2. CASE g # f
    <3>1. OutcomeFits(g)
      BY DEF FieldsInv
    <3>2. \A t \in SavesOf(g) : t.f = g
      BY DEF SavesOf
    <3>3. settings' # NoSettings /\ g \in FormFields => settings # NoSettings /\ settings'[g] = settings[g]
      BY <1>1
    <3> QED BY <1>3, <1>7, <2>2, <3>1, <3>2, <3>3 DEF OutcomeFits, Newest
  <2> QED BY <2>1, <2>2
<1>11. LoadsFit'
  <2>1. reloads' # {} => reloads # {}
    BY <1>0, <1>1, TouchedLoads
  <2>2. reloads' # {} \/ board'.error => \A t \in saves' : t.f \in excused'
    BY <1>0, <1>2, <1>3, <1>4, <2>1 DEF LoadsFit, Mounted
  <2>3. ASSUME NEW q \in reloads', NEW g \in Fields \ excused' PROVE Sound(q, g)' \/ reloads' # {q}
    <3>1. PICK l \in reloads : q.n = l.n /\ q.st = l.st /\ q.snap = l.snap /\ q.cut = l.cut
      BY <1>0, <1>1, TouchedLoads
    <3>2. CASE reloads = {l}
      <4>1. ~board.error /\ g \notin excused
        BY <1>4, <2>3 DEF Mounted
      <4>2. Sound(l, g)
        BY <1>0, <3>2, <4>1 DEF LoadsFit
      <4> QED BY <1>4, <3>1, <4>2 DEF Sound
    <3>3. CASE reloads # {l}
      <4>1. PICK m \in reloads : m # l
        BY <3>3
      <4>2. m.n # l.n
        BY <1>0, <4>1 DEF SavesNumbered
      <4> QED BY <1>0, <1>1, <3>1, <4>2, TouchedLoads
    <3> QED BY <3>2, <3>3
  <2>4. ASSUME NEW q \in reloads', NEW g \in Fields \ q.touched PROVE SavesOf(g)' = {} /\ Sound(q, g)'
    <3>1. PICK l \in reloads : q.st = l.st /\ q.snap = l.snap /\ q.cut = l.cut /\ q.touched = l.touched \cup {f}
      BY <1>0, <1>1, TouchedLoads
    <3>2. g # f /\ g \notin l.touched
      BY <2>4, <3>1
    <3>3. SavesOf(g) = {} /\ Sound(l, g)
      BY <1>0, <2>4, <3>2 DEF LoadsFit
    <3> QED BY <1>4, <1>7, <3>1, <3>2, <3>3 DEF Sound
  <2> QED BY <2>2, <2>3, <2>4 DEF LoadsFit
<1>12. RowsFit'
  <2>1. ASSUME NEW g \in Fields \ excused' PROVE rows'[g] = Shown(settings', form', g)
    <3>1. CASE g = f
      <4>1. [rows EXCEPT ![f] = typed][g] = Shown(settings', form', g)
        BY <1>0, <1>1, <1>4, <2>1, <3>1 DEF FieldsTyped, Values
      <4> QED BY <1>3, <1>4, <4>1, RowShows
    <3>2. CASE g # f
      <4>1. rows[g] = Shown(settings, form, g)
        BY <1>4, <2>1 DEF FieldsInv, RowsFit
      <4>2. [rows EXCEPT ![f] = typed][g] = Shown(settings, form, g)
        BY <1>0, <3>2, <4>1 DEF FieldsTyped, Values
      <4> QED BY <1>3, <1>4, <4>2, RowShows
    <3> QED BY <3>1, <3>2
  <2> QED BY <2>1 DEF RowsFit
<1>13. FieldsFit'
  <2>1. ASSUME settings' # NoSettings, reloads' = {}, NEW g \in Fields \ excused' PROVE FieldFits(g)'
    <3>1. settings # NoSettings /\ reloads = {} /\ g \notin excused
      BY <1>0, <1>1, <1>4, <2>1, TouchedLoads
    <3>2. FieldFits(g)
      BY <1>4, <2>1, <3>1 DEF FieldsInv, FieldsFit
    <3>3. CASE g = f
      <4>1. SavesOf(f) = {} /\ SavesOf(f)' = {new}
        BY <1>4, <1>7, <2>1, <3>3
      <4>2. settings[f] = stored[f]
        BY <3>2, <3>3, <4>1 DEF FieldFits
      <4>3. f \in FormFields => settings'[f] = settings[f]
        BY <1>1, <3>1
      <4>4. FieldSaved(new)'
        BY <1>1, <1>2, <1>3, <1>4, <3>1, <4>2, <4>3 DEF FieldSaved, Newest
      <4> QED BY <3>3, <4>1, <4>4 DEF FieldFits
    <3>4. CASE g # f
      <4>1. /\ settings'[g] = settings[g] /\ Shown(settings', form', g) = Shown(settings, form, g)
            /\ saveSeq'[g] = saveSeq[g] /\ stored' = stored /\ SavesOf(g)' = SavesOf(g)
        BY <1>1, <1>3, <1>4, <1>7, <2>1, <3>1, <3>4
      <4>2. \A t \in SavesOf(g) : t.f = g
        BY DEF SavesOf
      <4>3. \A t \in SavesOf(g) : FieldSaved(t)'
        BY <3>2, <4>1, <4>2 DEF FieldFits, FieldSaved, Newest
      <4> QED BY <3>2, <4>1, <4>3 DEF FieldFits
    <3> QED BY <3>3, <3>4
  <2> QED BY <2>1 DEF FieldsFit
<1>14. PruneInv'
  <2>1. saveSeq["days"] \in Nat /\ saveSeq'["days"] \in Nat /\ saveSeq["days"] <= saveSeq'["days"]
    BY <1>0, <1>3 DEF FieldsTyped, Values
  <2>2. saveSeq'["days"] = saveSeq["days"] => f # "days"
    BY <1>3, <1>8
  <2>3. reloads = {} => reloads' = {}
    BY <1>0, <1>1, TouchedLoads
  <2>4. spent.loads \in Nat
    BY <1>0 DEF FieldsTyped
  <2> QED BY <1>0, <1>4, <1>5, <1>7, <2>1, <2>2, <2>3, <2>4, ToldKept DEF FieldsInv
<1> QED BY <1>6, <1>9, <1>10, <1>11, <1>12, <1>13, <1>14 DEF FieldsInv


(* The server answers a save, or its answer is lost. *)
LEMMA SaveServedStep ==
  ASSUME FieldsInv, NEW s \in saves, SaveServed(s)
  PROVE  FieldsInv'
<1>0. FieldsTyped /\ SavesNumbered /\ LoadsFit /\ s \in SaveStates /\ s.f \in Fields
  BY DEF FieldsInv, FieldsTyped, SaveStates
<1>1. PICK ok \in BOOLEAN, written \in BOOLEAN :
       /\ ok => written
       /\ stored' = IF written THEN [stored EXCEPT ![s.f] = s.value] ELSE stored
       /\ saves' = (saves \ {s}) \cup {[s EXCEPT !.st = IF ok THEN "ok" ELSE "failed"]}
       /\ excused' = IF written /\ ~ok THEN excused \cup {s.f} ELSE excused
       /\ newest' = IF s.seq # saveSeq[s.f] \/ newest[s.f].st # "sent" THEN newest
                    ELSE [newest EXCEPT ![s.f].st = IF ok THEN "ok" ELSE "failed"]
  BY DEF SaveServed
<1>2. /\ s.st = "sent"
      /\ UNCHANGED <<settings, form, rows, board, saveSeq, reloads, prune, imp, spent>>
  BY DEF SaveServed
<1>3. PICK st \in {"ok", "failed"} : st = IF ok THEN "ok" ELSE "failed"
  OBVIOUS
<1>4. PICK t : t = [s EXCEPT !.st = st]
  OBVIOUS
<1>5. /\ t \in SaveStates /\ t.f = s.f /\ t.seq = s.seq /\ t.value = s.value /\ t.st = st
      /\ t.known = s.known /\ t.prev = s.prev
      /\ saves' = (saves \ {s}) \cup {t}
  BY <1>0, <1>1, <1>3, <1>4 DEF SaveStates
<1>6. /\ stored' \in Values /\ \A g \in Fields \ {s.f} : stored'[g] = stored[g]
      /\ stored'[s.f] = IF written THEN s.value ELSE stored[s.f]
  BY <1>0, <1>1 DEF FieldsTyped, Values, SaveStates
<1>7. /\ \A g \in Fields \ {s.f} : newest'[g] = newest[g]
      /\ newest' \in [Fields -> [st : {"none", "sent", "ok", "failed"}, value : Nat]]
      /\ newest'[s.f].value = newest[s.f].value
      /\ newest'[s.f].st = IF s.seq # saveSeq[s.f] \/ newest[s.f].st # "sent" THEN newest[s.f].st ELSE st
  <2>1. CASE s.seq # saveSeq[s.f] \/ newest[s.f].st # "sent"
    BY <1>0, <1>1, <2>1 DEF FieldsTyped
  <2>2. CASE ~(s.seq # saveSeq[s.f] \/ newest[s.f].st # "sent")
    <3>1. newest' = [newest EXCEPT ![s.f].st = st]
      BY <1>1, <1>3, <2>2
    <3> QED BY <1>0, <2>2, <3>1 DEF FieldsTyped
  <2> QED BY <2>1, <2>2
<1>8. FieldsTyped'
  BY <1>0, <1>1, <1>2, <1>5, <1>6, <1>7 DEF FieldsTyped
<1>9. /\ \A g \in Fields \ {s.f} : SavesOf(g)' = SavesOf(g)
      /\ SavesOf(s.f)' = (SavesOf(s.f) \ {s}) \cup {t} /\ s \in SavesOf(s.f)
  BY <1>5 DEF SavesOf
<1>10. \A u \in saves : Newest(u)' <=> Newest(u)
  BY <1>2 DEF Newest
<1>11. SavesNumbered'
  <2>1. \A u \in saves' : /\ u.seq <= saveSeq'[u.f]
                          /\ u.known => settings' # NoSettings
                          /\ u.st = "summary" => u.f = "days"
    BY <1>0, <1>2, <1>5 DEF SavesNumbered
  <2>2. \A u, v \in saves' : u.f = v.f /\ u.seq = v.seq => u = v
    BY <1>0, <1>5 DEF SavesNumbered
  <2>3. board'.saving # "none" => \E u \in SavesOf(board.saving)' : Newest(u)'
    <3>1. ASSUME board.saving # "none" PROVE \E u \in SavesOf(board.saving)' : Newest(u)'
      <4>1. PICK u \in SavesOf(board.saving) : Newest(u)
        BY <1>0, <3>1 DEF SavesNumbered
      <4>2. CASE u = s
        BY <1>2, <1>5, <4>1, <4>2 DEF SavesOf, Newest
      <4>3. CASE u # s
        BY <1>2, <1>5, <4>1, <4>3 DEF SavesOf, Newest
      <4> QED BY <4>2, <4>3
    <3> QED BY <1>2, <3>1
  <2> QED BY <1>0, <1>2, <2>1, <2>2, <2>3 DEF SavesNumbered
<1>12. ASSUME NEW g \in Fields PROVE OutcomeFits(g)'
  <2>0. OutcomeFits(g)
    BY DEF FieldsInv
  <2>1. CASE g # s.f
    BY <1>2, <1>7, <1>9, <2>0, <2>1 DEF OutcomeFits, Newest
  <2>2. CASE g = s.f /\ Newest(s)
    <3>1. \A u \in SavesOf(g)' : Newest(u)' => u = t
      BY <1>0, <1>2, <1>5, <1>9, <2>2 DEF SavesNumbered, SavesOf, Newest
    <3>2. newest[g].st # "none" => s.value = newest[g].value /\ newest[g].st # "ok"
      BY <1>2, <1>9, <2>0, <2>2 DEF OutcomeFits
    <3>3. t \in SavesOf(g)' /\ Newest(t)'
      BY <1>2, <1>5, <1>9, <2>2 DEF Newest
    <3> QED BY <1>5, <1>7, <2>2, <3>1, <3>2, <3>3 DEF OutcomeFits, Newest
  <2>3. CASE g = s.f /\ ~Newest(s)
    <3>1. newest'[g] = newest[g]
      BY <1>1, <2>3 DEF Newest
    <3>2. ~Newest(t)' /\ \A u \in SavesOf(g) : Newest(u) => u \in SavesOf(g)'
      BY <1>2, <1>5, <1>9, <2>3 DEF Newest
    <3> QED BY <1>2, <1>9, <2>0, <2>3, <3>1, <3>2 DEF OutcomeFits, Newest
  <2> QED BY <2>1, <2>2, <2>3
<1>13. excused \subseteq excused'
  BY <1>1
<1>14. LoadsFit'
  <2>1. reloads # {} \/ board.error => s.f \in excused
    BY <1>0 DEF LoadsFit
  <2>2. reloads' # {} \/ board'.error => \A u \in saves' : u.f \in excused'
    BY <1>0, <1>2, <1>5, <1>13 DEF LoadsFit
  <2>3. \A q \in reloads, g \in Fields \ {s.f} : Sound(q, g)' <=> Sound(q, g)
    BY <1>2, <1>6 DEF Sound
  <2>4. ASSUME NEW q \in reloads, NEW g \in Fields \ q.touched PROVE g # s.f
    BY <1>0, <1>9, <2>4 DEF LoadsFit
  <2> QED BY <1>0, <1>2, <1>9, <1>13, <2>1, <2>2, <2>3, <2>4 DEF LoadsFit
<1>15. RowsFit'
  BY <1>2, <1>13 DEF FieldsInv, RowsFit, Mounted, Shown
<1>16. FieldsFit'
  <2>1. ASSUME Mounted(board), settings # NoSettings, reloads = {}, NEW g \in Fields \ excused'
        PROVE  FieldFits(g)'
    <3>1. FieldFits(g)
      BY <1>13, <2>1 DEF FieldsInv, FieldsFit
    <3>2. CASE g = s.f
      <4>1. SavesOf(g) = {s} /\ SavesOf(g)' = {t}
        BY <1>9, <3>1, <3>2 DEF FieldFits
      <4>2. FieldSaved(s)
        BY <3>1, <4>1 DEF FieldFits
      <4>3. written <=> ok
        BY <1>1, <2>1, <3>2
      <4>4. FieldSaved(t)'
        BY <1>2, <1>3, <1>5, <1>6, <4>2, <4>3 DEF FieldSaved, Newest, Shown
      <4> QED BY <4>1, <4>4 DEF FieldFits
    <3>3. CASE g # s.f
      <4>1. /\ UNCHANGED <<settings, form, saveSeq>> /\ stored'[g] = stored[g]
            /\ SavesOf(g)' = SavesOf(g)
        BY <1>2, <1>6, <1>9, <2>1, <3>3
      <4>2. \A u \in SavesOf(g) : u.f = g
        BY DEF SavesOf
      <4>3. \A u \in SavesOf(g) : FieldSaved(u)'
        BY <3>1, <4>1, <4>2 DEF FieldFits, FieldSaved, Newest, Shown
      <4> QED BY <3>1, <4>1, <4>3 DEF FieldFits, Shown
    <3> QED BY <3>2, <3>3
  <2> QED BY <1>2, <2>1 DEF FieldsFit
<1>17. PruneInv'
  <2>1. prune'.open => Retention' > 0
    BY <1>2 DEF FieldsInv, PruneInv, Retention, Shown
  <2>2. SavesOf("days") = {} => /\ SavesOf("days")' = {} /\ stored'["days"] = stored["days"]
    BY <1>0, <1>6, <1>9
  <2> QED BY <1>0, <1>2, <1>13, <2>1, <2>2, ToldKept DEF FieldsInv, FieldsTyped, Values
<1> QED BY <1>8, <1>11, <1>12, <1>14, <1>15, <1>16, <1>17 DEF FieldsInv


(* A save that goes, with its spinner if it was the newest, leaves the others numbered. *)
LEMMA SaveGoes ==
  ASSUME FieldsTyped, SavesNumbered, NEW s \in saves,
         saves' = saves \ {s}, board' = IF Newest(s) THEN [board EXCEPT !.saving = "none"] ELSE board,
         saveSeq' = saveSeq, reloads' = reloads, spent' = spent,
         settings' = NoSettings <=> settings = NoSettings
  PROVE  /\ SavesNumbered'
         /\ board' \in Boards /\ (Mounted(board') <=> Mounted(board)) /\ board'.error = board.error
         /\ \A g \in Fields \ {s.f} : SavesOf(g)' = SavesOf(g)
         /\ SavesOf(s.f)' = SavesOf(s.f) \ {s}
         /\ s \in SaveStates /\ s.f \in Fields
<1>1. s \in SaveStates /\ s.f \in Fields
  BY DEF FieldsTyped, SaveStates
<1>2. /\ board' \in Boards /\ (Mounted(board') <=> Mounted(board)) /\ board'.error = board.error
      /\ Newest(s) => board'.saving = "none"
      /\ ~Newest(s) => board' = board
  BY DEF FieldsTyped, Boards, Mounted
<1>3. /\ \A g \in Fields \ {s.f} : SavesOf(g)' = SavesOf(g)
      /\ SavesOf(s.f)' = SavesOf(s.f) \ {s}
  BY DEF SavesOf
<1>4. board'.saving # "none" => \E u \in SavesOf(board.saving)' : Newest(u)'
  <2>1. ASSUME board'.saving # "none" PROVE \E u \in SavesOf(board.saving)' : Newest(u)'
    <3>1. ~Newest(s) /\ board' = board
      BY <1>2, <2>1
    <3>2. PICK u \in SavesOf(board.saving) : Newest(u)
      BY <2>1, <3>1 DEF SavesNumbered
    <3> QED BY <3>1, <3>2 DEF SavesOf, Newest
  <2> QED BY <2>1
<1>5. SavesNumbered'
  BY <1>4 DEF SavesNumbered
<1> QED BY <1>1, <1>2, <1>3, <1>5

(* Outcomes still fit when a save goes, unless it was accepted and its value is not
   the page's. *)
LEMMA OutcomeStays ==
  ASSUME NEW g \in Fields, OutcomeFits(g), NEW s \in saves,
         newest' = newest, saveSeq' = saveSeq, saves' = saves \ {s},
         settings' = NoSettings <=> settings = NoSettings,
         g \in FormFields /\ settings # NoSettings =>
           \/ settings'[g] = settings[g] /\ ~(s.f = g /\ Newest(s) /\ newest[g].st = "ok")
           \/ s.f = g /\ Newest(s) /\ settings'[g] = newest[g].value
           \/ newest[g].st # "ok"
  PROVE  OutcomeFits(g)'
<1>1. SavesOf(g)' = SavesOf(g) \ {s}
  BY DEF SavesOf
<1>2. \A u : Newest(u)' <=> Newest(u)
  BY DEF Newest
<1>3. \A u \in SavesOf(g) : u.f = g
  BY DEF SavesOf
<1> QED BY <1>1, <1>2, <1>3 DEF OutcomeFits

(* Loads still fit when a save goes. *)
LEMMA LoadsStay ==
  ASSUME LoadsFit, saves' \subseteq saves, board'.error = board.error,
         stored' = stored, reloads' = reloads, excused \subseteq excused'
  PROVE  LoadsFit'
<1>1. \A q \in reloads, g \in Fields : Sound(q, g)' <=> Sound(q, g)
  BY DEF Sound
<1>2. \A g \in Fields : SavesOf(g) = {} => SavesOf(g)' = {}
  BY DEF SavesOf
<1> QED BY <1>1, <1>2 DEF LoadsFit

(* A field that no step is about still fits. *)
LEMMA FieldStays ==
  ASSUME NEW g \in Fields, FieldFits(g), settings'[g] = settings[g], stored'[g] = stored[g],
         Shown(settings', form', g) = Shown(settings, form, g),
         saveSeq'[g] = saveSeq[g], SavesOf(g)' = SavesOf(g)
  PROVE  FieldFits(g)'
<1>1. \A u \in SavesOf(g) : u.f = g
  BY DEF SavesOf
<1>2. \A u \in SavesOf(g) : FieldSaved(u)'
  BY <1>1 DEF FieldFits, FieldSaved, Newest
<1> QED BY <1>2 DEF FieldFits

(* The rows still show the page's values after a render. *)
LEMMA RowsStay ==
  ASSUME FieldsInv, rows' = Rendered(rows), excused \subseteq excused'
  PROVE  RowsFit'
<1>1. ASSUME Mounted(board'), NEW f \in Fields \ excused' PROVE rows'[f] = Shown(settings', form', f)
  <2>1. Mounted(board) => rows[f] = Shown(settings, form, f)
    BY <1>1 DEF FieldsInv, RowsFit
  <2> QED BY <1>1, <2>1, RowShows
<1> QED BY <1>1 DEF RowsFit

(* The answer of a save arrives. *)
LEMMA SaveDoneStep ==
  ASSUME FieldsInv, NEW s \in saves, SaveDone(s)
  PROVE  FieldsInv'
<1>0. FieldsTyped /\ SavesNumbered /\ LoadsFit /\ s \in SaveStates /\ s.f \in Fields
  BY DEF FieldsInv, FieldsTyped, SaveStates
<1>1. /\ s.st = "ok"
      /\ settings' = IF Newest(s) /\ settings # NoSettings
                     THEN [settings EXCEPT ![s.f] = s.value] ELSE settings
      /\ rows' = Rendered(rows) /\ FollowRetention
      /\ UNCHANGED <<form, stored, saveSeq, reloads, newest, excused, imp, spent>>
  BY DEF SaveDone
<1>2. /\ settings' \in Values \cup {NoSettings} /\ form' \in [FormFields -> Nat]
      /\ settings' = NoSettings <=> settings = NoSettings
      /\ settings # NoSettings => \A g \in Fields \ {s.f} : settings'[g] = settings[g]
      /\ settings # NoSettings /\ Newest(s) => settings'[s.f] = s.value
      /\ ~Newest(s) => settings' = settings
  <2>1. CASE Newest(s) /\ settings # NoSettings
    <3>1. settings' = [settings EXCEPT ![s.f] = s.value] /\ settings \in Values /\ s.value \in Nat
      BY <1>0, <1>1, <2>1 DEF FieldsTyped, SaveStates
    <3>2. /\ settings' \in Values /\ settings'[s.f] = s.value
          /\ \A g \in Fields \ {s.f} : settings'[g] = settings[g]
      BY <1>0, <3>1 DEF Values
    <3>3. settings' # NoSettings
      BY <3>2, NoSettingsAssumption DEF Values
    <3> QED BY <1>0, <1>1, <2>1, <3>2, <3>3 DEF FieldsTyped
  <2>2. CASE ~(Newest(s) /\ settings # NoSettings)
    BY <1>0, <1>1, <2>2 DEF FieldsTyped
  <2> QED BY <2>1, <2>2
<1>3. /\ prune' \in PruneStates /\ prune'.told = prune.told /\ prune'.busy = prune.busy
      /\ prune'.open => Retention' > 0
  BY <1>0, <1>1, <1>2, RetentionFollowed
<1>4. rows' \in Values
  BY <1>0, <1>1, <1>2, RowsStayTyped DEF FieldsTyped
<1>5. RowsFit'
  BY <1>1, RowsStay
<1>6. \A u : Newest(u)' <=> Newest(u)
  BY <1>1 DEF Newest
<1>7. \A g \in Fields \ {s.f} : settings # NoSettings =>
        settings'[g] = settings[g] /\ Shown(settings', form', g) = Shown(settings, form, g)
  BY <1>1, <1>2 DEF Shown
<1>8. CASE Newest(s) /\ s.f = "days"
  <2>1. saves' = (saves \ {s}) \cup {[s EXCEPT !.st = "summary"]} /\ board' = board
    BY <1>8 DEF SaveDone
  <2>2. PICK t : t = [s EXCEPT !.st = "summary"]
    OBVIOUS
  <2>3. /\ t \in SaveStates /\ t.f = s.f /\ t.seq = s.seq /\ t.value = s.value /\ t.st = "summary"
        /\ t.known = s.known /\ t.prev = s.prev
        /\ saves' = (saves \ {s}) \cup {t}
    BY <1>0, <2>1, <2>2 DEF SaveStates
  <2>4. FieldsTyped'
    BY <1>0, <1>1, <1>2, <1>3, <1>4, <2>1, <2>3 DEF FieldsTyped
  <2>5. /\ \A g \in Fields \ {s.f} : SavesOf(g)' = SavesOf(g)
        /\ SavesOf(s.f)' = (SavesOf(s.f) \ {s}) \cup {t} /\ s \in SavesOf(s.f)
    BY <2>3 DEF SavesOf
  <2>6. SavesNumbered'
    <3>1. \A u \in saves' : /\ u.seq <= saveSeq'[u.f]
                            /\ u.known => settings' # NoSettings
                            /\ u.st = "summary" => u.f = "days"
      BY <1>0, <1>1, <1>2, <1>8, <2>3 DEF SavesNumbered
    <3>2. \A u, v \in saves' : u.f = v.f /\ u.seq = v.seq => u = v
      BY <1>0, <2>3 DEF SavesNumbered
    <3>3. ASSUME board.saving # "none" PROVE \E u \in SavesOf(board.saving)' : Newest(u)'
      <4>1. PICK u \in SavesOf(board.saving) : Newest(u)
        BY <1>0, <3>3 DEF SavesNumbered
      <4>2. CASE u = s
        BY <1>1, <2>1, <2>3, <4>1, <4>2 DEF SavesOf, Newest
      <4>3. CASE u # s
        BY <1>1, <2>1, <2>3, <4>1, <4>3 DEF SavesOf, Newest
      <4> QED BY <4>2, <4>3
    <3> QED BY <1>0, <1>1, <2>1, <3>1, <3>2, <3>3 DEF SavesNumbered
  <2>7. ASSUME NEW g \in Fields PROVE OutcomeFits(g)'
    <3>0. OutcomeFits(g)
      BY DEF FieldsInv
    <3>1. CASE g # s.f
      BY <1>1, <1>2, <1>6, <2>5, <3>0, <3>1 DEF OutcomeFits
    <3>2. CASE g = s.f
      <4>1. \A u \in SavesOf(g)' : Newest(u)' => u = t
        BY <1>0, <1>6, <1>8, <2>3, <2>5, <3>2 DEF SavesNumbered, SavesOf, Newest
      <4>2. newest[g].st # "none" => s.value = newest[g].value
        BY <1>8, <2>5, <3>0, <3>2 DEF OutcomeFits
      <4> QED BY <1>1, <1>8, <2>3, <3>2, <4>1, <4>2 DEF OutcomeFits
    <3> QED BY <3>1, <3>2
  <2>8. LoadsFit'
    <3>1. \A q \in reloads, g \in Fields : Sound(q, g)' <=> Sound(q, g)
      BY <1>1 DEF Sound
    <3>2. \A g \in Fields : SavesOf(g) = {} => SavesOf(g)' = {}
      BY <2>5
    <3> QED BY <1>0, <1>1, <2>1, <2>3, <3>1, <3>2 DEF LoadsFit
  <2>9. FieldsFit'
    <3>1. ASSUME Mounted(board), settings # NoSettings, reloads = {}, NEW g \in Fields \ excused
          PROVE  FieldFits(g)'
      <4>1. FieldFits(g)
        BY <3>1 DEF FieldsInv, FieldsFit
      <4>2. CASE g = s.f
        <5>1. SavesOf(g) = {s} /\ SavesOf(g)' = {t}
          BY <2>5, <4>1, <4>2 DEF FieldFits
        <5>2. FieldSaved(s)
          BY <4>1, <5>1 DEF FieldFits
        <5>3. Shown(settings', form', "days") = s.value
          BY <1>2, <1>8, <3>1 DEF Shown
        <5>4. FieldSaved(t)'
          BY <1>1, <1>6, <1>8, <2>3, <5>2, <5>3 DEF FieldSaved, Newest
        <5> QED BY <5>1, <5>4 DEF FieldFits
      <4>3. CASE g # s.f
        BY <1>1, <1>7, <2>5, <3>1, <4>1, <4>3, FieldStays
      <4> QED BY <4>2, <4>3
    <3> QED BY <1>1, <1>2, <2>1, <3>1 DEF FieldsFit
  <2>10. PruneInv'
    BY <1>0, <1>1, <1>3, <1>8, <2>5, ToldKept DEF FieldsInv, FieldsTyped, Values
  <2> QED BY <1>5, <2>4, <2>6, <2>7, <2>8, <2>9, <2>10 DEF FieldsInv
<1>9. CASE ~(Newest(s) /\ s.f = "days")
  <2>1. /\ saves' = saves \ {s}
        /\ board' = IF Newest(s) THEN [board EXCEPT !.saving = "none"] ELSE board
    BY <1>9 DEF SaveDone
  <2>2. /\ SavesNumbered'
        /\ board' \in Boards /\ (Mounted(board') <=> Mounted(board)) /\ board'.error = board.error
        /\ \A g \in Fields \ {s.f} : SavesOf(g)' = SavesOf(g)
        /\ SavesOf(s.f)' = SavesOf(s.f) \ {s}
    BY <1>0, <1>1, <1>2, <2>1, SaveGoes
  <2>3. FieldsTyped'
    BY <1>0, <1>1, <1>2, <1>3, <1>4, <2>1, <2>2 DEF FieldsTyped
  <2>4. ASSUME NEW g \in Fields PROVE OutcomeFits(g)'
    <3>0. OutcomeFits(g)
      BY DEF FieldsInv
    <3>1. s.f = g /\ Newest(s) /\ newest[g].st = "ok" => s.value = newest[g].value
      BY <3>0 DEF OutcomeFits, SavesOf
    <3> QED BY <1>1, <1>2, <2>1, <3>0, <3>1, OutcomeStays
  <2>5. LoadsFit'
    BY <1>0, <1>1, <2>1, <2>2, LoadsStay
  <2>6. FieldsFit'
    <3>1. ASSUME Mounted(board), settings # NoSettings, reloads = {}, NEW g \in Fields \ excused
          PROVE  FieldFits(g)'
      <4>1. FieldFits(g)
        BY <3>1 DEF FieldsInv, FieldsFit
      <4>2. CASE g = s.f
        <5>1. SavesOf(g) = {s} /\ SavesOf(g)' = {} /\ FieldSaved(s)
          BY <2>2, <4>1, <4>2 DEF FieldFits, SavesOf
        <5>2. g \in FormFields /\ Newest(s)
          BY <1>9, <4>2, <5>1 DEF FieldSaved
        <5>3. Shown(settings', form', g) = Shown(settings, form, g)
          BY <1>1, <5>2 DEF Shown
        <5> QED BY <1>1, <1>2, <3>1, <4>2, <5>1, <5>2, <5>3 DEF FieldFits, FieldSaved
      <4>3. CASE g # s.f
        BY <1>1, <1>7, <2>2, <3>1, <4>1, <4>3, FieldStays
      <4> QED BY <4>2, <4>3
    <3> QED BY <1>1, <1>2, <2>2, <3>1 DEF FieldsFit
  <2>7. PruneInv'
    <3>1. SavesOf("days") = {} => SavesOf("days")' = {}
      BY <2>2
    <3> QED BY <1>0, <1>1, <1>3, <3>1, ToldKept DEF FieldsInv, FieldsTyped, Values
  <2> QED BY <1>5, <2>2, <2>3, <2>4, <2>5, <2>6, <2>7 DEF FieldsInv
<1> QED BY <1>8, <1>9


(* A save is rolled back: refused by the server, or left without its summary. *)
LEMMA RollBackStep ==
  ASSUME FieldsInv, NEW s \in saves, RollBack(s),
         s.st = "failed" \/ (s.st = "summary" /\ s.f \in excused'),
         excused \subseteq excused', excused' \in SUBSET Fields,
         UNCHANGED <<stored, saveSeq, reloads, newest, spent>>
  PROVE  FieldsInv'
<1>0. FieldsTyped /\ SavesNumbered /\ LoadsFit /\ s \in SaveStates /\ s.f \in Fields /\ s.prev \in Nat
  BY DEF FieldsInv, FieldsTyped, SaveStates
<1> DEFINE back == Newest(s) /\ s.known
<1>1. /\ saves' = saves \ {s}
      /\ form' = IF back /\ s.f \in FormFields THEN [form EXCEPT ![s.f] = s.prev] ELSE form
      /\ settings' = IF back /\ s.f = "days" THEN [settings EXCEPT !.days = s.prev] ELSE settings
      /\ board' = IF Newest(s) THEN [board EXCEPT !.saving = "none"] ELSE board
      /\ rows' = Rendered(rows) /\ FollowRetention
  BY DEF RollBack
<1>2. s.known => settings \in Values
  BY <1>0 DEF SavesNumbered, FieldsTyped
<1>3. /\ settings' \in Values \cup {NoSettings} /\ form' \in [FormFields -> Nat]
      /\ settings' = NoSettings <=> settings = NoSettings
      /\ settings # NoSettings => \A g \in Fields : g # "days" => settings'[g] = settings[g]
      /\ settings # NoSettings => \A g \in Fields \ {s.f} :
           settings'[g] = settings[g] /\ Shown(settings', form', g) = Shown(settings, form, g)
      /\ back => Shown(settings', form', s.f) = s.prev
      /\ back /\ s.f = "days" => settings'["days"] = s.prev
  <2>1. CASE back /\ s.f \in FormFields
    <3>1. form' = [form EXCEPT ![s.f] = s.prev] /\ settings' = settings
      BY <1>1, <2>1
    <3> QED BY <1>0, <1>2, <2>1, <3>1 DEF FieldsTyped, Shown
  <2>2. CASE back /\ s.f = "days"
    <3>1. settings' = [settings EXCEPT !.days = s.prev] /\ form' = form /\ settings \in Values
      BY <1>1, <1>2, <2>2
    <3>2. /\ settings' \in Values /\ settings'["days"] = s.prev
          /\ \A g \in Fields : g # "days" => settings'[g] = settings[g]
      BY <1>0, <3>1 DEF Values
    <3>3. settings' # NoSettings /\ settings # NoSettings
      BY <3>1, <3>2, NoSettingsAssumption DEF Values
    <3> QED BY <1>0, <2>2, <3>1, <3>2, <3>3 DEF FieldsTyped, Shown
  <2>3. CASE ~back
    <3>1. form' = form /\ settings' = settings
      BY <1>1, <2>3
    <3> QED BY <1>0, <2>3, <3>1 DEF FieldsTyped, Shown
  <2> QED BY <1>0, <2>1, <2>2, <2>3
<1>4. /\ prune' \in PruneStates /\ prune'.told = prune.told /\ prune'.busy = prune.busy
      /\ prune'.open => Retention' > 0
  BY <1>0, <1>1, <1>3, RetentionFollowed
<1>5. rows' \in Values
  BY <1>0, <1>1, <1>3, RowsStayTyped DEF FieldsTyped
<1>6. RowsFit'
  BY <1>1, RowsStay
<1>7. /\ SavesNumbered'
      /\ board' \in Boards /\ (Mounted(board') <=> Mounted(board)) /\ board'.error = board.error
      /\ \A g \in Fields \ {s.f} : SavesOf(g)' = SavesOf(g)
      /\ SavesOf(s.f)' = SavesOf(s.f) \ {s}
  BY <1>0, <1>1, <1>3, SaveGoes
<1>8. FieldsTyped'
  BY <1>0, <1>1, <1>3, <1>4, <1>5, <1>7 DEF FieldsTyped
<1>9. ASSUME NEW g \in Fields PROVE OutcomeFits(g)'
  <2>0. OutcomeFits(g)
    BY DEF FieldsInv
  <2>1. g \in FormFields /\ settings # NoSettings => settings'[g] = settings[g]
    BY <1>3
  <2>2. s.f = g /\ Newest(s) /\ newest[g].st = "ok" => s.st = "summary"
    BY <2>0 DEF OutcomeFits, SavesOf
  <2>3. s.st = "summary" => s.f \notin FormFields
    BY <1>0 DEF SavesNumbered
  <2>4. g \in FormFields => ~(s.f = g /\ Newest(s) /\ newest[g].st = "ok")
    BY <2>2, <2>3
  <2> QED BY <1>1, <1>3, <2>0, <2>1, <2>4, OutcomeStays
<1>10. LoadsFit'
  BY <1>0, <1>1, <1>7, LoadsStay
<1>11. FieldsFit'
  <2>1. ASSUME Mounted(board), settings # NoSettings, reloads = {}, NEW g \in Fields \ excused'
        PROVE  FieldFits(g)'
    <3>1. FieldFits(g)
      BY <2>1 DEF FieldsInv, FieldsFit
    <3>2. CASE g = s.f
      <4>1. SavesOf(g) = {s} /\ SavesOf(g)' = {} /\ FieldSaved(s)
        BY <1>7, <3>1, <3>2 DEF FieldFits, SavesOf
      <4>2. back /\ s.st = "failed"
        BY <2>1, <3>2, <4>1 DEF FieldSaved
      <4>3. stored[g] = s.prev /\ Shown(settings', form', g) = s.prev
        BY <1>3, <3>2, <4>1, <4>2 DEF FieldSaved
      <4>4. settings'[g] = s.prev
        <5>1. CASE g = "days"
          BY <1>3, <3>2, <4>2, <5>1
        <5>2. CASE g # "days"
          BY <1>3, <2>1, <3>2, <4>1, <5>2 DEF FieldSaved
        <5> QED BY <5>1, <5>2
      <4> QED BY <4>1, <4>3, <4>4 DEF FieldFits
    <3>3. CASE g # s.f
      BY <1>3, <1>7, <2>1, <3>1, <3>3, FieldStays
    <3> QED BY <3>2, <3>3
  <2> QED BY <1>3, <1>7, <2>1 DEF FieldsFit
<1>12. PruneInv'
  <2>1. SavesOf("days") = {} => SavesOf("days")' = {}
    BY <1>7
  <2>2. "days" \in excused' \/ "days" \notin excused
    OBVIOUS
  <2> QED BY <1>0, <1>4, <2>1, <2>2, ToldKept DEF FieldsInv, FieldsTyped, Values
<1> QED BY <1>6, <1>7, <1>8, <1>9, <1>10, <1>11, <1>12 DEF FieldsInv

(* The retention's summary arrives. *)
LEMMA SummaryArrivesStep ==
  ASSUME FieldsInv, NEW s \in saves, SummaryArrives(s)
  PROVE  FieldsInv'
<1>0. FieldsTyped /\ SavesNumbered /\ LoadsFit
  BY DEF FieldsInv
<1>1. /\ s.st = "summary" /\ saves' = saves \ {s}
      /\ board' = IF Newest(s) THEN [board EXCEPT !.saving = "none"] ELSE board
      /\ UNCHANGED <<stored, settings, form, rows, saveSeq, reloads, newest, excused, prune, imp, spent>>
  BY DEF SummaryArrives
<1>2. s.f = "days"
  BY <1>0, <1>1 DEF SavesNumbered
<1>3. /\ SavesNumbered'
      /\ board' \in Boards /\ (Mounted(board') <=> Mounted(board)) /\ board'.error = board.error
      /\ \A g \in Fields \ {s.f} : SavesOf(g)' = SavesOf(g)
      /\ SavesOf(s.f)' = SavesOf(s.f) \ {s}
  BY <1>0, <1>1, SaveGoes
<1>4. FieldsTyped'
  BY <1>0, <1>1, <1>3 DEF FieldsTyped
<1>5. \A g \in Fields : OutcomeFits(g)'
  BY <1>1, <1>2, OutcomeStays DEF FieldsInv
<1>6. LoadsFit'
  BY <1>0, <1>1, <1>3, LoadsStay
<1>7. RowsFit'
  BY <1>1, <1>3 DEF FieldsInv, RowsFit
<1>8. FieldsFit'
  <2>1. ASSUME Mounted(board), settings # NoSettings, reloads = {}, NEW g \in Fields \ excused
        PROVE  FieldFits(g)'
    <3>1. FieldFits(g)
      BY <2>1 DEF FieldsInv, FieldsFit
    <3>2. CASE g = s.f
      <4>1. SavesOf(g)' = {} /\ FieldSaved(s)
        BY <1>3, <3>1, <3>2 DEF FieldFits, SavesOf
      <4>2. Shown(settings, form, g) = stored[g] /\ settings[g] = stored[g]
        BY <1>1, <1>2, <2>1, <3>2, <4>1 DEF FieldSaved, Shown
      <4> QED BY <1>1, <4>1, <4>2 DEF FieldFits, Shown
    <3>3. CASE g # s.f
      BY <1>1, <1>3, <3>1, <3>3, FieldStays DEF Shown
    <3> QED BY <3>2, <3>3
  <2> QED BY <1>1, <1>3, <2>1 DEF FieldsFit
<1>9. PruneInv'
  <2>1. SavesOf("days") = {} => SavesOf("days")' = {}
    BY <1>3
  <2>2. prune'.open => Retention' > 0
    BY <1>1 DEF FieldsInv, PruneInv, Retention, Shown
  <2> QED BY <1>0, <1>1, <2>1, <2>2, ToldKept DEF FieldsInv, FieldsTyped, Values
<1> QED BY <1>3, <1>4, <1>5, <1>6, <1>7, <1>8, <1>9 DEF FieldsInv


(* The retention card and the choice of a configuration leave the settings alone. *)
LEMMA CardAlone ==
  ASSUME FieldsInv, prune' \in PruneStates, PruneInv',
         spent' \in [loads : Nat, saves : Nat, prunes : Nat], spent'.loads = spent.loads,
         UNCHANGED <<stored, settings, form, rows, board, saveSeq, saves, reloads, newest, excused>>
  PROVE  FieldsInv'
<1>1. FieldsTyped'
  BY DEF FieldsInv, FieldsTyped
<1>2. SavesNumbered'
  BY DEF FieldsInv, SavesNumbered, SavesOf, Newest
<1>3. \A f \in Fields : OutcomeFits(f)'
  BY DEF FieldsInv, OutcomeFits, SavesOf, Newest
<1>4. LoadsFit'
  BY DEF FieldsInv, LoadsFit, Sound, SavesOf
<1>5. RowsFit'
  BY DEF FieldsInv, RowsFit
<1>6. FieldsFit'
  BY DEF FieldsInv, FieldsFit, FieldFits, FieldSaved, SavesOf, Newest
<1> QED BY <1>1, <1>2, <1>3, <1>4, <1>5, <1>6 DEF FieldsInv

(* The choice of a configuration, up to its import. *)
LEMMA ImportStepKeeps ==
  ASSUME FieldsInv, NEW from, NEW to, ImportStep(from, to),
         spent' \in [loads : Nat, saves : Nat, prunes : Nat], spent'.loads = spent.loads
  PROVE  FieldsInv'
<1>1. /\ UNCHANGED <<stored, settings, form, rows, board, saveSeq, saves, reloads, newest, excused>>
      /\ prune' = prune
  BY DEF ImportStep
<1>2. PruneInv'
  BY <1>1 DEF FieldsInv, PruneInv, Retention, ToldFits, SavesOf
<1> QED BY <1>1, <1>2, CardAlone DEF FieldsInv, FieldsTyped

(* The card's steps keep what it announced: a confirm on a quiet page announces
   what the server holds. *)
LEMMA CardStep ==
  ASSUME FieldsInv,
         openPreview \/ PreviewServed \/ PreviewShown \/ ClosePreview \/ confirmPrune \/ PruneServed
  PROVE  FieldsInv'
<1>0. FieldsTyped /\ PruneInv
  BY DEF FieldsInv
<1>1. /\ UNCHANGED <<stored, settings, form, rows, board, saveSeq, saves, reloads, newest, excused>>
      /\ spent' \in [loads : Nat, saves : Nat, prunes : Nat] /\ spent'.loads = spent.loads
  <2>1. CASE openPreview
    BY <1>0, <2>1 DEF openPreview, FieldsTyped
  <2>2. CASE PreviewServed \/ PreviewShown \/ ClosePreview
    BY <1>0, <2>2 DEF PreviewServed, PreviewShown, ClosePreview, FieldsTyped
  <2>3. CASE confirmPrune \/ PruneServed
    <3>1. UNCHANGED <<stored, settings, form, rows, board, saveSeq, saves, reloads, newest, excused, spent>>
      BY <2>3, Zenon DEF confirmPrune, PruneServed
    <3> QED BY <1>0, <3>1 DEF FieldsTyped
  <2> QED BY <2>1, <2>2, <2>3
<1>2. Retention' = Retention /\ Retention \in Nat
  BY <1>0, <1>1, ShownNat DEF Retention, Shown, FieldsTyped
<1>3. ASSUME prune' \in PruneStates, prune'.told = prune.told, prune'.busy = prune.busy,
             prune'.open => Retention > 0
      PROVE  PruneInv'
  <2>1. spent.loads <= spent'.loads /\ saveSeq["days"] <= saveSeq'["days"]
    BY <1>0, <1>1 DEF FieldsTyped, Values
  <2>2. SavesOf("days")' = SavesOf("days")
    BY <1>1 DEF SavesOf
  <2> QED BY <1>0, <1>1, <1>2, <1>3, <2>1, <2>2, ToldKept DEF FieldsTyped, Values
<1>4. prune \in PruneStates /\ stored["days"] \in Nat /\ (prune.open => Retention > 0)
  BY <1>0 DEF FieldsTyped, Values, PruneInv
<1>5. CASE openPreview \/ PreviewServed \/ ClosePreview
  <2>1. /\ prune' \in PruneStates /\ prune'.told = prune.told /\ prune'.busy = prune.busy
        /\ prune'.open => prune.open
    <3>1. CASE openPreview
      BY <1>4, <3>1 DEF openPreview, PruneStates
    <3>2. CASE PreviewServed
      BY <1>4, <3>2 DEF PreviewServed, PruneStates
    <3>3. CASE ClosePreview
      BY <1>4, <3>3 DEF ClosePreview, PruneStates
    <3> QED BY <1>5, <3>1, <3>2, <3>3
  <2> QED BY <1>1, <1>3, <1>4, <2>1, CardAlone
<1>6. CASE PreviewShown
  <2>1. PICK p : p = [prune EXCEPT !.asked = FALSE, !.open = TRUE]
    OBVIOUS
  <2>2. /\ p \in PruneStates /\ p.told = prune.told /\ p.busy = prune.busy
        /\ prune' = WithoutRetention(p, Retention)
    BY <1>4, <1>6, <2>1 DEF PreviewShown, PruneStates
  <2>3. /\ prune' \in PruneStates /\ prune'.told = prune.told /\ prune'.busy = prune.busy
        /\ prune'.open => Retention > 0
    BY <1>2, <2>2, PreviewCloses
  <2> QED BY <1>1, <1>3, <2>3, CardAlone
<1>7. CASE confirmPrune
  <2>1. PICK sure \in BOOLEAN :
          sure = (Retention = prune.days /\ SavesOf("days") = {}
                  /\ reloads = {} /\ imp = "idle" /\ "days" \notin excused)
    OBVIOUS
  <2>2. PICK t : t = [days |-> prune.days, used |-> prune.days, seq |-> saveSeq.days,
                      loads |-> spent.loads, sure |-> sure]
    OBVIOUS
  <2>3. prune' = [prune EXCEPT !.busy = TRUE, !.told = {t}] /\ Mounted(board) /\ prune.open
    <3>1. t = [days |-> prune.days, used |-> prune.days, seq |-> saveSeq.days, loads |-> spent.loads,
               sure |-> Retention = prune.days /\ SavesOf("days") = {}
                        /\ reloads = {} /\ imp = "idle" /\ "days" \notin excused]
      BY <2>1, <2>2, Zenon
    <3> QED BY <1>7, <3>1 DEF confirmPrune
  <2>4. /\ t \in Announced /\ t.days = prune.days /\ t.seq = saveSeq["days"] /\ t.loads = spent.loads
        /\ t.used = t.days /\ t.sure = sure
    BY <1>0, <2>2 DEF FieldsTyped, PruneStates, Announced, Values
  <2>5. /\ prune' \in PruneStates /\ prune'.told = {t} /\ prune'.busy /\ prune'.open
    BY <1>4, <2>3, <2>4 DEF PruneStates
  <2>6. sure => reloads = {} /\ SavesOf("days") = {} /\ stored["days"] = prune.days
    <3>1. ASSUME sure PROVE stored["days"] = prune.days
      <4>1. /\ Retention = prune.days /\ SavesOf("days") = {} /\ reloads = {} /\ "days" \notin excused
        BY <2>1, <3>1
      <4>2. settings # NoSettings
        BY <1>4, <2>3 DEF Retention, Shown
      <4>3. FieldFits("days")
        BY <2>3, <4>1, <4>2 DEF FieldsInv, FieldsFit
      <4> QED BY <4>1, <4>3 DEF FieldFits, Retention
    <3> QED BY <2>1, <3>1
  <2>7. ToldFits(t)'
    <3>1. t.seq <= saveSeq'["days"] /\ t.loads <= spent'.loads
      BY <1>0, <1>1, <2>4 DEF FieldsTyped, Values
    <3>2. SavesOf("days")' = SavesOf("days")
      BY <1>1 DEF SavesOf
    <3> QED BY <1>1, <2>4, <2>5, <2>6, <3>1, <3>2 DEF ToldFits
  <2>8. PruneInv'
    BY <1>2, <1>4, <2>3, <2>5, <2>7 DEF PruneInv
  <2> QED BY <1>1, <2>5, <2>8, CardAlone
<1>8. CASE PruneServed
  <2> DEFINE after(t) == [t EXCEPT !.used = stored.days,
                                   !.sure = @ /\ saveSeq.days = t.seq /\ spent.loads = t.loads
                                              /\ imp = "idle" /\ "days" \notin excused]
  <2>1. PICK ok \in BOOLEAN :
          prune' = [prune EXCEPT !.busy = FALSE, !.open = @ /\ ~ok, !.days = IF ok THEN 0 ELSE @,
                      !.told = {after(t) : t \in @}]
    BY <1>8 DEF PruneServed
  <2>2. prune.busy
    BY <1>8 DEF PruneServed
  <2>3. \A t \in Announced :
          /\ after(t) \in Announced /\ after(t).days = t.days /\ after(t).seq = t.seq
          /\ after(t).loads = t.loads /\ after(t).used = stored["days"]
          /\ after(t).sure => /\ t.sure /\ saveSeq["days"] = t.seq /\ spent.loads = t.loads
                              /\ "days" \notin excused
    <3>1. ASSUME NEW t \in Announced
          PROVE  /\ after(t) \in Announced /\ after(t).days = t.days /\ after(t).seq = t.seq
                 /\ after(t).loads = t.loads /\ after(t).used = stored["days"]
                 /\ after(t).sure => /\ t.sure /\ saveSeq["days"] = t.seq /\ spent.loads = t.loads
                                     /\ "days" \notin excused
      <4>1. PICK sure \in BOOLEAN :
              sure = (t.sure /\ saveSeq.days = t.seq /\ spent.loads = t.loads
                      /\ imp = "idle" /\ "days" \notin excused)
        BY DEF Announced
      <4>2. after(t) = [t EXCEPT !.used = stored.days, !.sure = sure]
        BY <4>1, Zenon
      <4> HIDE DEF after
      <4>3. /\ after(t) \in Announced /\ after(t).days = t.days /\ after(t).seq = t.seq
            /\ after(t).loads = t.loads /\ after(t).used = stored["days"] /\ after(t).sure = sure
        BY <1>4, <4>2 DEF Announced
      <4> QED BY <4>1, <4>3
    <3> QED BY <3>1
  <2> HIDE DEF after
  <2>4. prune.told \in SUBSET Announced
    BY <1>4 DEF PruneStates
  <2>5. PICK seen : seen = {after(t) : t \in prune.told}
    OBVIOUS
  <2>6. seen \in SUBSET Announced
    BY <2>3, <2>4, <2>5
  <2>7. prune' = [prune EXCEPT !.busy = FALSE, !.open = prune.open /\ ~ok,
                    !.days = IF ok THEN 0 ELSE prune.days, !.told = seen]
    BY <2>1, <2>5
  <2>8. /\ prune' \in PruneStates /\ prune'.told = seen /\ ~prune'.busy
        /\ prune'.open => prune.open
    <3>1. PICK shut \in BOOLEAN : shut = (prune.open /\ ~ok)
      BY <1>4 DEF PruneStates
    <3>2. PICK days \in Nat : days = IF ok THEN 0 ELSE prune.days
      BY <1>4 DEF PruneStates
    <3>3. prune' = [prune EXCEPT !.busy = FALSE, !.open = shut, !.days = days, !.told = seen]
      BY <2>7, <3>1, <3>2, Zenon
    <3>4. /\ prune' \in PruneStates /\ prune'.told = seen /\ ~prune'.busy /\ prune'.open = shut
      BY <1>4, <2>6, <3>3 DEF PruneStates
    <3> QED BY <3>1, <3>4
  <2>9. ASSUME NEW u \in seen PROVE ToldFits(u)'
    <3>1. PICK t \in prune.told : u = after(t)
      BY <2>5
    <3>2. ToldFits(t) /\ t \in Announced
      BY <1>0, <2>4 DEF PruneInv
    <3>3. /\ u.days = t.days /\ u.seq = t.seq /\ u.loads = t.loads /\ u.used = stored["days"]
          /\ u.sure => /\ t.sure /\ saveSeq["days"] = t.seq /\ spent.loads = t.loads
                       /\ "days" \notin excused
      BY <2>3, <3>1, <3>2
    <3> QED BY <1>1, <2>2, <2>8, <3>2, <3>3 DEF ToldFits
  <2>10. PruneInv'
    BY <1>2, <1>4, <2>8, <2>9 DEF PruneInv
  <2> QED BY <1>1, <2>8, <2>10, CardAlone
<1> QED BY <1>5, <1>6, <1>7, <1>8


(* Every step of the page and its server keeps the invariant. *)
LEMMA FieldsInvStep == FieldsInv /\ [FieldsNext]_settingsVars => FieldsInv'
<1> SUFFICES ASSUME FieldsInv, [FieldsNext]_settingsVars PROVE FieldsInv'
  OBVIOUS
<1>0. spent \in [loads : Nat, saves : Nat, prunes : Nat]
  BY DEF FieldsInv, FieldsTyped
<1>1. ASSUME NEW l \in reloads, ReloadServed(l) \/ ReloadArrives(l) \/ ReloadFails(l)
      PROVE  FieldsInv'
  BY <1>1, ReloadServedStep, ReloadArrivesStep, ReloadFailsStep
<1>2. CASE RetryLoad
  BY <1>2, RetryLoadStep
<1>3. ASSUME NEW f \in Fields, NEW v \in 0 .. MaxValue, CommitRow(f, v)
      PROVE  FieldsInv'
  BY <1>3, CommitRowStep
<1>4. ASSUME NEW s \in saves, SaveServed(s) \/ SaveDone(s) \/ SummaryArrives(s)
      PROVE  FieldsInv'
  BY <1>4, SaveServedStep, SaveDoneStep, SummaryArrivesStep
<1>5. ASSUME NEW s \in saves, SaveFailed(s) \/ SummaryFails(s)
      PROVE  FieldsInv'
  <2>1. s.f \in Fields /\ excused \in SUBSET Fields
    BY DEF FieldsInv, FieldsTyped, SaveStates
  <2>2. CASE SaveFailed(s)
    BY <2>1, <2>2, RollBackStep DEF SaveFailed
  <2>3. CASE SummaryFails(s)
    BY <2>1, <2>3, RollBackStep DEF SummaryFails
  <2> QED BY <1>5, <2>2, <2>3
<1>6. CASE openPreview \/ PreviewServed \/ PreviewShown \/ ClosePreview \/ confirmPrune \/ PruneServed
  BY <1>6, CardStep
<1>7. CASE PickConfig
  <2>1. spent' \in [loads : Nat, saves : Nat, prunes : Nat] /\ spent'.loads = spent.loads
    BY <1>0, <1>7 DEF PickConfig
  <2> QED BY <1>7, <2>1, ImportStepKeeps DEF PickConfig
<1>8. CASE ConfigPreview \/ ConfigDropped \/ ConfirmImport
  BY <1>0, <1>8, ImportStepKeeps DEF ConfigPreview, ConfigDropped, ConfirmImport
<1>9. ASSUME NEW s \in Imported, ImportDone(s) \/ ImportFails(s)
      PROVE  FieldsInv'
  BY <1>9, ImportDoneStep, ImportFailsStep
<1>10. CASE UNCHANGED settingsVars
  <2>1. /\ UNCHANGED <<stored, settings, form, rows, board, saveSeq, saves, reloads, newest, excused>>
        /\ prune' = prune /\ spent' = spent
    BY <1>10 DEF settingsVars
  <2>2. PruneInv'
    BY <2>1 DEF FieldsInv, PruneInv, Retention, ToldFits, SavesOf
  <2> QED BY <1>0, <2>1, <2>2, CardAlone DEF FieldsInv, FieldsTyped
<1> QED
  BY <1>1, <1>2, <1>3, <1>4, <1>5, <1>6, <1>7, <1>8, <1>9, <1>10, Zenon DEF FieldsNext

(* The settings page's invariant, however loads, saves, prunes and an import overlap. *)
THEOREM FieldsInvHolds == FieldsSpec => []FieldsInv
<1> QED BY FieldsInvInit, FieldsInvStep, PTL DEF FieldsSpec

(* However saves, loads, an import and a clean-up overlap, fail and are rolled back:    *)
(* the page ends up with what the server holds, a slow answer never undoes a newer save *)
(* (saveSetting's sequence numbers), no row spins for ever, and a prune deletes what    *)
(* its preview announced.                                                               *)
THEOREM SettingsAgreeHolds == FieldsSpec => []SettingsAgree
<1>1. FieldsInv => SettingsAgree
  <2> SUFFICES ASSUME FieldsInv PROVE SettingsAgree
    OBVIOUS
  <2>1. QuietSettingsAgree
    <3>1. ASSUME Mounted(board), settings # NoSettings, reloads = {}, NEW f \in Fields \ excused,
                 SavesOf(f) = {}
          PROVE  Shown(settings, form, f) = stored[f] /\ rows[f] = stored[f]
      <4>1. FieldFits(f)
        BY <3>1 DEF FieldsInv, FieldsFit
      <4>2. rows[f] = Shown(settings, form, f)
        BY <3>1 DEF FieldsInv, RowsFit
      <4> QED BY <3>1, <4>1, <4>2 DEF FieldFits
    <3> QED BY <3>1 DEF QuietSettingsAgree
  <2>2. NewestSaveWins
    BY DEF FieldsInv, OutcomeFits, NewestSaveWins
  <2>3. SpinnerHasSave
    BY DEF FieldsInv, SavesNumbered, SpinnerHasSave
  <2>4. PruneAsPreviewed
    BY DEF FieldsInv, PruneInv, ToldFits, PruneAsPreviewed
  <2> QED BY <2>1, <2>2, <2>3, <2>4 DEF SettingsAgree
<1> QED BY <1>1, FieldsInvHolds, PTL

=============================================================================
