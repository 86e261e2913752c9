---------------------------- MODULE AccountSheet ----------------------------
(***************************************************************************)
(* The sheet of an account in the pool page (AccountDetailSheet.tsx): the    *)
(* models of its self-check, saved with every change of the list and rolled  *)
(* back when the save fails; the connection of a direct account; the latency *)
(* it asks for when it opens; and the test message of the playground.        *)
(* The sheet reads the account from the page's last load (props): a tab that *)
(* is left, and a sheet that is closed, forget their state and start from    *)
(* the props again.  Answers that come after that change nothing.            *)
(* The page's load is a request of its own (PoolDetailPage.load): read by   *)
(* the server at one time, shown at another; while it has failed the page   *)
(* shows nothing, and the sheet it kept mounts again with the next load.    *)
(***************************************************************************)
EXTENDS Naturals, FiniteSets

CONSTANTS Cards,       \* accounts of the pool
          Tests,       \* models an account can be tested with
          NoCard,      \* no account, nothing typed
          MaxEdits,    \* bound: changes of a list, saves, messages sent
          MaxTabs      \* bound: sheets and tabs opened

ASSUME NoCardAssumption == NoCard \notin Cards

VARIABLES store,       \* the server: [probe, url] of each account
          props,       \* the same in the page's last load
          load,        \* the page's newest load: [st, rows, old], see Idle
          behind,      \* accounts whose list was saved after props were read
          sheet,       \* [card, tab]
          probe,       \* ProbeConfigSection: [models, saving]
          conn,        \* DirectConnectionSection: [url, saving]
          lat,         \* latencyState: "loading", "error" or the account it is of
          play,        \* PlaygroundPanel: [loading, reply]
          asks,        \* requests in flight
          mounts,      \* panels mounted so far: the number names the present ones
          edits,       \* bound
          outdated,    \* the list on the screen is of a load read before the last save
          crossed      \* the list changed under a save of it, or its answer was lost

sheetVars == <<store, props, load, behind, sheet, probe, conn, lat, play, asks,
               mounts, edits, outdated, crossed>>

Addresses == {"u0", "u1"}

Blank == [card |-> NoCard, tab |-> "overview"]

\* A load without an answer yet: once served it carries the rows, and the accounts
\* whose list has been saved since they were read.
Idle(st) == [st |-> st, rows |-> [c \in Cards |-> [probe |-> {}, url |-> "u0"]], old |-> {}]

SheetInit ==
  /\ store = [c \in Cards |-> [probe |-> {}, url |-> "u0"]]
  /\ props = store
  /\ load = Idle("none")
  /\ behind = {}
  /\ sheet = Blank
  /\ probe = [models |-> {}, saving |-> FALSE]
  /\ conn = [url |-> "u0", saving |-> FALSE]
  /\ lat = "loading"
  /\ play = [loading |-> FALSE, reply |-> NoCard]
  /\ asks = {}
  /\ mounts = 0
  /\ edits = 0
  /\ outdated = FALSE
  /\ crossed = FALSE

\* A request: the list it saves and the one it goes back to, or the address it
\* saves; the panel it belongs to.
Ask(what, list, prev, url) ==
  [what |-> what, card |-> sheet.card, list |-> list, prev |-> prev, url |-> url,
   n |-> edits, mount |-> mounts, st |-> "sent"]

Saving(card) == \E q \in asks : q.what = "probe" /\ q.card = card

\* The page shows the sheet: not while its load has failed (ErrorState).
SheetShown == sheet.card # NoCard /\ load.st # "failed"

\* A tab's panel mounts: its sections start from the props; the overview asks
\* for the latency of its account.  rest: the requests under way besides.
Mount(card, t, rest) ==
  /\ mounts < MaxTabs
  /\ mounts' = mounts + 1
  /\ sheet' = [card |-> card, tab |-> t]
  /\ probe' = [models |-> props[card].probe, saving |-> FALSE]
  /\ conn' = [url |-> props[card].url, saving |-> FALSE]
  /\ lat' = "loading"
  /\ play' = [loading |-> FALSE, reply |-> NoCard]
  /\ asks' = rest \cup
       (IF t = "overview"
        THEN {[Ask("latency", {}, {}, "u0") EXCEPT !.card = card, !.mount = mounts + 1]}
        ELSE {})
  /\ crossed' = Saving(card)
  /\ outdated' = (card \in behind)
  /\ UNCHANGED <<store, props, behind, edits>>

OpenSheet(c) ==
  sheet.card = NoCard /\ load.st # "failed" /\ Mount(c, "overview", asks) /\ UNCHANGED load
SetTab(t) == SheetShown /\ t # sheet.tab /\ Mount(sheet.card, t, asks) /\ UNCHANGED load

\* The panel unmounts and its state is gone: no request under way is its own any more.
Unmount ==
  /\ mounts' = mounts + 1
  /\ probe' = [models |-> {}, saving |-> FALSE]
  /\ conn' = [url |-> "u0", saving |-> FALSE]
  /\ lat' = "loading"
  /\ play' = [loading |-> FALSE, reply |-> NoCard]
  /\ outdated' = FALSE
  /\ crossed' = FALSE

CloseSheet ==
  /\ SheetShown
  /\ sheet' = Blank
  /\ Unmount
  /\ UNCHANGED <<store, props, load, behind, asks, edits>>

\* load(): a new request, and an older one no longer counts.  A page that had failed
\* shows its former rows again, and the sheet it kept mounts anew.
SheetReload(rest) ==
  /\ load' = Idle("sent")
  /\ IF load.st = "failed" /\ sheet.card # NoCard
     THEN Mount(sheet.card, "overview", rest)
     ELSE /\ asks' = rest
          /\ UNCHANGED <<store, props, behind, sheet, probe, conn, lat, play, mounts, edits,
                         outdated, crossed>>

\* A new dataVersion, an action of the page, or its retry.
SheetLoads == load.st # "sent" /\ SheetReload(asks)

SheetLoadServed ==
  /\ load.st = "sent"
  /\ load' = [st |-> "served", rows |-> store, old |-> {}]
  /\ UNCHANGED <<store, props, behind, sheet, probe, conn, lat, play, asks, mounts, edits,
                 outdated, crossed>>

\* The answer is shown.  The sections' effects on the account's fields reset them: the
\* list of models is a new array with every load, the address only if it differs.
SheetLoadArrives ==
  /\ load.st = "served"
  /\ load' = Idle("none")
  /\ props' = load.rows
  /\ behind' = load.old
  /\ LET c == sheet.card
     IN /\ probe' = IF c = NoCard THEN probe ELSE [probe EXCEPT !.models = load.rows[c].probe]
        /\ conn' = IF c # NoCard /\ load.rows[c].url # props[c].url
                   THEN [conn EXCEPT !.url = load.rows[c].url] ELSE conn
        /\ outdated' = (c # NoCard /\ c \in load.old)
        /\ crossed' = (c # NoCard /\ Saving(c))
  /\ UNCHANGED <<store, sheet, lat, play, asks, mounts, edits>>

\* The load fails: the page shows the error alone, and the sheet's panel is gone.
SheetLoadFails ==
  /\ load.st \in {"sent", "served"}
  /\ load' = Idle("failed")
  /\ IF sheet.card # NoCard THEN Unmount
     ELSE UNCHANGED <<probe, conn, lat, play, mounts, outdated, crossed>>
  /\ UNCHANGED <<store, props, behind, sheet, asks, edits>>

Panel(t) == SheetShown /\ sheet.tab = t

\* The picker adds or removes one model: persist shows the new list and saves it.
persist(m) ==
  /\ Panel("overview")
  /\ edits < MaxEdits
  /\ edits' = edits + 1
  /\ LET next == IF m \in probe.models THEN probe.models \ {m} ELSE probe.models \cup {m}
     IN /\ probe' = [models |-> next, saving |-> TRUE]
        /\ asks' = asks \cup {Ask("probe", next, probe.models, "u0")}
  /\ crossed' = (crossed \/ Saving(sheet.card))
  /\ UNCHANGED <<store, props, load, behind, sheet, conn, lat, play, mounts, outdated>>

\* The connection's form: typing, reset, save.
EditUrl(u) ==
  /\ Panel("overview")
  /\ ~conn.saving
  /\ u # conn.url
  /\ conn' = [conn EXCEPT !.url = u]
  /\ UNCHANGED <<store, props, load, behind, sheet, probe, lat, play, asks, mounts, edits, outdated, crossed>>

saveConnection ==
  /\ Panel("overview")
  /\ ~conn.saving
  /\ conn.url # props[sheet.card].url
  /\ edits < MaxEdits
  /\ edits' = edits + 1
  /\ conn' = [conn EXCEPT !.saving = TRUE]
  /\ asks' = asks \cup {Ask("conn", {}, {}, conn.url)}
  /\ UNCHANGED <<store, props, load, behind, sheet, probe, lat, play, mounts, outdated, crossed>>

\* runTest of the playground.
runTestMessage ==
  /\ Panel("playground")
  /\ ~play.loading
  /\ edits < MaxEdits
  /\ edits' = edits + 1
  /\ play' = [loading |-> TRUE, reply |-> NoCard]
  /\ asks' = asks \cup {Ask("play", {}, {}, "u0")}
  /\ UNCHANGED <<store, props, load, behind, sheet, probe, conn, lat, mounts, outdated, crossed>>

\* The server carries a request out.  A list saved is newer than the rows the page
\* shows, and than those of a load that has been read.
AskServed(q) ==
  /\ q \in asks
  /\ q.st = "sent"
  /\ asks' = (asks \ {q}) \cup {[q EXCEPT !.st = "served"]}
  /\ store' = CASE q.what = "probe" -> [store EXCEPT ![q.card].probe = q.list]
                [] q.what = "conn" -> [store EXCEPT ![q.card].url = q.url]
                [] OTHER -> store
  /\ LET saved == IF q.what = "probe" THEN {q.card} ELSE {}
     IN /\ behind' = behind \cup saved
        /\ load' = IF load.st = "served" THEN [load EXCEPT !.old = @ \cup saved] ELSE load
  /\ UNCHANGED <<props, sheet, probe, conn, lat, play, mounts, edits, outdated, crossed>>

\* A saved connection has the page load again (onAccountUpdated), also when its panel
\* is gone; on a page whose load has failed the sheet comes back by it.
ConnectionSaved(q, ok) == q.what = "conn" /\ ok

ConnectionSavedUnseen(q) ==
  /\ q \in asks
  /\ q.st = "served"
  /\ q.what = "conn"
  /\ load.st = "failed"
  /\ SheetReload(asks \ {q})

\* Faulty variant: the latency is shown without asking whether the panel is still there.
AskEnds_AnyPanel(q, ok) ==
  /\ q \in asks
  /\ ok => q.st = "served"
  /\ ~(ConnectionSaved(q, ok) /\ load.st = "failed")
  /\ asks' = asks \ {q}
  /\ lat' = IF q.what # "latency" THEN lat ELSE IF ok THEN q.card ELSE "error"
  /\ load' = IF ConnectionSaved(q, ok) THEN Idle("sent") ELSE load
  /\ UNCHANGED <<store, props, behind, sheet, probe, conn, play, mounts, edits, outdated, crossed>>

\* Its answer comes, or it fails (before or after the server has done it).
AskEnds(q, ok) ==
  /\ q \in asks
  /\ ok => q.st = "served"
  /\ ~(ConnectionSaved(q, ok) /\ load.st = "failed")
  /\ asks' = asks \ {q}
  /\ IF q.mount # mounts THEN UNCHANGED <<probe, conn, lat, play>>
     ELSE /\ probe' = IF q.what # "probe" THEN probe
                      ELSE [models |-> IF ok THEN probe.models ELSE q.prev, saving |-> FALSE]
          /\ conn' = IF q.what = "conn" THEN [conn EXCEPT !.saving = FALSE] ELSE conn
          /\ lat' = IF q.what # "latency" THEN lat ELSE IF ok THEN q.card ELSE "error"
          /\ play' = IF q.what # "play" THEN play
                     ELSE [loading |-> FALSE, reply |-> IF ok THEN q.card ELSE NoCard]
  /\ load' = IF ConnectionSaved(q, ok) THEN Idle("sent") ELSE load
  \* A save whose answer is lost leaves the old list on the screen; one that is done
  \* leaves the list it saved.
  /\ crossed' = (crossed \/ (q.what = "probe" /\ q.mount = mounts /\ ~ok /\ q.st = "served"))
  /\ outdated' = (outdated /\ ~(q.what = "probe" /\ q.mount = mounts /\ ok))
  /\ UNCHANGED <<store, props, behind, sheet, mounts, edits>>

SheetNext ==
  \/ \E c \in Cards : OpenSheet(c)
  \/ \E t \in {"overview", "playground", "diagnostics"} : SetTab(t)
  \/ CloseSheet
  \/ SheetLoads \/ SheetLoadServed \/ SheetLoadArrives \/ SheetLoadFails
  \/ \E m \in Tests : persist(m)
  \/ \E u \in Addresses : EditUrl(u)
  \/ saveConnection
  \/ runTestMessage
  \/ \E q \in asks : AskServed(q) \/ ConnectionSavedUnseen(q) \/ \E ok \in BOOLEAN : AskEnds(q, ok)

SheetSpec == SheetInit /\ [][SheetNext]_sheetVars

-----------------------------------------------------------------------------
(* Properties *)

\* When no save of it is under way, the list on the screen is the list the self-check
\* will use: unless two saves crossed, a load or a new panel came under one or the
\* answer of one was lost, or the list shown is that of a load the server had read
\* before a save which ended since (the load may well arrive after that save did).
QuietListIsSaved ==
  Panel("overview") /\ ~Saving(sheet.card) /\ ~crossed /\ ~outdated
    => probe.models = store[sheet.card].probe

\* Figures and replies are those of the account whose sheet is open, however late
\* they come, and a busy panel has a request of its own in flight.
SheetIsItsAccounts ==
  SheetShown =>
    /\ lat \in {"loading", "error", sheet.card}
    /\ play.reply \in {NoCard, sheet.card}
    /\ \A b \in {<<probe.saving, "probe">>, <<conn.saving, "conn">>, <<play.loading, "play">>} :
         b[1] => \E q \in asks : q.what = b[2] /\ q.mount = mounts

\* The sheet shows the account it was opened for, as saved, however late answers
\* and roll-backs come and whatever was opened meanwhile.
SheetIsTrue ==
  /\ QuietListIsSaved
  /\ SheetIsItsAccounts

=============================================================================
