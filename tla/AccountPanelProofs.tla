------------------------- MODULE AccountPanelProofs -------------------------
(***************************************************************************)
(* Proofs about the panels that show and add an account, for any number of *)
(* their requests, however these are answered: the sheet of an account,    *)
(* the drawer that adds accounts without a login, and logins by device     *)
(* code, at the server and in the drawer that follows one of them.         *)
(***************************************************************************)
EXTENDS AccountSheet, ImportDrawer, DeviceLogin, FiniteSetTheorems, TLAPS

-----------------------------------------------------------------------------
(* The sheet of an account *)

SheetRows == [probe : SUBSET Tests, url : Addresses]
SheetAsks ==
  [what : {"latency", "probe", "conn", "play"}, card : Cards, list : SUBSET Tests,
   prev : SUBSET Tests, url : Addresses, n : Nat, mount : Nat, st : {"sent", "served"}]

LoadStates ==
  [st : {"none", "sent", "served", "failed"}, rows : [Cards -> SheetRows], old : SUBSET Cards]

SheetTyped ==
  /\ store \in [Cards -> SheetRows]
  /\ props \in [Cards -> SheetRows]
  /\ load \in LoadStates
  /\ behind \in SUBSET Cards
  /\ sheet \in [card : Cards \cup {NoCard}, tab : {"overview", "playground", "diagnostics"}]
  /\ probe \in [models : SUBSET Tests, saving : BOOLEAN]
  /\ conn \in [url : Addresses, saving : BOOLEAN]
  /\ lat \in {"loading", "error"} \cup Cards
  /\ play \in [loading : BOOLEAN, reply : Cards \cup {NoCard}]
  /\ asks \subseteq SheetAsks
  /\ mounts \in Nat /\ edits \in Nat
  /\ outdated \in BOOLEAN /\ crossed \in BOOLEAN

\* A request belongs to a panel mounted by now, and one of the present panel to
\* the account whose sheet is open.
AsksBelong ==
  \A q \in asks : q.mount <= mounts /\ (q.mount = mounts => q.card = sheet.card)

\* The page's rows, and those of a load that has been read, are of the list the server
\* holds, save for the accounts whose list was saved since.
CopiesFit ==
  /\ \A c \in Cards \ behind : props[c].probe = store[c].probe
  /\ load.st = "served" => \A c \in Cards \ load.old : load.rows[c].probe = store[c].probe

\* While nothing crossed, one save of the list at most is under way for the account
\* shown: it belongs to the present panel, saves what the panel shows, and would
\* put back what the server held.
ListUnderWay ==
  SheetShown /\ ~crossed =>
    /\ \A q \in asks : q.what = "probe" /\ q.card = sheet.card =>
         /\ q.mount = mounts /\ probe.models = q.list
         /\ q.st = "sent" /\ ~outdated => q.prev = store[q.card].probe
         /\ q.st = "served" => store[q.card].probe = q.list
         /\ \A r \in asks : r.what = "probe" /\ r.card = sheet.card => r = q
    /\ ~Saving(sheet.card) /\ ~outdated => probe.models = store[sheet.card].probe

SheetInv == SheetTyped /\ AsksBelong /\ CopiesFit /\ ListUnderWay /\ SheetIsItsAccounts

\* A load without an answer is a load, in the stage it was given.
LEMMA IdleTyped ==
  ASSUME NEW st \in {"none", "sent", "served", "failed"}
  PROVE  Idle(st) \in LoadStates /\ Idle(st).st = st
<1>1. [c \in Cards |-> [probe |-> {}, url |-> "u0"]] \in [Cards -> SheetRows]
  BY DEF SheetRows, Addresses
<1> QED BY <1>1 DEF Idle, LoadStates

(* The account sheet's invariant holds before a sheet is opened. *)
LEMMA SheetInvInit == SheetInit => SheetInv
<1> SUFFICES ASSUME SheetInit
             PROVE  SheetInv
  OBVIOUS
<1>0. store = [c \in Cards |-> [probe |-> {}, url |-> "u0"]] /\ props = store
  BY DEF SheetInit
<1>1. store \in [Cards -> SheetRows] /\ props \in [Cards -> SheetRows]
  BY <1>0 DEF SheetRows, Addresses
<1>2. /\ sheet \in [card : Cards \cup {NoCard}, tab : {"overview", "playground", "diagnostics"}]
      /\ sheet.card = NoCard /\ lat = "loading" /\ asks = {} /\ mounts = 0 /\ edits = 0
      /\ crossed = FALSE /\ outdated = FALSE
  BY DEF SheetInit, Blank
<1>3. probe \in [models : SUBSET Tests, saving : BOOLEAN]
  BY DEF SheetInit
<1>4. conn \in [url : Addresses, saving : BOOLEAN]
  BY DEF SheetInit, Addresses
<1>5. play \in [loading : BOOLEAN, reply : Cards \cup {NoCard}]
  BY DEF SheetInit
<1>l. load = Idle("none") /\ behind = {} /\ Idle("none") \in LoadStates /\ load.st = "none"
  BY IdleTyped DEF SheetInit
<1>6. SheetTyped
  BY <1>1, <1>2, <1>3, <1>4, <1>5, <1>l DEF SheetTyped
<1>7. AsksBelong /\ ListUnderWay /\ SheetIsItsAccounts /\ CopiesFit
  BY <1>0, <1>2, <1>l DEF AsksBelong, ListUnderWay, SheetIsItsAccounts, SheetShown, CopiesFit
<1> QED BY <1>6, <1>7 DEF SheetInv

\* What is known of the requests and the panel, each value by itself.
LEMMA SheetFacts ==
  ASSUME SheetInv
  PROVE  /\ store \in [Cards -> SheetRows] /\ props \in [Cards -> SheetRows]
         /\ sheet.card \in Cards \cup {NoCard}
         /\ sheet.tab \in {"overview", "playground", "diagnostics"}
         /\ probe.models \in SUBSET Tests /\ probe.saving \in BOOLEAN
         /\ conn.url \in Addresses /\ conn.saving \in BOOLEAN
         /\ play.loading \in BOOLEAN /\ play.reply \in Cards \cup {NoCard}
         /\ mounts \in Nat /\ edits \in Nat
         /\ load \in LoadStates /\ load.st \in {"none", "sent", "served", "failed"}
         /\ load.rows \in [Cards -> SheetRows] /\ load.old \in SUBSET Cards
         /\ behind \in SUBSET Cards
         /\ \A q \in asks : q \in SheetAsks /\ q.card \in Cards /\ q.mount \in Nat
                            /\ q.list \in SUBSET Tests /\ q.prev \in SUBSET Tests
<1>1. load \in LoadStates
  BY DEF SheetInv, SheetTyped
<1>2. /\ load.st \in {"none", "sent", "served", "failed"}
      /\ load.rows \in [Cards -> SheetRows] /\ load.old \in SUBSET Cards
  BY <1>1 DEF LoadStates
<1> QED BY <1>1, <1>2 DEF SheetInv, SheetTyped, SheetRows, SheetAsks

\* A panel mounts: no request made before belongs to it.
LEMMA MountInv ==
  ASSUME SheetInv, NEW c \in Cards, NEW t \in {"overview", "playground", "diagnostics"},
         NEW rest \in SUBSET asks, Mount(c, t, rest), load' \in {load, Idle("sent")}
  PROVE  SheetInv'
<1> DEFINE new == [Ask("latency", {}, {}, "u0") EXCEPT !.card = c, !.mount = mounts + 1]
<1>f. /\ store \in [Cards -> SheetRows] /\ props \in [Cards -> SheetRows]
      /\ mounts \in Nat /\ edits \in Nat
      /\ \A q \in asks : q \in SheetAsks /\ q.card \in Cards /\ q.mount \in Nat
  BY SheetFacts
<1> DEFINE Bases ==
             [what : {"latency", "probe", "conn", "play"}, card : Cards \cup {NoCard},
              list : SUBSET Tests, prev : SUBSET Tests, url : Addresses, n : Nat, mount : Nat,
              st : {"sent", "served"}]
<1>1. \A r \in Bases, m \in Nat :
        LET q == [r EXCEPT !.card = c, !.mount = m]
        IN q \in SheetAsks /\ q.what = r.what /\ q.card = c /\ q.mount = m
  BY DEF SheetAsks
<1>2. new \in SheetAsks /\ new.what = "latency" /\ new.card = c /\ new.mount = mounts + 1
  <2>1. sheet.card \in Cards \cup {NoCard} /\ {} \in SUBSET Tests /\ "u0" \in Addresses
    BY SheetFacts DEF Addresses
  <2>2. Ask("latency", {}, {}, "u0") \in Bases /\ Ask("latency", {}, {}, "u0").what = "latency"
    BY <1>f, <2>1 DEF Ask
  <2>3. mounts + 1 \in Nat
    BY <1>f
  <2> HIDE DEF Bases
  <2> QED BY <1>1, <2>2, <2>3
<1>l. /\ load' \in LoadStates /\ (load'.st = "served" => load' = load)
      /\ load \in LoadStates
  BY SheetFacts, IdleTyped
<1>3. /\ asks' = rest \cup (IF t = "overview" THEN {new} ELSE {})
      /\ mounts' = mounts + 1 /\ sheet' = [card |-> c, tab |-> t]
      /\ probe' = [models |-> props[c].probe, saving |-> FALSE]
      /\ conn' = [url |-> props[c].url, saving |-> FALSE]
      /\ lat' = "loading" /\ play' = [loading |-> FALSE, reply |-> NoCard]
      /\ crossed' = Saving(c) /\ outdated' = (c \in behind)
      /\ UNCHANGED <<store, props, behind, edits>>
  BY DEF Mount
<1> HIDE DEF new, Bases
<1>4. props[c] \in SheetRows /\ props[c].probe \in SUBSET Tests /\ props[c].url \in Addresses
  BY <1>f DEF SheetRows
<1>5. /\ sheet'.card = c /\ sheet'.tab = t /\ probe'.models = props[c].probe
      /\ ~probe'.saving /\ ~conn'.saving /\ ~play'.loading /\ play'.reply = NoCard
  BY <1>3
<1>6. SheetTyped'
  <2>1. sheet' \in [card : Cards \cup {NoCard}, tab : {"overview", "playground", "diagnostics"}]
    BY <1>3
  <2>2. probe' \in [models : SUBSET Tests, saving : BOOLEAN]
    BY <1>3, <1>4
  <2>3. conn' \in [url : Addresses, saving : BOOLEAN]
    BY <1>3, <1>4
  <2>4. play' \in [loading : BOOLEAN, reply : Cards \cup {NoCard}]
    BY <1>3
  <2>5. crossed' \in BOOLEAN /\ outdated' \in BOOLEAN
    BY <1>3 DEF Saving
  <2>6. asks' \subseteq SheetAsks
    BY <1>f, <1>2, <1>3
  <2>7. behind \in SUBSET Cards
    BY SheetFacts
  <2> QED BY <1>f, <1>l, <1>3, <2>1, <2>2, <2>3, <2>4, <2>5, <2>6, <2>7 DEF SheetTyped
<1>7. AsksBelong' /\ CopiesFit'
  <2>1. AsksBelong'
    BY <1>f, <1>2, <1>3, <1>5 DEF AsksBelong, SheetInv
  <2>2. CopiesFit'
    BY <1>l, <1>3 DEF CopiesFit, SheetInv
  <2> QED BY <2>1, <2>2
<1>8. ListUnderWay'
  <2>1. ~crossed' => \A q \in asks' : ~(q.what = "probe" /\ q.card = c)
    BY <1>2, <1>3 DEF Saving
  <2>2. ~outdated' => probe'.models = store'[c].probe
    BY <1>3, <1>5 DEF SheetInv, CopiesFit
  <2> QED BY <1>5, <2>1, <2>2 DEF ListUnderWay
<1>9. SheetIsItsAccounts'
  BY <1>3, <1>5 DEF SheetIsItsAccounts
<1> QED BY <1>6, <1>7, <1>8, <1>9 DEF SheetInv

\* A panel unmounts, by the sheet's closing or the page's error: no request is its own
\* any more.
LEMMA UnmountInv ==
  ASSUME SheetInv, Unmount, ~SheetShown', load' \in {load, Idle("failed")},
         sheet' \in {sheet, Blank}, UNCHANGED <<store, props, behind, asks, edits>>
  PROVE  SheetInv'
<1>f. /\ SheetTyped /\ AsksBelong /\ CopiesFit /\ mounts \in Nat
      /\ Idle("failed") \in LoadStates /\ Idle("failed").st = "failed"
      /\ \A q \in asks : q.mount <= mounts /\ q.mount \in Nat
  BY SheetFacts, IdleTyped DEF SheetInv, AsksBelong
<1>1. /\ mounts' = mounts + 1 /\ probe' = [models |-> {}, saving |-> FALSE]
      /\ conn' = [url |-> "u0", saving |-> FALSE] /\ lat' = "loading"
      /\ play' = [loading |-> FALSE, reply |-> NoCard]
      /\ outdated' = FALSE /\ crossed' = FALSE
  BY DEF Unmount
<1>2. SheetTyped'
  <2>1. sheet' \in [card : Cards \cup {NoCard}, tab : {"overview", "playground", "diagnostics"}]
    BY <1>f DEF SheetTyped, Blank
  <2>2. probe' \in [models : SUBSET Tests, saving : BOOLEAN]
    BY <1>1
  <2>3. conn' \in [url : Addresses, saving : BOOLEAN]
    BY <1>1 DEF Addresses
  <2>4. play' \in [loading : BOOLEAN, reply : Cards \cup {NoCard}]
    BY <1>1
  <2>5. load' \in LoadStates
    BY <1>f DEF SheetTyped
  <2>6. outdated' \in BOOLEAN /\ crossed' \in BOOLEAN
    BY <1>1
  <2>8. mounts' \in Nat /\ edits' \in Nat
    BY <1>f, <1>1 DEF SheetTyped
  <2>7. lat' \in {"loading", "error"} \cup Cards
    BY <1>1
  <2> QED BY <1>f, <2>1, <2>2, <2>3, <2>4, <2>5, <2>6, <2>7, <2>8 DEF SheetTyped
<1>3. AsksBelong'
  BY <1>f, <1>1 DEF AsksBelong
<1>4. CopiesFit'
  <2>1. load'.st = "served" => load' = load
    BY <1>f
  <2> QED BY <1>f, <2>1 DEF CopiesFit
<1>5. ListUnderWay' /\ SheetIsItsAccounts'
  BY DEF ListUnderWay, SheetIsItsAccounts
<1> QED BY <1>2, <1>3, <1>4, <1>5 DEF SheetInv

(* Closing the sheet keeps its invariant. *)
LEMMA CloseInv == SheetInv /\ CloseSheet => SheetInv'
BY UnmountInv DEF CloseSheet, SheetShown, Blank

\* A load begins, of its own or by a saved connection: on a page that had failed the
\* panel mounts again, elsewhere only the request is new.
LEMMA ReloadInv ==
  ASSUME SheetInv, NEW rest \in SUBSET asks, SheetReload(rest),
         \A q \in asks \ rest : q.what = "conn" /\ load.st = "failed"
  PROVE  SheetInv'
<1>l. load' = Idle("sent") /\ load' \in LoadStates /\ load'.st = "sent"
  BY IdleTyped DEF SheetReload
<1>1. CASE load.st = "failed" /\ sheet.card # NoCard
  <2>1. sheet.card \in Cards
    BY <1>1, SheetFacts
  <2> QED BY <1>1, <1>l, <2>1, MountInv DEF SheetReload
<1>2. CASE ~(load.st = "failed" /\ sheet.card # NoCard)
  <2>1. /\ asks' = rest
        /\ UNCHANGED <<store, props, behind, sheet, probe, conn, lat, play, mounts, edits,
                       outdated, crossed>>
    BY <1>2 DEF SheetReload
  <2>2. SheetTyped'
    BY <1>l, <2>1 DEF SheetInv, SheetTyped
  <2>3. AsksBelong' /\ CopiesFit'
    BY <1>l, <2>1 DEF SheetInv, AsksBelong, CopiesFit
  <2>4. SheetShown' => SheetShown /\ rest = asks
    BY <1>2, <2>1 DEF SheetShown
  <2>5. ListUnderWay' /\ SheetIsItsAccounts'
    <3>1. CASE SheetShown'
      BY <2>1, <2>4 DEF SheetInv, ListUnderWay, SheetIsItsAccounts, Saving
    <3>2. CASE ~SheetShown'
      BY <3>2 DEF ListUnderWay, SheetIsItsAccounts
    <3> QED BY <3>1, <3>2
  <2> QED BY <2>2, <2>3, <2>5 DEF SheetInv
<1> QED BY <1>1, <1>2

\* The load's rows are read, and the answer is under way.
LEMMA LoadServedInv == SheetInv /\ SheetLoadServed => SheetInv'
<1> SUFFICES ASSUME SheetInv, SheetLoadServed
             PROVE  SheetInv'
  OBVIOUS
<1>1. /\ load.st = "sent" /\ load' = [st |-> "served", rows |-> store, old |-> {}]
      /\ UNCHANGED <<store, props, behind, sheet, probe, conn, lat, play, asks, mounts, edits,
                     outdated, crossed>>
  BY DEF SheetLoadServed
<1>2. load' \in LoadStates
  BY <1>1, SheetFacts DEF LoadStates
<1>3. SheetTyped'
  BY <1>1, <1>2 DEF SheetInv, SheetTyped
<1>4. AsksBelong' /\ CopiesFit'
  BY <1>1 DEF SheetInv, AsksBelong, CopiesFit
<1>5. SheetShown' <=> SheetShown
  BY <1>1 DEF SheetShown
<1>6. ListUnderWay' /\ SheetIsItsAccounts'
  BY <1>1, <1>5 DEF SheetInv, ListUnderWay, SheetIsItsAccounts, Saving
<1> QED BY <1>3, <1>4, <1>6 DEF SheetInv

\* The answer is shown: the panel takes over what the server had when it was read.
LEMMA LoadArrivesInv == SheetInv /\ SheetLoadArrives => SheetInv'
<1> SUFFICES ASSUME SheetInv, SheetLoadArrives
             PROVE  SheetInv'
  OBVIOUS
<1> DEFINE c == sheet.card
<1>f. /\ store \in [Cards -> SheetRows] /\ c \in Cards \cup {NoCard}
      /\ load.rows \in [Cards -> SheetRows] /\ load.old \in SUBSET Cards
      /\ probe \in [models : SUBSET Tests, saving : BOOLEAN]
      /\ conn \in [url : Addresses, saving : BOOLEAN]
      /\ SheetTyped /\ AsksBelong /\ CopiesFit /\ ListUnderWay /\ SheetIsItsAccounts
  BY SheetFacts DEF SheetInv, SheetTyped
<1>1. /\ load.st = "served" /\ props' = load.rows /\ behind' = load.old
      /\ load' = Idle("none")
      /\ outdated' = (c # NoCard /\ c \in load.old) /\ crossed' = (c # NoCard /\ Saving(c))
      /\ UNCHANGED <<store, sheet, lat, play, asks, mounts, edits>>
      /\ probe' = IF c = NoCard THEN probe ELSE [probe EXCEPT !.models = load.rows[c].probe]
      /\ \/ conn' = conn
         \/ c # NoCard /\ conn' = [conn EXCEPT !.url = load.rows[c].url]
  BY DEF SheetLoadArrives
<1>2. c # NoCard => /\ load.rows[c] \in SheetRows /\ load.rows[c].probe \in SUBSET Tests
                    /\ load.rows[c].url \in Addresses
  BY <1>f DEF SheetRows
<1>3. /\ probe' \in [models : SUBSET Tests, saving : BOOLEAN]
      /\ c # NoCard => probe'.models = load.rows[c].probe
      /\ probe'.saving = probe.saving
  BY <1>f, <1>1, <1>2
<1>4. conn' \in [url : Addresses, saving : BOOLEAN] /\ conn'.saving = conn.saving
  BY <1>f, <1>1, <1>2
<1>l. load' \in LoadStates /\ load'.st = "none"
  BY <1>1, IdleTyped
<1> HIDE DEF c
<1>5. crossed' \in BOOLEAN /\ outdated' \in BOOLEAN
  BY <1>1 DEF Saving
<1>6. SheetTyped'
  BY <1>f, <1>1, <1>l, <1>3, <1>4, <1>5 DEF SheetTyped
<1>7. AsksBelong' /\ CopiesFit'
  BY <1>f, <1>1, <1>l DEF AsksBelong, CopiesFit
<1>8. ListUnderWay'
  <2> SUFFICES ASSUME c # NoCard, ~crossed'
               PROVE  ListUnderWay'
    BY <1>1 DEF ListUnderWay, SheetShown, c
  <2>1. \A q \in asks : ~(q.what = "probe" /\ q.card = c)
    BY <1>1 DEF Saving
  <2>2. ~outdated' => probe'.models = store[c].probe
    BY <1>f, <1>1, <1>3 DEF CopiesFit
  <2> QED BY <1>1, <2>1, <2>2 DEF ListUnderWay, c
<1>9. SheetIsItsAccounts'
  BY <1>f, <1>1, <1>l, <1>3, <1>4 DEF SheetIsItsAccounts, SheetShown
<1> QED BY <1>6, <1>7, <1>8, <1>9 DEF SheetInv

\* The page's load fails: the page shows no sheet until the next load.
LEMMA LoadFailsInv == SheetInv /\ SheetLoadFails => SheetInv'
<1> SUFFICES ASSUME SheetInv, SheetLoadFails
             PROVE  SheetInv'
  OBVIOUS
<1>1. /\ load' = Idle("failed") /\ load' \in LoadStates /\ load'.st = "failed"
      /\ UNCHANGED <<store, props, behind, sheet, asks, edits>>
  BY IdleTyped DEF SheetLoadFails
<1>2. ~SheetShown'
  BY <1>1 DEF SheetShown
<1>3. CASE sheet.card # NoCard
  BY <1>1, <1>2, <1>3, UnmountInv DEF SheetLoadFails
<1>4. CASE sheet.card = NoCard
  <2>1. UNCHANGED <<probe, conn, lat, play, mounts, outdated, crossed>>
    BY <1>4 DEF SheetLoadFails
  <2>2. SheetTyped' /\ AsksBelong' /\ CopiesFit'
    BY <1>1, <2>1 DEF SheetInv, SheetTyped, AsksBelong, CopiesFit
  <2> QED BY <1>2, <2>2 DEF SheetInv, ListUnderWay, SheetIsItsAccounts
<1> QED BY <1>3, <1>4

(* A request of the open sheet is well formed and carries the sheet's card and mount. *)
LEMMA AskTyped ==
  ASSUME SheetInv, sheet.card # NoCard, NEW what \in {"latency", "probe", "conn", "play"},
         NEW l \in SUBSET Tests, NEW p \in SUBSET Tests, NEW u \in Addresses
  PROVE  /\ Ask(what, l, p, u) \in SheetAsks
         /\ Ask(what, l, p, u).what = what /\ Ask(what, l, p, u).card = sheet.card
         /\ Ask(what, l, p, u).list = l /\ Ask(what, l, p, u).prev = p
         /\ Ask(what, l, p, u).mount = mounts /\ Ask(what, l, p, u).st = "sent"
<1>1. sheet.card \in Cards /\ mounts \in Nat /\ edits \in Nat
  BY SheetFacts
<1> QED BY <1>1 DEF Ask, SheetAsks

\* The list changes on the screen, and a save of it is sent.
LEMMA PersistInv ==
  ASSUME SheetInv, NEW m \in Tests, persist(m)
  PROVE  SheetInv'
<1> DEFINE next == IF m \in probe.models THEN probe.models \ {m} ELSE probe.models \cup {m}
           new == Ask("probe", next, probe.models, "u0")
<1>f. /\ SheetTyped /\ AsksBelong /\ CopiesFit /\ ListUnderWay /\ SheetIsItsAccounts /\ SheetShown
      /\ probe.models \in SUBSET Tests /\ edits \in Nat /\ sheet.card # NoCard
      /\ mounts \in Nat /\ crossed \in BOOLEAN
  BY SheetFacts DEF SheetInv, SheetTyped, persist, Panel, SheetShown
<1>1. next \in SUBSET Tests /\ "u0" \in Addresses
  BY <1>f DEF Addresses
<1>2. /\ probe' = [models |-> next, saving |-> TRUE] /\ asks' = asks \cup {new}
      /\ crossed' = (crossed \/ Saving(sheet.card)) /\ edits' = edits + 1
      /\ UNCHANGED <<store, props, load, behind, sheet, conn, lat, play, mounts, outdated>>
  BY DEF persist
<1> HIDE DEF next
<1>3. /\ new \in SheetAsks /\ new.what = "probe" /\ new.card = sheet.card /\ new.list = next
      /\ new.prev = probe.models /\ new.mount = mounts /\ new.st = "sent"
  BY <1>f, <1>1, AskTyped
<1> HIDE DEF new
<1>4. probe' \in [models : SUBSET Tests, saving : BOOLEAN] /\ probe'.models = next
      /\ probe'.saving = TRUE
  BY <1>1, <1>2
<1>5. crossed' \in BOOLEAN
  BY <1>2 DEF Saving
<1>6. SheetTyped'
  BY <1>f, <1>2, <1>3, <1>4, <1>5 DEF SheetTyped
<1>7. AsksBelong' /\ CopiesFit'
  BY <1>f, <1>2, <1>3 DEF AsksBelong, CopiesFit
<1>8. ListUnderWay'
  <2> SUFFICES ASSUME ~crossed'
               PROVE  ListUnderWay'
    BY DEF ListUnderWay
  <2>1. ~crossed /\ ~Saving(sheet.card)
    BY <1>2
  <2>2. \A q \in asks' : q.what = "probe" /\ q.card = sheet.card => q = new
    BY <1>2, <2>1 DEF Saving
  <2>3. ~outdated => probe.models = store[sheet.card].probe
    BY <1>f, <2>1 DEF ListUnderWay
  <2>4. Saving(sheet.card)'
    BY <1>2, <1>3 DEF Saving
  <2> QED BY <1>2, <1>3, <1>4, <2>2, <2>3, <2>4 DEF ListUnderWay
<1>9. SheetIsItsAccounts'
  <2>1. probe'.saving => \E q \in asks' : q.what = "probe" /\ q.mount = mounts'
    BY <1>2, <1>3
  <2>2. conn'.saving => \E q \in asks' : q.what = "conn" /\ q.mount = mounts'
    BY <1>f, <1>2 DEF SheetIsItsAccounts
  <2>3. play'.loading => \E q \in asks' : q.what = "play" /\ q.mount = mounts'
    BY <1>f, <1>2 DEF SheetIsItsAccounts
  <2> QED BY <1>f, <1>2, <2>1, <2>2, <2>3 DEF SheetIsItsAccounts
<1> QED BY <1>6, <1>7, <1>8, <1>9 DEF SheetInv

\* The address is typed and saved, a test message is sent: the list is left alone.
LEMMA PanelInv ==
  SheetInv /\ ((\E u \in Addresses : EditUrl(u)) \/ saveConnection \/ runTestMessage) => SheetInv'
<1> SUFFICES ASSUME SheetInv, (\E u \in Addresses : EditUrl(u)) \/ saveConnection \/ runTestMessage
             PROVE  SheetInv'
  OBVIOUS
<1>f. /\ SheetTyped /\ AsksBelong /\ CopiesFit /\ ListUnderWay /\ SheetIsItsAccounts /\ SheetShown
      /\ edits \in Nat /\ sheet.card # NoCard /\ mounts \in Nat
      /\ conn \in [url : Addresses, saving : BOOLEAN] /\ conn.url \in Addresses
  BY SheetFacts DEF SheetInv, SheetTyped, EditUrl, saveConnection, runTestMessage, Panel, SheetShown
<1>u. /\ UNCHANGED <<store, props, load, behind, sheet, probe, lat, mounts, outdated, crossed>>
      /\ SheetShown' /\ CopiesFit'
  BY <1>f DEF EditUrl, saveConnection, runTestMessage, SheetShown, CopiesFit
<1>1. ASSUME NEW u \in Addresses, EditUrl(u)
      PROVE  SheetInv'
  <2>1. conn' = [conn EXCEPT !.url = u] /\ UNCHANGED <<play, asks, edits>>
    BY <1>1 DEF EditUrl
  <2>2. conn' \in [url : Addresses, saving : BOOLEAN] /\ conn'.saving = conn.saving
    BY <1>f, <2>1
  <2>3. SheetTyped'
    BY <1>f, <1>u, <2>1, <2>2 DEF SheetTyped
  <2>4. AsksBelong' /\ ListUnderWay'
    BY <1>f, <1>u, <2>1 DEF AsksBelong, ListUnderWay, Saving
  <2>5. SheetIsItsAccounts'
    BY <1>f, <1>u, <2>1, <2>2 DEF SheetIsItsAccounts
  <2> QED BY <1>u, <2>3, <2>4, <2>5 DEF SheetInv
<1>2. ASSUME NEW what \in {"conn", "play"}, NEW u \in Addresses,
             asks' = asks \cup {Ask(what, {}, {}, u)}, edits' = edits + 1,
             conn' = IF what = "conn" THEN [conn EXCEPT !.saving = TRUE] ELSE conn,
             play' = IF what = "play" THEN [loading |-> TRUE, reply |-> NoCard] ELSE play
      PROVE  SheetInv'
  <2> DEFINE new == Ask(what, {}, {}, u)
  <2>1. /\ new \in SheetAsks /\ new.what = what /\ new.card = sheet.card /\ new.mount = mounts
        /\ asks' = asks \cup {new}
    BY <1>f, <1>2, AskTyped
  <2> HIDE DEF new
  <2>2. /\ conn' \in [url : Addresses, saving : BOOLEAN]
        /\ what # "conn" => conn' = conn
    BY <1>f, <1>2
  <2>3. /\ play' \in [loading : BOOLEAN, reply : Cards \cup {NoCard}]
        /\ what # "play" => play' = play
        /\ play'.reply \in {NoCard, play.reply}
    <3>1. play \in [loading : BOOLEAN, reply : Cards \cup {NoCard}]
      BY <1>f DEF SheetTyped
    <3>2. CASE what = "play"
      BY <1>2, <3>2
    <3>3. CASE what # "play"
      BY <1>2, <3>1, <3>3
    <3> QED BY <3>2, <3>3
  <2>4. SheetTyped'
    BY <1>f, <1>u, <1>2, <2>1, <2>2, <2>3 DEF SheetTyped
  <2>5. AsksBelong'
    BY <1>f, <1>u, <2>1 DEF AsksBelong
  <2>6. ListUnderWay'
    <3>1. \A q \in asks' : q.what = "probe" => q \in asks
      BY <2>1
    <3>2. Saving(sheet.card)' <=> Saving(sheet.card)
      BY <1>u, <2>1, <3>1 DEF Saving
    <3> QED BY <1>f, <1>u, <3>1, <3>2 DEF ListUnderWay
  <2>7. SheetIsItsAccounts'
    <3>1. probe'.saving => \E q \in asks' : q.what = "probe" /\ q.mount = mounts'
      BY <1>f, <1>u, <2>1 DEF SheetIsItsAccounts
    <3>2. conn'.saving => \E q \in asks' : q.what = "conn" /\ q.mount = mounts'
      BY <1>f, <1>u, <2>1, <2>2 DEF SheetIsItsAccounts
    <3>3. play'.loading => \E q \in asks' : q.what = "play" /\ q.mount = mounts'
      BY <1>f, <1>u, <2>1, <2>3 DEF SheetIsItsAccounts
    <3> QED BY <1>f, <1>u, <2>3, <3>1, <3>2, <3>3 DEF SheetIsItsAccounts
  <2> QED BY <1>u, <2>4, <2>5, <2>6, <2>7 DEF SheetInv
<1>3. CASE saveConnection
  BY <1>2, <1>3, <1>f DEF saveConnection
<1>4. CASE runTestMessage
  <2>1. "u0" \in Addresses
    BY DEF Addresses
  <2> QED BY <1>2, <1>4, <2>1 DEF runTestMessage
<1> QED BY <1>1, <1>3, <1>4

\* The server carries a request out: a save under way for the account shown then
\* has brought the server what the panel shows.
LEMMA ServedInv ==
  ASSUME SheetInv, NEW q \in asks, AskServed(q)
  PROVE  SheetInv'
<1> DEFINE new == [q EXCEPT !.st = "served"]
<1>f. /\ SheetTyped /\ AsksBelong /\ CopiesFit /\ ListUnderWay /\ SheetIsItsAccounts
      /\ store \in [Cards -> SheetRows] /\ q \in SheetAsks /\ q.card \in Cards
      /\ sheet.card \in Cards \cup {NoCard}
      /\ asks \subseteq SheetAsks
  BY SheetFacts DEF SheetInv, SheetTyped
<1>1. /\ new \in SheetAsks /\ new.what = q.what /\ new.card = q.card /\ new.list = q.list
      /\ new.prev = q.prev /\ new.mount = q.mount /\ new.st = "served"
  BY <1>f DEF SheetAsks
<1>2. /\ asks' = (asks \ {q}) \cup {new} /\ q.st = "sent"
      /\ behind' = behind \cup (IF q.what = "probe" THEN {q.card} ELSE {})
      /\ load' = IF load.st = "served"
                 THEN [load EXCEPT !.old = @ \cup (IF q.what = "probe" THEN {q.card} ELSE {})]
                 ELSE load
      /\ UNCHANGED <<props, sheet, probe, conn, lat, play, mounts, edits, outdated, crossed>>
      /\ store' = CASE q.what = "probe" -> [store EXCEPT ![q.card].probe = q.list]
                    [] q.what = "conn" -> [store EXCEPT ![q.card].url = q.url]
                    [] OTHER -> store
  BY DEF AskServed
<1> HIDE DEF new
<1>3. /\ store' \in [Cards -> SheetRows]
      /\ \A c \in Cards : store'[c].probe = IF q.what = "probe" /\ c = q.card THEN q.list
                                            ELSE store[c].probe
  <2>0. q.list \in SUBSET Tests /\ q.url \in Addresses
    BY <1>f DEF SheetAsks
  <2>1. CASE q.what = "probe"
    BY <1>f, <1>2, <2>0, <2>1 DEF SheetRows
  <2>2. CASE q.what = "conn"
    BY <1>f, <1>2, <2>0, <2>2 DEF SheetRows
  <2>3. CASE q.what \notin {"probe", "conn"}
    BY <1>f, <1>2, <2>3
  <2> QED BY <2>1, <2>2, <2>3
<1>l. /\ load' \in LoadStates /\ load'.st = load.st /\ load'.rows = load.rows
      /\ behind' \in SUBSET Cards
      /\ load.st = "served" /\ q.what = "probe" => load'.old = load.old \cup {q.card}
      /\ load.old \subseteq load'.old
  <2>1. load \in LoadStates /\ behind \in SUBSET Cards
    BY SheetFacts
  <2> QED BY <1>f, <1>2, <2>1 DEF LoadStates
<1>4. SheetTyped'
  BY <1>f, <1>1, <1>2, <1>3, <1>l DEF SheetTyped
<1>5. AsksBelong' /\ CopiesFit'
  <2>1. AsksBelong'
    BY <1>f, <1>1, <1>2 DEF AsksBelong
  <2>2. ASSUME NEW c \in Cards \ behind'
        PROVE  props'[c].probe = store'[c].probe
    <3>1. c \in Cards \ behind /\ ~(q.what = "probe" /\ c = q.card)
      BY <1>2
    <3> QED BY <1>f, <1>2, <1>3, <3>1 DEF CopiesFit
  <2>3. ASSUME load'.st = "served", NEW c \in Cards \ load'.old
        PROVE  load'.rows[c].probe = store'[c].probe
    <3>1. c \in Cards \ load.old /\ ~(q.what = "probe" /\ c = q.card) /\ load.st = "served"
      BY <1>l, <2>3
    <3> QED BY <1>f, <1>l, <1>3, <3>1 DEF CopiesFit
  <2> QED BY <2>1, <2>2, <2>3 DEF CopiesFit
<1>s. SheetShown' <=> SheetShown
  BY <1>2, <1>l DEF SheetShown
<1>6. ListUnderWay'
  <2> SUFFICES ASSUME SheetShown, ~crossed
               PROVE  ListUnderWay'
    BY <1>2, <1>s DEF ListUnderWay
  <2>0. sheet.card \in Cards
    BY <1>f DEF SheetShown
  <2>1. CASE q.what = "probe" /\ q.card = sheet.card
    <3>1. \A r \in asks' : r.what = "probe" /\ r.card = sheet.card => r = new
      BY <1>f, <1>2, <2>1 DEF ListUnderWay
    <3>2. q.mount = mounts /\ probe.models = q.list
      BY <1>f, <2>1 DEF ListUnderWay
    <3>3. Saving(sheet.card)'
      BY <1>1, <1>2, <2>1 DEF Saving
    <3>4. store'[sheet.card].probe = q.list
      BY <1>3, <2>0, <2>1
    <3> QED BY <1>1, <1>2, <2>1, <3>1, <3>2, <3>3, <3>4 DEF ListUnderWay
  <2>2. CASE ~(q.what = "probe" /\ q.card = sheet.card)
    <3>1. \A r \in asks' : r.what = "probe" /\ r.card = sheet.card => r \in asks
      BY <1>1, <1>2, <2>2
    <3>2. store'[sheet.card].probe = store[sheet.card].probe
      BY <1>3, <2>0, <2>2
    <3>3. Saving(sheet.card)' <=> Saving(sheet.card)
      BY <1>1, <1>2, <2>2 DEF Saving
    <3> QED BY <1>f, <1>2, <3>1, <3>2, <3>3 DEF ListUnderWay
  <2> QED BY <2>1, <2>2
<1>7. SheetIsItsAccounts'
  <2> SUFFICES ASSUME SheetShown
               PROVE  SheetIsItsAccounts'
    BY <1>s DEF SheetIsItsAccounts
  <2>1. \A w, m : (\E r \in asks : r.what = w /\ r.mount = m) => \E r \in asks' : r.what = w /\ r.mount = m
    BY <1>1, <1>2
  <2>2. /\ probe.saving => \E r \in asks' : r.what = "probe" /\ r.mount = mounts
        /\ conn.saving => \E r \in asks' : r.what = "conn" /\ r.mount = mounts
        /\ play.loading => \E r \in asks' : r.what = "play" /\ r.mount = mounts
    BY <1>f, <1>2, <2>1 DEF SheetIsItsAccounts
  <2> QED BY <1>f, <1>2, <2>2 DEF SheetIsItsAccounts
<1> QED BY <1>4, <1>5, <1>6, <1>7 DEF SheetInv

\* An answer comes, or none: a save that failed puts the former list back.
LEMMA EndsInv ==
  ASSUME SheetInv, NEW q \in asks, NEW ok \in BOOLEAN, AskEnds(q, ok)
  PROVE  SheetInv'
<1>f. /\ SheetTyped /\ AsksBelong /\ CopiesFit /\ ListUnderWay /\ SheetIsItsAccounts
      /\ q \in SheetAsks /\ q.card \in Cards /\ q.list \in SUBSET Tests /\ q.prev \in SUBSET Tests
      /\ sheet.card \in Cards \cup {NoCard} /\ q.st \in {"sent", "served"}
      /\ q.mount = mounts => q.card = sheet.card
      /\ probe.models \in SUBSET Tests
      /\ probe \in [models : SUBSET Tests, saving : BOOLEAN]
      /\ conn \in [url : Addresses, saving : BOOLEAN]
      /\ play \in [loading : BOOLEAN, reply : Cards \cup {NoCard}]
      /\ lat \in {"loading", "error"} \cup Cards
  BY SheetFacts DEF SheetInv, SheetTyped, SheetAsks, AsksBelong
<1>1. /\ asks' = asks \ {q} /\ (ok => q.st = "served")
      /\ crossed' = (crossed \/ (q.what = "probe" /\ q.mount = mounts /\ ~ok /\ q.st = "served"))
      /\ outdated' = (outdated /\ ~(q.what = "probe" /\ q.mount = mounts /\ ok))
      /\ load' = IF ConnectionSaved(q, ok) THEN Idle("sent") ELSE load
      /\ ~(ConnectionSaved(q, ok) /\ load.st = "failed")
      /\ UNCHANGED <<store, props, behind, sheet, mounts, edits>>
  BY DEF AskEnds
<1>2. /\ probe' = IF q.mount # mounts \/ q.what # "probe" THEN probe
                  ELSE [models |-> IF ok THEN probe.models ELSE q.prev, saving |-> FALSE]
      /\ conn' = IF q.mount = mounts /\ q.what = "conn" THEN [conn EXCEPT !.saving = FALSE] ELSE conn
      /\ lat' = IF q.mount # mounts \/ q.what # "latency" THEN lat
                ELSE IF ok THEN q.card ELSE "error"
      /\ play' = IF q.mount # mounts \/ q.what # "play" THEN play
                 ELSE [loading |-> FALSE, reply |-> IF ok THEN q.card ELSE NoCard]
  BY DEF AskEnds
<1>3. /\ probe' \in [models : SUBSET Tests, saving : BOOLEAN]
      /\ probe'.models = IF q.mount = mounts /\ q.what = "probe" /\ ~ok THEN q.prev ELSE probe.models
      /\ probe'.saving => probe.saving /\ ~(q.mount = mounts /\ q.what = "probe")
  <2>1. CASE q.mount = mounts /\ q.what = "probe"
    BY <1>f, <1>2, <2>1
  <2>2. CASE ~(q.mount = mounts /\ q.what = "probe")
    BY <1>f, <1>2, <2>2
  <2> QED BY <2>1, <2>2
<1>4. /\ conn' \in [url : Addresses, saving : BOOLEAN]
      /\ conn'.saving => conn.saving /\ ~(q.mount = mounts /\ q.what = "conn")
  BY <1>f, <1>2
<1>5. /\ play' \in [loading : BOOLEAN, reply : Cards \cup {NoCard}]
      /\ play'.loading => play.loading /\ ~(q.mount = mounts /\ q.what = "play")
      /\ play'.reply \in {NoCard, play.reply} \/ (q.mount = mounts /\ play'.reply = q.card)
  <2>1. CASE q.mount = mounts /\ q.what = "play"
    BY <1>f, <1>2, <2>1
  <2>2. CASE ~(q.mount = mounts /\ q.what = "play")
    BY <1>f, <1>2, <2>2
  <2> QED BY <2>1, <2>2
<1>l. load' \in LoadStates /\ (load'.st = "served" => load' = load) /\ (SheetShown' <=> SheetShown)
  BY <1>1, IdleTyped, SheetFacts DEF SheetShown
<1>6. SheetTyped'
  <2>1. crossed' \in BOOLEAN /\ outdated' \in BOOLEAN
    BY <1>f, <1>1 DEF SheetTyped
  <2>2. lat' \in {"loading", "error"} \cup Cards
    BY <1>f, <1>2
  <2> QED BY <1>f, <1>1, <1>l, <1>3, <1>4, <1>5, <2>1, <2>2 DEF SheetTyped
<1>7. AsksBelong' /\ CopiesFit'
  BY <1>f, <1>1, <1>l DEF AsksBelong, CopiesFit
<1>8. ListUnderWay'
  <2> SUFFICES ASSUME SheetShown, ~crossed'
               PROVE  ListUnderWay'
    BY <1>1, <1>l DEF ListUnderWay
  <2>0. ~crossed
    BY <1>1
  <2>1. CASE q.what = "probe" /\ q.card = sheet.card
    <3>1. \A r \in asks' : ~(r.what = "probe" /\ r.card = sheet.card)
      BY <1>f, <1>1, <2>0, <2>1 DEF ListUnderWay
    <3>2. /\ q.mount = mounts /\ probe.models = q.list
          /\ q.st = "sent" /\ ~outdated => q.prev = store[sheet.card].probe
          /\ q.st = "served" => store[sheet.card].probe = q.list
      BY <1>f, <2>0, <2>1 DEF ListUnderWay
    <3>3. ~outdated' => probe'.models = store[sheet.card].probe
      BY <1>f, <1>1, <1>3, <2>1, <3>2
    <3> QED BY <1>1, <3>1, <3>3 DEF ListUnderWay
  <2>2. CASE ~(q.what = "probe" /\ q.card = sheet.card)
    <3>1. probe'.models = probe.models
      BY <1>f, <1>3, <2>2
    <3>2. Saving(sheet.card)' <=> Saving(sheet.card)
      BY <1>1, <2>2 DEF Saving
    <3>3. outdated' = outdated
      BY <1>f, <1>1, <2>2 DEF SheetTyped
    <3> QED BY <1>f, <1>1, <2>0, <3>1, <3>2, <3>3 DEF ListUnderWay
  <2> QED BY <2>1, <2>2
<1>9. SheetIsItsAccounts'
  <2> SUFFICES ASSUME SheetShown
               PROVE  SheetIsItsAccounts'
    BY <1>l DEF SheetIsItsAccounts
  <2>1. \A w : (\E r \in asks : r.what = w /\ r.mount = mounts) /\ ~(q.mount = mounts /\ q.what = w)
                 => \E r \in asks' : r.what = w /\ r.mount = mounts'
    BY <1>1
  <2>a. /\ probe.saving => \E r \in asks : r.what = "probe" /\ r.mount = mounts
        /\ conn.saving => \E r \in asks : r.what = "conn" /\ r.mount = mounts
        /\ play.loading => \E r \in asks : r.what = "play" /\ r.mount = mounts
    BY <1>f DEF SheetIsItsAccounts
  <2>2. probe'.saving => \E r \in asks' : r.what = "probe" /\ r.mount = mounts'
    BY <1>3, <2>1, <2>a
  <2>3. conn'.saving => \E r \in asks' : r.what = "conn" /\ r.mount = mounts'
    BY <1>4, <2>1, <2>a
  <2>4. play'.loading => \E r \in asks' : r.what = "play" /\ r.mount = mounts'
    BY <1>5, <2>1, <2>a
  <2>5. lat' \in {"loading", "error", sheet.card} /\ play'.reply \in {NoCard, sheet.card}
    BY <1>f, <1>2, <1>5 DEF SheetIsItsAccounts
  <2> QED BY <1>1, <2>2, <2>3, <2>4, <2>5 DEF SheetIsItsAccounts
<1> QED BY <1>6, <1>7, <1>8, <1>9 DEF SheetInv

(* Every step of the account sheet keeps its invariant. *)
LEMMA SheetInvStep == SheetInv /\ [SheetNext]_sheetVars => SheetInv'
<1> SUFFICES ASSUME SheetInv, [SheetNext]_sheetVars
             PROVE  SheetInv'
  OBVIOUS
<1>1. CASE \E c \in Cards : OpenSheet(c)
  BY <1>1, MountInv DEF OpenSheet
<1>2. CASE \E t \in {"overview", "playground", "diagnostics"} : SetTab(t)
  <2>1. sheet.card \in Cards \cup {NoCard}
    BY SheetFacts
  <2> QED BY <1>2, <2>1, MountInv DEF SetTab, SheetShown
<1>3. CASE CloseSheet
  BY <1>3, CloseInv
<1>4. CASE SheetLoads \/ SheetLoadServed \/ SheetLoadArrives \/ SheetLoadFails
  BY <1>4, ReloadInv, LoadServedInv, LoadArrivesInv, LoadFailsInv DEF SheetLoads
<1>5. CASE \E m \in Tests : persist(m)
  BY <1>5, PersistInv
<1>6. CASE (\E u \in Addresses : EditUrl(u)) \/ saveConnection \/ runTestMessage
  BY <1>6, PanelInv
<1>7. CASE \E q \in asks : \/ AskServed(q) \/ ConnectionSavedUnseen(q)
                             \/ \E ok \in BOOLEAN : AskEnds(q, ok)
  <2>1. ASSUME NEW q \in asks, ConnectionSavedUnseen(q)
        PROVE  SheetInv'
    BY <2>1, ReloadInv DEF ConnectionSavedUnseen
  <2> QED BY <1>7, <2>1, ServedInv, EndsInv
<1>8. CASE UNCHANGED sheetVars
  BY <1>8 DEF sheetVars, SheetInv, SheetTyped, AsksBelong, CopiesFit, ListUnderWay,
              SheetIsItsAccounts, Saving, SheetShown
<1> QED BY <1>1, <1>2, <1>3, <1>4, <1>5, <1>6, <1>7, <1>8 DEF SheetNext

(* The inductive invariant of the account sheet (AccountDetailSheet.tsx): which requests
   are under way for the open card, and what the sheet shows while they are. *)
THEOREM SheetInvHolds == SheetSpec => []SheetInv
BY SheetInvInit, SheetInvStep, PTL DEF SheetSpec

\* When no save is under way the self-check's list on the screen is the one saved, unless
\* it is that of a page load read before a save that has ended since (or saves crossed),
\* and figures and replies are those of the account whose sheet is open, however late
\* answers and roll-backs of AccountDetailSheet come.
THEOREM SheetIsTrueHolds == SheetSpec => []SheetIsTrue
<1>1. SheetInv => SheetIsTrue
  BY DEF SheetInv, SheetIsTrue, QuietListIsSaved, ListUnderWay, Panel
<1> QED BY <1>1, SheetInvHolds, PTL

-----------------------------------------------------------------------------
(* The drawer that adds accounts *)

Labels == {"none", "rec", "own"}
PoolRows == [id : Nat, label : Labels \cup {"other"}]
Selections == FileSets \cup {NoFiles}
WizJobs ==
  [op : {"pools", "direct", "preview", "confirm"}, st : {"sent", "pool", "post"}, n : Nat,
   visit : Nat, sel : Nat, label : Labels, files : Selections, pool : Nat]
Tallies ==
  [limit : Limits, visits : Nat, picks : Nat, made : Nat, overtaken : BOOLEAN,
   renewed : BOOLEAN, doubled : BOOLEAN]

WizStates == [open : BOOLEAN, step : Nat, kind : {"none", "cpa", "direct"},
              failed : BOOLEAN, pref : Nat]

WizTyped ==
  /\ wiz \in WizStates
  /\ pools \subseteq PoolRows
  /\ atServer \subseteq PoolRows /\ IsFiniteSet(atServer)
  /\ sel \in Nat /\ label \in Labels
  /\ files \in Selections /\ precheck \in Selections
  /\ jobs \subseteq WizJobs
  /\ tally \in Tallies

\* Until a selection overtakes a pre-check, one that is under way, or shown, is of
\* the files selected, unless the drawer has been reset since.
PrecheckFollowsFiles ==
  ~tally.overtaken =>
    /\ \A j \in jobs : j.op = "preview" => files \in {NoFiles, j.files}
    /\ stage = "preview" /\ precheck # NoFiles => files \in {NoFiles, precheck}

\* Until a job begins beside another, one job at most is to create an account; once
\* it has created a pool, the pool stays selected and no job will create another.
OnePoolAtATime ==
  /\ ~tally.doubled =>
       \A j, k \in jobs : {j.op, k.op} \subseteq {"direct", "confirm"} => j = k
  /\ ~tally.doubled /\ ~tally.renewed /\ tally.made > 0 =>
       /\ \A j \in jobs : j.st # "pool"
       /\ wiz.open => sel \notin {NoPool, NewPool}
  /\ \A j \in jobs : j.st = "pool" => j.op \in {"direct", "confirm"}

WizInv == WizTyped /\ PrecheckFollowsFiles /\ OnePoolAtATime /\ DrawerIsSound

(* The import drawer's invariant holds before the drawer is opened. *)
LEMMA WizInvInit == WizInit => WizInv
<1> SUFFICES ASSUME WizInit
             PROVE  WizInv
  OBVIOUS
<1>0. /\ wiz = [open |-> FALSE, step |-> 1, kind |-> "none", failed |-> FALSE, pref |-> NoPool]
      /\ pools = {} /\ sel = NoPool /\ label = "none" /\ files = NoFiles /\ precheck = NoFiles
      /\ stage = "none" /\ busy = FALSE /\ jobs = {} /\ imports = {}
      /\ atServer \in {{[id |-> 1, label |-> "rec"]}, {[id |-> 1, label |-> "other"]}}
  BY DEF WizInit
<1>1. tally \in Tallies /\ tally.made = 0
  BY DEF WizInit, Tallies
<1>2. wiz \in [open : BOOLEAN, step : Nat, kind : {"none", "cpa", "direct"},
               failed : BOOLEAN, pref : Nat]
  BY <1>0 DEF NoPool
<1>3. atServer \subseteq PoolRows /\ IsFiniteSet(atServer)
  <2>1. [id |-> 1, label |-> "rec"] \in PoolRows /\ [id |-> 1, label |-> "other"] \in PoolRows
    BY DEF PoolRows, Labels
  <2> QED BY <1>0, <2>1, FS_Singleton
<1>4. WizTyped
  BY <1>0, <1>1, <1>2, <1>3 DEF WizTyped, WizStates, Labels, Selections, NoPool
<1>5. PrecheckFollowsFiles /\ OnePoolAtATime /\ DrawerIsSound
  BY <1>0, <1>1 DEF PrecheckFollowsFiles, OnePoolAtATime, DrawerIsSound, ImportWasPrechecked,
     DrawerNotStuck, RetryUsesPool
<1> QED BY <1>4, <1>5 DEF WizInv

\* The values of the drawer, each by itself.
LEMMA WizFacts ==
  ASSUME WizInv
  PROVE  /\ wiz.open \in BOOLEAN /\ wiz.step \in Nat /\ wiz.kind \in {"none", "cpa", "direct"}
         /\ wiz.failed \in BOOLEAN /\ wiz.pref \in Nat
         /\ sel \in Nat /\ label \in Labels /\ files \in Selections /\ precheck \in Selections
         /\ tally.made \in Nat /\ tally.picks \in Nat /\ tally.visits \in Nat
         /\ tally.overtaken \in BOOLEAN /\ tally.renewed \in BOOLEAN /\ tally.doubled \in BOOLEAN
         /\ tally \in Tallies /\ jobs \subseteq WizJobs
         /\ pools \subseteq PoolRows /\ atServer \subseteq PoolRows /\ IsFiniteSet(atServer)
         /\ NewPool \in Nat
BY MaxPoolsAssumption DEF WizInv, WizTyped, WizStates, Tallies, NewPool

\* The effect's recommendation is a pool, one to be created, or none.
LEMMA RecommendTyped ==
  ASSUME WizInv, NEW list \in SUBSET PoolRows, NEW w, w.pref \in Nat, Recommend(list, w)
  PROVE  sel' \in Nat /\ label' \in Labels /\ (w.kind = "none" => sel' = sel)
<1>0. sel \in Nat /\ label \in Labels /\ NewPool \in Nat /\ NoPool \in Nat
  BY WizFacts DEF NoPool
<1> DEFINE named == {p \in list : p.label = "rec"}
<1>1. named # {} => (CHOOSE p \in named : TRUE).id \in Nat
  BY DEF PoolRows
<1>2. sel' = CASE w.kind = "none"               -> sel
               [] w.kind # "none" /\ w.failed   -> NoPool
               [] OTHER -> IF w.pref # NoPool THEN w.pref
                           ELSE IF named # {} THEN (CHOOSE p \in named : TRUE).id ELSE NewPool
  BY DEF Recommend
<1>3. label' = CASE w.kind = "none"               -> label
                 [] w.kind # "none" /\ w.failed   -> "none"
                 [] OTHER -> IF w.pref # NoPool THEN label ELSE "rec"
  BY DEF Recommend
<1> HIDE DEF named
<1>4. CASE w.kind = "none"
  BY <1>0, <1>2, <1>3, <1>4
<1>5. CASE w.kind # "none" /\ w.failed
  BY <1>0, <1>2, <1>3, <1>5 DEF Labels
<1>6. CASE w.kind # "none" /\ ~w.failed
  BY <1>0, <1>1, <1>2, <1>3, <1>6 DEF Labels
<1> QED BY <1>4, <1>5, <1>6

\* A job that begins keeps the values of its render.
LEMMA JobTyped ==
  ASSUME WizInv, NEW op \in {"pools", "direct", "preview", "confirm"},
         NEW st \in {"sent", "pool", "post"}
  PROVE  /\ Job(op, st) \in WizJobs /\ Job(op, st).op = op /\ Job(op, st).st = st
         /\ Job(op, st).files = files
         /\ \A p \in Nat : LET k == [Job(op, st) EXCEPT !.pool = p]
                           IN k \in WizJobs /\ k.op = op /\ k.st = st /\ k.files = files
<1>1. Job(op, st) \in WizJobs /\ Job(op, st).op = op /\ Job(op, st).st = st /\ Job(op, st).files = files
  BY WizFacts DEF Job, WizJobs
<1>2. \A j \in WizJobs, p \in Nat : LET k == [j EXCEPT !.pool = p]
                                    IN k \in WizJobs /\ k.op = j.op /\ k.st = j.st /\ k.files = j.files
  BY DEF WizJobs
<1> QED BY <1>1, <1>2

\* What the counters are after a step that changes some of them.
LEMMA TallyPicks ==
  ASSUME NEW t \in Tallies
  PROVE  LET u == [t EXCEPT !.picks = @ + 1]
         IN u \in Tallies /\ u.made = t.made /\ u.overtaken = t.overtaken
            /\ u.renewed = t.renewed /\ u.doubled = t.doubled
<1>1. t.picks + 1 \in Nat
  BY DEF Tallies
<1>2. \A x \in Nat : LET u == [t EXCEPT !.picks = x]
                     IN u \in Tallies /\ u.made = t.made /\ u.overtaken = t.overtaken
                        /\ u.renewed = t.renewed /\ u.doubled = t.doubled
  BY DEF Tallies
<1> QED BY <1>1, <1>2

(* Setting one counter of a tally leaves the others. *)
LEMMA TallyMade ==
  ASSUME NEW t \in Tallies, NEW n \in Nat
  PROVE  LET u == [t EXCEPT !.made = n]
         IN u \in Tallies /\ u.made = n /\ u.overtaken = t.overtaken
            /\ u.renewed = t.renewed /\ u.doubled = t.doubled
BY DEF Tallies

(* Setting one mark of a tally leaves the rest. *)
LEMMA TallyRenewed ==
  ASSUME NEW t \in Tallies, NEW b \in BOOLEAN
  PROVE  LET u == [t EXCEPT !.renewed = b]
         IN u \in Tallies /\ u.made = t.made /\ u.overtaken = t.overtaken
            /\ u.renewed = b /\ u.doubled = t.doubled
BY DEF Tallies

(* The same for the mark of a request made twice. *)
LEMMA TallyDoubled ==
  ASSUME NEW t \in Tallies, NEW b \in BOOLEAN
  PROVE  LET u == [t EXCEPT !.doubled = b]
         IN u \in Tallies /\ u.made = t.made /\ u.overtaken = t.overtaken
            /\ u.renewed = t.renewed /\ u.doubled = b
BY DEF Tallies

(* The same for the mark of a request that was overtaken. *)
LEMMA TallyOvertaken ==
  ASSUME NEW t \in Tallies, NEW b \in BOOLEAN
  PROVE  LET u == [t EXCEPT !.overtaken = b]
         IN u \in Tallies /\ u.made = t.made /\ u.overtaken = b
            /\ u.renewed = t.renewed /\ u.doubled = t.doubled
BY DEF Tallies

\* The drawer moves on, or is reset, without a job.
LEMMA MovesInv ==
  ASSUME WizInv, UNCHANGED <<jobs, busy, imports, atServer>>,
         wiz' \in WizStates, pools' \subseteq PoolRows, sel' \in Nat, label' \in Labels,
         precheck' \in Selections, files' \in {files, NoFiles},
         UNCHANGED <<stage, precheck>> \/ precheck' = NoFiles,
         \/ tally' = tally /\ (wiz'.open => wiz.open /\ sel' = sel)
         \/ tally' \in Tallies /\ tally'.made = 0 /\ tally'.overtaken = tally.overtaken
            /\ tally'.doubled = tally.doubled
  PROVE  WizInv'
<1>0. /\ WizTyped /\ PrecheckFollowsFiles /\ OnePoolAtATime /\ DrawerIsSound
      /\ files \in Selections
  BY WizFacts DEF WizInv
<1>1. WizTyped'
  BY <1>0 DEF WizTyped, WizStates, Selections
<1>2. PrecheckFollowsFiles'
  BY <1>0 DEF PrecheckFollowsFiles
<1>3. OnePoolAtATime'
  BY <1>0 DEF OnePoolAtATime, NewPool
<1>4. DrawerIsSound'
  <2>1. ImportWasPrechecked' /\ DrawerNotStuck'
    BY <1>0 DEF DrawerIsSound, ImportWasPrechecked, DrawerNotStuck
  <2>2. RetryUsesPool'
    BY <1>0 DEF DrawerIsSound, RetryUsesPool
  <2> QED BY <2>1, <2>2 DEF DrawerIsSound
<1> QED BY <1>1, <1>2, <1>3, <1>4 DEF WizInv

\* A job begins.
LEMMA BeginsInv ==
  ASSUME WizInv, NEW new \in WizJobs, jobs' = jobs \cup {new}, busy' = TRUE, KeepFiles,
         UNCHANGED <<atServer, pools, label>>, wiz' \in WizStates, sel' \in Nat,
         \/ imports' = imports
         \/ /\ imports' = imports \cup {[files |-> files, seen |-> precheck]}
            /\ stage = "preview" /\ precheck # NoFiles /\ files # NoFiles,
         new.op = "preview" => new.files = files,
         new.st = "pool" => /\ new.op \in {"direct", "confirm"} /\ sel \in {NoPool, NewPool}
                            /\ wiz.open /\ tally'.made = tally.made,
         tally' \in Tallies, tally'.overtaken = tally.overtaken, tally'.renewed = tally.renewed,
         tally.doubled => tally'.doubled,
         ~tally'.doubled /\ new.op \in {"direct", "confirm"} =>
            \A j \in jobs : j.op \notin {"direct", "confirm"},
         \/ tally'.made = tally.made /\ UNCHANGED <<wiz, sel>>
         \/ tally'.made = 0
  PROVE  WizInv'
<1>0. /\ WizTyped /\ PrecheckFollowsFiles /\ OnePoolAtATime /\ DrawerIsSound
      /\ UNCHANGED <<files, fileError, precheck, stage, parsing>>
  BY DEF WizInv, KeepFiles
<1>1. WizTyped'
  BY <1>0 DEF WizTyped, WizStates
<1>2. PrecheckFollowsFiles'
  BY <1>0 DEF PrecheckFollowsFiles
<1>3. OnePoolAtATime'
  <2>1. ~tally'.doubled =>
          \A j, k \in jobs' : {j.op, k.op} \subseteq {"direct", "confirm"} => j = k
    BY <1>0 DEF OnePoolAtATime
  <2>2. \A j \in jobs' : j.st = "pool" => j.op \in {"direct", "confirm"}
    BY <1>0 DEF OnePoolAtATime
  <2>3. ASSUME ~tally'.doubled, ~tally'.renewed, tally'.made > 0
        PROVE  (\A j \in jobs' : j.st # "pool") /\ (wiz'.open => sel' \notin {NoPool, NewPool})
    <3>1. UNCHANGED <<wiz, sel>> /\ tally'.made = tally.made
      BY <2>3
    <3>2. ~tally.doubled /\ ~tally.renewed /\ tally.made > 0
      BY <2>3, <3>1
    <3>3. (\A j \in jobs : j.st # "pool") /\ (wiz.open => sel \notin {NoPool, NewPool})
      BY <1>0, <3>2 DEF OnePoolAtATime
    <3> QED BY <3>1, <3>3
  <2> QED BY <2>1, <2>2, <2>3 DEF OnePoolAtATime, NewPool
<1>4. ImportWasPrechecked'
  <2>1. CASE imports' = imports
    BY <1>0, <2>1 DEF DrawerIsSound, ImportWasPrechecked
  <2>2. CASE imports' # imports
    <3> DEFINE i == [files |-> files, seen |-> precheck]
    <3>1. imports' = imports \cup {i} /\ (~tally.overtaken => i.files = i.seen)
      BY <1>0, <2>2 DEF PrecheckFollowsFiles
    <3> HIDE DEF i
    <3> QED BY <1>0, <3>1 DEF DrawerIsSound, ImportWasPrechecked
  <2> QED BY <2>1, <2>2
<1>5. DrawerNotStuck' /\ RetryUsesPool'
  BY <1>0 DEF DrawerIsSound, DrawerNotStuck, RetryUsesPool
<1> QED BY <1>1, <1>2, <1>3, <1>4, <1>5 DEF WizInv, DrawerIsSound

\* A job ends.
LEMMA EndsJobInv ==
  ASSUME WizInv, NEW j \in jobs, jobs' = jobs \ {j}, busy' = FALSE,
         UNCHANGED <<imports, atServer>>, wiz' \in WizStates, wiz'.open = wiz.open,
         pools' \subseteq PoolRows, sel' \in Nat, label' \in Labels,
         \/ UNCHANGED <<files, precheck, stage>>
         \/ files' = NoFiles /\ precheck' = j.files
         \/ j.op = "preview" /\ files' = files /\ precheck' = j.files,
         \/ tally' = tally /\ (tally.made > 0 => sel' = sel)
         \/ /\ tally' \in Tallies /\ tally'.made = tally.made
            /\ tally'.overtaken = tally.overtaken /\ tally'.doubled = tally.doubled
            /\ tally'.renewed = (tally.renewed \/ sel' # sel)
  PROVE  WizInv'
<1>0. /\ WizTyped /\ PrecheckFollowsFiles /\ OnePoolAtATime /\ DrawerIsSound
      /\ files \in Selections /\ precheck \in Selections /\ j \in WizJobs /\ tally \in Tallies
  BY WizFacts DEF WizInv
<1>1. tally' \in Tallies /\ tally'.made = tally.made /\ tally'.overtaken = tally.overtaken
      /\ tally'.doubled = tally.doubled
      /\ (~tally'.renewed => ~tally.renewed /\ (tally.made > 0 => sel' = sel))
  BY <1>0
<1>2. WizTyped'
  <2>1. j.files \in Selections
    BY <1>0 DEF WizJobs
  <2>2. files' \in Selections /\ precheck' \in Selections
    BY <1>0, <2>1 DEF Selections
  <2> QED BY <1>0, <1>1, <2>2 DEF WizTyped, WizStates
<1>3. PrecheckFollowsFiles'
  BY <1>0, <1>1 DEF PrecheckFollowsFiles
<1>4. OnePoolAtATime'
  BY <1>0, <1>1 DEF OnePoolAtATime, NewPool
<1>5. DrawerIsSound'
  <2>1. ImportWasPrechecked' /\ DrawerNotStuck'
    BY <1>0, <1>1 DEF DrawerIsSound, ImportWasPrechecked, DrawerNotStuck
  <2>2. RetryUsesPool'
    BY <1>0, <1>1 DEF DrawerIsSound, RetryUsesPool
  <2> QED BY <2>1, <2>2 DEF DrawerIsSound
<1> QED BY <1>2, <1>3, <1>4, <1>5 DEF WizInv

\* The drawer with its step, its kind, or the outcome of the pools' load changed.
LEMMA WizStep ==
  ASSUME NEW w \in WizStates, NEW n \in Nat
  PROVE  LET u == [w EXCEPT !.step = n] IN u \in WizStates /\ u.open = w.open
BY DEF WizStates

(* Choosing the kind of source leaves what the invariant reads of the drawer. *)
LEMMA WizKind ==
  ASSUME NEW w \in WizStates, NEW k \in {"none", "cpa", "direct"}
  PROVE  LET u == [w EXCEPT !.kind = k] IN u \in WizStates /\ u.open = w.open /\ u.pref = w.pref
BY DEF WizStates

(* So does noting that a step failed. *)
LEMMA WizFailed ==
  ASSUME NEW w \in WizStates, NEW b \in BOOLEAN
  PROVE  LET u == [w EXCEPT !.failed = b] IN u \in WizStates /\ u.open = w.open /\ u.pref = w.pref
BY DEF WizStates

(* The steps of the drawer that send no request keep its invariant. *)
LEMMA WizMovesInv ==
  ASSUME WizInv,
         \/ CloseWizard \/ NextStep \/ PrevStep \/ NextAccount
         \/ \E k \in {"cpa", "direct"} : chooseSourceKind(k)
         \/ \E p \in pools : ChoosePool(p.id, label)
         \/ \E l \in {"rec", "own"} : ChoosePool(NewPool, l)
         \/ \E f \in FileSets : FileParsed(f)
  PROVE  WizInv'
<1>0. /\ wiz \in WizStates /\ pools \subseteq PoolRows /\ sel \in Nat /\ label \in Labels
      /\ files \in Selections /\ precheck \in Selections /\ tally \in Tallies
      /\ NoPool \in Nat /\ NewPool \in Nat /\ wiz.pref \in Nat /\ wiz.step \in Nat
      /\ NoFiles \in Selections /\ {"none", "rec", "own"} \subseteq Labels
  BY WizFacts DEF WizInv, WizTyped, WizStates, NoPool, Selections, Labels
<1>1. CASE CloseWizard
  <2>1. wiz' \in WizStates /\ ~wiz'.open
    BY <1>0, <1>1 DEF CloseWizard, WizStates
  <2> QED BY <1>0, <1>1, <2>1, MovesInv DEF CloseWizard
<1>2. CASE NextStep \/ PrevStep
  <2>1. wiz.step + 1 \in Nat /\ (PrevStep => wiz.step - 1 \in Nat)
    BY <1>0 DEF PrevStep
  <2>2. wiz' \in WizStates /\ wiz'.open = wiz.open
    <3>1. wiz' = [wiz EXCEPT !.step = wiz.step + 1] \/ (PrevStep /\ wiz' = [wiz EXCEPT !.step = wiz.step - 1])
      BY <1>2 DEF NextStep, PrevStep
    <3> QED BY <1>0, <2>1, <3>1, WizStep
  <2> QED BY <1>0, <1>2, <2>2, MovesInv DEF NextStep, PrevStep, KeepFiles
<1>3. CASE NextAccount
  <2>1. /\ tally' \in Tallies /\ tally'.made = 0 /\ tally'.overtaken = tally.overtaken
        /\ tally'.doubled = tally.doubled
    BY <1>0, <1>3, TallyMade DEF NextAccount
  <2>2. wiz' \in WizStates
    BY <1>0, <1>3 DEF NextAccount, WizStates
  <2> QED BY <1>0, <1>3, <2>1, <2>2, MovesInv DEF NextAccount
<1>4. ASSUME NEW k \in {"cpa", "direct"}, chooseSourceKind(k)
      PROVE  WizInv'
  <2>1. /\ tally' \in Tallies /\ tally'.made = 0 /\ tally'.overtaken = tally.overtaken
        /\ tally'.doubled = tally.doubled
    BY <1>0, <1>4, TallyMade DEF chooseSourceKind
  <2>2. wiz' \in WizStates /\ wiz'.pref \in Nat
    BY <1>0, <1>4, WizKind DEF chooseSourceKind
  <2>3. sel' \in Nat /\ label' \in Labels
    BY <1>0, <1>4, <2>2, RecommendTyped DEF chooseSourceKind
  <2> QED BY <1>0, <1>4, <2>1, <2>2, <2>3, MovesInv DEF chooseSourceKind, KeepFiles
<1>5. ASSUME NEW s \in Nat, NEW l \in Labels, ChoosePool(s, l)
      PROVE  WizInv'
  <2>1. /\ tally' \in Tallies /\ tally'.made = 0 /\ tally'.overtaken = tally.overtaken
        /\ tally'.doubled = tally.doubled
    <3> DEFINE t == [tally EXCEPT !.picks = @ + 1]
    <3>1. t \in Tallies /\ t.overtaken = tally.overtaken /\ t.doubled = tally.doubled
      BY <1>0, TallyPicks
    <3>2. tally' = [t EXCEPT !.made = 0]
      BY <1>5 DEF ChoosePool
    <3> HIDE DEF t
    <3> QED BY <3>1, <3>2, TallyMade
  <2> QED BY <1>0, <1>5, <2>1, MovesInv DEF ChoosePool, KeepFiles
<1>6. ASSUME NEW p \in pools, ChoosePool(p.id, label)
      PROVE  WizInv'
  <2>1. p.id \in Nat
    BY <1>0 DEF PoolRows
  <2> QED BY <1>0, <1>5, <1>6, <2>1
<1>7. ASSUME NEW f \in FileSets, FileParsed(f)
      PROVE  WizInv'
  BY <1>0, <1>7, MovesInv DEF FileParsed
<1> QED BY <1>0, <1>1, <1>2, <1>3, <1>4, <1>5, <1>6, <1>7

\* Other files are selected: the pre-check shown is dropped, one under way overtaken.
LEMMA FilesInv ==
  ASSUME WizInv, NEW f \in FileSets, chooseAuthJSONFiles(f)
  PROVE  WizInv'
<1>0. /\ WizTyped /\ PrecheckFollowsFiles /\ OnePoolAtATime /\ DrawerIsSound /\ tally \in Tallies
      /\ f \in Selections /\ NoFiles \in Selections
  BY DEF WizInv, WizTyped, Selections
<1> DEFINE b == tally.overtaken \/ \E j \in jobs : j.op = "preview"
<1>1. /\ tally' = [tally EXCEPT !.picks = @ + 1, !.overtaken = b]
      /\ files' = f /\ precheck' = NoFiles
      /\ UNCHANGED <<wiz, pools, atServer, sel, label, busy, jobs, imports>>
  BY DEF chooseAuthJSONFiles
<1>2. b \in BOOLEAN
  BY <1>0 DEF Tallies
<1>3. /\ tally' \in Tallies /\ tally'.made = tally.made /\ tally'.overtaken = b
      /\ tally'.renewed = tally.renewed /\ tally'.doubled = tally.doubled
  <2> DEFINE t == [tally EXCEPT !.picks = @ + 1]
  <2>1. tally' = [t EXCEPT !.overtaken = b]
    BY <1>1
  <2>2. /\ t \in Tallies /\ t.made = tally.made /\ t.renewed = tally.renewed
        /\ t.doubled = tally.doubled
    BY <1>0, TallyPicks
  <2> HIDE DEF t, b
  <2> QED BY <1>2, <2>1, <2>2, TallyOvertaken
<1>4. WizTyped'
  BY <1>0, <1>1, <1>3 DEF WizTyped
<1>5. PrecheckFollowsFiles'
  BY <1>1, <1>3 DEF PrecheckFollowsFiles
<1>6. OnePoolAtATime'
  BY <1>0, <1>1, <1>3 DEF OnePoolAtATime, NewPool
<1>7. DrawerIsSound'
  <2>1. ~tally'.overtaken => ~tally.overtaken
    BY <1>3
  <2> QED BY <1>0, <1>1, <1>3, <2>1 DEF DrawerIsSound, ImportWasPrechecked, DrawerNotStuck, RetryUsesPool
<1> QED BY <1>4, <1>5, <1>6, <1>7 DEF WizInv

(* The steps that send one keep it. *)
LEMMA WizBeginsInv ==
  ASSUME WizInv,
         \/ \E pref \in {NoPool} \cup {p.id : p \in atServer} : OpenWizard(pref)
         \/ RetryPools \/ submitDirect \/ previewAuthJSONImport \/ confirmAuthJSONImport
  PROVE  WizInv'
<1>0. /\ wiz \in WizStates /\ sel \in Nat /\ tally \in Tallies /\ atServer \subseteq PoolRows
      /\ NoPool \in Nat
  BY WizFacts DEF WizInv, WizTyped, WizStates, NoPool
<1>1. ASSUME NEW pref \in {NoPool} \cup {p.id : p \in atServer}, OpenWizard(pref)
      PROVE  WizInv'
  <2>1. pref \in Nat
    BY <1>0 DEF PoolRows
  <2>2. wiz' \in WizStates /\ sel' \in Nat
    BY <1>0, <1>1, <2>1 DEF OpenWizard, WizStates
  <2>3. /\ tally' \in Tallies /\ tally'.made = 0 /\ tally'.overtaken = tally.overtaken
        /\ tally'.renewed = tally.renewed /\ tally'.doubled = tally.doubled
    <3>1. \A n \in Nat : LET t == [tally EXCEPT !.visits = n]
                         IN /\ t \in Tallies /\ t.overtaken = tally.overtaken
                            /\ t.renewed = tally.renewed /\ t.doubled = tally.doubled
      BY <1>0 DEF Tallies
    <3>2. tally.visits + 1 \in Nat
      BY <1>0 DEF Tallies
    <3> DEFINE t == [tally EXCEPT !.visits = @ + 1]
    <3>3. /\ t \in Tallies /\ t.overtaken = tally.overtaken
          /\ t.renewed = tally.renewed /\ t.doubled = tally.doubled
      BY <3>1, <3>2
    <3>4. tally' = [t EXCEPT !.made = 0]
      BY <1>1 DEF OpenWizard
    <3> HIDE DEF t
    <3> QED BY <3>3, <3>4, TallyMade
  <2> DEFINE new == Job("pools", "sent")
  <2>4. new \in WizJobs /\ new.op = "pools" /\ new.st = "sent"
    BY JobTyped
  <2>5. /\ jobs' = jobs \cup {new} /\ busy' = TRUE /\ KeepFiles
        /\ UNCHANGED <<pools, atServer, label, imports>>
    BY <1>1 DEF OpenWizard, AddJob
  <2> HIDE DEF new
  <2> QED BY <2>2, <2>3, <2>4, <2>5, BeginsInv
<1>2. CASE RetryPools
  <2>1. /\ tally' \in Tallies /\ tally'.made = tally.made /\ tally'.overtaken = tally.overtaken
        /\ tally'.renewed = tally.renewed /\ tally'.doubled = tally.doubled
    BY <1>0, <1>2, TallyPicks DEF RetryPools, Pick
  <2> QED BY <1>0, <1>2, <2>1, JobTyped, BeginsInv DEF RetryPools, AddJob
<1>3. CASE previewAuthJSONImport
  <2>1. /\ tally' \in Tallies /\ tally'.made = tally.made /\ tally'.overtaken = tally.overtaken
        /\ tally'.renewed = tally.renewed /\ tally'.doubled = tally.doubled
    BY <1>0, <1>3, TallyPicks DEF previewAuthJSONImport, Pick
  <2> DEFINE new == [Job("preview", "post") EXCEPT !.pool = sel]
  <2>2. new \in WizJobs /\ new.op = "preview" /\ new.st = "post" /\ new.files = files
    BY <1>0, JobTyped
  <2>3. /\ jobs' = jobs \cup {new} /\ busy' = TRUE /\ KeepFiles
        /\ UNCHANGED <<wiz, pools, atServer, sel, label, imports>>
    BY <1>3 DEF previewAuthJSONImport, AddJob
  <2> HIDE DEF new
  <2> QED BY <1>0, <2>1, <2>2, <2>3, BeginsInv
<1>4. ASSUME NEW op \in {"direct", "confirm"}, EnsurePool(op), wiz.open, KeepFiles,
             UNCHANGED <<wiz, pools, atServer, sel, label>>,
             \/ imports' = imports
             \/ /\ imports' = imports \cup {[files |-> files, seen |-> precheck]}
                /\ stage = "preview" /\ precheck # NoFiles /\ files # NoFiles
      PROVE  WizInv'
  <2> DEFINE new == IF sel \in {NoPool, NewPool} THEN Job(op, "pool")
                    ELSE [Job(op, "post") EXCEPT !.pool = sel]
             b == tally.doubled \/ \E j \in jobs : j.op # "pools"
  <2>1. /\ new \in WizJobs /\ new.op = op
        /\ new.st = "pool" => sel \in {NoPool, NewPool}
    <3>1. CASE sel \in {NoPool, NewPool}
      BY <3>1, JobTyped
    <3>2. CASE sel \notin {NoPool, NewPool}
      BY <1>0, <3>2, JobTyped
    <3> QED BY <3>1, <3>2
  <2>2. tally' = [tally EXCEPT !.picks = @ + 1, !.doubled = b] /\ busy' = TRUE
        /\ jobs' = jobs \cup {new}
    BY <1>4 DEF EnsurePool, AddJob
  <2>3. b \in BOOLEAN
    BY <1>0 DEF Tallies
  <2>4. /\ tally' \in Tallies /\ tally'.made = tally.made /\ tally'.overtaken = tally.overtaken
        /\ tally'.renewed = tally.renewed /\ tally'.doubled = b
    <3> DEFINE t == [tally EXCEPT !.picks = @ + 1]
    <3>1. tally' = [t EXCEPT !.doubled = b]
      BY <2>2
    <3>2. /\ t \in Tallies /\ t.made = tally.made /\ t.renewed = tally.renewed
          /\ t.overtaken = tally.overtaken
      BY <1>0, TallyPicks
    <3> HIDE DEF t, b
    <3> QED BY <2>3, <3>1, <3>2, TallyDoubled
  <2>5. ~tally'.doubled => \A j \in jobs : j.op \notin {"direct", "confirm"}
    BY <2>4
  <2>6. tally.doubled => tally'.doubled
    BY <2>4
  <2> HIDE DEF new, b
  <2> QED BY <1>0, <1>4, <2>1, <2>2, <2>4, <2>5, <2>6, BeginsInv
<1>5. CASE submitDirect
  BY <1>4, <1>5 DEF submitDirect, CanSubmit
<1>6. CASE confirmAuthJSONImport
  BY <1>4, <1>6 DEF confirmAuthJSONImport, CanImport, CanSubmit
<1> QED BY <1>1, <1>2, <1>3, <1>5, <1>6

(* An answer, or a failure, keeps it. *)
LEMMA WizEndsInv ==
  ASSUME WizInv, NEW j \in jobs,
         PoolsArrive(j) \/ AccountCreated(j) \/ PreviewArrives(j) \/ JobFails(j)
  PROVE  WizInv'
<1>0. /\ wiz \in WizStates /\ sel \in Nat /\ label \in Labels /\ tally \in Tallies
      /\ pools \subseteq PoolRows /\ atServer \subseteq PoolRows /\ wiz.pref \in Nat
  BY WizFacts DEF WizInv, WizTyped, WizStates
<1>1. CASE PoolsArrive(j)
  <2>1. /\ pools' \subseteq PoolRows /\ wiz' \in WizStates /\ wiz'.open = wiz.open
        /\ wiz'.pref \in Nat
    BY <1>0, <1>1, WizFailed DEF PoolsArrive
  <2>2. sel' \in Nat /\ label' \in Labels
    BY <1>0, <1>1, <2>1, RecommendTyped DEF PoolsArrive
  <2>3. \/ tally' = tally /\ (tally.made > 0 => sel' = sel)
        \/ /\ tally' \in Tallies /\ tally'.made = tally.made
           /\ tally'.overtaken = tally.overtaken /\ tally'.doubled = tally.doubled
           /\ tally'.renewed = (tally.renewed \/ sel' # sel)
    <3> DEFINE b == tally.renewed \/ sel' # sel
    <3>1. b \in BOOLEAN
      BY <1>0 DEF Tallies
    <3>2. CASE tally.made > 0
      <4>1. tally' = [tally EXCEPT !.renewed = b]
        BY <1>1, <3>2 DEF PoolsArrive, Renewed
      <4> HIDE DEF b
      <4>2. /\ tally' \in Tallies /\ tally'.made = tally.made
            /\ tally'.overtaken = tally.overtaken /\ tally'.doubled = tally.doubled
            /\ tally'.renewed = b
        BY <1>0, <3>1, <4>1, TallyRenewed
      <4> QED BY <4>2 DEF b
    <3>3. CASE ~(tally.made > 0)
      BY <1>1, <3>3 DEF PoolsArrive
    <3> QED BY <3>2, <3>3
  <2> QED BY <1>1, <2>1, <2>2, <2>3, EndsJobInv DEF PoolsArrive, KeepFiles
<1>2. CASE AccountCreated(j)
  <2>1. wiz' \in WizStates /\ wiz'.open = wiz.open
    BY <1>0, <1>2, WizStep DEF AccountCreated
  <2> QED BY <1>0, <1>2, <2>1, EndsJobInv DEF AccountCreated, KeepFiles
<1>3. CASE PreviewArrives(j)
  BY <1>0, <1>3, EndsJobInv DEF PreviewArrives
<1>4. CASE JobFails(j)
  BY <1>0, <1>4, EndsJobInv DEF JobFails, KeepFiles
<1> QED BY <1>1, <1>2, <1>3, <1>4

\* A job creates its pool: the drawer selects it, unless the recommendation replaces it.
LEMMA PoolCreatedInv ==
  ASSUME WizInv, NEW j \in jobs, PoolCreated(j)
  PROVE  WizInv'
<1> DEFINE id == Cardinality(atServer) + 1
           row == [id |-> id, label |-> j.label]
           new == [j EXCEPT !.st = "post", !.pool = id]
<1>0. /\ WizTyped /\ PrecheckFollowsFiles /\ OnePoolAtATime /\ DrawerIsSound
      /\ tally \in Tallies /\ sel \in Nat /\ label \in Labels /\ j \in WizJobs
      /\ pools \subseteq PoolRows /\ atServer \subseteq PoolRows /\ IsFiniteSet(atServer)
      /\ wiz.pref \in Nat
  BY WizFacts DEF WizInv
<1>1. id \in Nat /\ id > 0 /\ id <= MaxPools
  <2>1. Cardinality(atServer) \in Nat
    BY <1>0, FS_CardinalityType
  <2> QED BY <2>1 DEF PoolCreated
<1>2. id \notin {NoPool, NewPool}
  BY <1>1, MaxPoolsAssumption DEF NoPool, NewPool
<1>3. /\ j.st = "pool" /\ atServer' = atServer \cup {row} /\ pools' = pools \cup {row}
      /\ IF wiz.kind = "none" THEN sel' = id /\ UNCHANGED label ELSE Recommend(pools', wiz)
      /\ jobs' = (jobs \ {j}) \cup {new}
      /\ tally' = IF j.visit = tally.visits THEN [Renewed(id) EXCEPT !.made = @ + 1] ELSE tally
      /\ UNCHANGED <<wiz, busy, imports>> /\ KeepFiles
  BY DEF PoolCreated
<1>4. row \in PoolRows
  BY <1>0, <1>1 DEF PoolRows, WizJobs
<1>5. new \in WizJobs /\ new.op = j.op /\ new.files = j.files /\ new.st = "post"
  BY <1>0, <1>1 DEF WizJobs
<1> HIDE DEF id, row, new
<1>6. pools' \subseteq PoolRows /\ atServer' \subseteq PoolRows /\ IsFiniteSet(atServer')
  BY <1>0, <1>3, <1>4, FS_AddElement
<1>7. sel' \in Nat /\ label' \in Labels
  <2>1. CASE wiz.kind = "none"
    BY <1>0, <1>1, <1>3, <2>1
  <2>2. CASE wiz.kind # "none"
    BY <1>0, <1>3, <1>6, <2>2, RecommendTyped
  <2> QED BY <2>1, <2>2
<1>8. /\ tally' \in Tallies /\ tally'.overtaken = tally.overtaken /\ tally'.doubled = tally.doubled
      /\ \/ tally' = tally
         \/ tally'.made = tally.made + 1 /\ (~tally'.renewed => ~tally.renewed /\ sel' = id)
  <2>1. CASE j.visit = tally.visits
    <3> DEFINE b == tally.renewed \/ sel' # id
               t == [tally EXCEPT !.renewed = b]
    <3>1. b \in BOOLEAN
      BY <1>0 DEF Tallies
    <3>2. tally' = [t EXCEPT !.made = t.made + 1]
      BY <1>3, <2>1 DEF Renewed
    <3> HIDE DEF b
    <3>3. /\ t \in Tallies /\ t.made = tally.made /\ t.overtaken = tally.overtaken
          /\ t.renewed = b /\ t.doubled = tally.doubled
      BY <1>0, <3>1, TallyRenewed
    <3> HIDE DEF t
    <3>4. t.made + 1 \in Nat
      BY <3>3 DEF Tallies
    <3>5. /\ tally' \in Tallies /\ tally'.made = t.made + 1 /\ tally'.overtaken = t.overtaken
          /\ tally'.renewed = t.renewed /\ tally'.doubled = t.doubled
      BY <3>2, <3>3, <3>4, TallyMade
    <3>6. ~b => ~tally.renewed /\ sel' = id
      BY DEF b
    <3> QED BY <3>3, <3>5, <3>6
  <2>2. CASE j.visit # tally.visits
    BY <1>0, <1>3, <2>2
  <2> QED BY <2>1, <2>2
<1>9. WizTyped'
  BY <1>0, <1>3, <1>5, <1>6, <1>7, <1>8 DEF WizTyped, KeepFiles
<1>10. PrecheckFollowsFiles'
  BY <1>0, <1>3, <1>5, <1>8 DEF PrecheckFollowsFiles, KeepFiles
<1>11. tally.doubled \/ tally.renewed \/ tally.made = 0
  <2>1. tally.made \in Nat
    BY <1>0 DEF Tallies
  <2> QED BY <1>0, <1>3, <2>1 DEF OnePoolAtATime
<1>12. OnePoolAtATime'
  <2>1. ~tally'.doubled =>
          \A i, k \in jobs' : {i.op, k.op} \subseteq {"direct", "confirm"} => i = k
    BY <1>0, <1>3, <1>5, <1>8 DEF OnePoolAtATime
  <2>2. \A k \in jobs' : k.st = "pool" => k.op \in {"direct", "confirm"}
    BY <1>0, <1>3, <1>5 DEF OnePoolAtATime
  <2>3. ASSUME ~tally'.doubled, ~tally'.renewed, tally'.made > 0
        PROVE  (\A k \in jobs' : k.st # "pool") /\ (wiz'.open => sel' \notin {NoPool, NewPool})
    <3>1. ~tally.doubled /\ sel' = id
      BY <1>8, <1>11, <2>3
    <3>2. \A k \in jobs : k.op \in {"direct", "confirm"} => k = j
      BY <1>0, <1>3, <3>1 DEF OnePoolAtATime
    <3>3. \A k \in jobs' : k.st # "pool"
      BY <1>0, <1>3, <1>5, <3>2 DEF OnePoolAtATime
    <3> QED BY <1>2, <3>1, <3>3
  <2> QED BY <2>1, <2>2, <2>3 DEF OnePoolAtATime, NewPool
<1>13. DrawerIsSound'
  <2>1. ImportWasPrechecked' /\ DrawerNotStuck'
    BY <1>0, <1>3, <1>8 DEF DrawerIsSound, ImportWasPrechecked, DrawerNotStuck
  <2>2. RetryUsesPool'
    BY <1>0, <1>8, <1>11 DEF DrawerIsSound, RetryUsesPool, Tallies
  <2> QED BY <2>1, <2>2 DEF DrawerIsSound
<1> QED BY <1>9, <1>10, <1>12, <1>13 DEF WizInv

(* Every step of the import drawer keeps its invariant. *)
LEMMA WizInvStep == WizInv /\ [WizNext]_wizVars => WizInv'
<1> SUFFICES ASSUME WizInv, [WizNext]_wizVars
             PROVE  WizInv'
  OBVIOUS
<1>1. CASE UNCHANGED wizVars
  BY <1>1 DEF wizVars, WizInv, WizTyped, PrecheckFollowsFiles, OnePoolAtATime, DrawerIsSound,
     ImportWasPrechecked, DrawerNotStuck, RetryUsesPool, NewPool
<1>2. CASE WizNext
  BY <1>2, WizMovesInv, FilesInv, WizBeginsInv, WizEndsInv, PoolCreatedInv DEF WizNext
<1> QED BY <1>1, <1>2

(* The inductive invariant of the import drawer (AddAccountDrawer.tsx): which jobs may be
   under way in which step of the drawer, and what they will report. *)
THEOREM WizInvHolds == WizSpec => []WizInv
BY WizInvInit, WizInvStep, PTL DEF WizSpec

\* Whatever is chosen, fails and is tried again in the drawer (AddAccountDrawer), it
\* imports only files whose pre-check it showed, makes one pool, and stays usable.
THEOREM DrawerIsSoundHolds == WizSpec => []DrawerIsSound
<1>1. WizInv => DrawerIsSound
  BY DEF WizInv
<1> QED BY <1>1, WizInvHolds, PTL

-----------------------------------------------------------------------------
(* The sessions at the server *)

Statuses == {"none"} \cup ActiveStatus \cup Ended
PollerStates == {"none", "waiting", "asking", "finalizing", "gone"}

SessTyped ==
  /\ server \in [Ids -> Statuses]
  /\ poller \in [Ids -> PollerStates]
  /\ revived \subseteq Ids
  /\ creating \in Nat

\* A session has had a goroutine since it was created.
StartedTogether == \A i \in Ids : server[i] = "none" <=> poller[i] = "none"

OnlyOne == \A i, j \in ActiveAtServer \ revived : i = j

SessInv == SessTyped /\ StartedTogether /\ ActiveIsServed /\ OnlyOne

(* The invariant of the session store holds before the first session. *)
LEMMA SessInvInit == SessInit => SessInv
BY DEF SessInit, SessInv, SessTyped, StartedTogether, ActiveIsServed, OnlyOne, ActiveAtServer,
       Statuses, PollerStates, ActiveStatus

\* A session is created only when none is active.
LEMMA NewSessionInv ==
  ASSUME SessInv, NEW i \in Ids, ActiveAtServer = {}, NewSession(i), creating' \in Nat
  PROVE  SessInv'
<1> USE DEF SessInv, SessTyped, ActiveAtServer
<1>1. SessTyped'
  BY DEF NewSession, Statuses, PollerStates, ActiveStatus
<1>2. StartedTogether'
  BY DEF NewSession, StartedTogether
<1>3. ActiveIsServed' /\ OnlyOne'
  BY DEF NewSession, ActiveIsServed, OnlyOne
<1> QED BY <1>1, <1>2, <1>3

\* The user ends a session, or its deadline.
LEMMA EndInv ==
  ASSUME SessInv, NEW i \in Ids, CancelSession(i) \/ Expire(i)
  PROVE  SessInv'
<1> USE DEF SessInv, SessTyped, ActiveAtServer
<1>0. PICK s \in {"cancelled", "failed"} :
        /\ server[i] \in ActiveStatus /\ server' = [server EXCEPT ![i] = s]
        /\ UNCHANGED <<poller, revived, creating>>
  BY DEF CancelSession, Expire
<1>1. SessTyped'
  BY <1>0 DEF Statuses, Ended
<1>2. StartedTogether'
  BY <1>0 DEF StartedTogether, ActiveStatus
<1>3. ActiveIsServed' /\ OnlyOne'
  BY <1>0 DEF ActiveIsServed, OnlyOne, ActiveStatus
<1> QED BY <1>1, <1>2, <1>3

\* The goroutine of a session: what it writes without looking at the status
\* makes a session active again that had ended, and no other.
LEMMA PollerInv ==
  ASSUME SessInv, NEW i \in Ids, PollerStep(i)
  PROVE  SessInv'
<1> USE DEF SessInv, SessTyped, ActiveAtServer
<1>1. CASE PollTick(i) \/ TokenPending(i)
  <2>1. PICK s \in {"gone", "asking", "waiting"} :
          /\ poller[i] \in {"waiting", "asking"} /\ poller' = [poller EXCEPT ![i] = s]
          /\ s = "gone" => server[i] = "cancelled"
          /\ UNCHANGED <<server, revived, creating>>
    BY <1>1 DEF PollTick, TokenPending
  <2>2. SessTyped' /\ StartedTogether' /\ OnlyOne'
    BY <2>1 DEF PollerStates, StartedTogether, OnlyOne
  <2>3. ActiveIsServed'
    BY <2>1 DEF ActiveIsServed, ActiveStatus
  <2> QED BY <2>2, <2>3
<1>2. CASE ContextDone(i) \/ TokenRefused(i) \/ finalizeLogin(i)
  <2>1. PICK s \in Statuses :
          /\ poller[i] \in {"waiting", "asking", "finalizing"}
          /\ poller' = [poller EXCEPT ![i] = "gone"] /\ server' = [server EXCEPT ![i] = s]
          /\ s \notin ActiveStatus /\ (s = "none" => server[i] = "none")
          /\ UNCHANGED <<revived, creating>>
    <3>1. server[i] \in Statuses /\ {"failed", "succeeded"} \subseteq Statuses \ ActiveStatus
            /\ {"failed", "succeeded"} \subseteq Statuses \ {"none"}
      BY DEF Statuses, ActiveStatus, Ended
    <3>2. CASE ContextDone(i)
      BY <3>1, <3>2 DEF ContextDone
    <3>3. CASE TokenRefused(i)
      BY <3>1, <3>3 DEF TokenRefused
    <3>4. CASE finalizeLogin(i)
      BY <3>1, <3>4 DEF finalizeLogin
    <3> QED BY <1>2, <3>2, <3>3, <3>4
  <2>2. SessTyped'
    BY <2>1 DEF PollerStates
  <2>3. StartedTogether'
    BY <2>1 DEF StartedTogether
  <2>4. ActiveIsServed' /\ OnlyOne'
    BY <2>1 DEF ActiveIsServed, OnlyOne
  <2> QED BY <2>2, <2>3, <2>4
<1>3. CASE TokenGranted(i)
  <2>1. /\ poller[i] = "asking" /\ poller' = [poller EXCEPT ![i] = "finalizing"]
        /\ server' = [server EXCEPT ![i] = "authorized"] /\ creating' = creating
        /\ revived' = IF server[i] \in Ended THEN revived \cup {i} ELSE revived
    BY <1>3 DEF TokenGranted
  <2>2. server[i] \in ActiveStatus \cup Ended
    BY <2>1 DEF StartedTogether, Statuses
  <2>3. SessTyped' /\ StartedTogether'
    BY <2>1 DEF PollerStates, Statuses, ActiveStatus, StartedTogether
  <2>4. ActiveIsServed'
    BY <2>1 DEF ActiveIsServed
  <2>5. OnlyOne'
    BY <2>1, <2>2 DEF OnlyOne
  <2> QED BY <2>3, <2>4, <2>5
<1> QED BY <1>1, <1>2, <1>3 DEF PollerStep

\* The process restarts and resumes the sessions it finds active.
LEMMA RestartInv ==
  ASSUME SessInv, Restart PROVE SessInv'
<1> USE DEF SessInv, SessTyped
<1>1. PICK lost \in SUBSET ActiveAtServer :
        /\ poller' = [i \in Ids |-> IF i \in ActiveAtServer \ lost THEN "waiting"
                                    ELSE IF poller[i] = "none" THEN "none" ELSE "gone"]
        /\ server' = [i \in Ids |-> IF i \in lost THEN "failed" ELSE server[i]]
        /\ creating' = 0 /\ revived' = revived
  BY DEF Restart
<1>2. SessTyped'
  BY <1>1 DEF Statuses, Ended, PollerStates
<1>3. StartedTogether'
  BY <1>1 DEF StartedTogether, ActiveAtServer, ActiveStatus
<1>4. ActiveIsServed' /\ OnlyOne'
  BY <1>1 DEF ActiveIsServed, OnlyOne, ActiveAtServer, ActiveStatus
<1> QED BY <1>2, <1>3, <1>4

(* Every step of the session store keeps it. *)
LEMMA SessInvStep == SessInv /\ [SessNext]_sessVars => SessInv'
<1> SUFFICES ASSUME SessInv, [SessNext]_sessVars PROVE SessInv'
  OBVIOUS
<1>1. ASSUME UNCHANGED <<server, poller, revived>>, creating' \in Nat PROVE SessInv'
  BY <1>1 DEF SessInv, SessTyped, StartedTogether, ActiveIsServed, OnlyOne, ActiveAtServer
<1>2. CASE RequestDeviceCode \/ CreateRefused
  <2>1. creating' \in Nat
    BY <1>2 DEF RequestDeviceCode, CreateRefused, SessInv, SessTyped
  <2> QED BY <1>1, <1>2, <2>1 DEF RequestDeviceCode, CreateRefused
<1>3. ASSUME NEW i \in Ids, CreateSession(i) PROVE SessInv'
  <2>1. creating' \in Nat
    BY <1>3 DEF CreateSession, SessInv, SessTyped
  <2> QED BY <1>3, <2>1, NewSessionInv DEF CreateSession
<1>4. CASE UNCHANGED sessVars
  <2>1. creating \in Nat
    BY DEF SessInv, SessTyped
  <2> QED BY <1>1, <1>4, <2>1 DEF sessVars
<1> QED BY <1>2, <1>3, <1>4, EndInv, PollerInv, RestartInv DEF SessNext

(* What the invariant says of sessions under way is that each is served. *)
LEMMA AtMostOne ==
  ASSUME SessInv PROVE SessionsAreServed
<1> DEFINE S == ActiveAtServer \ revived
<1>1. S = {} \/ \E x : S = {x}
  BY DEF SessInv, OnlyOne
<1>2. Cardinality(S) <= 1
  BY <1>1, FS_EmptySet, FS_Singleton
<1> QED BY <1>2 DEF SessionsAreServed, OneActiveLogin, SessInv

\* However many consoles create, cancel and let expire, and whenever the
\* process restarts, an active session has a goroutine that will end it, and
\* one login is active but for those that came back (session.go, handler.go).
THEOREM SessionsAreServedHolds == SessSpec => []SessionsAreServed
BY SessInvInit, SessInvStep, AtMostOne, PTL DEF SessSpec

-----------------------------------------------------------------------------
(* The drawer *)

Sessions == [id : Ids, status : Statuses]
Polls == [id : Ids, status : Statuses \cup {"unread"}, disposed : BOOLEAN]
FlowOps == {"open", "restore", "restored", "lookup", "cancel", "cancelled"}
Flows ==
  {f \in [op : FlowOps, n : Nat, id : Ids \cup {NoSession}] :
     f.op \notin {"open", "lookup"} => f.id \in Ids}

DrawerTyped ==
  /\ session \in Sessions \cup {NoSession}
  /\ stored \in Ids \cup {NoSession}
  /\ poll \in {"off", "timer", "retry"}
  /\ polls \subseteq Polls
  /\ flow \subseteq Flows
  /\ left \in [sessions : Nat, opens : Nat, fails : Nat, restarts : Nat]
  /\ silenced \in BOOLEAN

\* A timer, and a poll of the running effect, belong to the session shown.
PollIsOfSession ==
  /\ poll # "off" => session # NoSession
  /\ \A p \in polls : ~p.disposed => session # NoSession /\ p.id = session.id

\* An active session is polled by the running effect.
EffectPolls ==
  Active(session) =>
    poll # "off" \/ silenced \/ \E p \in polls : ~p.disposed /\ p.id = session.id

\* A session that has ended is stored only until its account is refreshed.
StoredUntilRestored ==
  session # NoSession /\ ~Active(session) /\ stored = session.id =>
    \E f \in flow : f.op = "restored"

DrawerInv == DrawerTyped /\ PollIsOfSession /\ EffectPolls /\ StoredUntilRestored

LoginInv == SessInv /\ DrawerInv

(* The drawer's invariant holds before the drawer is opened. *)
LEMMA LoginInvInit == LoginInit => LoginInv
<1> SUFFICES ASSUME LoginInit PROVE LoginInv
  OBVIOUS
<1>1. SessInv
  BY SessInvInit DEF LoginInit
<1>2. DrawerInv
  BY BudgetsAssumption DEF LoginInit, DrawerInv, DrawerTyped, PollIsOfSession, EffectPolls,
     StoredUntilRestored, Active
<1> QED BY <1>1, <1>2 DEF LoginInv

\* The drawer shows another session, and the polling effect begins anew.
LEMMA SetSessionInv ==
  ASSUME DrawerInv, NEW s \in Sessions \cup {NoSession}, SetSession(s),
         stored' \in Ids \cup {NoSession}, flow' \subseteq Flows,
         left' \in [sessions : Nat, opens : Nat, fails : Nat, restarts : Nat],
         s # NoSession /\ ~Active(s) /\ stored' = s.id => \E f \in flow' : f.op = "restored"
  PROVE  DrawerInv'
<1>1. /\ session' = s /\ poll' = (IF Active(s) THEN "timer" ELSE "off")
      /\ polls' = {[p EXCEPT !.disposed = TRUE] : p \in polls} /\ silenced' = FALSE
  BY DEF SetSession
<1>2. polls' \subseteq Polls /\ \A p \in polls' : p.disposed
  BY <1>1 DEF DrawerInv, DrawerTyped, Polls
<1>3. Active(session)' <=> Active(s)
  BY <1>1 DEF Active
<1>4. DrawerTyped'
  BY <1>1, <1>2 DEF DrawerTyped
<1>5. PollIsOfSession' /\ EffectPolls' /\ StoredUntilRestored'
  BY <1>1, <1>2, <1>3 DEF PollIsOfSession, EffectPolls, StoredUntilRestored, Active
<1> QED BY <1>4, <1>5 DEF DrawerInv

\* Steps that leave the session, its polls and what is stored alone.
LEMMA FlowInv ==
  ASSUME DrawerInv, UNCHANGED <<session, poll, polls, silenced>>,
         stored' \in {stored, NoSession}, flow' \subseteq Flows,
         left' \in [sessions : Nat, opens : Nat, fails : Nat, restarts : Nat],
         stored' # NoSession /\ (\E f \in flow : f.op = "restored") =>
           \E f \in flow' : f.op = "restored"
  PROVE  DrawerInv'
<1>1. DrawerTyped' /\ PollIsOfSession'
  BY DEF DrawerInv, DrawerTyped, PollIsOfSession
<1>2. Active(session)' <=> Active(session)
  BY DEF Active
<1>3. EffectPolls'
  BY <1>2 DEF DrawerInv, EffectPolls
<1>4. StoredUntilRestored'
  <2> SUFFICES ASSUME session # NoSession, ~Active(session), stored' = session.id
               PROVE  \E f \in flow' : f.op = "restored"
    BY <1>2 DEF StoredUntilRestored
  <2>1. session.id \in Ids
    BY DEF DrawerInv, DrawerTyped, Sessions
  <2> QED BY <2>1, NoSessionAssumption DEF DrawerInv, StoredUntilRestored
<1> QED BY <1>1, <1>3, <1>4 DEF DrawerInv

\* Requests that begin.
LEMMA NewFlow ==
  ASSUME DrawerInv, NEW op \in FlowOps, NEW id \in Ids \cup {NoSession},
         op \notin {"open", "lookup"} => id \in Ids
  PROVE  flow \cup {[op |-> op, n |-> left.opens, id |-> id]} \subseteq Flows
<1>1. left.opens \in Nat /\ flow \subseteq Flows
  BY DEF DrawerInv, DrawerTyped
<1> QED BY <1>1 DEF Flows

\* A request goes on as another one.
LEMMA GoesOn ==
  ASSUME DrawerInv, NEW f \in flow, NEW op \in FlowOps, NEW id \in Ids
  PROVE  /\ f \in Flows /\ (f.op \notin {"open", "lookup"} => f.id \in Ids)
         /\ [f EXCEPT !.op = op, !.id = id] \in Flows /\ [f EXCEPT !.op = op, !.id = id].op = op
         /\ f.op \notin {"open", "lookup"} =>
              [f EXCEPT !.op = op] \in Flows /\ [f EXCEPT !.op = op].op = op
<1>1. f \in Flows
  BY DEF DrawerInv, DrawerTyped
<1> QED BY <1>1 DEF Flows

SessUnchanged == UNCHANGED sessVars

(* A step of the drawer alone keeps the invariant of the sessions. *)
LEMMA SameSessions == ASSUME SessInv, SessUnchanged PROVE SessInv'
BY SessInvStep DEF SessUnchanged

\* The drawer is opened and closed, its steps are gone through, and its
\* requests are begun.
LEMMA GestureInv ==
  ASSUME LoginInv,
         \/ OpenDrawer \/ CloseDrawer \/ GoToLogin \/ GoBack \/ startCpaLogin \/ cancelCpaLogin
         \/ resetForNextAccount
  PROVE  LoginInv'
<1>0. SessInv /\ DrawerInv /\ DrawerTyped
  BY DEF LoginInv, DrawerInv
<1>s. SessInv'
  BY <1>0, SameSessions DEF SessUnchanged, OpenDrawer, CloseDrawer, GoToLogin, GoBack,
     startCpaLogin, cancelCpaLogin, resetForNextAccount
<1>1. CASE OpenDrawer
  <2>1. left' \in [sessions : Nat, opens : Nat, fails : Nat, restarts : Nat]
    BY <1>0, <1>1 DEF OpenDrawer, DrawerTyped
  <2>2. flow' \subseteq Flows /\ flow \subseteq flow'
    BY <1>0, <1>1, NewFlow DEF OpenDrawer, FlowOps
  <2>3. DrawerInv'
    BY <1>0, <1>1, <2>1, <2>2, FlowInv DEF OpenDrawer
  <2> QED BY <1>s, <2>3 DEF LoginInv
<1>2. CASE CloseDrawer \/ resetForNextAccount
  <2>1. /\ SetSession(NoSession) /\ stored' \in Ids \cup {NoSession} /\ flow' \subseteq Flows
        /\ left' \in [sessions : Nat, opens : Nat, fails : Nat, restarts : Nat]
    BY <1>0, <1>2 DEF CloseDrawer, resetForNextAccount, DrawerTyped
  <2> QED BY <1>0, <1>s, <2>1, SetSessionInv DEF LoginInv
<1>3. CASE GoToLogin \/ GoBack
  <2>1. UNCHANGED <<session, poll, polls, silenced, stored, flow, left>>
    BY <1>3 DEF GoToLogin, GoBack
  <2>2. DrawerInv'
    BY <1>0, <2>1, FlowInv DEF DrawerTyped
  <2> QED BY <1>s, <2>2 DEF LoginInv
<1>4. CASE startCpaLogin \/ cancelCpaLogin
  <2>1. UNCHANGED <<session, poll, polls, silenced, stored, left>>
    BY <1>4 DEF startCpaLogin, cancelCpaLogin
  <2>2. flow' \subseteq Flows /\ flow \subseteq flow'
    <3>1. CASE startCpaLogin
      BY <1>0, <3>1, NewFlow DEF startCpaLogin, FlowOps
    <3>2. CASE cancelCpaLogin
      <4>1. session.id \in Ids
        BY <1>0, <3>2 DEF cancelCpaLogin, DrawerTyped, Sessions
      <4> QED BY <1>0, <3>2, <4>1, NewFlow DEF cancelCpaLogin, FlowOps
    <3> QED BY <1>4, <3>1, <3>2
  <2>3. DrawerInv'
    BY <1>0, <2>1, <2>2, FlowInv DEF DrawerTyped
  <2> QED BY <1>s, <2>3 DEF LoginInv
<1> QED BY <1>1, <1>2, <1>3, <1>4

\* A failure of a request that shows nothing new.
LEMMA FailedLeft ==
  ASSUME DrawerTyped, CanFail, Failed
  PROVE  left' \in [sessions : Nat, opens : Nat, fails : Nat, restarts : Nat]
BY DEF CanFail, Failed, DrawerTyped

\* The drawer's own requests are answered or fail.
LEMMA AnswerInv ==
  ASSUME LoginInv, NEW f \in flow, FlowStep(f)
  PROVE  LoginInv'
<1>0. SessInv /\ DrawerInv /\ DrawerTyped /\ f \in Flows
  BY DEF LoginInv, DrawerInv, DrawerTyped
<1>t. /\ server \in [Ids -> Statuses] /\ ActiveAtServer \subseteq Ids
      /\ left \in [sessions : Nat, opens : Nat, fails : Nat, restarts : Nat]
      /\ stored \in Ids \cup {NoSession} /\ flow \subseteq Flows
  BY <1>0 DEF SessInv, SessTyped, DrawerTyped, ActiveAtServer
<1>1. CASE OpenLoaded(f)
  <2>1. UNCHANGED <<session, poll, polls, silenced, stored, left>> /\ SessUnchanged /\ f.op = "open"
    BY <1>1 DEF OpenLoaded, SessUnchanged
  <2>2. \/ flow' = flow \ {f}
        \/ \E i \in Ids : flow' = (flow \ {f}) \cup {[f EXCEPT !.op = "restore", !.id = i]}
    BY <1>1, <1>t DEF OpenLoaded
  <2>3. flow' \subseteq Flows /\ flow \ {f} \subseteq flow'
    <3>1. \A i \in Ids : [f EXCEPT !.op = "restore", !.id = i] \in Flows
      BY <1>0, GoesOn DEF FlowOps
    <3> QED BY <1>t, <2>2, <3>1
  <2>4. DrawerInv'
    BY <1>0, <1>t, <2>1, <2>3, FlowInv
  <2> QED BY <1>0, <2>1, <2>4, SameSessions DEF LoginInv
<1>2. CASE OpenFails(f) \/ StartFails(f) \/ RestoreFails(f)
  <2>1. /\ UNCHANGED <<session, poll, polls, silenced>> /\ SessUnchanged /\ f.op # "restored"
        /\ stored' \in {stored, NoSession} /\ flow' = flow \ {f} /\ CanFail /\ Failed
    BY <1>2 DEF OpenFails, StartFails, RestoreFails, SessUnchanged
  <2>2. DrawerInv'
    BY <1>0, <1>t, <2>1, FailedLeft, FlowInv
  <2> QED BY <1>0, <2>1, <2>2, SameSessions DEF LoginInv
<1>3. CASE RestoreArrives(f)
  <2> DEFINE s == [id |-> f.id, status |-> server[f.id]]
             g == [f EXCEPT !.op = "restored"]
  <2>1. f.op = "restore" /\ SetSession(s) /\ SessUnchanged /\ left' = left
    BY <1>3 DEF RestoreArrives, SessUnchanged
  <2>2. f.id \in Ids /\ s \in Sessions /\ g \in Flows /\ g.op = "restored"
    <3>1. f.id \in Ids
      BY <1>0, <2>1, GoesOn DEF FlowOps, Flows
    <3>2. s \in Sessions
      BY <1>t, <3>1 DEF Sessions
    <3>3. g \in Flows /\ g.op = "restored"
      BY <1>0, <2>1, <3>1 DEF Flows, FlowOps
    <3> QED BY <3>1, <3>2, <3>3
  <2>3. CASE server[f.id] = "succeeded"
    <3>1. flow' = (flow \ {f}) \cup {g} /\ stored' = stored
      BY <1>3, <2>3 DEF RestoreArrives
    <3> HIDE DEF s, g
    <3>2. DrawerInv'
      BY <1>0, <1>t, <2>1, <2>2, <3>1, SetSessionInv
    <3> QED BY <1>0, <2>1, <3>2, SameSessions DEF LoginInv
  <2>4. CASE server[f.id] # "succeeded"
    <3>1. /\ flow' = flow \ {f}
          /\ stored' = IF server[f.id] \in Ended THEN NoSession ELSE f.id
      BY <1>3, <2>4 DEF RestoreArrives
    <3>2. s.id # NoSession /\ s.id = f.id /\ (~Active(s) => s = NoSession \/ server[f.id] \in Ended)
      BY <2>2, NoSessionAssumption DEF Active
    <3> HIDE DEF s
    <3>3. s # NoSession /\ ~Active(s) => stored' # s.id
      BY <3>1, <3>2
    <3>4. DrawerInv'
      BY <1>0, <1>t, <2>1, <2>2, <3>1, <3>3, SetSessionInv
    <3> QED BY <1>0, <2>1, <3>4, SameSessions DEF LoginInv
  <2> QED BY <2>3, <2>4
<1>4. CASE RestoredRefreshed(f)
  <2>1. /\ UNCHANGED <<session, poll, polls, silenced, left>> /\ SessUnchanged
        /\ stored' = NoSession /\ flow' = flow \ {f}
    BY <1>4 DEF RestoredRefreshed, SessUnchanged
  <2>2. DrawerInv'
    BY <1>0, <1>t, <2>1, FlowInv
  <2> QED BY <1>0, <2>1, <2>2, SameSessions DEF LoginInv
<1>5. CASE StartArrives(f)
  <2>1. PICK i \in Ids :
          /\ \/ i \in ActiveAtServer /\ UNCHANGED <<sessVars, left>>
             \/ /\ ActiveAtServer = {}
                /\ left.sessions > 0
                /\ left' = [left EXCEPT !.sessions = @ - 1]
                /\ NewSession(i)
                /\ UNCHANGED creating
          /\ SetSession([id |-> i, status |-> server'[i]])
          /\ stored' = i
    BY <1>5 DEF StartArrives
  <2>2. SessInv' /\ server'[i] \in ActiveStatus
    <3>1. CASE i \in ActiveAtServer /\ UNCHANGED <<sessVars, left>>
      BY <1>0, <3>1, SameSessions DEF SessUnchanged, ActiveAtServer, sessVars
    <3>2. CASE ActiveAtServer = {} /\ NewSession(i) /\ UNCHANGED creating
      <4>1. creating' \in Nat
        BY <1>0, <3>2 DEF SessInv, SessTyped
      <4>2. server'[i] = "pending"
        BY <1>t, <3>2 DEF NewSession
      <4> QED BY <1>0, <3>2, <4>1, <4>2, NewSessionInv DEF ActiveStatus
    <3> QED BY <2>1, <3>1, <3>2
  <2>3. left' \in [sessions : Nat, opens : Nat, fails : Nat, restarts : Nat]
    BY <1>t, <2>1
  <2>4. flow' = flow \ {f}
    BY <1>5 DEF StartArrives
  <2> DEFINE s == [id |-> i, status |-> server'[i]]
  <2>5. s \in Sessions /\ s.status \notin Ended
    BY <2>2 DEF Sessions, Statuses, ActiveStatus, Ended
  <2>6. SetSession(s)
    BY <2>1
  <2> HIDE DEF s
  <2>7. DrawerInv'
    BY <1>0, <1>t, <2>1, <2>3, <2>4, <2>5, <2>6, SetSessionInv DEF Active
  <2> QED BY <2>2, <2>7 DEF LoginInv
<1>6. CASE CancelServed(f)
  <2>1. UNCHANGED <<session, poll, polls, silenced, stored, left>> /\ f.op = "cancel"
    BY <1>6 DEF CancelServed
  <2>2. f.id \in Ids /\ [f EXCEPT !.op = "cancelled"] \in Flows
    BY <1>0, <2>1, GoesOn DEF FlowOps, Flows
  <2>3. flow' \subseteq Flows /\ flow \ {f} \subseteq flow'
    BY <1>6, <1>t, <2>2 DEF CancelServed
  <2>4. DrawerInv'
    BY <1>0, <1>t, <2>1, <2>3, FlowInv
  <2>5. SessInv'
    <3>1. SessUnchanged \/ CancelSession(f.id)
      BY <1>6 DEF CancelServed, SessUnchanged
    <3> QED BY <1>0, <2>2, <3>1, SameSessions, EndInv
  <2> QED BY <2>4, <2>5 DEF LoginInv
<1>7. CASE CancelArrives(f)
  <2> DEFINE s == [id |-> f.id, status |-> "cancelled"]
  <2>1. /\ SetSession(s) /\ SessUnchanged /\ f.op = "cancelled" /\ left' = left
        /\ stored' = NoSession /\ flow' = flow \ {f}
    BY <1>7 DEF CancelArrives, SessUnchanged
  <2>2. s \in Sessions /\ s.id # NoSession
    <3>1. f.id \in Ids
      BY <1>0, <2>1 DEF Flows
    <3> QED BY <3>1, NoSessionAssumption DEF Sessions, Statuses, Ended
  <2> HIDE DEF s
  <2>3. DrawerInv'
    BY <1>0, <1>t, <2>1, <2>2, SetSessionInv
  <2> QED BY <1>0, <2>1, <2>3, SameSessions DEF LoginInv
<1> QED BY <1>1, <1>2, <1>3, <1>4, <1>5, <1>6, <1>7 DEF FlowStep
\* The polling effect: its timer, and the answers of the effects before it.
LEMMA PollInv ==
  ASSUME LoginInv, PollTimer \/ PollStep \/ RetryTimer
  PROVE  LoginInv'
<1>0. SessInv /\ DrawerInv /\ DrawerTyped /\ PollIsOfSession /\ EffectPolls /\ StoredUntilRestored
  BY DEF LoginInv, DrawerInv
<1>t. /\ server \in [Ids -> Statuses] /\ polls \subseteq Polls /\ flow \subseteq Flows
      /\ left \in [sessions : Nat, opens : Nat, fails : Nat, restarts : Nat]
      /\ stored \in Ids \cup {NoSession} /\ session \in Sessions \cup {NoSession}
  BY <1>0 DEF SessInv, SessTyped, DrawerTyped
<1>s. SessInv'
  BY <1>0, SameSessions DEF SessUnchanged, PollTimer, PollStep, PollServed, PollArrives, PollFails,
     RetryTimer
<1>1. CASE PollTimer
  <2> DEFINE p == [id |-> session.id, status |-> "unread", disposed |-> FALSE]
  <2>1. /\ poll' = "off" /\ polls' = polls \cup {p}
        /\ UNCHANGED <<session, stored, flow, left, silenced>>
        /\ session # NoSession
    BY <1>0, <1>1 DEF PollTimer, PollIsOfSession
  <2>2. p \in Polls /\ p.id = session.id /\ ~p.disposed
    BY <1>t, <2>1 DEF Polls, Sessions
  <2> HIDE DEF p
  <2>3. DrawerTyped' /\ PollIsOfSession'
    BY <1>0, <2>1, <2>2 DEF DrawerTyped, PollIsOfSession
  <2>4. EffectPolls' /\ StoredUntilRestored'
    BY <1>0, <2>1, <2>2 DEF EffectPolls, StoredUntilRestored, Active
  <2> QED BY <1>s, <2>3, <2>4 DEF LoginInv, DrawerInv
<1>2. ASSUME NEW p \in polls, PollServed(p) PROVE LoginInv'
  <2> DEFINE q == [p EXCEPT !.status = server[p.id]]
  <2>1. polls' = (polls \ {p}) \cup {q}
          /\ UNCHANGED <<session, stored, flow, left, silenced, poll>>
    BY <1>2 DEF PollServed
  <2>2. q \in Polls /\ q.id = p.id /\ q.disposed = p.disposed
    BY <1>t DEF Polls
  <2> HIDE DEF q
  <2>3. DrawerTyped' /\ PollIsOfSession'
    BY <1>0, <2>1, <2>2 DEF DrawerTyped, PollIsOfSession
  <2>4. EffectPolls' /\ StoredUntilRestored'
    BY <1>0, <2>1, <2>2 DEF EffectPolls, StoredUntilRestored, Active
  <2> QED BY <1>s, <2>3, <2>4 DEF LoginInv, DrawerInv
<1>3. ASSUME NEW p \in polls, PollArrives(p) PROVE LoginInv'
  <2> DEFINE s == [id |-> p.id, status |-> p.status]
  <2>1. /\ session' = s /\ p.status # "unread"
        /\ poll' = (IF p.status \in Ended THEN "off" ELSE "timer")
        /\ polls' = {[q EXCEPT !.disposed = TRUE] : q \in polls \ {p}}
        /\ stored' = (IF p.status \in Ended THEN NoSession ELSE p.id)
        /\ silenced' = FALSE /\ UNCHANGED <<flow, left>>
    BY <1>3 DEF PollArrives
  <2>2. s \in Sessions /\ s.id \in Ids /\ s.id = p.id /\ s.status = p.status
    BY <1>t, <2>1 DEF Polls, Sessions
  <2>3. polls' \subseteq Polls /\ \A q \in polls' : q.disposed
    <3>1. \A q \in polls : /\ [q EXCEPT !.disposed = TRUE] \in Polls
                            /\ [q EXCEPT !.disposed = TRUE].disposed
      BY <1>t DEF Polls
    <3> QED BY <2>1, <3>1
  <2> HIDE DEF s
  <2>4. DrawerTyped'
    BY <1>0, <1>t, <2>1, <2>2, <2>3 DEF DrawerTyped
  <2>5. StoredUntilRestored' /\ EffectPolls'
    BY <2>1, <2>2, NoSessionAssumption DEF StoredUntilRestored, EffectPolls, Active
  <2>6. PollIsOfSession'
    <3>1. s # NoSession
      BY <2>2, NoSessionAssumption DEF Sessions, Statuses
    <3> QED BY <2>1, <2>3, <3>1 DEF PollIsOfSession
  <2> QED BY <1>s, <2>4, <2>5, <2>6 DEF LoginInv, DrawerInv
<1>4. ASSUME NEW p \in polls, PollFails(p) PROVE LoginInv'
  <2>1. /\ polls' = polls \ {p} /\ poll' = (IF p.disposed THEN "off" ELSE "retry")
        /\ silenced' = (silenced \/ (p.disposed /\ poll # "off"))
        /\ UNCHANGED <<session, stored, flow>> /\ CanFail /\ Failed
    BY <1>4 DEF PollFails
  <2>2. p.disposed \in BOOLEAN
    BY <1>t DEF Polls
  <2>3. DrawerTyped'
    BY <1>0, <1>t, <2>1, <2>2, FailedLeft DEF DrawerTyped
  <2>4. PollIsOfSession'
    BY <1>0, <2>1, <2>2 DEF PollIsOfSession
  <2>5. EffectPolls' /\ StoredUntilRestored'
    BY <1>0, <2>1, <2>2 DEF EffectPolls, StoredUntilRestored, Active
  <2> QED BY <1>s, <2>3, <2>4, <2>5 DEF LoginInv, DrawerInv
<1>5. CASE RetryTimer
  <2>1. SetSession(session) /\ UNCHANGED <<stored, flow, left>>
    BY <1>5 DEF RetryTimer
  <2>2. DrawerInv'
    BY <1>0, <1>t, <2>1, SetSessionInv DEF StoredUntilRestored
  <2> QED BY <1>s, <2>2 DEF LoginInv
<1> QED BY <1>1, <1>2, <1>3, <1>4, <1>5 DEF PollStep

(* Every step of the drawer, the server or the provider keeps both. *)
LEMMA LoginInvStep == LoginInv /\ [LoginNext]_loginVars => LoginInv'
<1> SUFFICES ASSUME LoginInv, [LoginNext]_loginVars PROVE LoginInv'
  OBVIOUS
<1>0. SessInv /\ DrawerInv /\ DrawerTyped
  BY DEF LoginInv, DrawerInv
<1>1. ASSUME UNCHANGED <<session, stored, poll, polls, flow, silenced>>,
             left' \in [sessions : Nat, opens : Nat, fails : Nat, restarts : Nat]
      PROVE  DrawerInv'
  BY <1>0, <1>1, FlowInv DEF DrawerTyped
<1>2. left \in [sessions : Nat, opens : Nat, fails : Nat, restarts : Nat]
  BY <1>0 DEF DrawerTyped
<1>3. ASSUME NEW i \in Ids, Progress(i) PROVE LoginInv'
  <2>1. SessInv'
    BY <1>0, <1>3, PollerInv, EndInv DEF Progress
  <2> QED BY <1>1, <1>2, <1>3, <2>1 DEF Progress, drawerVars, LoginInv
<1>4. CASE ServerRestarts
  <2>1. SessInv'
    <3>1. Restart
      BY <1>4 DEF ServerRestarts
    <3> QED BY <1>0, <3>1, RestartInv
  <2>2. left' \in [sessions : Nat, opens : Nat, fails : Nat, restarts : Nat]
    BY <1>2, <1>4 DEF ServerRestarts
  <2> QED BY <1>1, <1>4, <2>1, <2>2 DEF ServerRestarts, LoginInv
<1>5. ASSUME NEW r \in refreshes, LoginRefreshed(r) PROVE LoginInv'
  <2>1. SessInv'
    BY <1>0, <1>5, SameSessions, Zenon DEF LoginRefreshed, SessUnchanged
  <2> QED BY <1>1, <1>2, <1>5, <2>1 DEF LoginRefreshed, LoginInv
<1>6. CASE UNCHANGED loginVars
  <2>1. SessInv'
    <3>1. SessUnchanged
      BY <1>6, Zenon DEF loginVars, SessUnchanged
    <3> QED BY <1>0, <3>1, SameSessions
  <2> QED BY <1>1, <1>2, <1>6, <2>1 DEF loginVars, drawerVars, LoginInv
<1> QED BY <1>3, <1>4, <1>5, <1>6, GestureInv, AnswerInv, PollInv DEF LoginNext

\* What holds of the sessions and of the drawer at every moment.
THEOREM LoginInvHolds == LoginSpec => []LoginInv
BY LoginInvInit, LoginInvStep, PTL DEF LoginSpec

\* The drawer polls the active login it shows and forgets one that has ended,
\* whichever answers of effects that were disposed come late
\* (AddAccountDrawer.tsx), for any number of visits, failures and restarts.
THEOREM LoginIsFollowedHolds == LoginSpec => []LoginIsFollowed
<1>1. LoginInv => LoginIsFollowed
  BY DEF LoginInv, DrawerInv, EffectPolls, StoredUntilRestored, LoginIsFollowed,
     EndedIsForgotten, ActiveIsPolled, Quiet
<1> QED BY <1>1, LoginInvHolds, PTL

\* The sessions that a drawer starts, takes over and cancels are served.
THEOREM DrawerSessionsAreServed == LoginSpec => []SessionsAreServed
<1>1. LoginInv => SessionsAreServed
  BY AtMostOne DEF LoginInv
<1> QED BY <1>1, LoginInvHolds, PTL

=============================================================================
