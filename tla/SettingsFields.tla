--------------------------- MODULE SettingsFields ---------------------------
(***************************************************************************)
(* The numeric settings of the Settings page (SettingsPage.tsx): the load of *)
(* the page, the rows in which a value is typed and committed, the saves in  *)
(* flight, the retention card with its preview and prune, and the import of  *)
(* a configuration, which changes the settings at the server and reloads.    *)
(* "max" and "mem" are the two body limits, which depend on each other;      *)
(* "days" is the retention, shown from the settings and not from the form.   *)
(* The other numeric rows behave like "max" without the clamp.               *)
(***************************************************************************)
EXTENDS Naturals, FiniteSets

CONSTANTS NoSettings,  \* settings before the first load
          MaxValue,    \* bound: values of a setting
          MaxSaves,    \* bound: commits
          MaxLoads,    \* bound: loads of the page
          MaxPrunes    \* bound: previews, prunes and imports

Fields == {"max", "mem", "days"}
FormFields == {"max", "mem"}

ASSUME MaxValueAssumption == MaxValue \in Nat \ {0}
ASSUME NoSettingsAssumption == NoSettings \notin [Fields -> Nat]

Least(f) == IF f = "days" THEN 0 ELSE 1

VARIABLES stored,      \* the server's settings
          settings,    \* the page's settings (settingsRef follows them)
          form,        \* gatewayForm: the two limits as shown
          rows,        \* what each row shows when it is not being edited: the value
                       \* it committed last (committedRef)
          board,       \* loading, error, savingField of the page
          saveSeq,     \* newest save of each field
          saves,       \* saves in flight
          reloads,     \* loads in flight
          newest,      \* outcome of the newest save of each field (ghost)
          excused,     \* fields whose shown value may differ (ghost)
          prune,       \* preview and prune of the retention card
          imp,         \* state of the import card
          spent        \* loads, saves and prunes so far

settingsVars == <<stored, settings, form, rows, board, saveSeq, saves, reloads, newest,
                  excused, prune, imp, spent>>

Lower(a, b) == IF a <= b THEN a ELSE b
Mounted(b) == ~b.loading /\ ~b.error
Shown(s, fm, f) == IF f \in FormFields THEN fm[f] ELSE IF s = NoSettings THEN 0 ELSE s.days

\* What a row shows after a render: a new row takes the value, a mounted one
\* only when the value has changed and is not the one it committed itself.
Rendered(base) ==
  [f \in Fields |->
     LET old == Shown(settings, form, f)
         new == Shown(settings', form', f)
     IN IF ~Mounted(board') THEN base[f]
        ELSE IF ~Mounted(board) \/ new # old THEN new ELSE base[f]]

Defaults == [max |-> MaxValue, mem |-> 1]

\* A load: what it carries, the fields touched since it was asked for, and those
\* whose value the server's answer cuts.
Loading(n, s) == [n |-> n, st |-> "sent", snap |-> s, touched |-> {}, cut |-> {}]

\* What the server answers: the threshold is cut to the maximum.
getSettings(s) == [s EXCEPT !.mem = Lower(s.mem, s.max)]

FieldsInit ==
  /\ stored \in [Fields -> 1..MaxValue]
  /\ settings = NoSettings
  /\ form = Defaults
  /\ rows = [f \in Fields |-> 0]
  /\ board = [loading |-> TRUE, error |-> FALSE, saving |-> "none"]
  /\ saveSeq = [f \in Fields |-> 0]
  /\ saves = {}
  /\ reloads = {Loading(1, stored)}
  /\ newest = [f \in Fields |-> [st |-> "none", value |-> 0]]
  /\ excused = {}
  /\ prune = [asked |-> FALSE, served |-> FALSE, open |-> FALSE, days |-> 0, busy |-> FALSE, told |-> {}]
  /\ imp = "idle"
  /\ spent = [loads |-> 1, saves |-> 0, prunes |-> 0]

SavesOf(f) == {s \in saves : s.f = f}

Retention == Shown(settings, form, "days")

\* The effect of the retention card: a preview closes when the retention shown
\* is zero.
WithoutRetention(p, days) == IF days = 0 THEN [p EXCEPT !.open = FALSE, !.days = 0] ELSE p

FollowRetention == prune' = WithoutRetention(prune, Shown(settings', form', "days"))

-----------------------------------------------------------------------------
(* Loading *)

\* load(silent): a new request for everything.  A save under way, or begun
\* before the answer, may be older or newer than what the answer carries.
StartReload(others) ==
  /\ spent.loads < MaxLoads
  /\ spent' = [spent EXCEPT !.loads = @ + 1]
  /\ reloads' = others \cup {[Loading(spent.loads + 1, stored) EXCEPT !.touched = {s.f : s \in saves}]}

ReloadServed(l) ==
  /\ l \in reloads
  /\ l.st = "sent"
  /\ reloads' = (reloads \ {l}) \cup
       {[l EXCEPT !.st = "served", !.snap = getSettings(stored),
                  !.cut = IF stored.mem > stored.max THEN {"mem"} ELSE {}]}
  /\ UNCHANGED <<stored, settings, form, rows, board, saveSeq, saves, newest, excused, prune, imp, spent>>

ReloadArrives(l) ==
  /\ l \in reloads
  /\ l.st = "served"
  /\ reloads' = reloads \ {l}
  /\ settings' = l.snap
  /\ form' = [f \in FormFields |-> l.snap[f]]
  /\ board' = [board EXCEPT !.loading = FALSE]
  /\ rows' = Rendered(rows)
  /\ excused' = IF reloads' # {} THEN Fields
                ELSE {f \in excused : f \in l.touched \/ rows'[f] # l.snap[f]} \cup l.cut
  /\ newest' = [f \in Fields |-> [st |-> "none", value |-> 0]]
  /\ imp' = IF imp = "reloading" THEN "idle" ELSE imp
  /\ FollowRetention
  /\ UNCHANGED <<stored, saveSeq, saves, spent>>

\* Any of the requests fails: the page is replaced by the error, and the cards
\* lose their state; an import or a prune in flight goes on.
ReloadFails(l) ==
  /\ l \in reloads
  /\ reloads' = reloads \ {l}
  /\ board' = [board EXCEPT !.loading = FALSE, !.error = TRUE]
  /\ imp' = IF imp = "importing" THEN imp ELSE "idle"
  /\ prune' = [prune EXCEPT !.asked = FALSE, !.open = FALSE, !.days = 0]
  /\ UNCHANGED <<stored, settings, form, rows, saveSeq, saves, newest, excused, spent>>

\* The error's retry passes the click event for "silent": the page comes back
\* at once, with what it had, which may be the defaults.
RetryLoad ==
  /\ board.error
  /\ StartReload(reloads)
  /\ board' = [board EXCEPT !.error = FALSE]
  /\ UNCHANGED <<settings, form>>
  /\ rows' = Rendered(rows)
  /\ UNCHANGED <<stored, saveSeq, saves, newest, excused, prune, imp>>

-----------------------------------------------------------------------------
(* Rows and saves *)

\* saveSetting, up to its request; prev is the value to roll back to.
Save(f, v) ==
  LET seq == saveSeq[f] + 1
  IN /\ saveSeq' = [saveSeq EXCEPT ![f] = seq]
     /\ saves' = saves \cup {[f |-> f, seq |-> seq, value |-> v, st |-> "sent", known |-> settings # NoSettings,
                              prev |-> IF settings = NoSettings THEN 0 ELSE settings[f]]}
     /\ board' = [board EXCEPT !.saving = f]
     /\ newest' = [newest EXCEPT ![f] = [st |-> "sent", value |-> v]]
     /\ reloads' = {[l EXCEPT !.touched = @ \cup {f}] : l \in reloads}

\* A value typed below the floor only resets the row; one that is not the
\* committed one is shown at once and saved.  The limits: a lower maximum lowers the shown
\* threshold (without saving it), and a threshold is cut to the maximum.
CommitRow(f, typed) ==
  LET v     == IF f = "mem" THEN Lower(typed, form.max) ELSE typed
      cut   == f = "max" /\ form.mem > v
  IN /\ Mounted(board)
     /\ typed # rows[f] /\ typed >= Least(f)
     /\ spent.saves < MaxSaves
     /\ spent' = [spent EXCEPT !.saves = @ + 1]
     /\ Save(f, v)
     /\ form' = CASE f = "max" -> [max |-> v, mem |-> Lower(form.mem, v)]
                  [] f = "mem" -> [form EXCEPT !.mem = v]
                  [] OTHER     -> form
     /\ settings' = IF f = "days" /\ settings # NoSettings
                    THEN [settings EXCEPT !.days = v] ELSE settings
     /\ rows' = Rendered([rows EXCEPT ![f] = typed])
     /\ excused' = excused \cup (IF SavesOf(f) # {} \/ settings = NoSettings \/ v # typed THEN {f} ELSE {})
                           \cup (IF reloads # {} \/ imp # "idle" THEN {f} ELSE {})
                           \cup (IF cut THEN {"mem"} ELSE {})
     /\ FollowRetention
     /\ UNCHANGED <<stored, imp>>

\* The server writes the value and answers, refuses, or its answer is lost.
SaveServed(s) ==
  /\ s \in saves
  /\ s.st = "sent"
  /\ \E ok \in BOOLEAN, written \in BOOLEAN :
       /\ ok => written
       /\ stored' = IF written THEN [stored EXCEPT ![s.f] = s.value] ELSE stored
       /\ saves' = (saves \ {s}) \cup {[s EXCEPT !.st = IF ok THEN "ok" ELSE "failed"]}
       /\ excused' = IF written /\ ~ok THEN excused \cup {s.f} ELSE excused
       /\ newest' = IF s.seq # saveSeq[s.f] \/ newest[s.f].st # "sent" THEN newest
                    ELSE [newest EXCEPT ![s.f].st = IF ok THEN "ok" ELSE "failed"]
  /\ UNCHANGED <<settings, form, rows, board, saveSeq, reloads, prune, imp, spent>>

Newest(s) == saveSeq[s.f] = s.seq

\* Faulty variant: the number of the save is not compared.
SaveDone_NoSeq(s) ==
  /\ s \in saves
  /\ s.st = "ok"
  /\ settings' = IF settings # NoSettings THEN [settings EXCEPT ![s.f] = s.value] ELSE settings
  /\ UNCHANGED form
  /\ saves' = saves \ {s}
  /\ board' = IF Newest(s) THEN [board EXCEPT !.saving = "none"] ELSE board
  /\ rows' = Rendered(rows)
  /\ FollowRetention
  /\ UNCHANGED <<stored, saveSeq, reloads, newest, excused, imp, spent>>

\* The answer of a save: dropped when a newer save of the field has begun.
SaveDone(s) ==
  /\ s \in saves
  /\ s.st = "ok"
  /\ settings' = IF Newest(s) /\ settings # NoSettings THEN [settings EXCEPT ![s.f] = s.value] ELSE settings
  /\ UNCHANGED form
  /\ IF Newest(s) /\ s.f = "days"
     THEN /\ saves' = (saves \ {s}) \cup {[s EXCEPT !.st = "summary"]}
          /\ UNCHANGED board
     ELSE /\ saves' = saves \ {s}
          /\ board' = IF Newest(s) THEN [board EXCEPT !.saving = "none"] ELSE board
  /\ rows' = Rendered(rows)
  /\ FollowRetention
  /\ UNCHANGED <<stored, saveSeq, reloads, newest, excused, imp, spent>>

\* What the catch of saveSetting does: back to the value of the former
\* settings, and the row with it.
RollBack(s) ==
  LET back == Newest(s) /\ s.known
  IN /\ saves' = saves \ {s}
     /\ form' = IF back /\ s.f \in FormFields THEN [form EXCEPT ![s.f] = s.prev] ELSE form
     /\ settings' = IF back /\ s.f = "days" THEN [settings EXCEPT !.days = s.prev] ELSE settings
     /\ board' = IF Newest(s) THEN [board EXCEPT !.saving = "none"] ELSE board
     /\ rows' = Rendered(rows)
     /\ FollowRetention

SaveFailed(s) ==
  /\ s \in saves
  /\ s.st = "failed"
  /\ RollBack(s)
  /\ UNCHANGED <<stored, saveSeq, reloads, newest, excused, imp, spent>>

\* The retention's summary follows its save inside the same try.
SummaryArrives(s) ==
  /\ s \in saves
  /\ s.st = "summary"
  /\ saves' = saves \ {s}
  /\ board' = IF Newest(s) THEN [board EXCEPT !.saving = "none"] ELSE board
  /\ UNCHANGED <<stored, settings, form, rows, saveSeq, reloads, newest, excused, prune, imp, spent>>

SummaryFails(s) ==
  /\ s \in saves
  /\ s.st = "summary"
  /\ RollBack(s)
  /\ excused' = excused \cup {s.f}
  /\ UNCHANGED <<stored, saveSeq, reloads, newest, imp, spent>>

-----------------------------------------------------------------------------
(* Preview and prune *)

openPreview ==
  /\ Mounted(board) /\ ~prune.open /\ ~prune.asked
  /\ Retention > 0
  /\ spent.prunes < MaxPrunes
  /\ spent' = [spent EXCEPT !.prunes = @ + 1]
  /\ prune' = [prune EXCEPT !.asked = TRUE, !.served = FALSE]
  /\ UNCHANGED <<stored, settings, form, rows, board, saveSeq, saves, reloads, newest, excused, imp>>

PreviewServed ==
  /\ prune.asked /\ ~prune.served
  /\ prune' = [prune EXCEPT !.served = TRUE, !.days = stored.days]
  /\ UNCHANGED <<stored, settings, form, rows, board, saveSeq, saves, reloads, newest, excused, imp, spent>>

PreviewShown ==
  /\ Mounted(board)
  /\ prune.asked /\ prune.served
  /\ prune' = WithoutRetention([prune EXCEPT !.asked = FALSE, !.open = TRUE], Retention)
  /\ UNCHANGED <<stored, settings, form, rows, board, saveSeq, saves, reloads, newest, excused, imp, spent>>

\* Cancelled, or the request failed.
ClosePreview ==
  /\ Mounted(board)
  /\ prune.asked \/ (prune.open /\ ~prune.busy)
  /\ prune' = [prune EXCEPT !.asked = FALSE, !.open = FALSE, !.days = 0]
  /\ UNCHANGED <<stored, settings, form, rows, board, saveSeq, saves, reloads, newest, excused, imp, spent>>

\* A confirm on the screen: what it shows, whether the retention may change.
confirmPrune ==
  /\ Mounted(board) /\ prune.open /\ ~prune.busy
  /\ prune' = [prune EXCEPT !.busy = TRUE,
                 !.told = {[days |-> prune.days, used |-> prune.days, seq |-> saveSeq.days, loads |-> spent.loads,
                            sure |-> Retention = prune.days /\ SavesOf("days") = {}
                                     /\ reloads = {} /\ imp = "idle" /\ "days" \notin excused]}]
  /\ UNCHANGED <<stored, settings, form, rows, board, saveSeq, saves, reloads, newest, excused, imp, spent>>

\* The server prunes with the retention it holds by then; afterwards the
\* preview is closed (or, on a failure, stays).
PruneServed ==
  /\ prune.busy
  /\ \E ok \in BOOLEAN :
       prune' = [prune EXCEPT !.busy = FALSE, !.open = @ /\ ~ok, !.days = IF ok THEN 0 ELSE @,
                   !.told = {[t EXCEPT !.used = stored.days,
                                       !.sure = @ /\ saveSeq.days = t.seq /\ spent.loads = t.loads
                                                  /\ imp = "idle" /\ "days" \notin excused] : t \in @}]
  /\ UNCHANGED <<stored, settings, form, rows, board, saveSeq, saves, reloads, newest, excused, imp, spent>>

-----------------------------------------------------------------------------
(* Import of a configuration *)

\* A file is chosen, its preview arrives or fails, the import is cancelled.
ImportStep(from, to) ==
  /\ Mounted(board)
  /\ imp = from
  /\ imp' = to
  /\ UNCHANGED <<stored, settings, form, rows, board, saveSeq, saves, reloads, newest, excused, prune>>

PickConfig ==
  /\ ImportStep("idle", "previewing")
  /\ spent.prunes < MaxPrunes
  /\ spent' = [spent EXCEPT !.prunes = @ + 1]
ConfigPreview == ImportStep("previewing", "previewed") /\ UNCHANGED spent
ConfigDropped == (ImportStep("previewing", "idle") \/ ImportStep("previewed", "idle")) /\ UNCHANGED spent
ConfirmImport == ImportStep("previewed", "importing") /\ UNCHANGED spent

Overtaken == {[l EXCEPT !.touched = Fields] : l \in reloads}

\* The import overwrites settings at the server, and the page reloads.
ImportDone(s) ==
  /\ imp = "importing"
  /\ stored' = s
  /\ StartReload(Overtaken)
  /\ board' = [board EXCEPT !.error = FALSE]
  /\ UNCHANGED <<settings, form>>
  /\ rows' = Rendered(rows)
  /\ imp' = "reloading"
  /\ excused' = excused \cup {f \in Fields : SavesOf(f) # {}}
  /\ UNCHANGED <<saveSeq, saves, newest, prune>>

ImportFails(s) ==
  /\ imp = "importing"
  /\ imp' = "previewed"
  /\ stored' = s
  /\ excused' = IF s = stored THEN excused ELSE Fields
  /\ reloads' = Overtaken
  /\ UNCHANGED <<settings, form, rows, board, saveSeq, saves, newest, prune, spent>>

Imported == {stored, [f \in Fields |-> 1]}

FieldsNext ==
  \/ \E l \in reloads : ReloadServed(l) \/ ReloadArrives(l) \/ ReloadFails(l)
  \/ RetryLoad
  \/ \E f \in Fields : \E v \in 0..MaxValue : CommitRow(f, v)
  \/ \E s \in saves : SaveServed(s) \/ SaveDone(s) \/ SaveFailed(s) \/ SummaryArrives(s) \/ SummaryFails(s)
  \/ openPreview \/ PreviewServed \/ PreviewShown \/ ClosePreview \/ confirmPrune \/ PruneServed
  \/ PickConfig \/ ConfigPreview \/ ConfigDropped \/ ConfirmImport
  \/ \E s \in Imported : ImportDone(s) \/ ImportFails(s)

FieldsSpec == FieldsInit /\ [][FieldsNext]_settingsVars

-----------------------------------------------------------------------------
(* Properties *)

\* With nothing in flight the page shows what the server holds, unless one of
\* the following came between: two requests for the field at once, an answer
\* that was lost, a threshold cut by a maximum (by the page when a lower one is
\* committed, by the server in what it answers), a row typed above the maximum,
\* the defaults edited before a load, a retention saved without its summary.
QuietSettingsAgree ==
  Mounted(board) /\ settings # NoSettings /\ reloads = {} /\ imp = "idle" =>
    \A f \in Fields \ excused :
      SavesOf(f) = {} => Shown(settings, form, f) = stored[f] /\ rows[f] = stored[f]

\* A slow answer never undoes a newer save: once a field's saves are answered
\* and the newest was accepted, its value is the page's.
NewestSaveWins ==
  \A f \in FormFields :
    settings # NoSettings /\ SavesOf(f) = {} /\ newest[f].st = "ok" => settings[f] = newest[f].value

\* The spinner of a row turns only while a save of that row is in flight.
SpinnerHasSave == board.saving # "none" => SavesOf(board.saving) # {}

\* No preview stands beside a retention of zero, and a prune deletes what its
\* preview announced when the retention on the screen
\* was the preview's and nothing that could change it was under way.
PruneAsPreviewed ==
  /\ prune.open => Retention > 0
  /\ \A t \in prune.told : t.sure => t.used = t.days

\* However saves, loads, an import and a clean-up overlap, fail and are rolled back:
\* the page ends up with what the server holds, the newest save wins, no row spins
\* for ever, and what is pruned is what was announced.
SettingsAgree ==
  /\ QuietSettingsAgree
  /\ NewestSaveWins
  /\ SpinnerHasSave
  /\ PruneAsPreviewed

=============================================================================
