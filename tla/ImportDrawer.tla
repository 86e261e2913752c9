---------------------------- MODULE ImportDrawer ----------------------------
(***************************************************************************)
(* The steps of the "add account" drawer (AddAccountDrawer.tsx) that lead to *)
(* a new account without a login: the choice of source and pool, the direct  *)
(* connection, and the import of auth JSON files with its pre-check.  A job  *)
(* is a handler in flight and keeps the values of the render it began in.    *)
(* One flag (loading) disables the buttons for all of them.                  *)
(***************************************************************************)
EXTENDS Naturals, FiniteSets

CONSTANTS NoFiles,    \* no file chosen, no pre-check shown
          FileSets,   \* selections of files the user may make
          BadFiles,   \* those whose first file is no auth JSON
          MaxPools,   \* bound: pools
          Limits      \* bounds: pairs of openings of the drawer (visits), and of
                      \* choices of a pool or of files, and jobs (picks)

ASSUME MaxPoolsAssumption == MaxPools \in Nat

VARIABLES wiz,        \* open, step, kind of source, failed (poolLoadFailed), and
                      \* pref: the pool whose page opened the drawer, or NoPool
          pools,      \* the drawer's list: id and label of each pool
          atServer,   \* the server's list of pools
          sel,        \* selectedPoolId: NoPool, NewPool or a pool's id
          label,      \* newPoolLabel: "none", "rec" (the recommended one) or "own"
          files, fileError, precheck, stage, \* authJSON files, error, preview, stage
          parsing,    \* selections whose first file is being read
          busy,       \* loading
          jobs,       \* jobs in flight
          imports,    \* imports sent: the files and the pre-check shown then
          tally       \* visits and picks, and their limit; pools created since the
                      \* last choice of one; whether a selection overtook a
                      \* pre-check, and whether a recommendation replaced a
                      \* created pool or a job began beside another

NoPool  == 0
NewPool == MaxPools + 1   \* NEW_POOL_VALUE, distinct from every id

wizVars == <<wiz, pools, atServer, sel, label, files, fileError, precheck, stage,
                parsing, busy, jobs, imports, tally>>

WizInit ==
  /\ wiz = [open |-> FALSE, step |-> 1, kind |-> "none", failed |-> FALSE, pref |-> NoPool]
  /\ pools = {}
  /\ atServer \in {{[id |-> 1, label |-> "rec"]}, {[id |-> 1, label |-> "other"]}}
  /\ sel = NoPool /\ label = "none"
  /\ files = NoFiles /\ fileError = FALSE /\ precheck = NoFiles /\ stage = "none"
  /\ parsing = {}
  /\ busy = FALSE
  /\ jobs = {}
  /\ imports = {}
  /\ \E l \in Limits :
       tally = [limit |-> l, visits |-> 0, picks |-> 0, made |-> 0, overtaken |-> FALSE,
                renewed |-> FALSE, doubled |-> FALSE]

Pick == /\ tally.picks < tally.limit.picks
        /\ tally' = [tally EXCEPT !.picks = @ + 1]

\* The effect on the list of pools and the provider (wiz.kind stands for the
\* provider too): the pool the drawer was opened for, else the one with the
\* recommended label, else a new one with that label.
Recommend(list, w) ==
  LET named == {p \in list : p.label = "rec"}
  IN /\ sel' = CASE w.kind = "none"                 -> sel
               [] w.kind # "none" /\ w.failed       -> NoPool
               [] OTHER -> IF w.pref # NoPool THEN w.pref
                           ELSE IF named # {} THEN (CHOOSE p \in named : TRUE).id ELSE NewPool
     /\ label' = CASE w.kind = "none"               -> label
                 [] w.kind # "none" /\ w.failed     -> "none"
                 [] OTHER -> IF w.pref # NoPool THEN label ELSE "rec"

\* The effect has put something else in the place of a pool just created.
Renewed(id) == [tally EXCEPT !.renewed = @ \/ sel' # id]

KeepFiles == UNCHANGED <<files, fileError, precheck, stage, parsing>>

-----------------------------------------------------------------------------
(* Opening, closing, loading the pools *)

AddJob(j) == jobs' = jobs \cup {j}
Job(op, st) == [op |-> op, st |-> st, n |-> tally.picks, visit |-> tally.visits,
                sel |-> sel, label |-> label, files |-> files, pool |-> 0]

OpenWizard(pref) ==
  /\ ~wiz.open
  /\ tally.visits < tally.limit.visits
  /\ tally' = [tally EXCEPT !.visits = @ + 1, !.made = 0]
  /\ wiz' = [wiz EXCEPT !.open = TRUE, !.failed = FALSE, !.pref = pref]
  /\ sel' = IF pref = NoPool THEN sel ELSE pref
  /\ busy' = TRUE
  /\ AddJob(Job("pools", "sent"))
  /\ UNCHANGED <<pools, atServer, label, imports>> /\ KeepFiles

\* The reset on closing; the batch stage and the loading flag are not reset.
CloseWizard ==
  /\ wiz.open
  /\ wiz' = [wiz EXCEPT !.open = FALSE, !.step = 1, !.kind = "none", !.failed = FALSE]
  /\ sel' = NoPool /\ label' = "none"
  /\ files' = NoFiles /\ fileError' = FALSE /\ precheck' = NoFiles
  /\ UNCHANGED <<pools, atServer, stage, parsing, busy, jobs, imports, tally>>

\* The list of pools arrives (on opening or by "retry"), or fails to.
PoolsArrive(j) ==
  /\ j \in jobs
  /\ j.op = "pools"
  /\ jobs' = jobs \ {j}
  /\ busy' = FALSE
  /\ \E ok \in BOOLEAN :
       /\ pools' = IF ok THEN atServer ELSE {}
       /\ wiz' = [wiz EXCEPT !.failed = ~ok]
  /\ Recommend(pools', wiz')
  /\ tally' = IF tally.made > 0 THEN Renewed(sel) ELSE tally
  /\ UNCHANGED <<atServer, imports>> /\ KeepFiles

RetryPools ==
  /\ wiz.open /\ wiz.step = 2 /\ wiz.failed
  /\ Pick
  /\ busy' = TRUE
  /\ AddJob(Job("pools", "sent"))
  /\ UNCHANGED <<wiz, pools, atServer, sel, label, imports>> /\ KeepFiles

-----------------------------------------------------------------------------
(* Steps 1 and 2 *)

\* chooseSourceKind, and the provider that goes with it.
chooseSourceKind(k) ==
  /\ wiz.open /\ wiz.step = 1
  /\ wiz.kind # k
  /\ wiz' = [wiz EXCEPT !.kind = k]
  /\ Recommend(pools, wiz')
  /\ tally' = [tally EXCEPT !.made = 0]
  /\ UNCHANGED <<pools, atServer, busy, jobs, imports>> /\ KeepFiles

CanContinue ==
  \/ wiz.step = 1 /\ wiz.kind # "none"
  \/ wiz.step = 2 /\ ~wiz.failed /\ (sel \notin {NoPool, NewPool} \/ label # "none")

NextStep ==
  /\ wiz.open /\ CanContinue
  /\ wiz' = [wiz EXCEPT !.step = @ + 1]
  /\ UNCHANGED <<pools, atServer, sel, label, busy, jobs, imports, tally>> /\ KeepFiles

PrevStep ==
  /\ wiz.open /\ wiz.step \in {2, 3}
  /\ wiz' = [wiz EXCEPT !.step = @ - 1]
  /\ UNCHANGED <<pools, atServer, sel, label, busy, jobs, imports, tally>> /\ KeepFiles

\* A pool of the list, or a new one under the recommended or an own label.
ChoosePool(s, l) ==
  /\ wiz.open /\ wiz.step = 2 /\ ~wiz.failed
  /\ <<s, l>> # <<sel, label>>
  /\ tally.picks < tally.limit.picks
  /\ sel' = s /\ label' = l
  /\ tally' = [tally EXCEPT !.picks = @ + 1, !.made = 0]
  /\ UNCHANGED <<wiz, pools, atServer, busy, jobs, imports>> /\ KeepFiles

-----------------------------------------------------------------------------
(* Step 3 *)

\* Faulty variant: the pre-check of the former selection stays.
chooseAuthJSONFiles_KeepsPreview(f) ==
  /\ wiz.open /\ wiz.step = 3 /\ wiz.kind = "cpa"
  /\ tally.picks < tally.limit.picks
  /\ files' = f
  /\ fileError' = FALSE
  /\ parsing' = parsing \cup {f}
  /\ tally' = [tally EXCEPT !.picks = @ + 1,
                 !.overtaken = @ \/ \E j \in jobs : j.op = "preview"]
  /\ UNCHANGED <<wiz, pools, atServer, sel, label, precheck, stage, busy, jobs, imports>>

\* chooseAuthJSONFiles: everything about the former selection is dropped.
chooseAuthJSONFiles(f) ==
  /\ wiz.open /\ wiz.step = 3 /\ wiz.kind = "cpa"
  /\ tally.picks < tally.limit.picks
  /\ files' = f
  /\ fileError' = FALSE /\ precheck' = NoFiles /\ stage' = "none"
  /\ parsing' = parsing \cup {f}
  /\ tally' = [tally EXCEPT !.picks = @ + 1,
                 !.overtaken = @ \/ \E j \in jobs : j.op = "preview"]
  /\ UNCHANGED <<wiz, pools, atServer, sel, label, busy, jobs, imports>>

\* The first file is read; its error is shown whatever is selected by then.
FileParsed(f) ==
  /\ f \in parsing
  /\ parsing' = parsing \ {f}
  /\ fileError' = (fileError \/ f \in BadFiles)
  /\ UNCHANGED <<wiz, pools, atServer, sel, label, files, precheck, stage, busy, jobs, imports, tally>>

CanSubmit(kind) == wiz.open /\ wiz.step = 3 /\ wiz.kind = kind /\ ~busy
CanImport == CanSubmit("cpa") /\ files # NoFiles /\ ~fileError

\* ensurePool at the head of a job: a chosen pool is used, a new one created.
EnsurePool(op) ==
  /\ tally.picks < tally.limit.picks
  /\ tally' = [tally EXCEPT !.picks = @ + 1, !.doubled = @ \/ \E j \in jobs : j.op # "pools"]
  /\ busy' = TRUE
  /\ AddJob(IF sel \in {NoPool, NewPool} THEN Job(op, "pool")
            ELSE [Job(op, "post") EXCEPT !.pool = sel])

submitDirect ==
  /\ CanSubmit("direct")
  /\ EnsurePool("direct")
  /\ UNCHANGED <<wiz, pools, atServer, sel, label, imports>> /\ KeepFiles

\* requireExistingPoolForPreview: no pre-check for a pool yet to be created.
previewAuthJSONImport ==
  /\ CanImport /\ stage # "preview"
  /\ sel \notin {NoPool, NewPool}
  /\ Pick
  /\ busy' = TRUE
  /\ AddJob([Job("preview", "post") EXCEPT !.pool = sel])
  /\ UNCHANGED <<wiz, pools, atServer, sel, label, imports>> /\ KeepFiles

confirmAuthJSONImport ==
  /\ CanImport /\ stage = "preview" /\ precheck # NoFiles
  /\ EnsurePool("confirm")
  /\ imports' = imports \cup {[files |-> files, seen |-> precheck]}
  /\ UNCHANGED <<wiz, pools, atServer, sel, label>> /\ KeepFiles

\* POST /pools: the list and the selection follow it, then the effect on the
\* list recommends again.
PoolCreated(j) ==
  /\ j \in jobs
  /\ j.st = "pool" /\ j.label # "none"
  /\ LET id == Cardinality(atServer) + 1
         made == [id |-> id, label |-> j.label]
     IN /\ id <= MaxPools
        /\ atServer' = atServer \cup {made}
        /\ pools' = pools \cup {made}
        /\ IF wiz.kind = "none" THEN sel' = id /\ UNCHANGED label
           ELSE Recommend(pools', wiz)
        /\ jobs' = (jobs \ {j}) \cup {[j EXCEPT !.st = "post", !.pool = id]}
        /\ tally' = IF j.visit = tally.visits THEN [Renewed(id) EXCEPT !.made = @ + 1] ELSE tally
  /\ UNCHANGED <<wiz, busy, imports>> /\ KeepFiles

\* POST /accounts and the refresh of the account: the last step.
AccountCreated(j) ==
  /\ j \in jobs
  /\ j.st = "post" /\ j.op \in {"direct", "confirm"}
  /\ jobs' = jobs \ {j}
  /\ busy' = FALSE
  /\ wiz' = [wiz EXCEPT !.step = 4]
  /\ IF j.op = "confirm"
     THEN /\ files' = NoFiles /\ fileError' = FALSE
          /\ precheck' = j.files /\ stage' = "imported" /\ UNCHANGED parsing
     ELSE KeepFiles
  /\ UNCHANGED <<pools, atServer, sel, label, imports, tally>>

PreviewArrives(j) ==
  /\ j \in jobs
  /\ j.st = "post" /\ j.op = "preview"
  /\ jobs' = jobs \ {j}
  /\ busy' = FALSE
  /\ precheck' = j.files /\ stage' = "preview"
  /\ UNCHANGED <<wiz, pools, atServer, sel, label, files, fileError, parsing, imports, tally>>

\* Any of a job's requests fails: a toast, and the buttons are enabled again.
JobFails(j) ==
  /\ j \in jobs
  /\ j.op # "pools"
  /\ jobs' = jobs \ {j}
  /\ busy' = FALSE
  /\ UNCHANGED <<wiz, pools, atServer, sel, label, imports, tally>> /\ KeepFiles

\* "Add another".
NextAccount ==
  /\ wiz.open /\ wiz.step = 4
  /\ wiz' = [wiz EXCEPT !.step = 1, !.kind = "none"]
  /\ sel' = NoPool /\ label' = "none"
  /\ files' = NoFiles /\ fileError' = FALSE /\ precheck' = NoFiles /\ stage' = "none"
  /\ tally' = [tally EXCEPT !.made = 0]
  /\ UNCHANGED <<pools, atServer, parsing, busy, jobs, imports>>

WizNext ==
  \/ \E pref \in {NoPool} \cup {p.id : p \in atServer} : OpenWizard(pref)
  \/ CloseWizard \/ RetryPools \/ NextStep \/ PrevStep \/ NextAccount
  \/ \E k \in {"cpa", "direct"} : chooseSourceKind(k)
  \/ \E p \in pools : ChoosePool(p.id, label)
  \/ \E l \in {"rec", "own"} : ChoosePool(NewPool, l)
  \/ \E f \in FileSets : chooseAuthJSONFiles(f) \/ FileParsed(f)
  \/ submitDirect \/ previewAuthJSONImport \/ confirmAuthJSONImport
  \/ \E j \in jobs : PoolsArrive(j) \/ PoolCreated(j) \/ AccountCreated(j)
                     \/ PreviewArrives(j) \/ JobFails(j)

WizSpec == WizInit /\ [][WizNext]_wizVars

-----------------------------------------------------------------------------
(* Properties *)

\* What is imported is what the pre-check was shown for, unless the selection
\* changed while a pre-check ran: its answer is then taken for the new files.
ImportWasPrechecked ==
  ~tally.overtaken => \A i \in imports : i.files = i.seen

\* The flag that disables the buttons is cleared: something is in flight while
\* it is set, so no failure leaves the drawer dead.
DrawerNotStuck == busy => jobs # {}

\* One choice of "new pool" leads to one pool: when the account's creation
\* fails after the pool's, the retry uses the pool that is there, unless the
\* effect on the list of pools has put its recommendation in that pool's place,
\* or another answer cleared the flag that keeps a second job from starting.
RetryUsesPool == ~tally.renewed /\ ~tally.doubled => tally.made <= 1

\* A sequence of choices, failures and retries in the drawer imports only what was
\* pre-checked, makes one pool, and leaves the drawer usable.
DrawerIsSound ==
  /\ ImportWasPrechecked
  /\ DrawerNotStuck
  /\ RetryUsesPool

=============================================================================
