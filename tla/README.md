# Verification of Lune

Lune is a gateway in front of LLM accounts. A client sends an OpenAI-style
request with a token; the token names a pool; the router picks an account of
the pool; the gateway forwards the request and writes what it learnt about the
account to SQLite. A health checker goes round the accounts, an administrator
edits and refreshes them, and all of them write the same rows, statement by
statement, without a lock. The administrator works in a web console, a React
application whose pages load, save and poll while the user goes on clicking.
This directory holds TLA+ models of both halves, the TLC runs that check them on
small instances, and TLAPS proofs of the results that should hold for every
instance.

Paths of Go files are relative to `src/internal/`, those of TypeScript files to
`src/web/src/`; `spec/` is `src/spec/`.

## 1. Inventory

### The server

| component | state | operations | interacts with | what makes it correct |
|---|---|---|---|---|
| routing cache `store/cache.go` | `snapshot`, `version`, atomic `dbVer`, mutex | `Get`, `Invalidate`, the load in eight queries | every writer invalidates after its commit; router, gateway and checker read | an announced commit is never missing from a later `Get`; a slow load never replaces a newer one |
| routability `store/routability.go`, `store/pools.go:10` | none: a decision on a row | the decision in Go, the same condition in SQL | router, overview counts, console | the two agree |
| router `router/router.go` | none: reads the snapshot | resolve in pool, resolve to a forced account, next account, candidate trace | cache, gateway | better accounts first, none lost, errors name the cause |
| gateway `gateway/*.go` | one request: attempt, exclude list, chosen account (a copy of its row) | parse, resolve, bind runtime, forward, record, retry, answer, log | router, checker (`ResolveRuntimeBinding`), account rows | no account twice, forced requests stay, diagnostics and probes write only what they may, always an answer |
| account rows `store/accounts.go`, `store/diagnostics.go` | `accounts`, `account_diagnostics` | about fifteen UPDATEs, one transaction for diagnostics | everything | scheduler status fits stable status, evidence is kept or cleared as documented |
| health checker `health/checker.go` | per round and per refresh: copies of rows read earlier | round (discovery, auth file sync, quota, subscription), `RefreshAccount` | account rows, CPA management API, auth files, cache | does not overwrite what others found meanwhile; repairs what nobody else does |
| login sessions `cpa/session.go`, `admin/handler.go:2116` | session map and its file, a goroutine per session | create, poll the provider, cancel, expire, complete, resume after restart | device code service, import, the console's drawer | one login at a time, each with someone who ends it |
| notification outbox `notify/*.go` | `notification_outbox`, `notification_deliveries`, a lock per entry | dispatch, attempt, retry, drop | checker dispatches, ticker retries | bounded attempts, one sender per entry, nothing sent after it was recorded, nothing lost |
| CPA import `admin/handler.go:2423` | auth file, account row, pool row, runtime | import one, a batch, roll back | auth directory, store, checker | a failed import leaves things as they were |
| pools and tokens `store/pools.go`, `store/tokens.go` | `pools`, `pool_members`, `access_tokens` | members, positions, deletes, reconciliation | cache | positions order the members, every pool has its token |
| the rest | | CPA service row, settings, configuration transfer, operations log, retention, statistics, migrations, HTTP plumbing, debug command | | see section 8 |

### The web console

| component | state | operations | what makes it correct |
|---|---|---|---|
| pool page `pages/PoolDetailPage.tsx` | the loaded pool, a load number, a flag per control, settings dialog | load, navigate, change label, policy and state, delete, reorder, refresh members | shows the pool of the address, as of its newest load; no control stays disabled |
| its tokens and self-check | revealed token, shared request, verdicts | reveal, copy, set up, check every account | one request per token, the check ends, its verdicts are shown |
| sidebar, pool creation `components/Shell.tsx`, `components/PoolCreateDialog.tsx` | list of pools, snapshots | load in two stages, create | snapshots are not older than the list; a new pool is last |
| account cards `components/DragSortArea.tsx` | order, two zones | drag within and across zones | no card lost or moved along |
| account sheet `components/AccountDetailSheet.tsx` | tab, probe list, connection, latency, test message | save, roll back, ask, close | what is shown is the open account's, as saved |
| login `components/AddAccountDrawer.tsx` | session, its copy in `localStorage`, polling effect, timers | start, resume, poll, cancel, close | follows an active login, forgets an ended one |
| import and direct accounts, same file | provider, pool, files, preview | pre-check, create a pool, import, retry | imports what was pre-checked; one pool; never stuck |
| settings `pages/SettingsPage.tsx` and its sections | form, saved settings, saves in flight | optimistic saves, clean-up, configuration import | ends up with what the server holds |
| notification settings, token table | screen, drafts, cache of secrets | commit, test; reveal, rename, replace, regenerate | same, and no stale secret is handed out |
| activity page `pages/ActivityPage.tsx` | pages of the log, filters, jump, digest, charts | load page by page, filter, jump, derive | the newest load, whole; digest and charts fit it |
| overview alerts `pages/OverviewPage.tsx` | alerts, marks kept in the browser | load, dismiss, prune | what was read stays hidden |
| derived state `lib/lune.ts`, cards and sheet | none | five ladders of cases over a row; two healths of a pool | agree with the gateway and each other |

What is hard here is not any one function. In the server a copy of a row is
read, a network call is made, and the row is written; a decision is written
down twice; one handler serves three kinds of requests told apart by guards; a
failure between two writes is repaired only by the next round. In the console
answers come late, out of order or not at all, to a page that was left, an
effect that was disposed or a closure with old values, and what the console
derives is derived again elsewhere. `PROJECT.json` lists these hazards at their
lines ("hazards").

## 2. Plan

Done, the most important behaviour first:

1. `RoutingCache`: the one structure with its own concurrency protocol. TLC,
   then proofs.
2. `Routability`, `Router`, `RetryWalk`: pure decisions, checked against
   reference definitions over all small pools. Proofs that the two routability
   decisions agree, and that the walk of a request is sorted for any pool.
3. `AccountOps`, `Gateway`: the request handler on shared rows. Proofs of its
   invariants and action properties.
4. `Checker`, `AccountState`: the checker, and its composition with the gateway.
   Proofs of the invariants of the composition.
5. The console: an abstract specification `FreshView` of a page that loads, the
   pool page and the sidebar that implement it (both with a proof), then the other
   stateful parts, each beside the part of the server it talks to, most with proofs.
6. `LoginSessions`: the server's login sessions with restarts, composed with
   the drawer in `DeviceLogin`.

7. `Outbox`: dispatchers and the ticker over the same table, the lock per entry, the
   retry schedule, failing statements and crashes. Proofs of its safety for any number
   of dispatchers, keys and locks.
8. Proofs of the charts and the digest of the activity page.

Left, for a team that goes on, in this order: `CpaImport` (file, row, member, runtime,
each failing, with the compensation) and `PoolMembers` (positions under concurrent
additions, reordering, cascading deletes, token reconciliation). Section 8 says what the
models have of them now.

## 3. Modules

### The server

`RoutingCache` has one action per line of `Get` that another goroutine can
come between: reading `dbVer` (`EnterGet`), the section under RLock
(`FastPath`), taking the mutex (`AcquireLock`), the second check (`Recheck`),
one query of the load (`LoadTable`, `LoadTableFails`), storing snapshot and tag
(`Publish`). A table is abstracted to the number of commits it has seen, so
"the snapshot has this commit" is a comparison of numbers; 0 is the empty part
that a failed query leaves. Writers commit and invalidate in two steps, and may
forget the second (`AbandonInvalidate`), as `createAccount` does when its second
write fails. `start` and `dbAt` are history variables for the properties only.

`Routability` is the decision on a row: `EvaluateAccountRoutability` with its
parts, and `accountRoutableWhereSQL`. Columns keep the values that the code
compares with; the error text of a quota is abstracted to what its prefix tells
(`model429`, `probeAuth`, `other`), times to past, future and none.

`Router` is `resolveInPool` (the six passes of `health_first`, the two of
`ordered`), `resolveToAccount`, `SelectNextAccount` and `ExplainCandidates` as
operators on a snapshot. The passes are a sequence of (model match, penalty
limit) and a pass is the set of members it accepts, of which the first is taken.

`RetryWalk` walks through one pool: resolve, then ask for the next account until
refused. It states the order against a definition of `Better` that knows nothing
of passes.

`AccountOps` has an operator for every UPDATE that touches a routing column, from
the row before to the row after.

`Gateway` is `ServeHTTP`: a request record with its program counter, attempt,
exclude list, the copy of the row it was routed with, and the statements it still
has to execute (`todo`), computed from the branch the code takes on the outcome
of `Forward`. `Write` executes one of them; goroutines that the handler starts
go to `async` and run when they like. `StatementFails` drops a statement the way
the code does: errors are logged and the handler goes on.

`Checker` is the round and `RefreshAccount` for one account, each a job with the
copies that the code holds: the account as it was when the job started, the row
as reread before the conditional update, the credential state to restore, the
diagnostic as read by the quota probe. What the auth file, the management API,
`/models` and the usage endpoint answer is chosen freely.

`AccountState` composes `Gateway` and `Checker` over the same rows; the
checker's variables `rows` and `Accounts` are the gateway's.

`Outbox` has one action per SQLite statement of `Dispatch`, `AttemptOne` and `ProcessDue`,
and per step of the lock of an entry (`AcquireItemLock`, `TakeLock`, `Unlock`, `Release`):
nothing longer than a statement is atomic. A sender keeps its copy of the row. Any statement
may fail (`StatementFails` follows the error path of each), and `Crash` may come between any
two steps, in particular between sending and recording. Row ids come back, as those of an
INTEGER PRIMARY KEY without AUTOINCREMENT do; `idOf` remembers under which id a message was
stored. Subscriptions, their templates and the channel are changed under way. The schedule of
the retries is abstracted to "due".

`LoginSessions` is the session store with the goroutine of each session: the
device code that a creation waits for, the store's own check (`CreateSession`,
`CreateRefused`), cancelling, the deadline, one poll of the provider split where
the status can change under it (`PollTick`, `TokenPending`, `TokenRefused`,
`TokenGranted`, `finalizeLogin`), and `Restart`, which loads the file and starts
a goroutine for every active session. `revived` marks the sessions that an
answer of the provider made active again after their end.

### The console

In all these modules a handler in flight is a record that keeps what its closure
keeps (the pool, the number of the mount, the values of its render), and outlives
the page. A state update and the effects it triggers are one step, as they are in
React between two events. Sending a request, its effect at the server and its
answer are separate steps; an answer may be lost after the effect took place.

`FreshView` is the abstract specification of a page that loads: asking replaces
the key and raises the floor to what the server has by then; only data for that
key and not older than the floor is ever taken over.

`PoolPage` is the pool page: the load with its sequence number, navigation,
mounting, ten handlers (`Begin`, `Apply`, `Finish` and what each does after its
answer) and the settings dialog. Data is the number of changes the server had
seen. `PageIsFreshView` is the refinement: the page implements `FreshView` with the
pool of its newest load as key. `PoolTokens` adds what the same page does with the
token: the shared reveal request, the cache, and the self-check.

`Sidebar` is the effect of `Shell.tsx` with its two stages and its cleanup flag, and
the dialog that counts pools, creates one and refreshes. `SidebarIsFreshView` is its
refinement.

`DragSort`, `AccountSheet`, `ImportDrawer`, `SettingsFields`, `Notifications`,
`TokenTable`, `ActivityLogs` and `OverviewAlerts` model the component of the same
name each with the rows or settings of the server it works on; their headers say
what is kept.

`DeviceLogin` composes the drawer with `LoginSessions` (which it EXTENDS): the drawer
polls the status that the server's goroutine writes. Every answer ends the polling
effect and begins another, which is what the properties are about.

`AccountSheet` has the page's load as a request of its own, which the server reads at one
time and the page shows at another: `behind` and `load.old` remember whose list was saved
in between. `SettingsFields` has `getSettings`, which cuts the threshold in its answer.

`ConsoleView` holds the console's ladders of cases over an account row beside
`Routability`, and the two healths of a pool: the page's from the server's count
(`CountedMembers`, the SQL condition of `Routability`), the sidebar's from the console's own
decision (`AvailableMembers`). Its rows are written by the statements of `AccountOps` where
these decide (`DisableAccount`, `SchedulerStatusForStableDiagnostic`). `ActivityDigest` and `TrendBuckets` hold
what the activity page computes: facts and digest lines, percentiles, flow, buckets
of hours and days across a change of the clocks.

### Proofs, instances, variants

Eight modules hold the theorems: `ServerProofs` (routing cache, outbox); `RouterProofs` (the
router's choice, the two decisions), on which `RetryWalkProofs` (with `ConsoleView`) and
`GatewayProofs` rest; `AccountStateProofs`, which extends `GatewayProofs`; `PageProofs`
(pool page, sidebar, token of the page, digest and charts of the activity page),
`AccountPanelProofs` (account sheet, import drawer, login sessions and the login that follows
one) and `ConsoleFormsProofs` (overview alerts, token table, notification settings, settings
fields). Section 7 tells their arguments.
The modules that begin with `MC` are the TLC instances (`Outbox` needs none: its
configurations name its constants directly). Three of them, and
`MCRetryWalk`, hold several parts that share no variables: `part` says which of them
moves in a behaviour while the others wait in one of their first states, so the
states of such a run are the sum and not the product of its parts. In the browser
those parts share nothing but `dataVersion`, the signal to load again, which every part
has as an action of its own.

Operators that end in `_Something` next to the definition they resemble are faulty
variants: each is a plausible bug of that code, and the property it is listed with in
`PROJECT.json` is violated when it takes the definition's place.

A property of a run is often the conjunction of named parts, each stated with its own
comment in the module (`SettingsAgree` has four).

### Abstractions to know of

* `Gateway` routes on the current rows; that the snapshot may lag, and by how much, is
  the subject of `RoutingCache`.
* The checker's `due` is a free choice: fetch intervals and backoff times are not
  modelled. Nor are the times of the console's timers: a timer that is set fires at any
  moment.
* `LoginSessions` writes "expired" as "failed" (only the message differs) and takes the
  import at the end of a login as one step that succeeds or fails.
* `DeviceLogin`: the server restarts only while no request of the drawer is being
  served; that choosing the direct path clears an ended session is left out.
* `ActivityLogs` keeps two of the four filters; the server's folding of repeated errors
  into one row is left out.
* `SettingsFields` keeps three of the numeric settings: the two that limit each other
  and the one that is shown from the saved settings.
* Where two requests of the same kind overlap, or an answer is lost after its effect,
  the console and the server may differ until the next load. The properties name these
  cases (`crossed`, `muddled`, `excused`, `overlapped`, `unannounced`): history variables
  that record that one of them happened, and nothing else is excused.

## 4. Runs

Passing runs:

| run | instance | shows |
|---|---|---|
| `cache` | 2 readers, 1 writer, 2 tables, `dbVer` up to 3, 1 failing query, fair | `NoLostInvalidation`, `SnapshotNeverGoesBack`, `RepairedByHealthRound` |
| `retry_walk` | the walk: 3 members, 5 rows, 3 model lists, both policies, pinning on and off, diagnostics loaded or not, a member disabled, an account deleted, forced or not; the console: every row the server can write, accounts switched off and on again and self-checked ones among them, pools of 2 members of 8 kinds | `WalkIsSorted`, `ChoiceIsExplained`; `ConsoleLikeRouter`, `PoolHealthsAgree` |
| `gateway` | 1 request of every kind, 3 accounts of 3 kinds, 3 attempts, 1 failing statement, pool disabled under way, fair | `AttemptsAreSound`, `DiagnosticLeavesNoTrace`, `EveryRequestAnswered` |
| `account_state` | 1 Codex account written by two at a time: two requests (ordinary or stateful), a request beside a refresh, a round beside a refresh; every answer of the auth file, the management API, `/models` and the usage endpoint | `CountsMatchRouter`, `SchedFollowsStable`, `ProbeKeepsServing`, `TransientKeepsStable`, `FailedFetchKeepsRouting`, `DiscoveryKeepsFreshError` |
| `recovery` | 1 OpenAI-compatible account, a request and edits beside rounds without end, fair | `EnabledRecovers` |
| `outbox` | 1 dispatcher and the ticker, 1 key, 2 locks, 2 messages, 2 row ids, 2 attempts, 1 failing statement or crash, 1 edit, fair | `OutboxIsSound`, `QueueDrains` |
| `console_pools` | pool page, sidebar, account sheet, cards, import drawer, login drawer, and the server's login sessions | `PageInv`, `PageIsFreshView`, `QuietPageIsCurrent`, `LostUpdateNeedsOverlap`, `SidebarIsFreshView`, `SidebarIsSound`, `SheetIsTrue`, `DropMovesOneCard`, `DrawerIsSound`, `SessionsAreServed`, `LoginIsFollowed` |
| `console_settings` | settings, notifications, token table, activity log | `SettingsAgree`, `NotesAgree`, `TokensAgree`, `LogIsTrue` |
| `console_flows` | login with its server, tokens and self-check, digest, charts, alerts, fair | `LoginEnds`, `TokenIsShared`, `SelfCheckEnds`, `DigestIsTrue`, `BucketsAreTrue`, `AlertsAreTrue` |

Runs that end in a violation, each a line of the repository that the code does not
keep (quoted in `PROJECT.json`, "findings"):

| run | what happens |
|---|---|
| `ban_lost` | a quota probe overwrites a ban recorded after it read the diagnostic |
| `login_continues` | a login whose success is found by polling stays in the login step: storing the session disposed the effect that would go on |
| `outbox_resent` | the ticker holds a copy of an entry that a dispatcher sends and removes; the next notification gets the same row id, so the ticker's second look finds a row, and the old message is sent again in its place (2 dispatchers, 2 keys) |

More disagreements were met while modelling. The models behave as the code does; no
run states them. In the server:

* `router.go:172-178` rejects a forced request for a model that is not on the
  account's discovered list, but compares with `acc.Models`, which the accounts
  of the routing snapshot never carry: nothing is rejected.
* `handler.go:442`: for a CPA account the branch that records a transient
  observation comes before the one for failed streams, so an explicit upstream
  error in a stream starts no cooldown (`spec/v0.1.6/99-acceptance-matrix.md:83`
  says it does).
* `proxy.go:122`: an error of the upstream call carries no `HealthImpact`, so a
  timeout starts no cooldown (`spec/v0.1.9/03-codex-real-probe-state-writeback.md:106`
  says it does, the acceptance matrix exempts it).
* `checker.go:1031`: a usage fetch that fails overwrites the evidence of a rate
  limited request (`spec/v0.1.9/02-codex-plus-quota-audit.md:149` says it goes on
  blocking).
* `handler.go:223`: a retry for which there is no account is logged as an attempt,
  and a binding that fails on a retry as none (`handler.go:279`). `AttemptsCovered`, a
  part of `AttemptsAreSound`, is what holds.
* `checker.go:761`: the credential state put back after a quota refresh can be
  `needs_login` over the `ok` of a request that succeeded meanwhile
  (`spec/v0.2.0/100-release-evidence.md:33`).
* `accounts.go:470`: evidence that only a successful model request clears blocks the
  account that would have to make it (`spec/v0.1.9/02-codex-plus-quota-audit.md:160`).
* `session.go:124`: a login that was cancelled or has expired while the provider was
  being asked becomes active again, so two can be (`OneActiveLogin` excepts it).
* `notify/dispatcher.go:54`: the recent delivery is asked for before the active entry, so a
  notification that is sent and removed between the two questions is sent again, although
  `dispatcher.go:25` says Dispatch skips "when … a recent equivalent delivery already
  succeeded".
* `notify/outbox.go`: a template that does not render is a failure recorded without the
  lock of the entry, from a copy that may be old: a dropped entry can go back to retrying,
  or its count of attempts down.
* The ticker removes an unsubscribed entry although a dispatcher is sending it; the record of
  that delivery's success then rolls back with the entry it should delete.
* `outbox.go:91`: only entries that are due are discarded when their event is unsubscribed;
  the others wait, and are sent if the event is subscribed again.

In the console:

* `OverviewPage.tsx:161`: the marks of read alerts are pruned against the empty list
  before the first answer ("Prune dismissed entries whose matching alerts no longer
  exist."), so they do not outlive a reload of the page.
* `AccountDetailSheet.tsx`: after a change of tabs the probe list is taken from the
  page's last load again, without what was saved since; and an answer to that load which
  the server had read before a save, but which arrives after the save has ended, resets
  the list to the former one (lines 554-556). `outdated` excuses these two and nothing else.
* `admin/handler.go:1130`: the answer with the settings cuts the memory threshold to the
  maximum, the row keeps it. With 2 stored for both, a maximum lowered to 1 and a reload,
  the page shows 1; raise the maximum again and 2 is in effect while the page shows 1.
* `lune.ts:66` and `lune.ts:74`: the page of a pool calls it broken when its only well
  members have a diagnosis that keeps them from being used, or a subscription but no
  known access (`store/pools.go:10-37`); the sidebar calls the same pool healthy or degraded
  (`lune.ts:92` asks the console's own decision). `PoolHealthsAgree` names both ways in which the two differ.
* `NotificationsSection.tsx:133`: a URL typed while a commit is under way is replaced by
  that commit's answer; a test asked for while a commit is under way may use a URL other
  than the visible one.
* `ActivityPage.tsx:1810`: a jump from the list of errors writes the hash but not the note
  that it was handled, so the next reload jumps a second time; on a day on which the clocks change the dial's lines are off by
  one hour, and after they went forward the days since are one bucket early.
* `lune.ts`: a Codex account at its limit is called degraded although the gateway skips
  it, and an account that only its subscription vouches for is called routable. An
  account that was switched off keeps the status `disabled` when it is switched on again
  (`accounts.go:109-117`), and is called unknown until its next check.
* `PoolDetailPage.tsx:213`: the choice of a token is dropped with a change of pools "so the
  next Codex setup open re-picks the current Pool token", but a token that was asked for
  before the change and arrives after it becomes the choice again.

## 5. Bounds, and why they are enough

*Cache.* Two readers are what it takes for one to load while another hits,
waits or publishes; two tables for a commit to fall between two queries; version
3 for a reader to be one and two announcements behind. The theorems remove the
bounds on readers, writers and tables.
*Walk.* Penalties reach 0, 1, 2 and 3 and three members are enough for two of the
same class and one of another; a walk visits all of them.
*Gateway.* Three accounts and three attempts let a retry follow a retry. The races on a
row need two requests, which `account_state` has: every write of the handler is one
statement on one row with at most one value read before.
*State.* One account suffices, since no statement touches two. The run lets two write at a
time: two requests, a request beside a refresh, or a refresh beside a round, which is every
pair but a request beside a round (`recovery` has that one, on another kind of account, for a
liveness property); a third writer only repeats one of them. Requests are alike, so the run takes
them up to symmetry. The subscription in the tokens of the auth file is a past one; the
theorems hold for every value, and for any number of writers.
*Outbox.* Dispatcher and ticker are two senders, which is what it takes to meet at a row;
two messages and the reuse of ids let one be taken for the other; two attempts make a first
failure and a last one; one failing statement or crash can fall at any step. The theorems
remove all these bounds. `outbox_resent` has two dispatchers, for the second notification
to be stored while the ticker still holds its copy.
*Console.* Two of everything that can be confused (pools, accounts, models, URLs,
texts, tokens, file sets, one of them bad): a late answer needs one other to be taken
for. Three gestures on the pool page (`MaxGestures`: handlers, moves, retries) let two
handlers overlap around a move, or one come back to a page that was left and opened
again; the theorems remove this bound and the one on pools. Four cards have two neighbours in
each zone. Three commits or calls of a page (`MaxPuts`, `MaxCalls`) are a
commit, one that overtakes it, and one after both; two saves of the settings (`MaxSaves`)
overtake each other or a load (`MaxLoads`: the first and another), and the theorem has any
number of both. Two edits and two mounts of the account sheet, with any number of loads of
the page, let a load be read before a save and arrive after it, or a panel be left while its
request is under way. The pools of `retry_walk` draw their members from `PoolRows`: a direct
account well, ailing, failed, switched off, switched on again and banned, a Codex account with
access and one with a subscription in its place; `Stables` and `Subs` have a value for each
outcome of the decisions that read them. The theorems have every row and any number of
members. The log has pages of one row with a
cap of two, so three requests exceed it. Three sessions and two creations in progress
let a session be refused, replaced and revived. `Budgets` of a login: two visits of the
drawer, or one with a failing request and a restart of the server (what must eventually
happen is checked on the second). `TallyBound`: 21
plain requests are enough for one in twenty. `Horizon`: ten days, with the clocks
changed at, just before or a day after a boundary of the window.

Every bound is a guard of the actions it bounds. The runs with `CHECK_DEADLOCK FALSE`
end when requests are answered, jobs are done and the user has no clicks left; the cache
never stops.

## 6. Fairness

* Requests (`Gateway!FairSpec`): weak fairness of a request's steps. Every
  upstream call has the timeout of `Forward`, sleeps are bounded, and SQLite
  statements return.
* Readers (`RoutingCache!FairSpec`): weak fairness of a goroutine inside `Get`;
  it blocks only on a mutex whose holder goes on. Weak fairness of
  `RoundInvalidate`: the checker's ticker.
* Checker (`StateFairSpec`): rounds start again and again and every job goes on,
  for the same reasons. Strong fairness of the quota phase being due: the interval
  has passed in infinitely many rounds, though not in every one.
* Outbox (`OutboxFairSpec`): a goroutine inside `Dispatch` or `AttemptOne` goes on (the
  driver has a timeout of 10 seconds, a lock is held by one that goes on), the ticker fires
  and works off its batch, and the wait of an entry ends. Nothing is assumed of dispatchers
  starting, of edits or of crashes, except that the run has finitely many.
* Login (`LoginFairness`): timers that are set fire, requests that were sent are
  answered or fail, `refreshAfterAccountCreate` returns, and the deadline of a session
  passes. Nothing is assumed of the user, the provider or restarts.
* Tokens (`TokensFairness`): a reveal request, a probe and the storing of its verdict
  are answered or fail (the probe has a timeout of its own), and the handler that awaits
  them goes on.

## 7. Proofs

Checked by TLAPS without bounds on the constants.

`ServerProofs`, the routing cache. None of the safety properties is inductive. `IndInv` adds
what the argument needs: `HistoryOrdered` (`dbAt` is as long as `dbVer` and grows),
`SnapshotCovered` (the snapshot has everything committed when `dbVer` became its
tag), `LoadersExclusive` (only the holder of the mutex is between Lock and Unlock),
`ReaderOrdered` (the version a reader works with lies between its start and `dbVer`,
and what it has loaded covers that version) and `LoaderAhead` (what a loader has is
at least as new as what it will replace). The last one needs the exclusion: another
publication in between would break it. From `IndInv` follow `TypeCorrect`,
`NoLostInvalidationHolds`, `LagsOnlyUnannouncedHolds`, `LoadersExclusiveHolds` and
the action property `SnapshotNeverGoesBackHolds`. Assumptions: at least one table,
`Nil` is not a snapshot, `NoOne` is not a reader, bounds are naturals.

The outbox, in the same module: `OutboxIsSoundHolds`, for any number of dispatchers, keys,
locks, rows, messages and failures. `OutboxInv` consists of the types and six named parts.
`RowsNewest`: a row holds the newest message that was stored under its id. `CopiesTrue`: a
copy names the id its message had, and was not the last attempt. `LocksMapped`: whoever is
in the critical section holds the lock that the map has for its row. `LocksCounted`: `refs`
is the number of goroutines that have looked a lock up and not given it back, counted on the
finite set of senders. `LocksExclude`: a lock serves one row, and is held by one sender if it is held. `RecordedGone`: a
message whose success is recorded is in no row. No two of them are inductive alone: that a
lock does not leave the map too soon needs the count, that two goroutines do not meet at a
row needs that the map gives both the same lock, and that a recorded message is not sent
again needs both and the second look at the row. `SendersExclude` is the exclusion by itself.
Assumptions: the dispatchers are finitely many and the ticker is none of them
(`SendersAssumption`), `None` is no lock and no row, at least one attempt, bounds are
naturals.

`RouterProofs`. `DecisionsAgree`: on every row whose flags are flags, whatever its other
columns hold, the SQL condition and the Go decision agree; it rests on one lemma for the
diagnostic part and one for the CPA part. The lemmas on which the next modules rest:
`First` picks the least position of a set (`FirstIsMember`, from the well-foundedness of
the naturals), so `resolveInPool` answers with the first hit of the first pass that has
one (`PoolAnswer`), which is an account of the snapshot that is not excluded (`PoolChoice`).

`RetryWalkProofs`. `WalkIsSortedHolds` and `ChoiceIsExplainedHolds`, for any pool, rows,
model lists and either policy. `Better` knows nothing of passes, so the argument goes
through the number of the first pass that accepts an account (`PassOf`): it sorts accounts
the way `Better` does (`PassesSort`), and the account chosen is the least in (pass,
position). `WalkInv` adds to the walk's order that the accounts tried are the excluded
ones and that a refusal was given by the snapshot. `ConsoleLikeRouterHolds` and
`PoolHealthsAgreeHolds` need `ConsoleInv`: the row and those of the members have only
combinations of columns that the server's statements write (`RowFits`; on others console
and gateway do differ). With it `PoolHealthsAgreeHolds` goes through `RoutableLikeRouter`
member by member, and through `DecisionsAgree` from the count in SQL to the gateway. Assumptions: `Order` is a
sequence without repetition (`store.go:117`, UNIQUE (pool_id, account_id)), the slots of
a pool are finite, the model asked for is one of `Models`.

`GatewayProofs`, for any accounts, requests, retries and failing statements. `GatewayInv`
is one formula per request, since requests meet only in rows: `Holds` (what the request
holds at which step, and that what is left to write is a program its kind allows),
`Reached` (the accounts reached are distinct and excluded but for the one being settled,
and their number is the attempt), `OnTarget`, `Covered`, and `AsyncInv` for the goroutines
that outlive their request. `Programs(k)` is what the action properties need: a diagnostic
request has the empty program (`DiagnosticLeavesNoTraceHolds`), a stateful probe one
without the statements that count as serving (`ProbeKeepsServingHolds`), and an observation
of a transient error keeps the stable status (`TransientKeepsStableHolds`).
`AttemptsAreSoundHolds` follows from `GatewayInv`, `SchedFollowsStableHolds` from it and
the statements one by one. Assumptions: `PoolAssumption`; the rows at the start have the
column types, and the scheduler status fits the stable one (`InitialRowsAssumption`).

`AccountStateProofs`, the same with rounds, refreshes, edits and the clock beside the
requests. `StateInv` is `GatewayInv`, `SchedFollowsStable` and `CheckerInv`: each job has the
copies of its step, what it has still to write are statements of the checker (`CheckerStmts`),
the diagnostic transaction is directly preceded by its own read, and the row a discovery compares
with is not one it must preserve. From it follow `RowsTypedHolds`, and with it
`CountsMatchRouterHolds`, which lifts `DecisionsAgree` to every reachable row;
`StateSchedFollowsStable` and `StateAttemptsAreSound`, the gateway's invariants in the
composition; and the action properties `DiscoveryKeepsFreshErrorHolds` and
`FailedFetchKeepsRoutingHolds`. Assumptions: those of the gateway, and that the answers of
the outside are answers the code knows (`CheckerInputsAssumption`).

`PageProofs`, the pool page: for any set of pools and any number of handlers, moves
and requests in flight.
The inductive invariant is `PageInv`: the types; `AwayIsEmpty` (a page that is not
mounted awaits nothing); `LoadsNumbered` (numbers tell loads apart, none is beyond the
page's); `NewestIsFresh` (the newest load asks for the key of the view, and its answer is
not older than the request); `OnlyDeleteLists`; `LoadsPath` (what is loaded or being
loaded is the pool of the address); `ChangesAnnounced` (a change the page has not asked
for yet has a handler that will ask); `ShowsNewest`; and the two properties that are
inductive with these, `SkeletonAwaitsAnswer` and `NoControlStuck`. Nothing less is enough:
that the skeleton ends depends on the numbers, and that a quiet page is current on the
handlers. The lemma `StepShape` brings the actions down to the few shapes in which
they change loads and page; one lemma per part shows that a step keeps it. From `PageInv`
follow `PageTypedHolds`, `SkeletonAwaitsAnswerHolds`, `NoControlStuckHolds`,
`OpenPoolIsShownHolds`, `QuietPageIsCurrentHolds`, and the refinement
`PageIsFreshViewHolds`: initial states map to initial states (`ViewInit`) and a step that
keeps `PageInv` maps to a step of `FreshView` or a stutter (`ViewStep`). Assumptions: no
pool is called "bad" or "away", and `NoDetail` is not a loaded pool.

`LostUpdateNeedsOverlapHolds` needs two facts more, proved after `PageInv` and from it: a row
that was read is the server's until that row changes (`RowsRead`), and a save begun on such
a row differs from it in its own column at most (`SavesFit`).

The sidebar, in the same module: `SidebarInv` says that one run of the effect at most is not
cancelled and began before what it read (`NewestRun`), that a run shows the list before it
asks for details (`ReadInOrder`), and numbers the pools created one after another
(`NumberedInOrder`). From it `SidebarIsSoundHolds` and the refinement `SidebarIsFreshViewHolds`.
The token of the page: `SharedInv` counts the requests for each token (`RequestsCounted`),
which gives `TokenIsSharedHolds`. Assumption: no number is called `NoList`.

The activity page, in the same module. `DigestIsTrueHolds`: the invariant is only that counts
are naturals; the work is in the operators. The flow's sums are written out kind by kind
(`FlowHolds`); `PercentileIs` brings the percentile down to a comparison of the quick requests
with the rank, from which the tail follows by linear arithmetic; `TopTwo` shows of any finite
set of lines with different priorities that those with fewer than two above them are at most
two, and `LinesDiffer` that the builders give such a set. The kinds of requests are the
model's five, their numbers any. `BucketsAreTrueHolds`: the hours of the change and of the
chart are any integers, charts of any number of days. `Clocks` says what is lost by setting
the clock to a local hour and reading it again, `DaysHold` that days of 23 to 25 hours are
divided into whole ones nevertheless. Assumptions: `MinSamplesAssumption`, `ChartAssumption`:
numbers of samples, hours and days are numbers.

`AccountPanelProofs`. `SheetIsTrueHolds`: `SheetInv` adds to the property that a request of the
present panel is of the account shown (`AsksBelong`), what the one save under way saves
and would put back (`ListUnderWay`), and that the rows of the page, and those of a load that
the server has read, hold the saved lists of all accounts but those marked as saved since
(`CopiesFit`), which is what a load may put on the screen when it arrives. `DrawerIsSoundHolds`: `WizInv` adds that a pre-check
follows the selected files and that one creating job at most runs, which is counted on the
finite list of the server's pools. `SessionsAreServedHolds`: `SessInv` says that a session
has a goroutine from its creation on and that two active sessions need an answer that
revived one. `LoginIsFollowedHolds`: `LoginInv` is `SessInv` with what the drawer holds: a
timer and a running poll belong to the session shown, an active one is polled or was
silenced, and one that has ended is stored only until its account is refreshed; the server's
steps keep the drawer's part and the drawer's requests keep the server's
(`DrawerSessionsAreServed`). Assumptions: `NoCardAssumption`, `MaxPoolsAssumption`,
`NoSessionAssumption`, `BudgetsAssumption`: markers of absence are nothing else, bounds are
naturals.

`ConsoleFormsProofs`. `AlertsAreTrueHolds`: `OverInv` adds that numbers name loads and that
what is hidden is what is marked in the browser. `TokensAgreeHolds`: `TableInv` says, for a
token whose requests never crossed, what the only request in flight has done to row, secret
and cache (`Fits`), and that an editing dialog is locked by its own request.
`NotesAgreeHolds`: `NotesInv` says the same of the commits of a kind of settings, that a
disabled control waits for the newest commit, and that a test waits for the commit of the URL
it was asked for. `SettingsAgreeHolds`: `FieldsInv` needs saves and loads together. With no
load in flight, a field that is not excused has one save at most, and page and server hold
what that one leaves (`FieldsFit`). With one in flight, every save's field is excused, and the
last load carries what the server holds of the others, but for a threshold its answer cut
(`LoadsFit`, `Sound`), from which `FieldsFit` starts again when it arrives: a threshold that
was cut is excused from then on. `OutcomeFits` follows the newest save of a field, `RowsFit` the
rows, and `PruneInv` what a confirmed clean-up announced. Assumptions: `NoOverview` is not a
set of alerts, `NoSettings` not settings, and settings have a positive value.

Only model-checked, and why:

* every liveness property (`EveryRequestAnswered`, `RepairedByHealthRound`, `EnabledRecovers`,
  `QueueDrains`, `LoginEnds`, `SelfCheckEnds`): the prover has no rule for fairness and ENABLED;
* `DropMovesOneCard`, `LogIsTrue`: what `SelectSeq`, `FlattenSeq` and the insertion into a
  sequence compute, whose proof is an induction over data that the installed provers cannot
  instantiate. That a settled log shows its newest load, a part of `LogIsTrue`, rests on
  this too: that the bundle of an answer is a bundle at all needs the type of a fold.

The inductive invariants themselves (`IndInv`, `RowsTyped`, `OutboxInv` and the others) were
checked by TLC on small instances while they were found; the runs keep the properties.

## 8. Not modelled

Imports at the server and the tables of pools and tokens are left (section 2). Of an import
the models have what the account rows get (`CreateAccount` in `AccountOps`), its end as one
step of a login (`LoginSessions`) and the drawer's side (`ImportDrawer`); its compensation when
the file, the row or the member fails is not modelled. Of pools and tokens they have what the
router reads (order, switches) and the console's handlers. An addition reads the greatest
position and inserts after it in two statements, so two additions at once can give two members
the same position, which the router's sequence does not show; reordering and the
reconciliation of tokens are one transaction each.
Out of scope in the server: the CPA service row (one row, its availability is an input
here), configuration transfer (one transaction), operations log, retention and request
logs (append and prune; the console's view of them is modelled), statistics (SELECTs),
migrations (run once), HTTP plumbing, authentication (a lookup in the snapshot) and
configuration, rendering and drivers of notifications, and the debug command. Inside the
modelled parts: usage counting, headers, trace texts, `last_used_at` of tokens, the
`account_models` table as the checker writes it, and fetch intervals.

Out of scope in the console: drawing, animation, layout and widgets (`components/ui`,
the orbit canvas, the moon dial's drawing, sparklines), formatting and wording, the client
of the API (one request and its answer), the setup dialog's texts, the history of
notifications, the usage card, export of a configuration, the list of requests on the
sheet, the token statistics and the latency panel: stateless, or one request and its
answer.
