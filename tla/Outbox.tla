------------------------------- MODULE Outbox -------------------------------
(***************************************************************************)
(* The notification outbox: internal/notify/dispatcher.go and outbox.go    *)
(* over the tables of internal/store/notifications.go.                     *)
(*                                                                         *)
(* A dispatcher (the health round, a batch import) stores a notification   *)
(* and attempts it at once; the ticker of Run attempts what is due.  Both  *)
(* work on a copy of the row and share a map of counted locks, one per     *)
(* row id.  Every statement on SQLite is atomic, nothing longer is.        *)
(*                                                                         *)
(* A message is its number in the order of insertion; the row id is what   *)
(* INTEGER PRIMARY KEY gives: one more than the greatest id in the table.  *)
(* An event is identified with its dedup key.  Time is abstracted to "due" *)
(* and to the keys with a delivery inside the dedup window.                *)
(***************************************************************************)
EXTENDS Naturals, Sequences, FiniteSets

CONSTANTS
  Dispatchers,  \* goroutines that call Dispatch
  Ticker,       \* the goroutine of Outbox.Run
  Keys,         \* dedup keys
  Locks,        \* itemLock objects
  None,         \* no row, no lock, no copy
  MaxAttempts,  \* fixedMaxAttempts (4 in the code)
  MaxRows,      \* bound on row ids
  MaxMsgs,      \* bound on notifications stored
  MaxFaults,    \* bound on failing statements and crashes
  MaxEdits      \* bound on changes of settings and subscriptions

Senders == Dispatchers \cup {Ticker}
RowIds     == 1 .. MaxRows

Row  == [msg: Nat, key: Keys, status: {"pending", "retrying", "dropped"},
         attempt: Nat, due: BOOLEAN]
Item == [id: Nat, key: Keys, attempt: Nat, msg: Nat]

ASSUME SendersAssumption ==
  IsFiniteSet(Dispatchers) /\ Ticker \notin Dispatchers
ASSUME NoneAssumption     == None \notin Locks /\ None \notin Row
ASSUME AttemptsAssumption == MaxAttempts \in Nat \ {0}
ASSUME OutboxBoundsAssumption ==
  /\ MaxRows \in Nat /\ MaxMsgs \in Nat
  /\ MaxFaults \in Nat /\ MaxEdits \in Nat

VARIABLES
  rows,       \* notification_outbox: id -> row or None
  recent,     \* keys with a delivery inside the dedup window
  channel,    \* notification_settings.enabled: "on" or "off"
  subs,       \* subscription of a key: "off", or on with a "bad" or "good" template
  idOf,       \* history: row id each message was stored under
  lockOf,     \* Outbox.locks: id -> itemLock or None
  refs,       \* itemLock.refs
  held,       \* itemLock.mu is locked
  at,         \* where a sender is
  item,       \* the sender's copy of the row, msg being the decoded payload
  tmpl,       \* the template the sender read
  lk,         \* the lock the sender acquired, or None
  batch,      \* the ticker's copies still to attempt
  known,      \* the ticker's copy of the subscriptions
  recorded,   \* history: messages whose success is recorded
  discarded,  \* history: messages given up as unsubscribed, or pruned
  faults,     \* statements failed and crashes so far
  edits       \* changes of settings so far

tableVars   == <<rows, recent, idOf, recorded, discarded>>
settingVars == <<channel, subs, edits>>
lockVars    == <<lockOf, refs, held>>
tickerVars  == <<batch, known>>
outboxVars  == <<tableVars, settingVars, lockVars, at, item, tmpl, lk,
                 tickerVars, faults>>

Steps == {"idle", "subscription", "recent", "active", "insert",
          "settings", "subs", "next",
          "render", "wait", "check", "send", "sent", "refused",
          "unlock", "release"}

\* A row that waits to be sent; the unique index on dedup_key covers these.
Queued(i) == rows[i] # None /\ rows[i].status # "dropped"

KeyQueued(k) == \E i \in RowIds : Queued(i) /\ rows[i].key = k

Copy(i) == [id |-> i, key |-> rows[i].key, attempt |-> rows[i].attempt,
            msg |-> rows[i].msg]

\* Where a sender goes on after AttemptOne.
Home(s) == IF s = Ticker THEN "next" ELSE "idle"

OutboxInit ==
  /\ rows = [i \in RowIds |-> None]
  /\ recent = {}
  /\ channel = "on"
  /\ subs = [k \in Keys |-> "good"]
  /\ idOf = <<>>
  /\ lockOf = [i \in RowIds |-> None]
  /\ refs = [l \in Locks |-> 0]
  /\ held = [l \in Locks |-> FALSE]
  /\ at = [s \in Senders |-> "idle"]
  /\ item = [s \in Senders |-> None]
  /\ tmpl = [s \in Senders |-> "good"]
  /\ lk = [s \in Senders |-> None]
  /\ batch = {}
  /\ known = [k \in Keys |-> "good"]
  /\ recorded = {} /\ discarded = {}
  /\ faults = 0 /\ edits = 0

GoTo(s, l) == at' = [at EXCEPT ![s] = l]

Advance(s, l) == GoTo(s, l) /\ UNCHANGED <<item, tmpl>>

\* The call returns and its locals are gone.
Return(s) ==
  /\ GoTo(s, Home(s))
  /\ item' = [item EXCEPT ![s] = None]
  /\ tmpl' = [tmpl EXCEPT ![s] = "good"]

-----------------------------------------------------------------------------
(* Dispatch *)

\* GetNotificationSettings; nothing happens while the channel is disabled.
StartDispatch(d, k) ==
  /\ at[d] = "idle" /\ channel = "on"
  /\ item' = [item EXCEPT ![d] = [id |-> 0, key |-> k, attempt |-> 0, msg |-> 0]]
  /\ GoTo(d, "subscription")
  /\ UNCHANGED <<tableVars, settingVars, lockVars, tmpl, lk, tickerVars, faults>>

ReadSubscription(d) ==
  /\ at[d] = "subscription"
  /\ IF subs[item[d].key] = "off"
       THEN Return(d)
       ELSE /\ tmpl' = [tmpl EXCEPT ![d] = subs[item[d].key]]
            /\ GoTo(d, "recent") /\ UNCHANGED item
  /\ UNCHANGED <<tableVars, settingVars, lockVars, lk, tickerVars, faults>>

CheckRecent(d) ==
  /\ at[d] = "recent"
  /\ IF item[d].key \in recent THEN Return(d) ELSE Advance(d, "active")
  /\ UNCHANGED <<tableVars, settingVars, lockVars, lk, tickerVars, faults>>

CheckActive(d) ==
  /\ at[d] = "active"
  /\ IF KeyQueued(item[d].key) THEN Return(d) ELSE Advance(d, "insert")
  /\ UNCHANGED <<tableVars, settingVars, lockVars, lk, tickerVars, faults>>

\* The id SQLite gives to a new row.
NextId(i) ==
  /\ \A j \in RowIds : j >= i => rows[j] = None
  /\ i > 1 => rows[i - 1] # None

Stored(d, i) ==
  /\ rows' = [rows EXCEPT ![i] =
                [msg |-> Len(idOf) + 1, key |-> item[d].key,
                 status |-> "pending", attempt |-> 0, due |-> TRUE]]
  /\ idOf' = Append(idOf, i)
  /\ item' = [item EXCEPT ![d].id = i, ![d].msg = Len(idOf) + 1]

\* A violation of the unique index is silently taken for "already queued".
Insert(d) ==
  /\ at[d] = "insert"
  /\ \/ /\ KeyQueued(item[d].key)
        /\ Return(d)
        /\ UNCHANGED <<rows, idOf>>
     \/ /\ ~KeyQueued(item[d].key)
        /\ Len(idOf) < MaxMsgs
        /\ \E i \in RowIds : NextId(i) /\ Stored(d, i)
        /\ GoTo(d, "render") /\ UNCHANGED tmpl
  /\ UNCHANGED <<recent, recorded, discarded, settingVars, lockVars, lk, tickerVars,
                 faults>>

-----------------------------------------------------------------------------
(* AttemptOne, in the dispatcher or in the ticker *)

\* The template does not render: fail() on the copy, without the item's lock.
RenderFails(s) ==
  /\ at[s] = "render" /\ tmpl[s] = "bad"
  /\ GoTo(s, "refused")
  /\ UNCHANGED <<tableVars, settingVars, lockVars, item, tmpl, lk, tickerVars, faults>>

\* acquireItemLock up to lk.mu.Lock(): the section under locksMu.  A new
\* object is one that no sender has.
AcquireItemLock(s) ==
  /\ at[s] = "render" /\ tmpl[s] # "bad"
  /\ \E l \in Locks :
       /\ IF lockOf[item[s].id] = None
            THEN \A t \in Senders : lk[t] # l
            ELSE l = lockOf[item[s].id]
       /\ lockOf' = [lockOf EXCEPT ![item[s].id] = l]
       /\ refs' = [refs EXCEPT ![l] = @ + 1]
       /\ lk' = [lk EXCEPT ![s] = l]
  /\ GoTo(s, "wait")
  /\ UNCHANGED <<tableVars, settingVars, held, item, tmpl, tickerVars, faults>>

TakeLock(s) ==
  /\ at[s] = "wait" /\ ~held[lk[s]]
  /\ held' = [held EXCEPT ![lk[s]] = TRUE]
  /\ GoTo(s, "check")
  /\ UNCHANGED <<tableVars, settingVars, lockOf, refs, item, tmpl, lk, tickerVars, faults>>

\* The row is read again; its fields replace the copy's, the payload that
\* was decoded from the copy stays.
CheckRow(s) ==
  /\ at[s] = "check"
  /\ \/ /\ Queued(item[s].id)
        /\ item' = [item EXCEPT ![s] = [Copy(item[s].id) EXCEPT !.msg = item[s].msg]]
        /\ GoTo(s, "send")
     \/ /\ ~Queued(item[s].id)
        /\ GoTo(s, "unlock")
        /\ UNCHANGED item
  /\ UNCHANGED <<tableVars, settingVars, lockVars, tmpl, lk, tickerVars, faults>>

\* driver.Send: the webhook takes the message, or refuses or times out.
Send(s) ==
  /\ at[s] = "send"
  /\ GoTo(s, "sent") \/ GoTo(s, "refused")
  /\ UNCHANGED <<tableVars, settingVars, lockVars, item, tmpl, lk, tickerVars, faults>>

\* RecordNotificationAttemptSuccess: one transaction, rolled back when the
\* row is no longer there.
RecordSuccess(s) ==
  /\ at[s] = "sent"
  /\ IF rows[item[s].id] = None
       THEN UNCHANGED <<rows, recent, recorded>>
       ELSE /\ rows' = [rows EXCEPT ![item[s].id] = None]
            /\ recent' = recent \cup {item[s].key}
            /\ recorded' = recorded \cup {item[s].msg}
  /\ GoTo(s, "unlock")
  /\ UNCHANGED <<idOf, discarded, settingVars, lockVars, item, tmpl, lk, tickerVars, faults>>

\* Faulty variant: the failed attempt is not counted.
AfterFailure_Uncounted(r, n) ==
  IF n >= MaxAttempts
    THEN [r EXCEPT !.status = "dropped"]
    ELSE [r EXCEPT !.status = "retrying", !.due = FALSE]

\* What fail() writes into the row: the next attempt, or the last one.
AfterFailure(r, n) ==
  IF n >= MaxAttempts
    THEN [r EXCEPT !.status = "dropped", !.attempt = n]
    ELSE [r EXCEPT !.status = "retrying", !.attempt = n, !.due = FALSE]

\* Back to "retrying" although another row of the key is active.
ViolatesUnique(i, n) ==
  /\ n < MaxAttempts /\ rows[i] # None
  /\ \E j \in RowIds \ {i} : Queued(j) /\ rows[j].key = rows[i].key

\* fail(): the attempt is counted from the copy.  An UPDATE of no row is no
\* error, and the delivery stays; a violated index undoes both.
RecordFailure(s) ==
  LET i == item[s].id
      n == item[s].attempt + 1
  IN  /\ at[s] = "refused"
      /\ IF ViolatesUnique(i, n)
           THEN UNCHANGED <<rows, recent>>
           ELSE /\ rows' = IF rows[i] = None THEN rows
                           ELSE [rows EXCEPT ![i] = AfterFailure(rows[i], n)]
                /\ recent' = recent \cup {item[s].key}
      /\ IF lk[s] = None THEN Return(s) ELSE Advance(s, "unlock")
      /\ UNCHANGED <<idOf, recorded, discarded, settingVars, lockVars, lk,
                     tickerVars, faults>>

\* releaseItemLock: lk.mu.Unlock() ...
Unlock(s) ==
  /\ at[s] = "unlock"
  /\ held' = [held EXCEPT ![lk[s]] = FALSE]
  /\ GoTo(s, "release")
  /\ UNCHANGED <<tableVars, settingVars, lockOf, refs, item, tmpl, lk, tickerVars, faults>>

\* Faulty variant: the lock leaves the map although somebody waits for it.
Release_Always(s) ==
  /\ at[s] = "release"
  /\ refs' = [refs EXCEPT ![lk[s]] = @ - 1]
  /\ lockOf' = [lockOf EXCEPT ![item[s].id] = None]
  /\ lk' = [lk EXCEPT ![s] = None]
  /\ Return(s)
  /\ UNCHANGED <<tableVars, settingVars, held, tickerVars, faults>>

\* ... and the section under locksMu: the last user deletes the map entry.
Release(s) ==
  /\ at[s] = "release"
  /\ refs' = [refs EXCEPT ![lk[s]] = @ - 1]
  /\ lockOf' = IF refs[lk[s]] = 1 THEN [lockOf EXCEPT ![item[s].id] = None]
                                  ELSE lockOf
  /\ lk' = [lk EXCEPT ![s] = None]
  /\ Return(s)
  /\ UNCHANGED <<tableVars, settingVars, held, tickerVars, faults>>

\* A statement fails.  Before AttemptOne the goroutine gives up; inside it
\* nothing is written and the deferred release follows.
StatementFails(s) ==
  /\ faults < MaxFaults /\ faults' = faults + 1
  /\ \/ /\ at[s] \in {"subscription", "recent", "active", "insert", "settings", "subs"}
        /\ at' = [at EXCEPT ![s] = "idle"]
        /\ item' = [item EXCEPT ![s] = None]
        /\ tmpl' = [tmpl EXCEPT ![s] = "good"]
        /\ batch' = IF s = Ticker THEN {} ELSE batch
     \/ at[s] \in {"check", "sent"} /\ Advance(s, "unlock") /\ UNCHANGED batch
     \/ /\ at[s] = "refused"
        /\ IF lk[s] = None THEN Return(s) ELSE Advance(s, "unlock")
        /\ UNCHANGED batch
  /\ UNCHANGED <<tableVars, settingVars, lockVars, lk, known>>

-----------------------------------------------------------------------------
(* processDue *)

\* ListDueNotificationOutbox copies every due row; the LIMIT of 100 is out
\* of reach, and the order by time is left open.
ListDue ==
  /\ at[Ticker] = "idle"
  /\ batch' = {Copy(i) : i \in {j \in RowIds : Queued(j) /\ rows[j].due}}
  /\ GoTo(Ticker, IF batch' = {} THEN "idle" ELSE "settings")
  /\ UNCHANGED <<tableVars, settingVars, lockVars, item, tmpl, lk, known, faults>>

ReadSettings ==
  /\ at[Ticker] = "settings"
  /\ IF channel = "off" THEN GoTo(Ticker, "idle") /\ batch' = {}
                        ELSE GoTo(Ticker, "subs") /\ UNCHANGED batch
  /\ UNCHANGED <<tableVars, settingVars, lockVars, item, tmpl, lk, known, faults>>

ReadSubs ==
  /\ at[Ticker] = "subs"
  /\ known' = subs
  /\ GoTo(Ticker, "next")
  /\ UNCHANGED <<tableVars, settingVars, lockVars, item, tmpl, lk, batch, faults>>

BatchDone ==
  /\ at[Ticker] = "next" /\ batch = {}
  /\ GoTo(Ticker, "idle")
  /\ known' = [k \in Keys |-> "good"]
  /\ UNCHANGED <<tableVars, settingVars, lockVars, item, tmpl, lk, batch, faults>>

\* The event was unsubscribed: its row is deleted, by id and without lock.
DiscardItem(c) ==
  /\ at[Ticker] = "next" /\ c \in batch /\ known[c.key] = "off"
  /\ batch' = batch \ {c}
  /\ \/ /\ rows' = [rows EXCEPT ![c.id] = None]
        /\ discarded' = IF rows[c.id] = None THEN discarded
                                             ELSE discarded \cup {c.msg}
        /\ UNCHANGED faults
     \/ /\ faults < MaxFaults /\ faults' = faults + 1   \* the error is ignored
        /\ UNCHANGED <<rows, discarded>>
  /\ UNCHANGED <<recent, idOf, recorded, settingVars, lockVars, at, item, tmpl, lk, known>>

AttemptItem(c) ==
  /\ at[Ticker] = "next" /\ c \in batch /\ known[c.key] # "off"
  /\ batch' = batch \ {c}
  /\ item' = [item EXCEPT ![Ticker] = c]
  /\ tmpl' = [tmpl EXCEPT ![Ticker] = known[c.key]]
  /\ GoTo(Ticker, "render")
  /\ UNCHANGED <<tableVars, settingVars, lockVars, lk, known, faults>>

-----------------------------------------------------------------------------
(* Time, the administrator, retention, crashes *)

EntryDue(i) ==
  /\ Queued(i) /\ ~rows[i].due
  /\ rows' = [rows EXCEPT ![i].due = TRUE]
  /\ UNCHANGED <<recent, idOf, recorded, discarded, settingVars, lockVars, at, item,
                 tmpl, lk, tickerVars, faults>>

WindowPasses(k) ==
  /\ k \in recent
  /\ recent' = recent \ {k}
  /\ UNCHANGED <<rows, idOf, recorded, discarded, settingVars, lockVars, at, item,
                 tmpl, lk, tickerVars, faults>>

\* The data retention deletes dropped rows.
PruneDropped(i) ==
  /\ rows[i] # None /\ ~Queued(i)
  /\ rows' = [rows EXCEPT ![i] = None]
  /\ discarded' = discarded \cup {rows[i].msg}
  /\ UNCHANGED <<recent, idOf, recorded, settingVars, lockVars, at, item, tmpl, lk,
                 tickerVars, faults>>

EditSettings ==
  /\ edits < MaxEdits /\ edits' = edits + 1
  /\ \/ channel' = (IF channel = "on" THEN "off" ELSE "on") /\ UNCHANGED subs
     \/ /\ \E k \in Keys, v \in {"off", "bad", "good"} :
             subs[k] # v /\ subs' = [subs EXCEPT ![k] = v]
        /\ UNCHANGED channel
  /\ UNCHANGED <<tableVars, lockVars, at, item, tmpl, lk, tickerVars, faults>>

\* Only the tables survive the process.
Crash ==
  /\ faults < MaxFaults /\ faults' = faults + 1
  /\ lockOf' = [i \in RowIds |-> None]
  /\ refs' = [l \in Locks |-> 0]
  /\ held' = [l \in Locks |-> FALSE]
  /\ at' = [s \in Senders |-> "idle"]
  /\ item' = [s \in Senders |-> None]
  /\ lk' = [s \in Senders |-> None]
  /\ tmpl' = [s \in Senders |-> "good"]
  /\ batch' = {}
  /\ known' = [k \in Keys |-> "good"]
  /\ UNCHANGED <<tableVars, settingVars>>

-----------------------------------------------------------------------------

Dispatch(d) ==
  \/ ReadSubscription(d) \/ CheckRecent(d) \/ CheckActive(d) \/ Insert(d)

AttemptOne(s) ==
  \/ RenderFails(s) \/ AcquireItemLock(s) \/ TakeLock(s) \/ CheckRow(s)
  \/ Send(s) \/ RecordSuccess(s) \/ RecordFailure(s) \/ Unlock(s) \/ Release(s)

ProcessDue ==
  \/ ListDue \/ ReadSettings \/ ReadSubs \/ BatchDone
  \/ \E c \in batch : DiscardItem(c) \/ AttemptItem(c)

OutboxNext ==
  \/ \E d \in Dispatchers, k \in Keys : StartDispatch(d, k)
  \/ \E d \in Dispatchers : Dispatch(d)
  \/ \E s \in Senders : AttemptOne(s) \/ StatementFails(s)
  \/ ProcessDue
  \/ \E i \in RowIds : EntryDue(i) \/ PruneDropped(i)
  \/ \E k \in Keys : WindowPasses(k)
  \/ EditSettings
  \/ Crash

OutboxSpec == OutboxInit /\ [][OutboxNext]_outboxVars

(* Goroutines inside Dispatch and AttemptOne keep running (the driver has  *)
(* a timeout of 10 s), the ticker fires, and the wait of an entry ends.    *)
OutboxFairSpec ==
  /\ OutboxSpec
  /\ \A d \in Dispatchers : WF_outboxVars(Dispatch(d))
  /\ \A s \in Senders : WF_outboxVars(AttemptOne(s))
  /\ WF_outboxVars(ProcessDue)
  /\ \A i \in RowIds : WF_outboxVars(EntryDue(i))

-----------------------------------------------------------------------------
(* Properties *)

\* AttemptOne has looked up the item's lock and not given it back.
Locked(s) == at[s] \in {"wait", "check", "send", "sent", "unlock", "release"}

Inside(s) ==
  at[s] \in {"check", "send", "sent", "unlock"} \/ (at[s] = "refused" /\ lk[s] # None)

InAttempt(s) == Locked(s) \/ at[s] \in {"render", "refused"}

InDispatch(s) == at[s] \in {"subscription", "recent", "active", "insert"}

OutboxTyped ==
  /\ rows \in [RowIds -> Row \cup {None}]
  /\ recent \subseteq Keys
  /\ channel \in {"on", "off"}
  /\ subs \in [Keys -> {"off", "bad", "good"}]
  /\ idOf \in Seq(RowIds)
  /\ lockOf \in [RowIds -> Locks \cup {None}]
  /\ refs \in [Locks -> Nat]
  /\ held \in [Locks -> BOOLEAN]
  /\ at \in [Senders -> Steps]
  /\ item \in [Senders -> Item \cup {None}]
  /\ tmpl \in [Senders -> {"bad", "good"}]
  /\ lk \in [Senders -> Locks \cup {None}]
  /\ batch \subseteq Item
  /\ known \in [Keys -> {"off", "bad", "good"}]
  /\ recorded \subseteq Nat /\ discarded \subseteq Nat
  /\ faults \in Nat /\ edits \in Nat

\* Another message was stored later under the row id of message n.
Reused(n) == \E m \in DOMAIN idOf : m > n /\ idOf[m] = idOf[n]

\* At most fixedMaxAttempts attempts, then the entry is dropped: a row that
\* waits has failed less often, a dropped one exactly as often.
AttemptsBounded ==
  \A i \in RowIds : rows[i] # None =>
    IF Queued(i) THEN rows[i].attempt < MaxAttempts ELSE rows[i].attempt = MaxAttempts

\* The itemLock map excludes: no two goroutines are between the second look
\* at a row and the record of the outcome for the same row id, although
\* entries leave the map and come back under other lock objects.
SendersExcludeEachOther ==
  \A s, t \in Senders :
    s # t /\ Inside(s) /\ Inside(t) => item[s].id # item[t].id

\* A message whose success is recorded goes out again only when its row id
\* was given to another message in the meantime.
RecordedIsFinal ==
  \A s \in Senders :
    at[s] \in {"send", "sent"} /\ item[s].msg \in recorded => Reused(item[s].msg)

\* A stored message stays in the table until its success is recorded or it
\* is given up on purpose; only one stored under an id that had been used
\* before can get lost.
NothingIsLost ==
  \A m \in DOMAIN idOf :
    \/ \E i \in RowIds : rows[i] # None /\ rows[i].msg = m
    \/ m \in recorded \cup discarded
    \/ \E p \in DOMAIN idOf : p < m /\ idOf[p] = idOf[m]

\* What a queue of notifications promises at every moment, with two senders, a
\* crash anywhere and row ids that come back: bounded attempts, one sender per
\* row, nothing sent again after its record, nothing lost.
OutboxIsSound ==
  /\ AttemptsBounded
  /\ SendersExcludeEachOther
  /\ RecordedIsFinal
  /\ NothingIsLost

\* outbox_test.go: "expected no send after outbox row was removed".
RemovedIsNotSent ==
  \A s \in Senders : at[s] = "send" => item[s].msg \notin recorded

-----------------------------------------------------------------------------
(* The inductive invariant behind the safety properties, in named parts. *)

\* A row holds the newest of the messages that were stored under its id.
RowsNewest ==
  \A i \in RowIds : rows[i] # None =>
    /\ rows[i].msg \in DOMAIN idOf
    /\ idOf[rows[i].msg] = i
    /\ \A m \in DOMAIN idOf : idOf[m] = i => m <= rows[i].msg

\* A copy names the id its message was stored under, and was not the last
\* attempt.
CopyTrue(c) ==
  /\ c \in Item
  /\ c.id \in RowIds
  /\ c.msg \in DOMAIN idOf
  /\ idOf[c.msg] = c.id
  /\ c.attempt < MaxAttempts

CopiesTrue ==
  /\ \A c \in batch : CopyTrue(c)
  /\ \A s \in Senders :
       /\ InAttempt(s) => CopyTrue(item[s])
       /\ InDispatch(s) => item[s] \in Item /\ item[s].attempt = 0

\* A sender's lock is the one in the map for its row, and it has one exactly
\* in the part of AttemptOne that needs it.
LocksMapped ==
  \A s \in Senders :
    /\ Locked(s) => lk[s] # None
    /\ lk[s] # None => (Locked(s) \/ at[s] = "refused") /\ lockOf[item[s].id] = lk[s]

Users(l) == {s \in Senders : lk[s] = l}

\* refs counts the users, and an entry of the map has one.
LocksCounted ==
  /\ \A l \in Locks : refs[l] = Cardinality(Users(l))
  /\ \A i \in RowIds : lockOf[i] # None => \E s \in Senders : lk[s] = lockOf[i]

\* A lock object serves one id, and is held by at most one of its users.
LocksExclude ==
  /\ \A i, j \in RowIds : lockOf[i] # None /\ lockOf[i] = lockOf[j] => i = j
  /\ \A l \in Locks : held[l] <=> \E s \in Senders : lk[s] = l /\ Inside(s)
  /\ \A s, t \in Senders : Inside(s) /\ Inside(t) /\ lk[s] = lk[t] => s = t

\* A message whose success is recorded is in no row.
RecordedGone ==
  /\ recorded \subseteq DOMAIN idOf
  /\ \A i \in RowIds : rows[i] # None => rows[i].msg \notin recorded

OutboxInv ==
  /\ OutboxTyped
  /\ AttemptsBounded
  /\ RowsNewest
  /\ CopiesTrue
  /\ LocksMapped
  /\ LocksCounted
  /\ LocksExclude
  /\ RecordedGone
  /\ RecordedIsFinal
  /\ NothingIsLost

-----------------------------------------------------------------------------

\* If the channel stays enabled, every entry leaves the queue: sent, dropped
\* after its last attempt, or discarded.
QueueDrains ==
  (<>[](channel = "on")) => <>[](\A i \in RowIds : ~Queued(i))
=============================================================================
