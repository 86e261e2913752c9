---------------------------- MODULE RoutingCache ----------------------------
(***************************************************************************)
(* The versioned routing snapshot of internal/store/cache.go.              *)
(*                                                                         *)
(* Every component that changes a row the router looks at first commits    *)
(* to SQLite and then calls Invalidate, which only bumps the atomic dbVer. *)
(* Get serves the cached snapshot while its tag equals dbVer and reloads   *)
(* it otherwise, one query per table, under a mutex.  Nothing makes the    *)
(* queries of one load, or a commit and its Invalidate, atomic.            *)
(*                                                                         *)
(* Rows are abstracted to the number of commits a table has seen; 0 is the *)
(* empty part a failed query leaves in the snapshot.                       *)
(***************************************************************************)
EXTENDS Naturals, Sequences

CONSTANTS
  Readers,      \* goroutines that call Get (router, gateway, health checker)
  Writers,      \* goroutines that commit and then call Invalidate
  NTables,      \* queries loadFromDB makes, in this order (8 in the code)
  Nil,          \* the nil snapshot
  NoOne,        \* holder of a free mutex
  MaxVer,       \* bound on dbVer
  MaxCommits,   \* bound on the commits to one table
  MaxFails      \* bound on failing queries

Tables == 1 .. NTables

ASSUME NTablesAssumption == NTables \in Nat \ {0}
ASSUME NilAssumption     == Nil \notin [Tables -> Nat]
ASSUME NoOneAssumption   == NoOne \notin Readers
ASSUME BoundsAssumption  == MaxVer \in Nat /\ MaxCommits \in Nat /\ MaxFails \in Nat

VARIABLES
  db,        \* commits of each table that SQLite shows to a new query
  dbVer,     \* RoutingCache.dbVer
  version,   \* RoutingCache.version, the tag of the snapshot
  snapshot,  \* RoutingCache.snapshot
  mu,        \* reader that holds RoutingCache.mu for writing
  pending,   \* tables a writer committed to and has not announced yet
  pc,        \* where a reader is inside Get
  dbv,       \* local dbv of Get
  part,      \* the snapshot a reader is loading, then the one Get returned
  nxt,       \* next table loadFromDB queries
  fails,     \* queries that have failed so far
  start,     \* history: dbVer when the reader entered Get
  dbAt       \* history: dbAt[v] is the database when dbVer became v

cacheVars  == <<dbVer, version, snapshot, mu>>
writerVars == <<db, pending>>
readerVars == <<pc, dbv, part, nxt, fails, start>>
vars       == <<db, dbVer, version, snapshot, mu, pending, pc, dbv, part,
                nxt, fails, start, dbAt>>

PCs == {"idle", "fast", "lock", "recheck", "load", "publish", "done"}

Init ==
  /\ db = [t \in Tables |-> 1]
  /\ dbVer = 1                       \* "force initial load"
  /\ version = 0
  /\ snapshot = Nil
  /\ mu = NoOne
  /\ pending = [w \in Writers |-> {}]
  /\ pc = [r \in Readers |-> "idle"]
  /\ dbv = [r \in Readers |-> 0]
  /\ part = [r \in Readers |-> [t \in Tables |-> 0]]
  /\ nxt = [r \in Readers |-> 1]
  /\ fails = 0
  /\ start = [r \in Readers |-> 1]
  /\ dbAt = <<[t \in Tables |-> 1]>>

-----------------------------------------------------------------------------
(* Writers *)

Commit(w, t) ==
  /\ db[t] < MaxCommits
  /\ db' = [db EXCEPT ![t] = @ + 1]
  /\ pending' = [pending EXCEPT ![w] = @ \cup {t}]
  /\ UNCHANGED <<cacheVars, readerVars, dbAt>>

BumpVersion ==
  /\ dbVer < MaxVer
  /\ dbVer' = dbVer + 1
  /\ dbAt' = Append(dbAt, db)

\* The handler's trailing cache.Invalidate().
Invalidate(w) ==
  /\ pending[w] # {}
  /\ BumpVersion
  /\ pending' = [pending EXCEPT ![w] = {}]
  /\ UNCHANGED <<db, version, snapshot, mu, readerVars>>

\* A handler whose second write fails answers 500 and returns before its
\* Invalidate (createAccount: the account is committed, its pool row is not).
AbandonInvalidate(w) ==
  /\ pending[w] # {}
  /\ pending' = [pending EXCEPT ![w] = {}]
  /\ UNCHANGED <<db, cacheVars, readerVars, dbAt>>

\* Faulty variant: the round ends without Invalidate.
RoundInvalidate_Skipped ==
  /\ dbVer < MaxVer
  /\ UNCHANGED vars

\* The unconditional Invalidate that ends every round of the health checker.
RoundInvalidate ==
  /\ BumpVersion
  /\ UNCHANGED <<db, version, snapshot, mu, pending, readerVars>>

-----------------------------------------------------------------------------
(* Get *)

EnterGet(r) ==
  /\ pc[r] = "idle"
  /\ pc' = [pc EXCEPT ![r] = "fast"]
  /\ dbv' = [dbv EXCEPT ![r] = dbVer]
  /\ start' = [start EXCEPT ![r] = dbVer]
  /\ UNCHANGED <<cacheVars, writerVars, part, nxt, fails, dbAt>>

Hit(r) == version = dbv[r] /\ snapshot # Nil

\* The section under RLock.
FastPath(r) ==
  /\ pc[r] = "fast"
  /\ mu = NoOne
  /\ \/ /\ Hit(r)
        /\ part' = [part EXCEPT ![r] = snapshot]
        /\ pc' = [pc EXCEPT ![r] = "done"]
     \/ /\ ~Hit(r)
        /\ pc' = [pc EXCEPT ![r] = "lock"]
        /\ UNCHANGED part
  /\ UNCHANGED <<cacheVars, writerVars, dbv, nxt, fails, start, dbAt>>

\* Faulty variant: the reload is not serialised.
AcquireLock_Shared(r) ==
  /\ pc[r] = "lock"
  /\ mu' = r
  /\ pc' = [pc EXCEPT ![r] = "recheck"]
  /\ UNCHANGED <<dbVer, version, snapshot, writerVars, dbv, part, nxt, fails,
                 start, dbAt>>

AcquireLock(r) ==
  /\ pc[r] = "lock"
  /\ mu = NoOne
  /\ mu' = r
  /\ pc' = [pc EXCEPT ![r] = "recheck"]
  /\ UNCHANGED <<dbVer, version, snapshot, writerVars, dbv, part, nxt, fails,
                 start, dbAt>>

\* dbVer is read again under the lock, and before the first query.
Recheck(r) ==
  /\ pc[r] = "recheck"
  /\ dbv' = [dbv EXCEPT ![r] = dbVer]
  /\ \/ /\ version = dbVer /\ snapshot # Nil
        /\ part' = [part EXCEPT ![r] = snapshot]
        /\ mu' = NoOne
        /\ pc' = [pc EXCEPT ![r] = "done"]
        /\ UNCHANGED nxt
     \/ /\ ~(version = dbVer /\ snapshot # Nil)
        /\ part' = [part EXCEPT ![r] = [t \in Tables |-> 0]]
        /\ nxt' = [nxt EXCEPT ![r] = 1]
        /\ pc' = [pc EXCEPT ![r] = "load"]
        /\ UNCHANGED mu
  /\ UNCHANGED <<dbVer, version, snapshot, writerVars, fails, start, dbAt>>

AfterQuery(r) ==
  /\ nxt' = [nxt EXCEPT ![r] = @ + 1]
  /\ pc' = [pc EXCEPT ![r] = IF nxt[r] = NTables THEN "publish" ELSE "load"]

\* One query of loadFromDB: it sees every commit made so far.
LoadTable(r) ==
  /\ pc[r] = "load"
  /\ part' = [part EXCEPT ![r][nxt[r]] = db[nxt[r]]]
  /\ AfterQuery(r)
  /\ UNCHANGED <<cacheVars, writerVars, dbv, fails, start, dbAt>>

\* The query fails: loadFromDB goes on with the part left empty.
LoadTableFails(r) ==
  /\ pc[r] = "load"
  /\ fails < MaxFails
  /\ fails' = fails + 1
  /\ AfterQuery(r)
  /\ UNCHANGED <<cacheVars, writerVars, dbv, part, start, dbAt>>

\* Faulty variant: the tag is read after the load.
Publish_CurrentVersion(r) ==
  /\ pc[r] = "publish"
  /\ snapshot' = part[r]
  /\ version' = dbVer
  /\ mu' = NoOne
  /\ pc' = [pc EXCEPT ![r] = "done"]
  /\ UNCHANGED <<dbVer, writerVars, dbv, part, nxt, fails, start, dbAt>>

\* The snapshot gets the version read before the load, not the current one.
Publish(r) ==
  /\ pc[r] = "publish"
  /\ snapshot' = part[r]
  /\ version' = dbv[r]
  /\ mu' = NoOne
  /\ pc' = [pc EXCEPT ![r] = "done"]
  /\ UNCHANGED <<dbVer, writerVars, dbv, part, nxt, fails, start, dbAt>>

Leave(r) ==
  /\ pc[r] = "done"
  /\ pc' = [pc EXCEPT ![r] = "idle"]
  /\ UNCHANGED <<cacheVars, writerVars, dbv, part, nxt, fails, start, dbAt>>

Get(r) ==
  \/ EnterGet(r) \/ FastPath(r) \/ AcquireLock(r) \/ Recheck(r)
  \/ LoadTable(r) \/ LoadTableFails(r) \/ Publish(r) \/ Leave(r)

Next ==
  \/ \E w \in Writers, t \in Tables : Commit(w, t)
  \/ \E w \in Writers : Invalidate(w) \/ AbandonInvalidate(w)
  \/ RoundInvalidate
  \/ \E r \in Readers : Get(r)

Spec == Init /\ [][Next]_vars

(* Goroutines inside Get keep running; the health checker's ticker keeps   *)
(* firing, and each of its rounds calls Get as well.                       *)
FairSpec ==
  /\ Spec
  /\ \A r \in Readers : WF_vars(Get(r))
  /\ WF_vars(RoundInvalidate)

-----------------------------------------------------------------------------
(* Properties *)

TypeOK ==
  /\ db \in [Tables -> Nat]
  /\ dbVer \in Nat
  /\ version \in Nat
  /\ snapshot \in [Tables -> Nat] \cup {Nil}
  /\ mu \in Readers \cup {NoOne}
  /\ pending \in [Writers -> SUBSET Tables]
  /\ pc \in [Readers -> PCs]
  /\ dbv \in [Readers -> Nat]
  /\ part \in [Readers -> [Tables -> Nat]]
  /\ nxt \in [Readers -> Nat]
  /\ fails \in Nat
  /\ start \in [Readers -> Nat]
  /\ dbAt \in Seq([Tables -> Nat])

\* s holds, for every table, either an empty part or at least what was
\* committed when dbVer became v.
Covers(s, v) == \A t \in Tables : s[t] = 0 \/ s[t] >= dbAt[v][t]

\* No lost invalidation: what Get returns contains every commit announced by
\* an Invalidate that had finished when Get was called, whatever commits,
\* invalidations and other loads happen meanwhile.  Only a failed query
\* leaves a hole.
NoLostInvalidation ==
  \A r \in Readers : pc[r] = "done" => Covers(part[r], start[r])

\* A snapshot that is still served (its tag is the current dbVer) lags behind
\* SQLite only for a commit that has not been announced since: the writer is
\* between commit and Invalidate, or it returned without Invalidate.
LagsOnlyUnannounced ==
  (snapshot # Nil /\ version = dbVer) => Covers(snapshot, dbVer)

\* The reload is serialised by mu: at most one goroutine is between Lock and
\* Unlock, and it is the one that holds mu.
LoadersExclusive ==
  \A r \in Readers : pc[r] \in {"recheck", "load", "publish"} <=> mu = r

\* A slow loader never replaces a snapshot by an older one: tags only grow,
\* and with them every part whose query succeeded.
SnapshotNeverGoesBack ==
  [][ /\ version' >= version
      /\ snapshot # Nil =>
           /\ snapshot' # Nil
           /\ \A t \in Tables : snapshot'[t] = 0 \/ snapshot'[t] >= snapshot[t]
    ]_<<version, snapshot>>

-----------------------------------------------------------------------------
(* The inductive invariant behind the safety properties, in named parts. *)

HistoryOrdered ==
  /\ Len(dbAt) = dbVer /\ dbVer >= 1
  /\ \A v \in 1 .. dbVer, t \in Tables : dbAt[v][t] <= db[t]
  /\ \A u, v \in 1 .. dbVer, t \in Tables : u <= v => dbAt[u][t] <= dbAt[v][t]

SnapshotCovered ==
  /\ version <= dbVer
  /\ snapshot # Nil =>
       /\ version >= 1
       /\ Covers(snapshot, version)
       /\ \A t \in Tables : snapshot[t] <= db[t]

ReaderOrdered ==
  \A r \in Readers :
    /\ pc[r] # "idle" => 1 <= start[r] /\ start[r] <= dbv[r] /\ dbv[r] <= dbVer
    /\ pc[r] = "load" => nxt[r] \in Tables
    /\ pc[r] \in {"load", "publish", "done"} => Covers(part[r], dbv[r])

\* What the holder of mu has loaded is at least as new as what it replaces.
LoaderAhead ==
  \A r \in Readers : pc[r] \in {"load", "publish"} =>
    /\ version <= dbv[r]
    /\ \A t \in Tables : part[r][t] <= db[t]
    /\ snapshot # Nil => \A t \in Tables :
                           part[r][t] = 0 \/ part[r][t] >= snapshot[t]

IndInv ==
  /\ TypeOK
  /\ HistoryOrdered
  /\ SnapshotCovered
  /\ LoadersExclusive
  /\ ReaderOrdered
  /\ LoaderAhead

-----------------------------------------------------------------------------
\* Commits and failing queries have stopped and no handler is on its way to
\* Invalidate, but a health round is still to come.
Quiet ==
  /\ \A t \in Tables : db[t] = MaxCommits
  /\ fails = MaxFails
  /\ dbVer < MaxVer

\* Even a write whose Invalidate was skipped, or a load with a failed query,
\* is repaired by the next health round: in the end the snapshot is the
\* database.
RepairedByHealthRound == Quiet ~> (snapshot = db)
=============================================================================
