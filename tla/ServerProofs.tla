---------------------------- MODULE ServerProofs ----------------------------
(***************************************************************************)
(* Proofs about two components of the server that are shared by goroutines *)
(* and guarded by locks of their own: RoutingCache, for any readers,       *)
(* writers, tables and bounds, and Outbox, for any finite set of           *)
(* dispatchers, any keys, locks and bounds.                                *)
(***************************************************************************)
EXTENDS RoutingCache, Outbox, FiniteSetTheorems, TLAPS

-----------------------------------------------------------------------------
(* RoutingCache *)


(* The initial state satisfies the inductive invariant. *)
LEMMA InitIndInv == Init => IndInv
<1> SUFFICES ASSUME Init PROVE IndInv
  OBVIOUS
<1> USE NTablesAssumption, NilAssumption, NoOneAssumption DEF Tables
<1>1. TypeOK
  BY DEF Init, TypeOK, PCs
<1>2. HistoryOrdered
  BY DEF Init, HistoryOrdered
<1>3. SnapshotCovered
  BY DEF Init, SnapshotCovered
<1>4. LoadersExclusive
  BY DEF Init, LoadersExclusive
<1>5. ReaderOrdered /\ LoaderAhead
  BY DEF Init, ReaderOrdered, LoaderAhead
<1> QED
  BY <1>1, <1>2, <1>3, <1>4, <1>5 DEF IndInv

(* Every action of the cache preserves the types of the variables. *)
LEMMA TypeStep == TypeOK /\ [Next]_vars => TypeOK'
<1> SUFFICES ASSUME TypeOK, [Next]_vars PROVE TypeOK'
  OBVIOUS
<1> USE NTablesAssumption DEF TypeOK, PCs, cacheVars, writerVars, readerVars
<1>1. ASSUME NEW w \in Writers, NEW t \in Tables, Commit(w, t) PROVE TypeOK'
  BY <1>1 DEF Commit
<1>2. ASSUME NEW w \in Writers, Invalidate(w) PROVE TypeOK'
  BY <1>2 DEF Invalidate, BumpVersion
<1>3. ASSUME NEW w \in Writers, AbandonInvalidate(w) PROVE TypeOK'
  BY <1>3 DEF AbandonInvalidate
<1>4. CASE RoundInvalidate
  BY <1>4 DEF RoundInvalidate, BumpVersion
<1>5. ASSUME NEW r \in Readers, EnterGet(r) PROVE TypeOK'
  BY <1>5 DEF EnterGet
<1>6. ASSUME NEW r \in Readers, FastPath(r) PROVE TypeOK'
  BY <1>6 DEF FastPath, Hit
<1>7. ASSUME NEW r \in Readers, AcquireLock(r) PROVE TypeOK'
  BY <1>7 DEF AcquireLock
<1>8. ASSUME NEW r \in Readers, Recheck(r) PROVE TypeOK'
  <2>1. CASE version = dbVer /\ snapshot # Nil
    <3>1. snapshot \in [Tables -> Nat]
      BY <2>1
    <3>2. part' = [part EXCEPT ![r] = snapshot] /\ mu' = NoOne /\ nxt' = nxt
      BY <1>8, <2>1 DEF Recheck
    <3> QED
      BY <1>8, <3>1, <3>2 DEF Recheck
  <2>2. CASE ~(version = dbVer /\ snapshot # Nil)
    <3>1. /\ part' = [part EXCEPT ![r] = [t \in Tables |-> 0]] /\ mu' = mu
          /\ nxt' = [nxt EXCEPT ![r] = 1] /\ pc' = [pc EXCEPT ![r] = "load"]
      BY <1>8, <2>2 DEF Recheck
    <3>2. part' \in [Readers -> [Tables -> Nat]]
      BY <3>1
    <3> QED
      BY <1>8, <3>1, <3>2 DEF Recheck
  <2> QED
    BY <2>1, <2>2
<1>9. ASSUME NEW r \in Readers, LoadTable(r) PROVE TypeOK'
  <2>1. part' \in [Readers -> [Tables -> Nat]]
    BY <1>9 DEF LoadTable
  <2> QED
    BY <1>9, <2>1 DEF LoadTable, AfterQuery
<1>10. ASSUME NEW r \in Readers, LoadTableFails(r) PROVE TypeOK'
  BY <1>10 DEF LoadTableFails, AfterQuery
<1>11. ASSUME NEW r \in Readers, Publish(r) PROVE TypeOK'
  BY <1>11 DEF Publish
<1>12. ASSUME NEW r \in Readers, Leave(r) PROVE TypeOK'
  BY <1>12 DEF Leave
<1>13. CASE UNCHANGED vars
  BY <1>13 DEF vars
<1> QED
  BY <1>1, <1>2, <1>3, <1>4, <1>5, <1>6, <1>7, <1>8, <1>9, <1>10, <1>11,
     <1>12, <1>13 DEF Next, Get

(* Invalidate only extends the history: what dbVer meant before stays. *)
LEMMA BumpExtends ==
  ASSUME TypeOK, HistoryOrdered, BumpVersion
  PROVE  /\ dbVer' = dbVer + 1
         /\ Len(dbAt') = dbVer'
         /\ \A v \in 1 .. dbVer : dbAt'[v] = dbAt[v]
         /\ dbAt'[dbVer'] = db
BY DEF TypeOK, HistoryOrdered, BumpVersion

(* Every recorded database state is a database state. *)
LEMMA HistoryType ==
  ASSUME TypeOK, HistoryOrdered
  PROVE  \A v \in 1 .. dbVer : dbAt[v] \in [Tables -> Nat]
<1>1. dbAt \in Seq([Tables -> Nat]) /\ Len(dbAt) = dbVer
  BY DEF TypeOK, HistoryOrdered
<1> QED
  BY <1>1

(* An action that only bumps dbVer preserves the whole invariant. *)
LEMMA BumpStep ==
  ASSUME IndInv, TypeOK', BumpVersion,
         UNCHANGED <<db, version, snapshot, mu, readerVars>>
  PROVE  IndInv'
<1> USE DEF readerVars
<1>0. TypeOK /\ HistoryOrdered
  BY DEF IndInv
<1>1. /\ dbVer' = dbVer + 1
      /\ Len(dbAt') = dbVer'
      /\ \A v \in 1 .. dbVer : dbAt'[v] = dbAt[v]
      /\ dbAt'[dbVer'] = db
  BY <1>0, BumpExtends
<1>2. HistoryOrdered'
  <2>1. dbVer \in Nat /\ db \in [Tables -> Nat]
    BY <1>0 DEF TypeOK
  <2>2. \A v \in 1 .. dbVer', t \in Tables : dbAt'[v][t] <= db[t]
    BY <1>0, <1>1, <2>1 DEF HistoryOrdered
  <2>3. ASSUME NEW u \in 1 .. dbVer', NEW v \in 1 .. dbVer', NEW t \in Tables, u <= v
        PROVE  dbAt'[u][t] <= dbAt'[v][t]
    BY <1>0, <1>1, <2>1, <2>2, <2>3 DEF HistoryOrdered
  <2> QED
    BY <1>1, <2>1, <2>2, <2>3 DEF HistoryOrdered
<1>3. SnapshotCovered'
  <2>1. dbVer \in Nat /\ version \in Nat /\ version <= dbVer
    BY <1>0 DEF IndInv, TypeOK, SnapshotCovered
  <2>2. snapshot # Nil => version >= 1 /\ dbAt'[version] = dbAt[version]
    BY <1>1, <2>1 DEF IndInv, SnapshotCovered
  <2> QED
    BY <1>1, <2>1, <2>2 DEF IndInv, SnapshotCovered, Covers
<1>4. LoadersExclusive'
  BY DEF IndInv, LoadersExclusive
<1>5. ReaderOrdered'
  <2> SUFFICES ASSUME NEW r \in Readers
               PROVE  /\ pc[r] # "idle" => /\ 1 <= start[r] /\ start[r] <= dbv[r]
                                           /\ dbv[r] <= dbVer'
                      /\ pc[r] = "load" => nxt[r] \in Tables
                      /\ pc[r] \in {"load", "publish", "done"} =>
                           \A t \in Tables : part[r][t] = 0 \/ part[r][t] >= dbAt'[dbv[r]][t]
    BY DEF ReaderOrdered, Covers
  <2>1. dbVer \in Nat /\ dbv[r] \in Nat /\ start[r] \in Nat
    BY DEF IndInv, TypeOK
  <2>2. pc[r] # "idle" => 1 <= start[r] /\ start[r] <= dbv[r] /\ dbv[r] <= dbVer
    BY DEF IndInv, ReaderOrdered
  <2>3. pc[r] # "idle" => dbAt'[dbv[r]] = dbAt[dbv[r]]
    BY <1>1, <2>1, <2>2
  <2> QED
    BY <1>1, <2>1, <2>2, <2>3 DEF IndInv, ReaderOrdered, Covers
<1>6. LoaderAhead'
  BY DEF IndInv, LoaderAhead
<1> QED
  BY <1>2, <1>3, <1>4, <1>5, <1>6 DEF IndInv

(* A commit only makes the database newer than everything recorded. *)
LEMMA CommitStep ==
  ASSUME IndInv, TypeOK', NEW w \in Writers, NEW c \in Tables, Commit(w, c)
  PROVE  IndInv'
<1> USE DEF cacheVars, readerVars
<1>1. \A t \in Tables : db[t] \in Nat /\ db'[t] \in Nat /\ db[t] <= db'[t]
  BY DEF Commit, IndInv, TypeOK
<1>2. /\ UNCHANGED <<dbVer, version, snapshot, mu>>
      /\ UNCHANGED <<pc, dbv, part, nxt, fails, start, dbAt>>
  BY DEF Commit
<1>3. HistoryOrdered'
  <2>1. \A v \in 1 .. dbVer, t \in Tables : dbAt[v][t] \in Nat
    BY HistoryType DEF IndInv
  <2>2. ASSUME NEW v \in 1 .. dbVer, NEW t \in Tables PROVE dbAt[v][t] <= db'[t]
    <3>1. dbAt[v][t] <= db[t]
      BY DEF IndInv, HistoryOrdered
    <3> QED
      BY <1>1, <2>1, <3>1
  <2> QED
    BY <1>2, <2>2 DEF IndInv, HistoryOrdered
<1>4. SnapshotCovered'
  <2>1. snapshot # Nil => \A t \in Tables : snapshot[t] \in Nat
    BY DEF IndInv, TypeOK
  <2> QED
    BY <1>1, <1>2, <2>1 DEF IndInv, SnapshotCovered, Covers
<1>5. LoadersExclusive' /\ ReaderOrdered'
  BY <1>2 DEF IndInv, LoadersExclusive, ReaderOrdered, Covers
<1>6. LoaderAhead'
  <2>1. \A r \in Readers, t \in Tables : part[r][t] \in Nat
    BY DEF IndInv, TypeOK
  <2> QED
    BY <1>1, <1>2, <2>1 DEF IndInv, LoaderAhead
<1> QED
  BY <1>3, <1>4, <1>5, <1>6 DEF IndInv

(* The steps of Get: each reader action preserves the invariant. *)
LEMMA GetStep ==
  ASSUME IndInv, TypeOK', NEW r \in Readers, Get(r)
  PROVE  IndInv'
<1> USE DEF cacheVars, writerVars
<1>0. /\ TypeOK /\ HistoryOrdered /\ SnapshotCovered /\ LoadersExclusive
      /\ ReaderOrdered /\ LoaderAhead
  BY DEF IndInv
<1>a. /\ dbVer \in Nat /\ version \in Nat /\ dbVer >= 1 /\ version <= dbVer
      /\ pc \in [Readers -> PCs] /\ dbv \in [Readers -> Nat]
      /\ start \in [Readers -> Nat] /\ nxt \in [Readers -> Nat]
      /\ part \in [Readers -> [Tables -> Nat]] /\ db \in [Tables -> Nat]
  BY <1>0 DEF TypeOK, HistoryOrdered, SnapshotCovered
<1>b. \A v \in 1 .. dbVer : dbAt[v] \in [Tables -> Nat]
  BY <1>0, HistoryType
<1>c. /\ UNCHANGED <<db, dbVer, dbAt>>
      /\ HistoryOrdered'
  <2>1. UNCHANGED <<db, dbVer, dbAt>>
    BY DEF Get, EnterGet, FastPath, AcquireLock, Recheck, LoadTable,
           LoadTableFails, Publish, Leave
  <2> QED
    BY <1>0, <2>1 DEF HistoryOrdered
<1>1. CASE EnterGet(r)
  <2>1. SnapshotCovered' /\ LoadersExclusive' /\ LoaderAhead'
    BY <1>0, <1>1, <1>a DEF EnterGet, SnapshotCovered, LoadersExclusive, LoaderAhead, Covers
  <2>2. ReaderOrdered'
    BY <1>0, <1>1, <1>a DEF EnterGet, ReaderOrdered, Covers
  <2> QED
    BY <1>c, <2>1, <2>2 DEF IndInv
<1>2. CASE FastPath(r)
  <2>1. SnapshotCovered' /\ LoadersExclusive'
    BY <1>0, <1>2, <1>a, NoOneAssumption
       DEF FastPath, SnapshotCovered, LoadersExclusive, Covers
  <2>2. ReaderOrdered'
    BY <1>0, <1>2, <1>a DEF FastPath, Hit, ReaderOrdered, SnapshotCovered, Covers
  <2>3. LoaderAhead'
    BY <1>0, <1>2, <1>a DEF FastPath, LoaderAhead
  <2> QED
    BY <1>c, <2>1, <2>2, <2>3 DEF IndInv
<1>3. CASE AcquireLock(r)
  <2>1. SnapshotCovered' /\ LoaderAhead' /\ ReaderOrdered'
    BY <1>0, <1>3, <1>a DEF AcquireLock, SnapshotCovered, LoaderAhead, ReaderOrdered, Covers
  <2>2. LoadersExclusive'
    BY <1>0, <1>3, <1>a, NoOneAssumption DEF AcquireLock, LoadersExclusive
  <2> QED
    BY <1>c, <2>1, <2>2 DEF IndInv
<1>4. CASE Recheck(r)
  <2>1. SnapshotCovered'
    BY <1>0, <1>4 DEF Recheck, SnapshotCovered, Covers
  <2>2. LoadersExclusive'
    BY <1>0, <1>4, <1>a, NoOneAssumption DEF Recheck, LoadersExclusive
  <2>3. CASE version = dbVer /\ snapshot # Nil
    <3>1. /\ part' = [part EXCEPT ![r] = snapshot]
          /\ pc' = [pc EXCEPT ![r] = "done"]
          /\ dbv' = [dbv EXCEPT ![r] = dbVer]
          /\ UNCHANGED <<nxt, start, version, snapshot>>
      BY <1>4, <2>3 DEF Recheck
    <3>2. ReaderOrdered'
      BY <1>0, <1>4, <1>a, <1>c, <2>3, <3>1 DEF Recheck, ReaderOrdered, SnapshotCovered, Covers
    <3>3. LoaderAhead'
      BY <1>0, <1>a, <1>c, <3>1 DEF LoaderAhead
    <3> QED
      BY <1>c, <2>1, <2>2, <3>2, <3>3 DEF IndInv
  <2>4. CASE ~(version = dbVer /\ snapshot # Nil)
    <3>1. /\ part' = [part EXCEPT ![r] = [t \in Tables |-> 0]]
          /\ pc' = [pc EXCEPT ![r] = "load"]
          /\ nxt' = [nxt EXCEPT ![r] = 1]
          /\ dbv' = [dbv EXCEPT ![r] = dbVer]
          /\ UNCHANGED <<start, version, snapshot>>
      BY <1>4, <2>4 DEF Recheck
    <3>2. 1 \in Tables
      BY NTablesAssumption DEF Tables
    <3>3. ReaderOrdered'
      BY <1>0, <1>4, <1>a, <1>c, <3>1, <3>2 DEF Recheck, ReaderOrdered, Covers
    <3>4. LoaderAhead'
      BY <1>0, <1>a, <1>c, <3>1 DEF LoaderAhead
    <3> QED
      BY <1>c, <2>1, <2>2, <3>3, <3>4 DEF IndInv
  <2> QED
    BY <2>3, <2>4
<1>5. CASE LoadTable(r)
  <2>1. SnapshotCovered' /\ LoadersExclusive'
    BY <1>0, <1>5, <1>a DEF LoadTable, AfterQuery, SnapshotCovered, LoadersExclusive, Covers
  <2>2. /\ part' = [part EXCEPT ![r][nxt[r]] = db[nxt[r]]]
        /\ nxt' = [nxt EXCEPT ![r] = @ + 1]
        /\ pc[r] = "load" /\ nxt[r] \in Tables
        /\ pc' = [pc EXCEPT ![r] = IF nxt[r] = NTables THEN "publish" ELSE "load"]
        /\ UNCHANGED <<dbv, start, version, snapshot, mu>>
    BY <1>0, <1>5 DEF LoadTable, AfterQuery, ReaderOrdered
  <2>3. nxt[r] # NTables => nxt[r] + 1 \in Tables
    BY <2>2, NTablesAssumption DEF Tables
  <2>4. dbv[r] \in 1 .. dbVer
    BY <1>0, <1>a, <2>2 DEF ReaderOrdered
  <2>5. \A t \in Tables : part'[r][t] = IF t = nxt[r] THEN db[t] ELSE part[r][t]
    BY <1>a, <2>2
  <2>6. \A s \in Readers \ {r} : part'[s] = part[s] /\ pc'[s] = pc[s] /\ nxt'[s] = nxt[s]
    BY <1>a, <2>2
  <2>7. Covers(part'[r], dbv[r])
    BY <1>0, <2>2, <2>4, <2>5 DEF ReaderOrdered, HistoryOrdered, Covers
  <2>8. ReaderOrdered'
    BY <1>0, <1>a, <1>c, <2>2, <2>3, <2>6, <2>7 DEF ReaderOrdered, Covers
  <2>9. LoaderAhead'
    <3>1. \A t \in Tables : part'[r][t] <= db[t]
      BY <1>0, <1>a, <2>2, <2>5 DEF LoaderAhead
    <3>2. snapshot # Nil => \A t \in Tables : part'[r][t] = 0 \/ part'[r][t] >= snapshot[t]
      BY <1>0, <2>2, <2>5 DEF LoaderAhead, SnapshotCovered, TypeOK
    <3> QED
      BY <1>0, <1>c, <2>2, <2>6, <3>1, <3>2 DEF LoaderAhead
  <2> QED
    BY <1>c, <2>1, <2>8, <2>9 DEF IndInv
<1>6. CASE LoadTableFails(r)
  <2>1. SnapshotCovered' /\ LoadersExclusive' /\ LoaderAhead'
    BY <1>0, <1>6, <1>a
       DEF LoadTableFails, AfterQuery, SnapshotCovered, LoadersExclusive, LoaderAhead, Covers
  <2>2. nxt[r] \in Tables /\ (nxt[r] # NTables => nxt[r] + 1 \in Tables)
    BY <1>0, <1>6, NTablesAssumption DEF LoadTableFails, ReaderOrdered, Tables
  <2>3. ReaderOrdered'
    BY <1>0, <1>6, <1>a, <2>2 DEF LoadTableFails, AfterQuery, ReaderOrdered, Covers
  <2> QED
    BY <1>c, <2>1, <2>3 DEF IndInv
<1>7. CASE Publish(r)
  <2>1. SnapshotCovered'
    BY <1>0, <1>7, <1>a DEF Publish, SnapshotCovered, ReaderOrdered, LoaderAhead, Covers
  <2>2. LoadersExclusive'
    BY <1>0, <1>7, <1>a, NoOneAssumption DEF Publish, LoadersExclusive
  <2>3. ReaderOrdered'
    BY <1>0, <1>7, <1>a DEF Publish, ReaderOrdered, Covers
  <2>4. LoaderAhead'
    <3>1. \A s \in Readers : pc'[s] \notin {"load", "publish"}
      BY <1>0, <1>7, <1>a DEF Publish, LoadersExclusive
    <3> QED
      BY <3>1 DEF LoaderAhead
  <2> QED
    BY <1>c, <2>1, <2>2, <2>3, <2>4 DEF IndInv
<1>8. CASE Leave(r)
  <2>1. SnapshotCovered' /\ LoadersExclusive' /\ LoaderAhead' /\ ReaderOrdered'
    BY <1>0, <1>8, <1>a
       DEF Leave, SnapshotCovered, LoadersExclusive, LoaderAhead, ReaderOrdered, Covers
  <2> QED
    BY <1>c, <2>1 DEF IndInv
<1> QED
  BY <1>1, <1>2, <1>3, <1>4, <1>5, <1>6, <1>7, <1>8 DEF Get

(* Every step of the cache preserves the inductive invariant. *)
LEMMA IndInvStep == IndInv /\ [Next]_vars => IndInv'
<1> SUFFICES ASSUME IndInv, [Next]_vars PROVE IndInv'
  OBVIOUS
<1>0. TypeOK'
  BY TypeStep DEF IndInv
<1>1. ASSUME NEW w \in Writers, NEW t \in Tables, Commit(w, t) PROVE IndInv'
  BY <1>0, <1>1, CommitStep
<1>2. ASSUME NEW w \in Writers, Invalidate(w) PROVE IndInv'
  BY <1>0, <1>2, BumpStep DEF Invalidate
<1>3. ASSUME NEW w \in Writers, AbandonInvalidate(w) PROVE IndInv'
  BY <1>0, <1>3 DEF AbandonInvalidate, cacheVars, readerVars, IndInv, HistoryOrdered,
     SnapshotCovered, LoadersExclusive, ReaderOrdered, LoaderAhead, Covers
<1>4. CASE RoundInvalidate
  BY <1>0, <1>4, BumpStep DEF RoundInvalidate
<1>5. ASSUME NEW r \in Readers, Get(r) PROVE IndInv'
  BY <1>0, <1>5, GetStep
<1>6. CASE UNCHANGED vars
  BY <1>0, <1>6 DEF vars, IndInv, HistoryOrdered, SnapshotCovered,
     LoadersExclusive, ReaderOrdered, LoaderAhead, Covers
<1> QED
  BY <1>1, <1>2, <1>3, <1>4, <1>5, <1>6 DEF Next

(* The inductive invariant holds in every reachable state of the cache. *)
THEOREM IndInvHolds == Spec => []IndInv
<1> QED
  BY InitIndInv, IndInvStep, PTL DEF Spec

(* The variables of the cache always have their types. *)
THEOREM TypeCorrect == Spec => []TypeOK
<1>1. IndInv => TypeOK
  BY DEF IndInv
<1> QED
  BY <1>1, IndInvHolds, PTL

(* What Get returns covers every commit whose Invalidate had finished when *)
(* Get was called: the second read of dbVer is made before the load, so a  *)
(* snapshot is never tagged newer than what it holds.                      *)
THEOREM NoLostInvalidationHolds == Spec => []NoLostInvalidation
<1>1. IndInv => NoLostInvalidation
  <2> SUFFICES ASSUME IndInv, NEW r \in Readers, pc[r] = "done", NEW t \in Tables
               PROVE  part[r][t] = 0 \/ part[r][t] >= dbAt[start[r]][t]
    BY DEF NoLostInvalidation, Covers
  <2>1. /\ start[r] \in Nat /\ dbv[r] \in Nat /\ dbVer \in Nat
        /\ part[r][t] \in Nat
    BY DEF IndInv, TypeOK
  <2>2. /\ 1 <= start[r] /\ start[r] <= dbv[r] /\ dbv[r] <= dbVer
        /\ part[r][t] = 0 \/ part[r][t] >= dbAt[dbv[r]][t]
    BY DEF IndInv, ReaderOrdered, Covers
  <2>3. start[r] \in 1 .. dbVer /\ dbv[r] \in 1 .. dbVer
    BY <2>1, <2>2
  <2>4. dbAt[start[r]][t] \in Nat /\ dbAt[dbv[r]][t] \in Nat
    BY <2>3, HistoryType DEF IndInv
  <2>5. dbAt[start[r]][t] <= dbAt[dbv[r]][t]
    BY <2>2, <2>3 DEF IndInv, HistoryOrdered
  <2> QED
    BY <2>1, <2>2, <2>4, <2>5
<1> QED
  BY <1>1, IndInvHolds, PTL

(* A snapshot that is still served lags behind SQLite only for commits     *)
(* that nobody has announced since.                                        *)
THEOREM LagsOnlyUnannouncedHolds == Spec => []LagsOnlyUnannounced
<1>1. IndInv => LagsOnlyUnannounced
  BY DEF IndInv, SnapshotCovered, LagsOnlyUnannounced
<1> QED
  BY <1>1, IndInvHolds, PTL

(* The mutex serialises the reloads. *)
THEOREM LoadersExclusiveHolds == Spec => []LoadersExclusive
<1>1. IndInv => LoadersExclusive
  BY DEF IndInv
<1> QED
  BY <1>1, IndInvHolds, PTL

(* A slow load never replaces a snapshot by an older one. *)
THEOREM SnapshotNeverGoesBackHolds == Spec => SnapshotNeverGoesBack
<1> DEFINE Forward ==
      /\ version' >= version
      /\ snapshot # Nil =>
           /\ snapshot' # Nil
           /\ \A t \in Tables : snapshot'[t] = 0 \/ snapshot'[t] >= snapshot[t]
<1>1. IndInv /\ [Next]_vars => [Forward]_<<version, snapshot>>
  <2> SUFFICES ASSUME IndInv, [Next]_vars,
                      ~ UNCHANGED <<version, snapshot>>
               PROVE  Forward
    OBVIOUS
  <2>1. \E r \in Readers : Publish(r)
    BY DEF Next, vars, Commit, Invalidate, AbandonInvalidate, RoundInvalidate, Get,
       EnterGet, FastPath, AcquireLock, Recheck, LoadTable, LoadTableFails, Leave,
       cacheVars
  <2>2. PICK r \in Readers : Publish(r)
    BY <2>1
  <2>3. snapshot' = part[r] /\ version' = dbv[r] /\ pc[r] = "publish"
    BY <2>2 DEF Publish
  <2>4. part[r] \in [Tables -> Nat] /\ dbv[r] \in Nat /\ version \in Nat
    BY DEF IndInv, TypeOK
  <2>5. /\ version <= dbv[r]
        /\ snapshot # Nil => \A t \in Tables :
                               part[r][t] = 0 \/ part[r][t] >= snapshot[t]
    BY <2>3 DEF IndInv, LoaderAhead
  <2> QED
    BY <2>3, <2>4, <2>5, NilAssumption
<1> QED
  BY <1>1, IndInvHolds, PTL DEF Spec, SnapshotNeverGoesBack

-----------------------------------------------------------------------------
(* Outbox *)

(* What a returning sender leaves behind has its type. *)
LEMMA ReturnTyped ==
  ASSUME OutboxTyped, NEW s \in Senders, Return(s)
  PROVE  /\ at' \in [Senders -> Steps]
         /\ item' \in [Senders -> Item \cup {None}]
         /\ tmpl' \in [Senders -> {"bad", "good"}]
  BY DEF OutboxTyped, Return, GoTo, Home, Steps

\* A step to a step keeps the type of at.
LEMMA GoToTyped ==
  ASSUME OutboxTyped, NEW s \in Senders, NEW l \in Steps, GoTo(s, l)
  PROVE  at' \in [Senders -> Steps]
  BY DEF OutboxTyped, GoTo

(* The copy of a row is one. *)
LEMMA CopyTyped ==
  ASSUME OutboxTyped, NEW i \in RowIds, Queued(i)
  PROVE  /\ Copy(i) \in Item
         /\ rows[i] \in Row
         /\ rows[i].key \in Keys /\ rows[i].attempt \in Nat /\ rows[i].msg \in Nat
         /\ rows[i].status \in {"pending", "retrying", "dropped"}
<1>1. rows[i] \in Row /\ i \in Nat
  BY OutboxBoundsAssumption DEF OutboxTyped, Queued, RowIds
<1> QED
  BY <1>1 DEF Copy, Item, Row

\* There are finitely many senders.
LEMMA SendersFinite == IsFiniteSet(Senders)
<1>1. IsFiniteSet(Dispatchers) /\ IsFiniteSet({Ticker})
  BY SendersAssumption, FS_Singleton
<1> QED
  BY <1>1, FS_Union DEF Senders

(* The users of a lock are counted: one at least while somebody has it, and *)
(* no other exactly when it is one.                                         *)
LEMMA UsersCounted ==
  ASSUME OutboxTyped, LocksCounted, NEW s \in Senders, lk[s] \in Locks
  PROVE  /\ refs[lk[s]] \in Nat \ {0}
         /\ refs[lk[s]] = 1 <=> Users(lk[s]) = {s}
<1>1. s \in Users(lk[s]) /\ IsFiniteSet(Users(lk[s]))
  BY SendersFinite, FS_Subset DEF Users
<1>2. /\ IsFiniteSet(Users(lk[s]) \ {s})
      /\ Cardinality(Users(lk[s]) \ {s}) = Cardinality(Users(lk[s])) - 1
  BY <1>1, FS_RemoveElement
<1>3. refs[lk[s]] = Cardinality(Users(lk[s])) /\ refs[lk[s]] \in Nat
  BY DEF LocksCounted, OutboxTyped
<1>4. Cardinality(Users(lk[s]) \ {s}) \in Nat
  BY <1>2, FS_CardinalityType
<1>5. refs[lk[s]] = 1 <=> Users(lk[s]) \ {s} = {}
  BY <1>2, <1>3, FS_EmptySet
<1> QED
  BY <1>1, <1>2, <1>3, <1>4, <1>5

(* Every action of the outbox preserves the types of the variables. *)
LEMMA OutboxTypeStep == OutboxInv /\ [OutboxNext]_outboxVars => OutboxTyped'
<1> SUFFICES ASSUME OutboxInv, [OutboxNext]_outboxVars PROVE OutboxTyped'
  OBVIOUS
<1>0. OutboxTyped /\ CopiesTrue /\ Ticker \in Senders /\ Dispatchers \subseteq Senders
  BY DEF OutboxInv, Senders
<1> USE <1>0 DEF tableVars, settingVars, lockVars, tickerVars
<1> DEFINE Control == /\ at' \in [Senders -> Steps]
                      /\ item' \in [Senders -> Item \cup {None}]
                      /\ tmpl' \in [Senders -> {"bad", "good"}]
<1>a. ASSUME NEW s \in Senders, NEW l \in Steps, Advance(s, l) PROVE Control
  BY <1>a, GoToTyped DEF Advance, OutboxTyped
<1>1. ASSUME NEW d \in Dispatchers, NEW k \in Keys, StartDispatch(d, k) PROVE OutboxTyped'
  <2>1. [id |-> 0, key |-> k, attempt |-> 0, msg |-> 0] \in Item
    BY DEF Item
  <2>2. at' \in [Senders -> Steps]
    BY <1>1, GoToTyped DEF StartDispatch, Steps
  <2> QED
    BY <1>1, <2>1, <2>2 DEF StartDispatch, OutboxTyped
<1>2. ASSUME NEW d \in Dispatchers, ReadSubscription(d) PROVE OutboxTyped'
  <2>1. Control
    <3>1. CASE subs[item[d].key] = "off"
      BY <1>2, <3>1, ReturnTyped DEF ReadSubscription
    <3>2. CASE subs[item[d].key] # "off"
      <4>1. item[d].key \in Keys
        BY <1>2 DEF ReadSubscription, CopiesTrue, InDispatch, Item
      <4>2. subs[item[d].key] \in {"bad", "good"}
        BY <3>2, <4>1 DEF OutboxTyped
      <4>3. at' \in [Senders -> Steps]
        BY <1>2, <3>2, GoToTyped DEF ReadSubscription, Steps
      <4> QED
        BY <1>2, <3>2, <4>2, <4>3 DEF ReadSubscription, OutboxTyped
    <3> QED
      BY <3>1, <3>2
  <2> QED
    BY <1>2, <2>1 DEF ReadSubscription, OutboxTyped
<1>3. ASSUME NEW d \in Dispatchers, CheckRecent(d) PROVE OutboxTyped'
  <2>1. Control
    BY <1>3, <1>a, ReturnTyped DEF CheckRecent, Steps
  <2> QED
    BY <1>3, <2>1 DEF CheckRecent, OutboxTyped
<1>4. ASSUME NEW d \in Dispatchers, CheckActive(d) PROVE OutboxTyped'
  <2>1. Control
    BY <1>4, <1>a, ReturnTyped DEF CheckActive, Steps
  <2> QED
    BY <1>4, <2>1 DEF CheckActive, OutboxTyped
<1>5. ASSUME NEW d \in Dispatchers, Insert(d) PROVE OutboxTyped'
  <2>1. CASE Return(d) /\ UNCHANGED <<rows, idOf>>
    <3>1. Control
      BY <2>1, ReturnTyped
    <3> QED
      BY <1>5, <2>1, <3>1 DEF Insert, OutboxTyped
  <2>2. ASSUME NEW i \in RowIds, Stored(d, i), GoTo(d, "render"), tmpl' = tmpl
        PROVE  OutboxTyped'
    <3>1. item[d] \in Item
      BY <1>5 DEF Insert, CopiesTrue, InDispatch
    <3>2. Len(idOf) + 1 \in Nat /\ i \in Nat
      BY DEF OutboxTyped, RowIds
    <3>3. [msg |-> Len(idOf) + 1, key |-> item[d].key, status |-> "pending",
           attempt |-> 0, due |-> TRUE] \in Row
      BY <3>1, <3>2 DEF Item, Row
    <3>4. rows' \in [RowIds -> Row \cup {None}]
      BY <2>2, <3>3 DEF Stored, OutboxTyped
    <3>5. idOf' \in Seq(RowIds)
      BY <2>2 DEF Stored, OutboxTyped
    <3>6. [item[d] EXCEPT !.id = i, !.msg = Len(idOf) + 1] \in Item
      BY <3>1, <3>2 DEF Item
    <3>7. item' \in [Senders -> Item \cup {None}]
      BY <2>2, <3>6 DEF Stored, OutboxTyped
    <3>8. at' \in [Senders -> Steps]
      BY <2>2, GoToTyped DEF Steps
    <3> QED
      BY <1>5, <2>2, <3>4, <3>5, <3>7, <3>8 DEF Insert, OutboxTyped
  <2> QED
    BY <1>5, <2>1, <2>2 DEF Insert
<1>6. ASSUME NEW s \in Senders, RenderFails(s) PROVE OutboxTyped'
  <2>1. at' \in [Senders -> Steps]
    BY <1>6, GoToTyped DEF RenderFails, Steps
  <2> QED
    BY <1>6, <2>1 DEF RenderFails, OutboxTyped
<1>7. ASSUME NEW s \in Senders, AcquireItemLock(s) PROVE OutboxTyped'
  <2>1. at' \in [Senders -> Steps]
    BY <1>7, GoToTyped DEF AcquireItemLock, Steps
  <2>2. PICK l \in Locks : /\ lockOf' = [lockOf EXCEPT ![item[s].id] = l]
                          /\ refs' = [refs EXCEPT ![l] = @ + 1]
                          /\ lk' = [lk EXCEPT ![s] = l]
    BY <1>7 DEF AcquireItemLock
  <2>3. lockOf' \in [RowIds -> Locks \cup {None}]
    BY <2>2 DEF OutboxTyped
  <2>4. refs' \in [Locks -> Nat] /\ lk' \in [Senders -> Locks \cup {None}]
    BY <2>2 DEF OutboxTyped
  <2> QED
    BY <1>7, <2>1, <2>3, <2>4 DEF AcquireItemLock, OutboxTyped
<1>8. ASSUME NEW s \in Senders, TakeLock(s) PROVE OutboxTyped'
  <2>1. at' \in [Senders -> Steps]
    BY <1>8, GoToTyped DEF TakeLock, Steps
  <2>2. held' \in [Locks -> BOOLEAN]
    BY <1>8 DEF TakeLock, OutboxTyped
  <2> QED
    BY <1>8, <2>1, <2>2 DEF TakeLock, OutboxTyped
<1>9. ASSUME NEW s \in Senders, CheckRow(s) PROVE OutboxTyped'
  <2>1. at' \in [Senders -> Steps]
    BY <1>9, GoToTyped DEF CheckRow, Steps
  <2>2. item' \in [Senders -> Item \cup {None}]
    <3>1. CASE Queued(item[s].id)
      <4>1. item[s] \in Item /\ item[s].id \in RowIds /\ item[s].msg \in Nat
        BY <1>9 DEF CheckRow, CopiesTrue, InAttempt, Locked, CopyTrue, Item
      <4>2. [Copy(item[s].id) EXCEPT !.msg = item[s].msg] \in Item
        BY <3>1, <4>1, CopyTyped DEF Item
      <4> QED
        BY <1>9, <3>1, <4>2 DEF CheckRow, OutboxTyped
    <3>2. CASE ~Queued(item[s].id)
      BY <1>9, <3>2 DEF CheckRow, OutboxTyped
    <3> QED
      BY <3>1, <3>2
  <2> QED
    BY <1>9, <2>1, <2>2 DEF CheckRow, OutboxTyped
<1>10. ASSUME NEW s \in Senders, Send(s) PROVE OutboxTyped'
  <2>1. at' \in [Senders -> Steps]
    BY <1>10, GoToTyped DEF Send, Steps
  <2> QED
    BY <1>10, <2>1 DEF Send, OutboxTyped
<1>11. ASSUME NEW s \in Senders, RecordSuccess(s) PROVE OutboxTyped'
  <2>1. at' \in [Senders -> Steps]
    BY <1>11, GoToTyped DEF RecordSuccess, Steps
  <2>2. item[s].key \in Keys /\ item[s].msg \in Nat
    BY <1>11 DEF RecordSuccess, CopiesTrue, InAttempt, Locked, CopyTrue, Item
  <2>3. rows' \in [RowIds -> Row \cup {None}] /\ recent' \subseteq Keys /\ recorded' \subseteq Nat
    BY <1>11, <2>2 DEF RecordSuccess, OutboxTyped
  <2> QED
    BY <1>11, <2>1, <2>3 DEF RecordSuccess, OutboxTyped
<1>12. ASSUME NEW s \in Senders, RecordFailure(s) PROVE OutboxTyped'
  <2>1. Control
    BY <1>12, <1>a, ReturnTyped DEF RecordFailure, Steps
  <2>2. item[s].key \in Keys /\ item[s].id \in RowIds /\ item[s].attempt + 1 \in Nat
    BY <1>12 DEF RecordFailure, CopiesTrue, InAttempt, CopyTrue, Item
  <2>3. ASSUME NEW r \in Row PROVE AfterFailure(r, item[s].attempt + 1) \in Row
    BY <2>2 DEF AfterFailure, Row
  <2>4. rows' \in [RowIds -> Row \cup {None}]
    <3> DEFINE i == item[s].id
               late == AfterFailure(rows[i], item[s].attempt + 1)
    <3>1. \/ rows' = rows
          \/ rows[i] # None /\ rows' = [rows EXCEPT ![i] = late]
      BY <1>12 DEF RecordFailure
    <3>2. i \in RowIds /\ rows \in [RowIds -> Row \cup {None}]
      BY <2>2 DEF OutboxTyped
    <3>3. rows[i] # None => late \in Row
      BY <2>3, <3>2
    <3> HIDE DEF i, late
    <3> QED
      BY <3>1, <3>2, <3>3
  <2>5. recent' \subseteq Keys
    BY <1>12, <2>2 DEF RecordFailure, OutboxTyped
  <2> QED
    BY <1>12, <2>1, <2>4, <2>5 DEF RecordFailure, OutboxTyped
<1>13. ASSUME NEW s \in Senders, Unlock(s) PROVE OutboxTyped'
  <2>1. at' \in [Senders -> Steps]
    BY <1>13, GoToTyped DEF Unlock, Steps
  <2>2. held' \in [Locks -> BOOLEAN]
    BY <1>13 DEF Unlock, OutboxTyped
  <2> QED
    BY <1>13, <2>1, <2>2 DEF Unlock, OutboxTyped
<1>14. ASSUME NEW s \in Senders, Release(s) PROVE OutboxTyped'
  <2>1. Control
    BY <1>14, ReturnTyped DEF Release
  <2>2. lk[s] \in Locks /\ refs[lk[s]] - 1 \in Nat
    <3>1. lk[s] \in Locks
      BY <1>14 DEF Release, OutboxInv, LocksMapped, Locked, OutboxTyped
    <3> QED
      BY <3>1, UsersCounted DEF OutboxInv
  <2>3. refs' \in [Locks -> Nat]
    BY <1>14, <2>2 DEF Release, OutboxTyped
  <2>4. lockOf' \in [RowIds -> Locks \cup {None}]
    BY <1>14 DEF Release, OutboxTyped
  <2>5. lk' \in [Senders -> Locks \cup {None}]
    BY <1>14 DEF Release, OutboxTyped
  <2> QED
    BY <1>14, <2>1, <2>3, <2>4, <2>5 DEF Release, OutboxTyped
<1>15. ASSUME NEW s \in Senders, StatementFails(s) PROVE OutboxTyped'
  <2>1. Control
    BY <1>15, <1>a, ReturnTyped DEF StatementFails, Steps, OutboxTyped
  <2>2. batch' \subseteq Item /\ faults' \in Nat
    BY <1>15 DEF StatementFails, OutboxTyped
  <2> QED
    BY <1>15, <2>1, <2>2 DEF StatementFails, OutboxTyped
<1>16. CASE ListDue
  <2>1. at' \in [Senders -> Steps]
    BY <1>16, GoToTyped DEF ListDue, Steps
  <2>2. batch' \subseteq Item
    BY <1>16, CopyTyped DEF ListDue
  <2> QED
    BY <1>16, <2>1, <2>2 DEF ListDue, OutboxTyped
<1>17. CASE ReadSettings
  <2>1. at' \in [Senders -> Steps]
    BY <1>17, GoToTyped DEF ReadSettings, Steps
  <2> QED
    BY <1>17, <2>1 DEF ReadSettings, OutboxTyped
<1>18. CASE ReadSubs
  <2>1. at' \in [Senders -> Steps]
    BY <1>18, GoToTyped DEF ReadSubs, Steps
  <2> QED
    BY <1>18, <2>1 DEF ReadSubs, OutboxTyped
<1>19. CASE BatchDone
  <2>1. at' \in [Senders -> Steps]
    BY <1>19, GoToTyped DEF BatchDone, Steps
  <2> QED
    BY <1>19, <2>1 DEF BatchDone, OutboxTyped
<1>20. ASSUME NEW c \in batch, DiscardItem(c) PROVE OutboxTyped'
  <2>1. rows' \in [RowIds -> Row \cup {None}]
    BY <1>20 DEF DiscardItem, OutboxTyped
  <2>2. c.msg \in Nat
    BY DEF OutboxTyped, Item
  <2>3. discarded' \subseteq Nat /\ faults' \in Nat /\ batch' \subseteq Item
    <3>1. discarded \subseteq Nat /\ faults \in Nat /\ batch \subseteq Item
      BY DEF OutboxTyped
    <3>2. discarded' \subseteq Nat
      BY <1>20, <2>2, <3>1 DEF DiscardItem
    <3>3. faults' \in Nat
      BY <1>20, <3>1 DEF DiscardItem
    <3>4. batch' \subseteq Item
      BY <1>20, <3>1 DEF DiscardItem
    <3> QED
      BY <3>2, <3>3, <3>4
  <2> QED
    BY <1>20, <2>1, <2>3 DEF DiscardItem, OutboxTyped
<1>21. ASSUME NEW c \in batch, AttemptItem(c) PROVE OutboxTyped'
  <2>1. at' \in [Senders -> Steps]
    BY <1>21, GoToTyped DEF AttemptItem, Steps
  <2>2. c \in Item /\ c.key \in Keys
    BY DEF OutboxTyped, Item
  <2>3. known[c.key] \in {"bad", "good"}
    BY <1>21, <2>2 DEF AttemptItem, OutboxTyped
  <2> QED
    BY <1>21, <2>1, <2>2, <2>3 DEF AttemptItem, OutboxTyped
<1>22. ASSUME NEW i \in RowIds, EntryDue(i) PROVE OutboxTyped'
  <2>1. [rows[i] EXCEPT !.due = TRUE] \in Row
    BY <1>22, CopyTyped DEF EntryDue, Row
  <2>2. rows' \in [RowIds -> Row \cup {None}]
    BY <1>22, <2>1 DEF EntryDue, OutboxTyped
  <2> QED
    BY <1>22, <2>2 DEF EntryDue, OutboxTyped
<1>23. ASSUME NEW i \in RowIds, PruneDropped(i) PROVE OutboxTyped'
  <2>1. rows[i].msg \in Nat
    BY <1>23 DEF PruneDropped, OutboxTyped, Row
  <2>2. rows' \in [RowIds -> Row \cup {None}]
    BY <1>23 DEF PruneDropped, OutboxTyped
  <2> QED
    BY <1>23, <2>1, <2>2 DEF PruneDropped, OutboxTyped
<1>24. ASSUME NEW k \in Keys, WindowPasses(k) PROVE OutboxTyped'
  BY <1>24 DEF WindowPasses, OutboxTyped
<1>25. CASE EditSettings
  <2>1. channel' \in {"on", "off"} /\ subs' \in [Keys -> {"off", "bad", "good"}]
    BY <1>25 DEF EditSettings, OutboxTyped
  <2> QED
    BY <1>25, <2>1 DEF EditSettings, OutboxTyped
<1>26. CASE Crash
  BY <1>26 DEF Crash, OutboxTyped, Steps
<1>27. CASE UNCHANGED outboxVars
  BY <1>27 DEF outboxVars, OutboxTyped
<1> QED
  BY <1>1, <1>2, <1>3, <1>4, <1>5, <1>6, <1>7, <1>8, <1>9, <1>10, <1>11, <1>12, <1>13, <1>14, <1>15, <1>16, <1>17, <1>18, <1>19, <1>20, <1>21, <1>22, <1>23, <1>24, <1>25, <1>26, <1>27
  DEF OutboxNext, Dispatch, AttemptOne, ProcessDue

(* The actions that write the table or its histories; the others leave both *)
(* alone.                                                                   *)
LEMMA TableMoves ==
  ASSUME CopiesTrue, [OutboxNext]_outboxVars
  PROVE  \/ UNCHANGED <<rows, idOf, recorded, discarded>>
         \/ \E d \in Dispatchers, i \in RowIds :
              /\ item[d] \in Item /\ NextId(i) /\ Stored(d, i)
              /\ UNCHANGED <<recorded, discarded>>
         \/ \E s \in Senders : RecordSuccess(s)
         \/ \E s \in Senders : RecordFailure(s)
         \/ \E c \in batch : DiscardItem(c)
         \/ \E i \in RowIds : EntryDue(i)
         \/ \E i \in RowIds : PruneDropped(i)
<1> USE DEF tableVars
<1>1. ASSUME NEW d \in Dispatchers, NEW k \in Keys, StartDispatch(d, k)
      PROVE  UNCHANGED <<rows, idOf, recorded, discarded>>
  BY <1>1 DEF StartDispatch
<1>2. ASSUME NEW d \in Dispatchers, Dispatch(d), ~Insert(d)
      PROVE  UNCHANGED <<rows, idOf, recorded, discarded>>
  BY <1>2 DEF Dispatch, ReadSubscription, CheckRecent, CheckActive
<1>3. ASSUME NEW s \in Senders, AttemptOne(s), ~RecordSuccess(s), ~RecordFailure(s)
      PROVE  UNCHANGED <<rows, idOf, recorded, discarded>>
  BY <1>3 DEF AttemptOne, RenderFails, AcquireItemLock, TakeLock, CheckRow, Send, Unlock,
              Release
<1>4. ASSUME NEW s \in Senders, StatementFails(s)
      PROVE  UNCHANGED <<rows, idOf, recorded, discarded>>
  BY <1>4 DEF StatementFails
<1>5. ASSUME ProcessDue, \A c \in batch : ~DiscardItem(c)
      PROVE  UNCHANGED <<rows, idOf, recorded, discarded>>
  BY <1>5 DEF ProcessDue, ListDue, ReadSettings, ReadSubs, BatchDone, AttemptItem
<1>6. ASSUME \/ \E k \in Keys : WindowPasses(k)
             \/ EditSettings \/ Crash \/ UNCHANGED outboxVars
      PROVE  UNCHANGED <<rows, idOf, recorded, discarded>>
  BY <1>6 DEF WindowPasses, EditSettings, Crash, outboxVars
<1>7. ASSUME NEW d \in Dispatchers, Insert(d)
      PROVE  \/ UNCHANGED <<rows, idOf, recorded, discarded>>
             \/ \E i \in RowIds : /\ item[d] \in Item /\ NextId(i) /\ Stored(d, i)
                               /\ UNCHANGED <<recorded, discarded>>
  <2>1. item[d] \in Item
    BY <1>7 DEF Insert, CopiesTrue, InDispatch, Senders
  <2> QED
    BY <1>7, <2>1 DEF Insert
<1> QED
  BY <1>1, <1>2, <1>3, <1>4, <1>5, <1>6, <1>7 DEF OutboxNext

(* What storing a message under a free id does to the history. *)
LEMMA StoredIs ==
  ASSUME OutboxTyped, NEW d \in Dispatchers, NEW i \in RowIds, item[d] \in Item,
         NextId(i), Stored(d, i)
  PROVE  /\ rows[i] = None /\ rows'[i] # None
         /\ rows'[i].msg = Len(idOf) + 1
         /\ rows'[i].status = "pending" /\ rows'[i].attempt = 0
         /\ \A j \in RowIds : j # i => rows'[j] = rows[j]
         /\ DOMAIN idOf \subseteq Nat /\ Len(idOf) + 1 \notin DOMAIN idOf
         /\ \A m \in DOMAIN idOf : m < Len(idOf) + 1
         /\ DOMAIN idOf' = DOMAIN idOf \cup {Len(idOf) + 1}
         /\ idOf'[Len(idOf) + 1] = i
         /\ \A m \in DOMAIN idOf : idOf'[m] = idOf[m]
<1>1. rows \in [RowIds -> Row \cup {None}] /\ idOf \in Seq(RowIds) /\ i \in Nat
  BY OutboxBoundsAssumption DEF OutboxTyped, RowIds
<1>2. rows[i] = None
  BY <1>1 DEF NextId
<1>3. /\ DOMAIN idOf = 1 .. Len(idOf) /\ Len(idOf) \in Nat
      /\ idOf' = Append(idOf, i)
  BY <1>1 DEF Stored
<1>4. /\ DOMAIN idOf' = 1 .. Len(idOf) + 1
      /\ idOf'[Len(idOf) + 1] = i
      /\ \A m \in 1 .. Len(idOf) : idOf'[m] = idOf[m]
  BY <1>1, <1>3
<1>5. [msg |-> Len(idOf) + 1, key |-> item[d].key, status |-> "pending",
       attempt |-> 0, due |-> TRUE] # None
  <2>1. [msg |-> Len(idOf) + 1, key |-> item[d].key, status |-> "pending",
         attempt |-> 0, due |-> TRUE] \in Row
    BY <1>3 DEF Row, Item
  <2> QED
    BY <2>1, NoneAssumption
<1> QED
  BY <1>1, <1>2, <1>3, <1>4, <1>5 DEF Stored

(* The table holds the newest message of each id, a recorded message is in  *)
(* no row, and no message gets lost, but for one under a used id.           *)
LEMMA TableStep ==
  ASSUME OutboxInv, [OutboxNext]_outboxVars
  PROVE  AttemptsBounded' /\ RowsNewest' /\ RecordedGone' /\ NothingIsLost'
<1> USE DEF OutboxInv
<1>t. /\ rows \in [RowIds -> Row \cup {None}] /\ idOf \in Seq(RowIds)
      /\ DOMAIN idOf \subseteq Nat
  BY DEF OutboxTyped
<1>r. ASSUME NEW i \in RowIds, rows[i] # None
      PROVE  /\ rows[i] \in Row /\ rows[i].msg \in Nat /\ rows[i].attempt \in Nat
             /\ rows[i].status \in {"pending", "retrying", "dropped"}
  BY <1>t, <1>r DEF Row
<1>1. CASE UNCHANGED <<rows, idOf, recorded, discarded>>
  BY <1>1 DEF AttemptsBounded, RowsNewest, RecordedGone, NothingIsLost, Queued
<1>2. ASSUME NEW d \in Dispatchers, NEW i \in RowIds, item[d] \in Item,
             NextId(i), Stored(d, i), UNCHANGED <<recorded, discarded>>
      PROVE  AttemptsBounded' /\ RowsNewest' /\ RecordedGone' /\ NothingIsLost'
  <2> DEFINE n == Len(idOf) + 1
  <2>0. /\ rows[i] = None /\ rows'[i] # None /\ rows'[i].msg = n
        /\ rows'[i].status = "pending" /\ rows'[i].attempt = 0
        /\ \A j \in RowIds : j # i => rows'[j] = rows[j]
        /\ n \notin DOMAIN idOf /\ \A m \in DOMAIN idOf : m < n
        /\ DOMAIN idOf' = DOMAIN idOf \cup {n} /\ idOf'[n] = i
        /\ \A m \in DOMAIN idOf : idOf'[m] = idOf[m]
    BY <1>2, StoredIs
  <2>n. n \in Nat
    BY <1>t
  <2> HIDE DEF n
  <2>1. AttemptsBounded'
    BY <2>0, AttemptsAssumption DEF AttemptsBounded, Queued
  <2>2. RowsNewest'
    <3> SUFFICES ASSUME NEW j \in RowIds, rows'[j] # None
                 PROVE  /\ rows'[j].msg \in DOMAIN idOf' /\ idOf'[rows'[j].msg] = j
                        /\ \A m \in DOMAIN idOf' : idOf'[m] = j => m <= rows'[j].msg
      BY DEF RowsNewest
    <3>1. CASE j = i
      <4>1. \A m \in DOMAIN idOf' : m <= n
        BY <2>0, <2>n, <1>t
      <4> QED
        BY <2>0, <3>1, <4>1
    <3>2. CASE j # i
      BY <2>0, <3>2 DEF RowsNewest
    <3> QED
      BY <3>1, <3>2
  <2>3. RecordedGone'
    BY <1>2, <2>0 DEF RecordedGone
  <2>4. NothingIsLost'
    <3> SUFFICES ASSUME NEW m \in DOMAIN idOf'
                 PROVE  \/ \E j \in RowIds : rows'[j] # None /\ rows'[j].msg = m
                        \/ m \in recorded' \cup discarded'
                        \/ \E p \in DOMAIN idOf' : p < m /\ idOf'[p] = idOf'[m]
      BY DEF NothingIsLost
    <3>1. CASE m = n
      BY <2>0, <3>1
    <3>2. CASE m \in DOMAIN idOf
      BY <1>2, <2>0, <3>2 DEF NothingIsLost
    <3> QED
      BY <2>0, <3>1, <3>2
  <2> QED
    BY <2>1, <2>2, <2>3, <2>4
<1>3. ASSUME NEW i \in RowIds, rows' = [rows EXCEPT ![i] = None], idOf' = idOf,
             NEW n \in DOMAIN idOf, idOf[n] = i,
             \/ rows[i] = None /\ UNCHANGED <<recorded, discarded>>
             \/ recorded' = recorded \cup {n} /\ UNCHANGED discarded
             \/ UNCHANGED recorded /\ discarded' = discarded \cup {n}
      PROVE  AttemptsBounded' /\ RowsNewest' /\ RecordedGone' /\ NothingIsLost'
  <2>0. rows'[i] = None /\ \A j \in RowIds : j # i => rows'[j] = rows[j]
    BY <1>3, <1>t
  <2>1. AttemptsBounded' /\ RowsNewest'
    BY <1>3, <2>0 DEF AttemptsBounded, RowsNewest, Queued
  <2>2. RecordedGone'
    <3>1. \A j \in RowIds : j # i /\ rows[j] # None => rows[j].msg # n
      BY <1>3 DEF RowsNewest
    <3> QED
      BY <1>3, <2>0, <3>1 DEF RecordedGone
  <2>3. NothingIsLost'
    <3> SUFFICES ASSUME NEW m \in DOMAIN idOf
                 PROVE  \/ \E j \in RowIds : rows'[j] # None /\ rows'[j].msg = m
                        \/ m \in recorded' \cup discarded'
                        \/ \E p \in DOMAIN idOf : p < m /\ idOf[p] = idOf[m]
      BY <1>3 DEF NothingIsLost
    <3>1. CASE rows[i] # None /\ rows[i].msg = m
      <4>1. idOf[m] = i /\ n <= m
        BY <1>3, <3>1 DEF RowsNewest
      <4>2. n = m \/ n < m
        BY <1>3, <1>t, <4>1
      <4> QED
        BY <1>3, <3>1, <4>1, <4>2
    <3>2. CASE \E j \in RowIds : j # i /\ rows[j] # None /\ rows[j].msg = m
      BY <2>0, <3>2
    <3>3. CASE m \in recorded \cup discarded
      BY <1>3, <3>3
    <3>4. CASE \E p \in DOMAIN idOf : p < m /\ idOf[p] = idOf[m]
      BY <3>4
    <3> QED
      BY <3>1, <3>2, <3>3, <3>4 DEF NothingIsLost
  <2> QED
    BY <2>1, <2>2, <2>3
<1>4. ASSUME NEW i \in RowIds, rows[i] # None, idOf' = idOf, UNCHANGED <<recorded, discarded>>,
             NEW r, rows' = [rows EXCEPT ![i] = r], r # None, r.msg = rows[i].msg,
             \/ r.status # "dropped" /\ r.attempt < MaxAttempts
             \/ r.status = "dropped" /\ r.attempt = MaxAttempts
      PROVE  AttemptsBounded' /\ RowsNewest' /\ RecordedGone' /\ NothingIsLost'
  <2>0. rows'[i] = r /\ \A j \in RowIds : j # i => rows'[j] = rows[j]
    BY <1>4, <1>t
  <2>1. AttemptsBounded'
    BY <1>4, <2>0 DEF AttemptsBounded, Queued
  <2>2. RowsNewest' /\ RecordedGone'
    BY <1>4, <2>0 DEF RowsNewest, RecordedGone
  <2>3. NothingIsLost'
    <3>1. \A m : (\E j \in RowIds : rows[j] # None /\ rows[j].msg = m)
                  => \E j \in RowIds : rows'[j] # None /\ rows'[j].msg = m
      BY <1>4, <2>0
    <3> QED
      BY <1>4, <3>1 DEF NothingIsLost
  <2> QED
    BY <2>1, <2>2, <2>3
<1>5. ASSUME NEW s \in Senders, RecordSuccess(s)
      PROVE  AttemptsBounded' /\ RowsNewest' /\ RecordedGone' /\ NothingIsLost'
  <2>1. CopyTrue(item[s])
    BY <1>5 DEF RecordSuccess, CopiesTrue, InAttempt, Locked
  <2>2. CASE rows[item[s].id] = None
    BY <1>1, <1>5, <2>2 DEF RecordSuccess
  <2>3. CASE rows[item[s].id] # None
    <3>1. /\ rows' = [rows EXCEPT ![item[s].id] = None] /\ idOf' = idOf
          /\ recorded' = recorded \cup {item[s].msg} /\ discarded' = discarded
      BY <1>5, <2>3 DEF RecordSuccess
    <3> QED
      BY <1>3, <2>1, <3>1 DEF CopyTrue
  <2> QED
    BY <2>2, <2>3
<1>6. ASSUME NEW s \in Senders, RecordFailure(s)
      PROVE  AttemptsBounded' /\ RowsNewest' /\ RecordedGone' /\ NothingIsLost'
  <2> DEFINE i == item[s].id
             n == item[s].attempt + 1
  <2>1. CopyTrue(item[s])
    BY <1>6 DEF RecordFailure, CopiesTrue, InAttempt
  <2>2. i \in RowIds /\ n \in Nat /\ n <= MaxAttempts
    BY <2>1, AttemptsAssumption DEF CopyTrue, Item
  <2>3. CASE ViolatesUnique(i, n) \/ rows[i] = None
    <3>1. UNCHANGED <<rows, idOf, recorded, discarded>>
      BY <1>6, <2>3 DEF RecordFailure
    <3> QED
      BY <1>1, <3>1
  <2>4. CASE ~ViolatesUnique(i, n) /\ rows[i] # None
    <3>1. /\ rows' = [rows EXCEPT ![i] = AfterFailure(rows[i], n)]
          /\ UNCHANGED <<idOf, recorded, discarded>>
      BY <1>6, <2>4 DEF RecordFailure
    <3>2. rows[i] \in Row
      BY <1>r, <2>2, <2>4
    <3>3. /\ AfterFailure(rows[i], n) \in Row
          /\ AfterFailure(rows[i], n).msg = rows[i].msg
          /\ AfterFailure(rows[i], n).attempt = n
          /\ n >= MaxAttempts => AfterFailure(rows[i], n).status = "dropped"
          /\ ~(n >= MaxAttempts) => AfterFailure(rows[i], n).status = "retrying"
      BY <2>2, <3>2 DEF AfterFailure, Row
    <3>4. AfterFailure(rows[i], n) # None
      BY <3>3, NoneAssumption
    <3>5. \/ AfterFailure(rows[i], n).status # "dropped" /\ AfterFailure(rows[i], n).attempt < MaxAttempts
          \/ AfterFailure(rows[i], n).status = "dropped" /\ AfterFailure(rows[i], n).attempt = MaxAttempts
      BY <2>2, <3>3, AttemptsAssumption
    <3> QED
      BY <1>4, <2>2, <2>4, <3>1, <3>3, <3>4, <3>5
  <2> QED
    BY <2>3, <2>4
<1>7. ASSUME NEW c \in batch, DiscardItem(c)
      PROVE  AttemptsBounded' /\ RowsNewest' /\ RecordedGone' /\ NothingIsLost'
  <2>1. CopyTrue(c)
    BY DEF CopiesTrue
  <2>2. CASE UNCHANGED <<rows, discarded>>
    BY <1>1, <1>7, <2>2 DEF DiscardItem
  <2>3. CASE /\ rows' = [rows EXCEPT ![c.id] = None]
             /\ discarded' = IF rows[c.id] = None THEN discarded
                                                  ELSE discarded \cup {c.msg}
    <3>1. UNCHANGED <<recorded, idOf>>
      BY <1>7 DEF DiscardItem
    <3>2. \/ rows[c.id] = None /\ UNCHANGED <<recorded, discarded>>
          \/ UNCHANGED recorded /\ discarded' = discarded \cup {c.msg}
      BY <2>3, <3>1
    <3> QED
      BY <1>3, <2>1, <2>3, <3>1, <3>2 DEF CopyTrue
  <2> QED
    BY <1>7, <2>2, <2>3 DEF DiscardItem
<1>8. ASSUME NEW i \in RowIds, EntryDue(i)
      PROVE  AttemptsBounded' /\ RowsNewest' /\ RecordedGone' /\ NothingIsLost'
  <2> DEFINE r == [rows[i] EXCEPT !.due = TRUE]
  <2>1. /\ rows[i] # None /\ rows[i].status # "dropped"
        /\ rows' = [rows EXCEPT ![i] = r] /\ UNCHANGED <<idOf, recorded, discarded>>
    BY <1>8 DEF EntryDue, Queued
  <2>2. /\ r \in Row /\ r.msg = rows[i].msg /\ r.status = rows[i].status
        /\ r.attempt = rows[i].attempt
    BY <1>r, <2>1 DEF Row
  <2>3. rows[i].attempt < MaxAttempts
    BY <2>1 DEF AttemptsBounded, Queued
  <2>4. r # None
    BY <2>2, NoneAssumption
  <2> HIDE DEF r
  <2> QED
    BY <1>4, <2>1, <2>2, <2>3, <2>4
<1>9. ASSUME NEW i \in RowIds, PruneDropped(i)
      PROVE  AttemptsBounded' /\ RowsNewest' /\ RecordedGone' /\ NothingIsLost'
  <2>1. /\ rows[i] # None /\ rows' = [rows EXCEPT ![i] = None]
        /\ discarded' = discarded \cup {rows[i].msg} /\ UNCHANGED <<idOf, recorded>>
    BY <1>9 DEF PruneDropped
  <2>2. rows[i].msg \in DOMAIN idOf /\ idOf[rows[i].msg] = i
    BY <2>1 DEF RowsNewest
  <2> QED
    BY <1>3, <2>1, <2>2
<1> QED
  BY <1>1, <1>2, <1>5, <1>6, <1>7, <1>8, <1>9, TableMoves

(* No action forgets under which id a message was stored. *)
LEMMA HistoryKept ==
  ASSUME OutboxInv, [OutboxNext]_outboxVars
  PROVE  /\ DOMAIN idOf \subseteq DOMAIN idOf'
         /\ \A m \in DOMAIN idOf : idOf'[m] = idOf[m]
<1>1. CASE idOf' = idOf
  BY <1>1
<1>2. CASE \E d \in Dispatchers, i \in RowIds :
             item[d] \in Item /\ NextId(i) /\ Stored(d, i)
  BY <1>2, StoredIs DEF OutboxInv
<1>3. idOf' = idOf \/ \E d \in Dispatchers, i \in RowIds :
                        item[d] \in Item /\ NextId(i) /\ Stored(d, i)
  BY TableMoves DEF OutboxInv, RecordSuccess, RecordFailure, DiscardItem, EntryDue, PruneDropped
<1> QED
  BY <1>1, <1>2, <1>3

(* A copy that is made names the row it was made of. *)
LEMMA CopyIsTrue ==
  ASSUME OutboxInv, NEW i \in RowIds, Queued(i)
  PROVE  CopyTrue(Copy(i))
<1>1. rows[i] # None
  BY DEF Queued
<1>2. rows[i].msg \in DOMAIN idOf /\ idOf[rows[i].msg] = i /\ rows[i].attempt < MaxAttempts
  BY <1>1 DEF OutboxInv, RowsNewest, AttemptsBounded
<1>3. Copy(i) \in Item
  BY CopyTyped DEF OutboxInv
<1> QED
  BY <1>2, <1>3 DEF CopyTrue, Copy

(* The copies of the ticker and of the senders stay true, whatever becomes  *)
(* of the rows.                                                             *)
LEMMA CopiesStep ==
  ASSUME OutboxInv, [OutboxNext]_outboxVars
  PROVE  CopiesTrue'
<1>t. /\ OutboxTyped /\ CopiesTrue /\ Ticker \in Senders /\ Dispatchers \subseteq Senders
      /\ at \in [Senders -> Steps] /\ item \in [Senders -> Item \cup {None}]
  BY DEF OutboxInv, OutboxTyped, Senders
<1>k. \A c : CopyTrue(c) => CopyTrue(c)'
  BY HistoryKept DEF CopyTrue
<1> DEFINE Kept == /\ batch' \subseteq batch
                   /\ \A t \in Senders :
                        /\ InAttempt(t)' => InAttempt(t) /\ item'[t] = item[t]
                        /\ InDispatch(t)' => item'[t] \in Item /\ item'[t].attempt = 0
<1>0. ASSUME Kept PROVE CopiesTrue'
  <2>1. ASSUME NEW c \in batch' PROVE CopyTrue(c)'
    BY <1>t, <1>0, <1>k DEF CopiesTrue
  <2>2. ASSUME NEW t \in Senders, InAttempt(t)' PROVE CopyTrue(item[t])'
    <3>1. CopyTrue(item[t]) /\ item'[t] = item[t]
      BY <1>t, <1>0, <2>2 DEF CopiesTrue
    <3> QED
      BY <3>1, HistoryKept DEF CopyTrue
  <2> QED
    BY <1>0, <2>1, <2>2 DEF CopiesTrue
<1> USE DEF InAttempt, InDispatch, Locked, tickerVars
<1>1. ASSUME NEW s \in Senders, Return(s), UNCHANGED batch PROVE Kept
  BY <1>t, <1>1 DEF Return, GoTo, Home, CopiesTrue
<1>2. ASSUME NEW s \in Senders, NEW l \in Steps, GoTo(s, l), UNCHANGED <<item, batch>>,
             l \in {"wait", "check", "send", "sent", "refused", "unlock", "release"}
                => InAttempt(s),
             l \in {"subscription", "recent", "active", "insert"}
                => item[s] \in Item /\ item[s].attempt = 0,
             l # "render"
      PROVE  Kept
  BY <1>t, <1>2 DEF GoTo, CopiesTrue
<1>3. ASSUME NEW d \in Dispatchers, NEW k \in Keys, StartDispatch(d, k) PROVE Kept
  BY <1>t, <1>3 DEF StartDispatch, GoTo, CopiesTrue, Item
<1>4. ASSUME NEW d \in Dispatchers, ReadSubscription(d) \/ CheckRecent(d) \/ CheckActive(d)
      PROVE  Kept
  <2>1. item[d] \in Item /\ item[d].attempt = 0 /\ d \in Senders
    BY <1>t, <1>4 DEF ReadSubscription, CheckRecent, CheckActive, CopiesTrue
  <2>2. UNCHANGED batch /\ \/ Return(d)
                           \/ GoTo(d, "recent") /\ UNCHANGED item
                           \/ Advance(d, "active") \/ Advance(d, "insert")
    BY <1>4 DEF ReadSubscription, CheckRecent, CheckActive
  <2> QED
    BY <1>1, <1>2, <2>1, <2>2 DEF Advance, Steps
<1>5. ASSUME NEW d \in Dispatchers, Insert(d) PROVE CopiesTrue'
  <2>1. CASE Return(d)
    BY <1>0, <1>1, <1>5, <1>t, <2>1 DEF Insert
  <2>2. ASSUME NEW i \in RowIds, NextId(i), Stored(d, i), GoTo(d, "render"), UNCHANGED batch
        PROVE  CopiesTrue'
    <3> DEFINE n == Len(idOf) + 1
    <3>1. item[d] \in Item /\ item[d].attempt = 0 /\ d \in Senders
      BY <1>t, <1>5 DEF Insert, CopiesTrue
    <3>2. n \in DOMAIN idOf' /\ idOf'[n] = i /\ n \in Nat /\ i \in Nat
      BY <1>t, <2>2, <3>1, StoredIs, OutboxBoundsAssumption DEF OutboxTyped, RowIds
    <3>3. item' = [item EXCEPT ![d] = [item[d] EXCEPT !.id = i, !.msg = n]]
      BY <1>t, <2>2, <3>1 DEF Stored
    <3>4. /\ item'[d] \in Item /\ item'[d].id = i /\ item'[d].msg = n
          /\ item'[d].attempt = item[d].attempt
      BY <1>t, <3>1, <3>2, <3>3 DEF Item
    <3>5. CopyTrue(item[d])'
      BY <2>2, <3>1, <3>2, <3>4, AttemptsAssumption DEF CopyTrue
    <3>6. ASSUME NEW c \in batch' PROVE CopyTrue(c)'
      BY <1>t, <1>k, <2>2, <3>6 DEF CopiesTrue
    <3>7. ASSUME NEW t \in Senders, t # d
          PROVE  at'[t] = at[t] /\ item'[t] = item[t]
      BY <1>t, <2>2, <3>3, <3>7 DEF GoTo
    <3>8. ASSUME NEW t \in Senders, t # d, InAttempt(t)' PROVE CopyTrue(item[t])'
      <4>1. CopyTrue(item[t]) /\ item'[t] = item[t]
        BY <1>t, <3>7, <3>8 DEF CopiesTrue
      <4> QED
        BY <4>1, HistoryKept DEF CopyTrue
    <3>9. at'[d] = "render"
      BY <1>t, <2>2, <3>1 DEF GoTo
    <3> QED
      BY <1>t, <3>5, <3>6, <3>7, <3>8, <3>9 DEF CopiesTrue
  <2> QED
    BY <1>5, <2>1, <2>2 DEF Insert
<1>6. ASSUME NEW s \in Senders,
             RenderFails(s) \/ AcquireItemLock(s) \/ TakeLock(s) \/ Send(s)
               \/ RecordSuccess(s) \/ Unlock(s)
      PROVE  Kept
  <2>1. InAttempt(s) /\ UNCHANGED <<item, batch>>
    BY <1>6 DEF RenderFails, AcquireItemLock, TakeLock, Send, RecordSuccess, Unlock
  <2>2. \E l \in Steps \ {"render", "subscription", "recent", "active", "insert"} : GoTo(s, l)
    BY <1>6 DEF RenderFails, AcquireItemLock, TakeLock, Send, RecordSuccess, Unlock, Steps
  <2> QED
    BY <1>2, <2>1, <2>2
<1>7. ASSUME NEW s \in Senders, CheckRow(s) PROVE CopiesTrue'
  <2>1. CASE ~Queued(item[s].id)
    BY <1>0, <1>2, <1>7, <2>1 DEF CheckRow, Steps
  <2>2. CASE Queued(item[s].id)
    <3>1. CopyTrue(item[s]) /\ CopyTrue(Copy(item[s].id))
      BY <1>t, <1>7, <2>2, CopyIsTrue DEF CheckRow, CopiesTrue, CopyTrue
    <3>2. item' = [item EXCEPT ![s] = [Copy(item[s].id) EXCEPT !.msg = item[s].msg]]
      BY <1>7, <2>2 DEF CheckRow
    <3>3. /\ item'[s] \in Item /\ item'[s].id = item[s].id /\ item'[s].msg = item[s].msg
          /\ item'[s].attempt < MaxAttempts
      BY <1>t, <3>1, <3>2 DEF CopyTrue, Item, Copy
    <3>4. CopyTrue(item[s])'
      BY <3>1, <3>3, HistoryKept DEF CopyTrue
    <3>5. ASSUME NEW t \in Senders, t # s
          PROVE  at'[t] = at[t] /\ item'[t] = item[t]
      BY <1>t, <1>7, <3>2, <3>5 DEF CheckRow, GoTo
    <3>6. ASSUME NEW t \in Senders, t # s, InAttempt(t)' PROVE CopyTrue(item[t])'
      <4>1. CopyTrue(item[t]) /\ item'[t] = item[t]
        BY <1>t, <3>5, <3>6 DEF CopiesTrue
      <4> QED
        BY <4>1, HistoryKept DEF CopyTrue
    <3>7. ASSUME NEW c \in batch' PROVE CopyTrue(c)'
      BY <1>t, <1>k, <1>7, <3>7 DEF CopiesTrue, CheckRow
    <3>8. at'[s] \in {"send", "unlock"}
      BY <1>t, <1>7 DEF CheckRow, GoTo
    <3> QED
      BY <1>t, <3>4, <3>5, <3>6, <3>7, <3>8 DEF CopiesTrue
  <2> QED
    BY <2>1, <2>2
<1>8. ASSUME NEW s \in Senders, RecordFailure(s) \/ Release(s) PROVE Kept
  <2>1. InAttempt(s) /\ UNCHANGED batch /\ (Return(s) \/ Advance(s, "unlock"))
    BY <1>8 DEF RecordFailure, Release
  <2> QED
    BY <1>1, <1>2, <2>1 DEF Advance, Steps
<1>9. ASSUME NEW s \in Senders, StatementFails(s) PROVE Kept
  <2>1. CASE /\ at' = [at EXCEPT ![s] = "idle"] /\ item' = [item EXCEPT ![s] = None]
             /\ batch' \subseteq batch
    BY <1>t, <2>1 DEF CopiesTrue
  <2>2. CASE InAttempt(s) /\ UNCHANGED batch /\ (Return(s) \/ Advance(s, "unlock"))
    BY <1>1, <1>2, <2>2 DEF Advance, Steps
  <2> QED
    BY <1>9, <2>1, <2>2 DEF StatementFails
<1>10. CASE ListDue
  <2>1. ASSUME NEW c \in batch' PROVE CopyTrue(c)'
    <3>1. PICK i \in RowIds : Queued(i) /\ c = Copy(i)
      BY <1>10, <2>1 DEF ListDue
    <3> QED
      BY <1>k, <3>1, CopyIsTrue
  <2>2. ASSUME NEW t \in Senders
        PROVE  /\ InAttempt(t)' => InAttempt(t) /\ item'[t] = item[t]
               /\ InDispatch(t)' => item'[t] \in Item /\ item'[t].attempt = 0
    BY <1>t, <1>10 DEF ListDue, GoTo, CopiesTrue
  <2>3. ASSUME NEW t \in Senders, InAttempt(t)' PROVE CopyTrue(item[t])'
    <3>1. CopyTrue(item[t]) /\ item'[t] = item[t]
      BY <1>t, <2>2, <2>3 DEF CopiesTrue
    <3> QED
      BY <3>1, HistoryKept DEF CopyTrue
  <2> QED
    BY <2>1, <2>2, <2>3 DEF CopiesTrue
<1>11. ASSUME ReadSettings \/ ReadSubs \/ BatchDone PROVE Kept
  <2>1. PICK l \in {"idle", "subs", "next"} : at' = [at EXCEPT ![Ticker] = l]
    BY <1>11 DEF ReadSettings, ReadSubs, BatchDone, GoTo
  <2>2. item' = item /\ batch' \subseteq batch
    BY <1>11 DEF ReadSettings, ReadSubs, BatchDone
  <2> QED
    BY <1>t, <2>1, <2>2 DEF CopiesTrue
<1>12. ASSUME NEW c \in batch, DiscardItem(c) PROVE Kept
  BY <1>t, <1>12 DEF DiscardItem, CopiesTrue
<1>13. ASSUME NEW c \in batch, AttemptItem(c) PROVE CopiesTrue'
  <2>1. /\ item' = [item EXCEPT ![Ticker] = c] /\ at' = [at EXCEPT ![Ticker] = "render"]
        /\ batch' = batch \ {c} /\ CopyTrue(c)
    BY <1>t, <1>13 DEF AttemptItem, GoTo, CopiesTrue
  <2>2. CopyTrue(item[Ticker])'
    <3>1. item'[Ticker] = c
      BY <1>t, <2>1
    <3> QED
      BY <2>1, <3>1, HistoryKept DEF CopyTrue
  <2>3. ASSUME NEW t \in Senders, t # Ticker PROVE at'[t] = at[t] /\ item'[t] = item[t]
    BY <1>t, <2>1, <2>3
  <2>4. ASSUME NEW t \in Senders, t # Ticker, InAttempt(t)' PROVE CopyTrue(item[t])'
    <3>1. CopyTrue(item[t]) /\ item'[t] = item[t]
      BY <1>t, <2>3, <2>4 DEF CopiesTrue
    <3> QED
      BY <3>1, HistoryKept DEF CopyTrue
  <2>5. ASSUME NEW b \in batch' PROVE CopyTrue(b)'
    BY <1>t, <1>k, <2>1, <2>5 DEF CopiesTrue
  <2>6. at'[Ticker] = "render"
    BY <1>t, <2>1
  <2> QED
    BY <1>t, <2>2, <2>3, <2>4, <2>5, <2>6 DEF CopiesTrue
<1>14. CASE \/ \E i \in RowIds : EntryDue(i) \/ PruneDropped(i)
            \/ \E k \in Keys : WindowPasses(k)
            \/ EditSettings \/ UNCHANGED outboxVars
  <2>1. UNCHANGED <<at, item, batch>>
    BY <1>14 DEF EntryDue, PruneDropped, WindowPasses, EditSettings, outboxVars
  <2> QED
    BY <1>0, <1>t, <2>1 DEF CopiesTrue
<1>15. CASE Crash
  BY <1>15 DEF Crash, CopiesTrue
<1> HIDE DEF Kept
<1> QED
  BY <1>0, <1>3, <1>4, <1>5, <1>6, <1>7, <1>8, <1>9, <1>10, <1>11, <1>12, <1>13, <1>14, <1>15
  DEF OutboxNext, Dispatch, AttemptOne, ProcessDue

(* Two senders in the critical part of AttemptOne have different locks, and *)
(* so different rows.                                                       *)
LEMMA Exclusion == OutboxInv => SendersExcludeEachOther
<1> SUFFICES ASSUME OutboxInv, NEW s \in Senders, NEW t \in Senders,
                    Inside(s), Inside(t), item[s].id = item[t].id
             PROVE  s = t
  BY DEF SendersExcludeEachOther
<1>1. lk[s] # None /\ lk[t] # None
  BY DEF OutboxInv, LocksMapped, Inside, Locked
<1>2. lk[s] = lk[t]
  BY <1>1 DEF OutboxInv, LocksMapped
<1> QED
  BY <1>2 DEF OutboxInv, LocksExclude

(* A message whose success is recorded is sent again only under a row id    *)
(* that another message has got.                                            *)
LEMMA FinalStep ==
  ASSUME OutboxInv, [OutboxNext]_outboxVars
  PROVE  RecordedIsFinal'
<1>t. /\ OutboxTyped /\ CopiesTrue /\ RowsNewest /\ RecordedGone /\ RecordedIsFinal
      /\ at \in [Senders -> Steps] /\ item \in [Senders -> Item \cup {None}]
      /\ Ticker \in Senders /\ Dispatchers \subseteq Senders /\ DOMAIN idOf \subseteq Nat
  BY DEF OutboxInv, OutboxTyped, Senders
<1>m. \A n \in DOMAIN idOf : Reused(n) => Reused(n)'
  BY HistoryKept DEF Reused
<1>1. ASSUME NEW t \in Senders, at'[t] \in {"send", "sent"}
      PROVE  \/ at[t] \in {"send", "sent"} /\ item'[t] = item[t]
             \/ CheckRow(t) /\ Queued(item[t].id) /\ item'[t].msg = item[t].msg
  <2>1. ASSUME NEW d \in Dispatchers, NEW k \in Keys, StartDispatch(d, k)
        PROVE  at'[t] = at[t] /\ item'[t] = item[t]
    BY <1>t, <1>1, <2>1 DEF StartDispatch, GoTo
  <2>2. ASSUME NEW d \in Dispatchers, Dispatch(d)
        PROVE  at'[t] = at[t] /\ item'[t] = item[t]
    <3>1. /\ d \in Senders
          /\ \E l \in {"idle", "next", "recent", "active", "insert", "render"} :
               at' = [at EXCEPT ![d] = l]
      BY <1>t, <2>2 DEF Dispatch, ReadSubscription, CheckRecent, CheckActive, Insert,
                        Return, Advance, GoTo, Home
    <3>2. t # d
      BY <1>t, <1>1, <3>1
    <3> QED
      BY <1>t, <2>2, <3>1, <3>2
      DEF Dispatch, ReadSubscription, CheckRecent, CheckActive, Insert, Return, Advance, Stored
  <2>3. ASSUME NEW s \in Senders,
               \/ RenderFails(s) \/ AcquireItemLock(s) \/ TakeLock(s) \/ RecordSuccess(s)
               \/ Unlock(s)
        PROVE  at'[t] = at[t] /\ item'[t] = item[t]
    BY <1>t, <1>1, <2>3
    DEF RenderFails, AcquireItemLock, TakeLock, RecordSuccess, Unlock, GoTo
  <2>4. ASSUME NEW s \in Senders, Send(s)
        PROVE  at[t] \in {"send", "sent"} /\ item'[t] = item[t]
    BY <1>t, <1>1, <2>4 DEF Send, GoTo
  <2>5. ASSUME NEW s \in Senders, RecordFailure(s) \/ Release(s) \/ StatementFails(s)
        PROVE  at'[t] = at[t] /\ item'[t] = item[t]
    <3>1. \E l \in {"idle", "next", "unlock"} : at' = [at EXCEPT ![s] = l]
      BY <2>5 DEF RecordFailure, Release, StatementFails, Return, Advance, GoTo, Home
    <3>2. t # s
      BY <1>t, <1>1, <3>1
    <3> QED
      BY <1>t, <2>5, <3>1, <3>2
      DEF RecordFailure, Release, StatementFails, Return, Advance
  <2>6. ASSUME NEW s \in Senders, CheckRow(s)
        PROVE  \/ at'[t] = at[t] /\ item'[t] = item[t]
               \/ CheckRow(t) /\ Queued(item[t].id) /\ item'[t].msg = item[t].msg
    <3>1. CASE t # s
      BY <1>t, <2>6, <3>1 DEF CheckRow, GoTo
    <3>2. CASE t = s
      <4>1. Queued(item[s].id)
        BY <1>t, <1>1, <2>6, <3>2 DEF CheckRow, GoTo
      <4>2. item' = [item EXCEPT ![s] = [Copy(item[s].id) EXCEPT !.msg = item[s].msg]]
        BY <2>6, <4>1 DEF CheckRow
      <4>3. item'[s].msg = item[s].msg
        BY <1>t, <4>2 DEF Copy
      <4> QED
        BY <2>6, <3>2, <4>1, <4>3
    <3> QED
      BY <3>1, <3>2
  <2>7. CASE ProcessDue
    <3>1. \/ at' = at /\ item' = item
          \/ /\ \E l \in {"idle", "settings", "subs", "next", "render"} :
                  at' = [at EXCEPT ![Ticker] = l]
             /\ \A u \in Senders \ {Ticker} : item'[u] = item[u]
      BY <1>t, <2>7 DEF ProcessDue, ListDue, ReadSettings, ReadSubs, BatchDone, DiscardItem,
                        AttemptItem, GoTo
    <3> QED
      BY <1>t, <1>1, <3>1
  <2>8. CASE \/ \E i \in RowIds : EntryDue(i) \/ PruneDropped(i)
             \/ \E k \in Keys : WindowPasses(k)
             \/ EditSettings \/ UNCHANGED outboxVars
    BY <1>1, <2>8 DEF EntryDue, PruneDropped, WindowPasses, EditSettings, outboxVars
  <2>9. ~Crash
    BY <1>1 DEF Crash
  <2> QED
    BY <1>1, <2>1, <2>2, <2>3, <2>4, <2>5, <2>6, <2>7, <2>8, <2>9 DEF OutboxNext, AttemptOne
<1>2. recorded' = recorded \/ \E s \in Senders : /\ RecordSuccess(s)
                                                 /\ recorded' = recorded \cup {item[s].msg}
  BY <1>t, TableMoves DEF RecordSuccess, RecordFailure, DiscardItem, EntryDue, PruneDropped
<1> SUFFICES ASSUME NEW t \in Senders, at'[t] \in {"send", "sent"},
                    item'[t].msg \in recorded'
             PROVE  Reused(item[t].msg)' /\ item'[t].msg = item[t].msg
  BY DEF RecordedIsFinal, Reused
<1>3. CopyTrue(item[t]) /\ item'[t].msg = item[t].msg
  BY <1>1, <1>t DEF CopiesTrue, InAttempt, Locked, CheckRow
<1> DEFINE n == item[t].msg
<1>4. CASE n \in recorded
  <2>1. Reused(n)
    <3>1. CASE at[t] \in {"send", "sent"}
      BY <1>t, <1>4, <3>1 DEF RecordedIsFinal
    <3>2. CASE Queued(item[t].id)
      <4> DEFINE m == rows[item[t].id].msg
      <4>1. /\ item[t].id \in RowIds /\ n \in DOMAIN idOf /\ idOf[n] = item[t].id
            /\ rows[item[t].id] # None
        BY <1>3, <3>2 DEF CopyTrue, Queued
      <4>2. m \in DOMAIN idOf /\ idOf[m] = item[t].id /\ n <= m
        BY <1>t, <4>1 DEF RowsNewest
      <4>3. m # n
        BY <1>t, <1>4, <4>1 DEF RecordedGone
      <4>4. m > n
        BY <1>t, <4>1, <4>2, <4>3
      <4> QED
        BY <4>1, <4>2, <4>4 DEF Reused
    <3> QED
      BY <1>1, <3>1, <3>2
  <2> QED
    BY <1>3, <1>m, <2>1 DEF CopyTrue, Reused
<1>5. CASE n \notin recorded
  <2>1. PICK s \in Senders : RecordSuccess(s) /\ n = item[s].msg
    BY <1>2, <1>3, <1>5
  <2>2. at[s] = "sent" /\ at'[s] = "unlock" /\ t # s /\ at'[t] = at[t]
    BY <1>t, <2>1 DEF RecordSuccess, GoTo
  <2>3. item[s].id = item[t].id
    <3>1. CopyTrue(item[s])
      BY <1>t, <2>2 DEF CopiesTrue, InAttempt, Locked
    <3> QED
      BY <1>3, <2>1, <3>1 DEF CopyTrue
  <2>4. Inside(s) /\ Inside(t)
    BY <2>2 DEF Inside
  <2> QED
    BY <2>2, <2>3, <2>4, Exclusion DEF SendersExcludeEachOther
<1> QED
  BY <1>3, <1>4, <1>5

(* What a step does to the locks: one of the four steps of a lock, the      *)
(* crash, or nothing that concerns who has or holds one.                    *)
LEMMA LockMoves ==
  ASSUME OutboxInv, [OutboxNext]_outboxVars
  PROVE  \/ \E s \in Senders : AcquireItemLock(s)
         \/ \E s \in Senders : TakeLock(s)
         \/ \E s \in Senders : Unlock(s)
         \/ \E s \in Senders : Release(s)
         \/ Crash
         \/ /\ UNCHANGED <<lockVars, lk>>
            /\ \A t \in Senders :
                 /\ Inside(t)' <=> Inside(t)
                 /\ Locked(t)' => lk[t] # None
                 /\ lk[t] # None => /\ Locked(t)' \/ at'[t] = "refused"
                                    /\ item'[t].id = item[t].id
<1> DEFINE Frame == /\ UNCHANGED <<lockVars, lk>>
                    /\ \A t \in Senders :
                         /\ Inside(t)' <=> Inside(t)
                         /\ Locked(t)' => lk[t] # None
                         /\ lk[t] # None => /\ Locked(t)' \/ at'[t] = "refused"
                                            /\ item'[t].id = item[t].id
<1>t. /\ OutboxTyped /\ CopiesTrue /\ LocksMapped
      /\ Ticker \in Senders /\ Dispatchers \subseteq Senders
      /\ at \in [Senders -> Steps] /\ item \in [Senders -> Item \cup {None}]
  BY DEF OutboxInv, OutboxTyped, Senders
<1>l. \A t \in Senders :
        /\ Locked(t) => lk[t] # None
        /\ lk[t] # None => Locked(t) \/ at[t] = "refused"
  BY <1>t DEF LocksMapped
<1> USE DEF Inside, Locked
<1>1. ASSUME NEW s \in Senders, Return(s), lk[s] = None, UNCHANGED <<lockVars, lk>> PROVE Frame
  BY <1>t, <1>l, <1>1 DEF Return, GoTo, Home
<1>2. ASSUME NEW s \in Senders, NEW l \in Steps, GoTo(s, l), lk[s] = None,
             UNCHANGED <<lockVars, lk>>, \A t \in Senders \ {s} : item'[t] = item[t],
             l \in {"idle", "subscription", "recent", "active", "insert", "settings",
                    "subs", "next", "render", "refused"}
      PROVE  Frame
  BY <1>t, <1>l, <1>2 DEF GoTo
<1>3. ASSUME NEW s \in Senders, NEW l \in Steps, GoTo(s, l), lk[s] # None,
             at[s] \in {"check", "send", "sent", "refused"},
             UNCHANGED <<lockVars, lk>>, \A t \in Senders \ {s} : item'[t] = item[t],
             item'[s].id = item[s].id,
             l \in {"send", "sent", "refused", "unlock"}
      PROVE  Frame
  BY <1>t, <1>l, <1>3 DEF GoTo
<1>4. ASSUME NEW d \in Dispatchers, NEW k \in Keys, StartDispatch(d, k) PROVE Frame
  <2>1. lk[d] = None /\ d \in Senders
    BY <1>t, <1>l, <1>4 DEF StartDispatch
  <2> QED
    BY <1>t, <1>2, <1>4, <2>1 DEF StartDispatch, Steps
<1>5. ASSUME NEW d \in Dispatchers, Dispatch(d) PROVE Frame
  <2>1. lk[d] = None /\ d \in Senders
    BY <1>t, <1>l, <1>5 DEF Dispatch, ReadSubscription, CheckRecent, CheckActive, Insert
  <2>2. UNCHANGED <<lockVars, lk>>
    BY <1>5 DEF Dispatch, ReadSubscription, CheckRecent, CheckActive, Insert
  <2>3. \/ Return(d)
        \/ /\ \A t \in Senders \ {d} : item'[t] = item[t]
           /\ \E l \in {"recent", "active", "insert", "render"} : GoTo(d, l)
    BY <1>t, <1>5
    DEF Dispatch, ReadSubscription, CheckRecent, CheckActive, Insert, Advance, Stored
  <2> QED
    BY <1>1, <1>2, <2>1, <2>2, <2>3 DEF Steps
<1>6. ASSUME NEW s \in Senders, RenderFails(s) PROVE Frame
  <2>1. lk[s] = None
    BY <1>l, <1>6 DEF RenderFails
  <2> QED
    BY <1>2, <1>6, <2>1 DEF RenderFails, Steps
<1>7. ASSUME NEW s \in Senders, CheckRow(s) PROVE Frame
  <2>1. lk[s] # None /\ at[s] = "check" /\ CopyTrue(item[s])
    BY <1>t, <1>l, <1>7 DEF CheckRow, CopiesTrue, InAttempt
  <2>2. /\ \A t \in Senders \ {s} : item'[t] = item[t]
        /\ item'[s].id = item[s].id
    <3>1. CASE item' = [item EXCEPT ![s] = [Copy(item[s].id) EXCEPT !.msg = item[s].msg]]
      BY <1>t, <3>1 DEF Copy
    <3> QED
      BY <1>7, <3>1 DEF CheckRow
  <2> QED
    BY <1>3, <1>7, <2>1, <2>2 DEF CheckRow, Steps
<1>8. ASSUME NEW s \in Senders, Send(s) \/ RecordSuccess(s) PROVE Frame
  <2>1. lk[s] # None /\ at[s] \in {"send", "sent"}
    BY <1>l, <1>8 DEF Send, RecordSuccess
  <2>2. /\ UNCHANGED <<lockVars, lk, item>>
        /\ \E l \in {"sent", "refused", "unlock"} : GoTo(s, l)
    BY <1>8 DEF Send, RecordSuccess
  <2> QED
    BY <1>3, <2>1, <2>2 DEF Steps
<1>9. ASSUME NEW s \in Senders, RecordFailure(s) PROVE Frame
  <2>1. at[s] = "refused" /\ UNCHANGED <<lockVars, lk>>
    BY <1>9 DEF RecordFailure
  <2>2. CASE lk[s] = None
    BY <1>1, <1>9, <2>1, <2>2 DEF RecordFailure
  <2>3. CASE lk[s] # None
    BY <1>3, <1>9, <2>1, <2>3 DEF RecordFailure, Advance, Steps
  <2> QED
    BY <2>2, <2>3
<1>10. ASSUME NEW s \in Senders, StatementFails(s) PROVE Frame
  <2>0. UNCHANGED <<lockVars, lk>>
    BY <1>10 DEF StatementFails
  <2>1. CASE /\ at[s] \in {"subscription", "recent", "active", "insert", "settings", "subs"}
             /\ at' = [at EXCEPT ![s] = "idle"] /\ item' = [item EXCEPT ![s] = None]
    BY <1>t, <1>l, <2>0, <2>1
  <2>2. CASE at[s] \in {"check", "sent"} /\ Advance(s, "unlock")
    <3>1. lk[s] # None
      BY <1>l, <2>2
    <3> QED
      BY <1>3, <2>0, <2>2, <3>1 DEF Advance, Steps
  <2>3. CASE at[s] = "refused" /\ IF lk[s] = None THEN Return(s) ELSE Advance(s, "unlock")
    BY <1>1, <1>3, <2>0, <2>3 DEF Advance, Steps
  <2> QED
    BY <1>10, <2>1, <2>2, <2>3 DEF StatementFails
<1>11. ASSUME ProcessDue PROVE Frame
  <2>1. UNCHANGED <<lockVars, lk>>
    BY <1>11
    DEF ProcessDue, ListDue, ReadSettings, ReadSubs, BatchDone, DiscardItem, AttemptItem
  <2>2. lk[Ticker] = None
    BY <1>t, <1>l, <1>11
    DEF ProcessDue, ListDue, ReadSettings, ReadSubs, BatchDone, DiscardItem, AttemptItem
  <2>3. \A t \in Senders \ {Ticker} : item'[t] = item[t]
    BY <1>t, <1>11
    DEF ProcessDue, ListDue, ReadSettings, ReadSubs, BatchDone, DiscardItem, AttemptItem
  <2>4. \/ at' = at /\ item' = item
        \/ \E l \in {"idle", "settings", "subs", "next", "render"} : GoTo(Ticker, l)
    BY <1>11
    DEF ProcessDue, ListDue, ReadSettings, ReadSubs, BatchDone, DiscardItem, AttemptItem
  <2>5. CASE at' = at /\ item' = item
    BY <1>l, <2>1, <2>5
  <2> QED
    BY <1>2, <1>t, <2>1, <2>2, <2>3, <2>4, <2>5 DEF Steps
<1>12. CASE \/ \E i \in RowIds : EntryDue(i) \/ PruneDropped(i)
            \/ \E k \in Keys : WindowPasses(k)
            \/ EditSettings \/ UNCHANGED outboxVars
  <2>1. UNCHANGED <<lockVars, lk, at, item>>
    BY <1>12 DEF EntryDue, PruneDropped, WindowPasses, EditSettings, outboxVars
  <2> QED
    BY <1>l, <2>1
<1> HIDE DEF Frame
<1>f. Frame => \/ Crash
               \/ /\ UNCHANGED <<lockVars, lk>>
                  /\ \A t \in Senders :
                       /\ Inside(t)' <=> Inside(t)
                       /\ Locked(t)' => lk[t] # None
                       /\ lk[t] # None => /\ Locked(t)' \/ at'[t] = "refused"
                                          /\ item'[t].id = item[t].id
  BY DEF Frame
<1> QED
  BY <1>4, <1>5, <1>6, <1>7, <1>8, <1>9, <1>10, <1>11, <1>12, <1>f DEF OutboxNext, AttemptOne

(* The map of counted locks gives one lock per row id, and one holder.      *)
LEMMA LocksStep ==
  ASSUME OutboxInv, [OutboxNext]_outboxVars
  PROVE  LocksMapped' /\ LocksCounted' /\ LocksExclude'
<1>t. /\ OutboxTyped /\ CopiesTrue /\ LocksMapped /\ LocksCounted /\ LocksExclude
      /\ at \in [Senders -> Steps] /\ lockOf \in [RowIds -> Locks \cup {None}]
      /\ lk \in [Senders -> Locks \cup {None}]
      /\ refs \in [Locks -> Nat] /\ held \in [Locks -> BOOLEAN]
      /\ None \notin Locks
  BY NoneAssumption DEF OutboxInv, OutboxTyped
<1>c. ASSUME NEW s \in Senders, InAttempt(s) PROVE item[s].id \in RowIds
  BY <1>t, <1>c DEF CopiesTrue, CopyTrue
<1>1. ASSUME NEW s \in Senders, AcquireItemLock(s)
      PROVE  LocksMapped' /\ LocksCounted' /\ LocksExclude'
  <2> DEFINE i == item[s].id
  <2>1. PICK l \in Locks : /\ IF lockOf[i] = None THEN \A t \in Senders : lk[t] # l
                                                  ELSE l = lockOf[i]
                           /\ lockOf' = [lockOf EXCEPT ![i] = l]
                           /\ refs' = [refs EXCEPT ![l] = @ + 1]
                           /\ lk' = [lk EXCEPT ![s] = l]
    BY <1>1 DEF AcquireItemLock
  <2>2. /\ at[s] = "render" /\ at' = [at EXCEPT ![s] = "wait"]
        /\ item' = item /\ held' = held /\ i \in RowIds
    BY <1>1, <1>c DEF AcquireItemLock, GoTo, InAttempt
  <2>3. lk[s] = None
    BY <1>t, <2>2 DEF LocksMapped, Locked
  <2>4. /\ \A j \in RowIds : lockOf[j] = l => j = i
        /\ \A j \in RowIds : j # i => lockOf'[j] = lockOf[j]
        /\ lockOf'[i] = l
    BY <1>t, <2>1, <2>2 DEF LocksCounted, LocksExclude
  <2>5. /\ lk'[s] = l /\ at'[s] = "wait"
        /\ \A t \in Senders : t # s => lk'[t] = lk[t] /\ at'[t] = at[t]
    BY <1>t, <2>1, <2>2
  <2>6. LocksMapped'
    <3>1. ASSUME NEW t \in Senders, t # s, lk[t] # None
          PROVE  lockOf'[item[t].id] = lk[t]
      <4>1. lockOf[item[t].id] = lk[t] /\ item[t].id \in RowIds
        BY <1>t, <1>c, <3>1 DEF LocksMapped, InAttempt
      <4> QED
        BY <2>1, <2>4, <3>1, <4>1
    <3> QED
      BY <1>t, <2>1, <2>2, <2>4, <2>5, <3>1 DEF LocksMapped, Locked
  <2>7. LocksCounted'
    <3>1. ASSUME NEW k \in Locks PROVE refs'[k] = Cardinality(Users(k))'
      <4>1. CASE k = l
        <5>1. Users(l)' = Users(l) \cup {s} /\ s \notin Users(l)
          BY <1>t, <2>3, <2>5 DEF Users
        <5>2. IsFiniteSet(Users(l))
          BY SendersFinite, FS_Subset DEF Users
        <5>3. Cardinality(Users(l) \cup {s}) = Cardinality(Users(l)) + 1
          BY <5>1, <5>2, FS_AddElement
        <5>4. refs'[l] = refs[l] + 1 /\ refs[l] = Cardinality(Users(l))
          BY <1>t, <2>1 DEF LocksCounted
        <5> QED
          BY <4>1, <5>1, <5>3, <5>4
      <4>2. CASE k # l
        <5>1. Users(k)' = Users(k)
          BY <1>t, <2>3, <2>5, <4>2 DEF Users
        <5> QED
          BY <1>t, <2>1, <4>2, <5>1 DEF LocksCounted
      <4> QED
        BY <4>1, <4>2
    <3>2. ASSUME NEW j \in RowIds, lockOf'[j] # None
          PROVE  \E t \in Senders : lk'[t] = lockOf'[j]
      <4>1. CASE j = i
        BY <2>4, <2>5, <4>1
      <4>2. CASE j # i
        BY <1>t, <2>3, <2>4, <2>5, <3>2, <4>2 DEF LocksCounted
      <4> QED
        BY <4>1, <4>2
    <3> QED
      BY <3>1, <3>2 DEF LocksCounted
  <2>8. LocksExclude'
    <3>1. \A t \in Senders : Inside(t)' <=> Inside(t)
      BY <2>2, <2>5 DEF Inside
    <3>2. \A t \in Senders : Inside(t) => t # s
      BY <2>2 DEF Inside
    <3>3. \A j, k \in RowIds : lockOf'[j] # None /\ lockOf'[j] = lockOf'[k] => j = k
      BY <1>t, <2>4 DEF LocksExclude
    <3>4. \A k \in Locks : held'[k] <=> \E t \in Senders : lk'[t] = k /\ Inside(t)'
      BY <1>t, <2>2, <2>5, <3>1, <3>2 DEF LocksExclude
    <3>5. \A t, u \in Senders : Inside(t)' /\ Inside(u)' /\ lk'[t] = lk'[u] => t = u
      BY <1>t, <2>5, <3>1, <3>2 DEF LocksExclude
    <3> QED
      BY <3>3, <3>4, <3>5 DEF LocksExclude
  <2> QED
    BY <2>6, <2>7, <2>8
<1>2. ASSUME UNCHANGED <<lockOf, refs, lk, item>>,
             \A t \in Senders :
               (Locked(t) <=> Locked(t)') /\ (at[t] = "refused" <=> at'[t] = "refused")
      PROVE  LocksMapped' /\ LocksCounted'
  <2>1. \A l \in Locks : Users(l)' = Users(l)
    BY <1>2 DEF Users
  <2>2. LocksMapped'
    BY <1>2, <1>t DEF LocksMapped
  <2>3. LocksCounted'
    BY <1>2, <1>t, <2>1 DEF LocksCounted
  <2> QED
    BY <2>2, <2>3
<1>3. ASSUME NEW s \in Senders, TakeLock(s)
      PROVE  LocksMapped' /\ LocksCounted' /\ LocksExclude'
  <2>1. /\ at[s] = "wait" /\ ~held[lk[s]] /\ lk[s] \in Locks
        /\ held' = [held EXCEPT ![lk[s]] = TRUE] /\ at' = [at EXCEPT ![s] = "check"]
        /\ UNCHANGED <<lockOf, refs, lk, item>>
    BY <1>t, <1>3 DEF TakeLock, GoTo, LocksMapped, Locked
  <2>2. at'[s] = "check" /\ \A t \in Senders : t # s => at'[t] = at[t]
    BY <1>t, <2>1
  <2>3. LocksMapped' /\ LocksCounted'
    BY <1>2, <2>1, <2>2 DEF Locked
  <2>4. /\ ~Inside(s) /\ Inside(s)'
        /\ \A t \in Senders : t # s => (Inside(t)' <=> Inside(t))
    BY <2>1, <2>2 DEF Inside
  <2>5. \A t \in Senders : Inside(t) => lk[t] # lk[s]
    BY <1>t, <2>1 DEF LocksExclude
  <2>6. held'[lk[s]] /\ \A l \in Locks : l # lk[s] => held'[l] = held[l]
    BY <1>t, <2>1
  <2>7. \A l \in Locks : held'[l] <=> \E t \in Senders : lk'[t] = l /\ Inside(t)'
    BY <1>t, <2>1, <2>4, <2>6 DEF LocksExclude
  <2>8. \A t, u \in Senders : Inside(t)' /\ Inside(u)' /\ lk'[t] = lk'[u] => t = u
    BY <1>t, <2>1, <2>4, <2>5 DEF LocksExclude
  <2>9. LocksExclude'
    BY <1>t, <2>1, <2>7, <2>8 DEF LocksExclude
  <2> QED
    BY <2>3, <2>9
<1>4. ASSUME NEW s \in Senders, Unlock(s)
      PROVE  LocksMapped' /\ LocksCounted' /\ LocksExclude'
  <2>1. /\ at[s] = "unlock" /\ lk[s] \in Locks
        /\ held' = [held EXCEPT ![lk[s]] = FALSE] /\ at' = [at EXCEPT ![s] = "release"]
        /\ UNCHANGED <<lockOf, refs, lk, item>>
    BY <1>t, <1>4 DEF Unlock, GoTo, LocksMapped, Locked
  <2>2. at'[s] = "release" /\ \A t \in Senders : t # s => at'[t] = at[t]
    BY <1>t, <2>1
  <2>3. LocksMapped' /\ LocksCounted'
    BY <1>2, <2>1, <2>2 DEF Locked
  <2>4. /\ Inside(s) /\ ~Inside(s)'
        /\ \A t \in Senders : t # s => (Inside(t)' <=> Inside(t))
    BY <2>1, <2>2 DEF Inside
  <2>5. \A t \in Senders : Inside(t) /\ lk[t] = lk[s] => t = s
    BY <1>t, <2>4 DEF LocksExclude
  <2>6. ~held'[lk[s]] /\ \A l \in Locks : l # lk[s] => held'[l] = held[l]
    BY <1>t, <2>1
  <2>7. \A l \in Locks : held'[l] <=> \E t \in Senders : lk'[t] = l /\ Inside(t)'
    BY <1>t, <2>1, <2>4, <2>5, <2>6 DEF LocksExclude
  <2>8. \A t, u \in Senders : Inside(t)' /\ Inside(u)' /\ lk'[t] = lk'[u] => t = u
    BY <1>t, <2>1, <2>4 DEF LocksExclude
  <2>9. LocksExclude'
    BY <1>t, <2>1, <2>7, <2>8 DEF LocksExclude
  <2> QED
    BY <2>3, <2>9
<1>5. ASSUME NEW s \in Senders, Release(s)
      PROVE  LocksMapped' /\ LocksCounted' /\ LocksExclude'
  <2> DEFINE i == item[s].id
             l == lk[s]
  <2>1. /\ at[s] = "release" /\ l \in Locks /\ i \in RowIds /\ lockOf[i] = l
        /\ refs' = [refs EXCEPT ![l] = @ - 1]
        /\ lockOf' = IF refs[l] = 1 THEN [lockOf EXCEPT ![i] = None] ELSE lockOf
        /\ lk' = [lk EXCEPT ![s] = None] /\ held' = held
        /\ at' = [at EXCEPT ![s] = Home(s)] /\ item' = [item EXCEPT ![s] = None]
    BY <1>t, <1>5, <1>c DEF Release, Return, GoTo, LocksMapped, Locked, InAttempt
  <2>2. /\ lk'[s] = None /\ at'[s] \in {"idle", "next"}
        /\ \A t \in Senders : t # s => lk'[t] = lk[t] /\ at'[t] = at[t]
    BY <1>t, <2>1 DEF Home
  <2>3. refs[l] \in Nat \ {0} /\ (refs[l] = 1 <=> Users(l) = {s})
    BY <1>t, <2>1, UsersCounted
  <2>4. /\ refs[l] = 1 => lockOf'[i] = None /\ \A t \in Senders : lk[t] = l => t = s
        /\ refs[l] # 1 => lockOf' = lockOf /\ \E t \in Senders : t # s /\ lk[t] = l
        /\ \A j \in RowIds : j # i => lockOf'[j] = lockOf[j] /\ lockOf[j] # l
    BY <1>t, <2>1, <2>3 DEF Users, LocksExclude
  <2>5. LocksMapped'
    <3>1. ASSUME NEW t \in Senders, t # s, lk[t] # None
          PROVE  lockOf'[item'[t].id] = lk[t]
      <4>1. item'[t] = item[t] /\ lockOf[item[t].id] = lk[t] /\ item[t].id \in RowIds
        BY <1>t, <1>c, <2>1, <3>1 DEF LocksMapped, InAttempt, OutboxTyped
      <4>2. CASE item[t].id = i
        BY <2>1, <2>4, <3>1, <4>1, <4>2
      <4>3. CASE item[t].id # i
        BY <2>4, <4>1, <4>3
      <4> QED
        BY <4>2, <4>3
    <3> QED
      BY <1>t, <2>2, <3>1 DEF LocksMapped, Locked
  <2>6. LocksCounted'
    <3>1. ASSUME NEW k \in Locks PROVE refs'[k] = Cardinality(Users(k))'
      <4>1. CASE k = l
        <5>1. s \in Users(k)
          BY <4>1 DEF Users
        <5>2. IsFiniteSet(Users(k))
          BY SendersFinite, FS_Subset DEF Users
        <5>3. Cardinality(Users(k) \ {s}) = Cardinality(Users(k)) - 1
          BY <5>1, <5>2, FS_RemoveElement
        <5>4. refs'[k] = refs[k] - 1 /\ refs[k] = Cardinality(Users(k))
          BY <1>t, <2>1, <4>1 DEF LocksCounted
        <5>5. Users(k)' = Users(k) \ {s}
          BY <1>t, <2>1, <2>2, <4>1 DEF Users
        <5> QED
          BY <5>3, <5>4, <5>5
      <4>2. CASE k # l
        <5>1. Users(k)' = Users(k)
          BY <1>t, <2>1, <2>2, <4>2 DEF Users
        <5> QED
          BY <1>t, <2>1, <4>2, <5>1 DEF LocksCounted
      <4> QED
        BY <4>1, <4>2
    <3>2. ASSUME NEW j \in RowIds, lockOf'[j] # None
          PROVE  \E t \in Senders : lk'[t] = lockOf'[j]
      <4>1. CASE j = i
        BY <2>1, <2>2, <2>4, <3>2, <4>1
      <4>2. CASE j # i
        BY <1>t, <2>2, <2>4, <3>2, <4>2 DEF LocksCounted
      <4> QED
        BY <4>1, <4>2
    <3> QED
      BY <3>1, <3>2 DEF LocksCounted
  <2>7. LocksExclude'
    <3>1. \A t \in Senders : Inside(t)' <=> Inside(t)
      BY <2>1, <2>2 DEF Inside
    <3>2. \A t \in Senders : Inside(t) => t # s
      BY <2>1 DEF Inside
    <3>3. \A j, k \in RowIds : lockOf'[j] # None /\ lockOf'[j] = lockOf'[k] => j = k
      BY <1>t, <2>4 DEF LocksExclude
    <3>4. \A k \in Locks : held'[k] <=> \E t \in Senders : lk'[t] = k /\ Inside(t)'
      BY <1>t, <2>1, <2>2, <3>1, <3>2 DEF LocksExclude
    <3>5. \A t, u \in Senders : Inside(t)' /\ Inside(u)' /\ lk'[t] = lk'[u] => t = u
      BY <1>t, <2>2, <3>1, <3>2 DEF LocksExclude
    <3> QED
      BY <3>3, <3>4, <3>5 DEF LocksExclude
  <2> QED
    BY <2>5, <2>6, <2>7
<1>6. CASE Crash
  <2>1. /\ \A t \in Senders : lk'[t] = None /\ at'[t] = "idle"
        /\ \A l \in Locks : refs'[l] = 0 /\ ~held'[l]
        /\ \A i \in RowIds : lockOf'[i] = None
    BY <1>6 DEF Crash
  <2>2. \A l \in Locks : Cardinality(Users(l))' = 0
    <3>1. \A l \in Locks : Users(l)' = {}
      BY <1>t, <2>1 DEF Users
    <3> QED
      BY <3>1, FS_EmptySet
  <2>3. LocksMapped' /\ LocksCounted'
    BY <2>1, <2>2 DEF LocksMapped, LocksCounted, Locked
  <2>4. LocksExclude'
    BY <1>t, <2>1 DEF LocksExclude, Inside
  <2> QED
    BY <2>3, <2>4
<1>7. ASSUME UNCHANGED <<lockVars, lk>>,
             \A t \in Senders :
               /\ Inside(t)' <=> Inside(t)
               /\ Locked(t)' => lk[t] # None
               /\ lk[t] # None => /\ Locked(t)' \/ at'[t] = "refused"
                                  /\ item'[t].id = item[t].id
      PROVE  LocksMapped' /\ LocksCounted' /\ LocksExclude'
  <2>1. UNCHANGED <<lockOf, refs, held, lk>>
    BY <1>7 DEF lockVars
  <2>2. \A l \in Locks : Users(l)' = Users(l)
    BY <2>1 DEF Users
  <2>3. LocksMapped'
    BY <1>t, <1>7, <2>1 DEF LocksMapped
  <2>4. LocksCounted'
    BY <1>t, <2>1, <2>2 DEF LocksCounted
  <2>5. LocksExclude'
    BY <1>t, <1>7, <2>1 DEF LocksExclude
  <2> QED
    BY <2>3, <2>4, <2>5
<1> QED
  BY <1>1, <1>3, <1>4, <1>5, <1>6, <1>7, LockMoves

\* The invariant holds before anything was dispatched.
LEMMA OutboxInitInv == OutboxInit => OutboxInv
<1> SUFFICES ASSUME OutboxInit PROVE OutboxInv
  OBVIOUS
<1>0. None \notin Locks
  BY NoneAssumption
<1>1. OutboxTyped
  BY DEF OutboxInit, OutboxTyped, Steps
<1>2. AttemptsBounded /\ RowsNewest /\ NothingIsLost /\ RecordedGone
  BY DEF OutboxInit, AttemptsBounded, RowsNewest, NothingIsLost, RecordedGone
<1>3. CopiesTrue /\ RecordedIsFinal
  BY DEF OutboxInit, CopiesTrue, InAttempt, Locked, InDispatch, RecordedIsFinal
<1>4. LocksMapped
  BY DEF OutboxInit, LocksMapped, Locked
<1>5. LocksCounted
  <2>1. \A l \in Locks : Users(l) = {}
    BY <1>0 DEF OutboxInit, Users
  <2> QED
    BY <2>1, FS_EmptySet DEF OutboxInit, LocksCounted
<1>6. LocksExclude
  BY <1>0 DEF OutboxInit, LocksExclude, Inside
<1> QED
  BY <1>1, <1>2, <1>3, <1>4, <1>5, <1>6 DEF OutboxInv

\* Every step keeps the invariant: the parts, one lemma each.
LEMMA OutboxStep == OutboxInv /\ [OutboxNext]_outboxVars => OutboxInv'
  BY OutboxTypeStep, TableStep, CopiesStep, LocksStep, FinalStep DEF OutboxInv

(* The inductive invariant of the outbox holds.                             *)
THEOREM OutboxInvHolds == OutboxSpec => []OutboxInv
  BY OutboxInitInv, OutboxStep, PTL DEF OutboxSpec

(* However often entries leave the lock map and come back, no two senders   *)
(* are in the critical part of AttemptOne for one row.                      *)
THEOREM SendersExclude == OutboxSpec => []SendersExcludeEachOther
  BY OutboxInvHolds, Exclusion, PTL

(* What the queue promises, with crashes and failing statements anywhere:   *)
(* no entry is attempted more often than fixedMaxAttempts says, senders     *)
(* exclude each other, a recorded message is sent again only under an id    *)
(* given to another one, and a message stored under a fresh id is in the    *)
(* table until its success is recorded or it is given up on purpose.        *)
THEOREM OutboxIsSoundHolds == OutboxSpec => []OutboxIsSound
<1>1. OutboxInv => OutboxIsSound
  BY Exclusion DEF OutboxInv, OutboxIsSound
<1> QED
  BY OutboxInvHolds, <1>1, PTL
=============================================================================
