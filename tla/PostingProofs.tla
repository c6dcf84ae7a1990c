---------------------------- MODULE PostingProofs ----------------------------
(***************************************************************************)
(* Proofs about what becomes of a posting: PostingLifecycle for any number  *)
(* of sources, jobs and days and any thresholds, and SourceFile for any     *)
(* file, however many tables and rows it has.                               *)
(*                                                                         *)
(* Only the transaction of a source writes the records of that source, so   *)
(* that what it has decided about them is still right at commit, unless the *)
(* job was purged.  What it has decided about a job from the records of     *)
(* other sources is right as long as the tables have not changed, and that  *)
(* no job is canonical as long as it holds the lock.                        *)
(*                                                                         *)
(* The loops over the rows of a table, the tables of a file and the records *)
(* of a run have invariants of their own: the rows read so far are the jobs,*)
(* the rejected and the closed, each once, and the company known is that of *)
(* the nearest row above that names one.                                    *)
(***************************************************************************)
EXTENDS PostingLifecycle, SourceFile, FiniteSetTheorems, WellFoundedInduction, TLAPS

-----------------------------------------------------------------------------
(* Numbers *)

LEMMA LeastOf ==
  ASSUME NEW S \in SUBSET Nat, S # {}
  PROVE  Min(S) \in S /\ \A n \in S : Min(S) <= n
<1>1. PICK t \in S : \A u \in S : <<u, t>> \notin OpToRel(<, Nat)
  BY NatLessThanWellFounded, WFMin, Zenon
<1>2. \A u \in S : ~(u < t)
  BY <1>1, Zenon DEF OpToRel
<1>3. \A u \in S : t <= u
  BY <1>2
<1> QED
  BY <1>3 DEF Min

LEMMA GreatestOf ==
  ASSUME NEW n \in Nat, NEW S \in SUBSET (1..n), S # {}
  PROVE  Max(S) \in S /\ \A m \in S : Max(S) >= m
<1> DEFINE T == {k \in Nat : n - k \in S}
<1>1. T \in SUBSET Nat /\ T # {}
  <2>1. PICK x \in S : TRUE
    OBVIOUS
  <2>2. n - x \in Nat /\ n - (n - x) = x
    BY <2>1
  <2> QED
    BY <2>1, <2>2
<1>2. \A m \in S : m \in Nat /\ n - m \in T
  OBVIOUS
<1>3. \A k \in T : k \in Nat /\ n - k \in S
  OBVIOUS
<1> HIDE DEF T
<1>4. PICK t \in T : \A k \in T : t <= k
  BY <1>1, LeastOf
<1>5. PICK x \in S : \A m \in S : x >= m
  <2>1. n - t \in S /\ t \in Nat
    BY <1>3
  <2>2. \A m \in S : m \in Nat /\ t <= n - m
    BY <1>2, <1>4
  <2>3. \A m \in S : n - t >= m
    BY <2>1, <2>2
  <2> QED
    BY <2>1, <2>3
<1> QED
  BY <1>5 DEF Max

\* What holds at 0 and is kept by each step holds at the end.
LEMMA Induction ==
  ASSUME NEW n \in Nat, NEW P, 0 \in P, \A k \in 1..n : k - 1 \in P => k \in P
  PROVE  \A k \in 0..n : k \in P
<1> DEFINE T == {k \in 0..n : k \notin P}
<1>1. SUFFICES ASSUME T # {}
               PROVE  FALSE
  OBVIOUS
<1>2. T \in SUBSET Nat
  OBVIOUS
<1>3. Min(T) \in T /\ \A k \in T : Min(T) <= k
  BY <1>1, <1>2, LeastOf
<1>4. PICK m \in T : \A k \in T : m <= k
  BY <1>3
<1>5. m \in 1..n
  BY <1>4
<1>6. m - 1 \in P
  BY <1>4, <1>5
<1> QED
  BY <1>4, <1>5, <1>6

\* A loop over 1..n that starts with a and makes g[k][x] of x in step k comes to an end.
Bodies(n, S) == [1..n -> [S -> S]]
Loops(f, n, S, a, g) == f \in [0..n -> S] /\ f[0] = a /\ \A k \in 1..n : f[k] = g[k][f[k - 1]]

LEMMA LoopEnds ==
  ASSUME NEW n \in Nat, NEW S, NEW a \in S, NEW g \in Bodies(n, S)
  PROVE  \E f : Loops(f, n, S, a, g)
<1> DEFINE Runs(m, f) == f \in [0..m -> S] /\ f[0] = a /\ \A k \in 1..m : f[k] = g[k][f[k - 1]]
           P == {m \in 0..n : \E f : Runs(m, f)}
<1> USE DEF Bodies
<1>1. 0 \in P
  <2> DEFINE f == [k \in 0..0 |-> a]
  <2>1. f \in [0..0 -> S] /\ f[0] = a /\ 1..0 = {}
    OBVIOUS
  <2>2. Runs(0, f)
    BY <2>1
  <2> HIDE DEF f, Runs
  <2> QED
    BY <2>2
<1>2. ASSUME NEW m \in 1..n, m - 1 \in P
      PROVE  m \in P
  <2>1. PICK f : Runs(m - 1, f)
    BY <1>2
  <2> DEFINE h == [k \in 0..m |-> IF k = m THEN g[m][f[m - 1]] ELSE f[k]]
  <2>2. f[m - 1] \in S /\ g[m][f[m - 1]] \in S
    BY <2>1
  <2>3. h \in [0..m -> S]
    BY <2>1, <2>2
  <2>4. h[0] = a
    BY <2>1
  <2>5. ASSUME NEW k \in 1..m
        PROVE  h[k] = g[k][h[k - 1]]
    <3>1. CASE k = m
      BY <3>1
    <3>2. CASE k # m
      BY <2>1, <3>2
    <3> QED
      BY <3>1, <3>2
  <2>6. Runs(m, h)
    BY <2>3, <2>4, <2>5
  <2> HIDE DEF h, Runs
  <2> QED
    BY <2>6
<1> HIDE DEF P
<1>3. n \in P
  <2>1. \A k \in 1..n : k - 1 \in P => k \in P
    BY <1>2
  <2>2. \A k \in 0..n : k \in P
    BY <1>1, <2>1, Induction, Zenon
  <2> QED
    BY <2>2
<1>4. PICK f : Runs(n, f)
  BY <1>3 DEF P
<1>5. Loops(f, n, S, a, g)
  BY <1>4 DEF Loops
<1> HIDE DEF Runs, P
<1> QED
  BY <1>5

-----------------------------------------------------------------------------
(* The invariant of the lifecycle *)

\* The columns a transaction may write: it dates no first sight, and sets no status of a
\* job that does not exist.
JobColumns == [status : SUBSET {"active", "stale", "expired"}, first : {{}},
               expired : SUBSET (Null..Retention), reopened : SUBSET BOOLEAN]
RecordColumns == [kept : SUBSET BOOLEAN, active : SUBSET BOOLEAN,
                  missing : SUBSET (0..ExpireAfter), seen : SUBSET (0..RepostAge)]
Txn == [open : BOOLEAN, job : [Jobs -> JobColumns], rec : [Jobs -> RecordColumns],
        creates : BOOLEAN, locked : BOOLEAN, lists : SUBSET Jobs, stale : BOOLEAN]

Records ==
  /\ job \in [Jobs -> Job] /\ rec \in [Sources -> [Jobs -> Record]]
  /\ missed \in [Sources -> [Jobs -> 0..ExpireAfter]]
  /\ gone \in [Jobs -> Null..ReopenAge] /\ day \in 0..MaxDays
Typed == Records /\ txn \in [Sources -> Txn]

Idle == \A s \in Sources : txn[s].open \/ txn[s] = NoTxn

\* Records belong to jobs that exist.
Attached ==
  \A s \in Sources, j \in Jobs : IF rec[s][j].kept THEN Exists(j) ELSE rec[s][j] = NoRecord

\* A transaction writes to jobs that existed when it read them.
Writes(t, j) == IsWrite(t.job[j]) \/ IsWrite(t.rec[j])
Known == \A s \in Sources, j \in Jobs : Writes(txn[s], j) => job[j].status # "none"

NoneLeft == \A j \in Jobs : job[j].status # "none"

\* Whoever is to create a job has the lock, and there is none to join.
OneCreator ==
  /\ \A s, u \in Sources : txn[s].locked /\ txn[u].locked => s = u
  /\ \A s \in Sources : txn[s].creates => txn[s].locked /\ Canonical = {} /\ ~NoneLeft

\* The record of s as transaction t leaves it, and how many snapshots have missed the
\* occurrence by then.
Left(t, s, j) == Written(rec[s][j], t.rec[j])
More(n) == IF n < ExpireAfter THEN n + 1 ELSE n
LeftCount(t, s, j) ==
  IF j \in t.lists THEN 0
  ELSE IF t.lists = {} /\ ~t.creates THEN More(missed[s][j]) ELSE missed[s][j]

\* A record is active while few snapshots missed it, of which it counts no more than came.
Proper(r, n) ==
  IF r.kept THEN (r.active <=> r.missing < StaleAfter) /\ r.missing <= n ELSE r = NoRecord
OwnWrites(t, s) ==
  \A j \in Jobs : job[j].status # "purged" => Proper(Left(t, s, j), LeftCount(t, s, j))

\* A job is to expire that every source has missed for long.
Earned(t, s) ==
  \A j \in Jobs : "expired" \in t.job[j].status =>
    /\ Left(t, s, j).kept => Left(t, s, j).missing >= ExpireAfter
    /\ \A u \in Sources \ {s} : rec[u][j].kept => rec[u][j].missing >= ExpireAfter

Tallied ==
  \A s \in Sources, j \in Jobs :
    rec[s][j].kept => /\ rec[s][j].active <=> rec[s][j].missing < StaleAfter
                      /\ rec[s][j].missing <= missed[s][j]

IInv ==
  /\ Typed /\ Idle /\ Attached /\ Known /\ OneCreator /\ Tallied
  /\ \A s \in Sources : txn[s].open => OwnWrites(txn[s], s)
  /\ \A s \in Sources : ~txn[s].stale => Earned(txn[s], s)

-----------------------------------------------------------------------------
(* What a statement writes *)

Column(now, column) == IF column = {} THEN now ELSE CHOOSE v \in column : TRUE

LEMMA ColumnType ==
  ASSUME NEW T, NEW now \in T, NEW column \in SUBSET T
  PROVE  Column(now, column) \in T
BY DEF Column

LEMMA ColumnOfDiff ==
  ASSUME NEW old, NEW new
  PROVE  Column(old, Diff(old, new)) = new
BY DEF Column, Diff

LEMMA WrittenRecord ==
  ASSUME NEW r \in Record, NEW c \in RecordColumns
  PROVE  /\ Written(r, c) \in Record
         /\ Written(r, c).kept = Column(r.kept, c.kept)
         /\ Written(r, c).active = Column(r.active, c.active)
         /\ Written(r, c).missing = Column(r.missing, c.missing)
         /\ Written(r, c).seen = Column(r.seen, c.seen)
<1> DEFINE w == Written(r, c)
<1>1. w = [k \in {"kept", "active", "missing", "seen"} |-> Column(r[k], c[k])]
  BY DEF Written, Record, Column
<1>2. /\ w.kept = Column(r.kept, c.kept) /\ w.active = Column(r.active, c.active)
      /\ w.missing = Column(r.missing, c.missing) /\ w.seen = Column(r.seen, c.seen)
  BY <1>1
<1>3. w = [kept |-> w.kept, active |-> w.active, missing |-> w.missing, seen |-> w.seen]
  BY <1>1
<1>4. /\ r.kept \in BOOLEAN /\ r.active \in BOOLEAN
      /\ r.missing \in 0..ExpireAfter /\ r.seen \in 0..RepostAge
      /\ c.kept \in SUBSET BOOLEAN /\ c.active \in SUBSET BOOLEAN
      /\ c.missing \in SUBSET (0..ExpireAfter) /\ c.seen \in SUBSET (0..RepostAge)
  BY DEF Record, RecordColumns
<1>5. /\ Column(r.kept, c.kept) \in BOOLEAN /\ Column(r.active, c.active) \in BOOLEAN
      /\ Column(r.missing, c.missing) \in 0..ExpireAfter /\ Column(r.seen, c.seen) \in 0..RepostAge
  BY <1>4, ColumnType, Zenon
<1> HIDE DEF w
<1>7. w \in Record
  BY <1>2, <1>3, <1>5 DEF Record
<1> QED
  BY <1>2, <1>7 DEF w

LEMMA WrittenJob ==
  ASSUME NEW r \in Job, NEW c \in JobColumns
  PROVE  /\ Written(r, c) \in Job
         /\ Written(r, c).status = Column(r.status, c.status)
         /\ Written(r, c).first = r.first
<1> DEFINE w == Written(r, c)
           Statuses == {"none", "active", "stale", "expired", "purged"}
<1>1. w = [k \in {"status", "first", "expired", "reopened"} |-> Column(r[k], c[k])]
  BY DEF Written, Job, Column
<1>2. /\ w.status = Column(r.status, c.status) /\ w.first = Column(r.first, c.first)
      /\ w.expired = Column(r.expired, c.expired) /\ w.reopened = Column(r.reopened, c.reopened)
  BY <1>1
<1>3. w = [status |-> w.status, first |-> w.first, expired |-> w.expired, reopened |-> w.reopened]
  BY <1>1
<1>4. /\ r.status \in Statuses /\ r.first \in 0..RepostAge
      /\ r.expired \in Null..Retention /\ r.reopened \in BOOLEAN
      /\ c.status \in SUBSET Statuses /\ c.first = {}
      /\ c.expired \in SUBSET (Null..Retention) /\ c.reopened \in SUBSET BOOLEAN
  BY DEF Job, JobColumns
<1> HIDE DEF Statuses
<1>5. /\ Column(r.status, c.status) \in Statuses /\ Column(r.expired, c.expired) \in Null..Retention
      /\ Column(r.reopened, c.reopened) \in BOOLEAN
  BY <1>4, ColumnType, Zenon
<1>7. w.first = r.first
  BY <1>2, <1>4 DEF Column
<1> HIDE DEF w
<1>8. w \in Job
  BY <1>2, <1>3, <1>4, <1>5, <1>7 DEF Job, Statuses
<1> QED
  BY <1>2, <1>7, <1>8 DEF w

\* A transaction that writes nothing leaves a row as it is.
LEMMA NothingWritten ==
  /\ \A r \in Record, c \in RecordColumns : ~IsWrite(c) => Written(r, c) = r
  /\ \A r \in Job, c \in JobColumns : ~IsWrite(c) => Written(r, c) = r
<1>1. ASSUME NEW r \in Record, NEW c \in RecordColumns, ~IsWrite(c)
      PROVE  Written(r, c) = r
  BY <1>1 DEF IsWrite, Written, Record, RecordColumns
<1>2. ASSUME NEW r \in Job, NEW c \in JobColumns, ~IsWrite(c)
      PROVE  Written(r, c) = r
  BY <1>2 DEF IsWrite, Written, Job, JobColumns
<1> QED
  BY <1>1, <1>2

LEMMA RowTypes ==
  /\ NoJob \in Job /\ NewJob \in Job /\ [NoJob EXCEPT !.status = "purged"] \in Job
  /\ NoRecord \in Record /\ Listed \in Record
<1>1. 0 \in 0..RepostAge /\ 0 \in 0..ExpireAfter /\ Null \in Null..Retention
  BY LifecycleConstants DEF Null
<1>2. NoJob \in Job /\ NewJob \in Job /\ [NoJob EXCEPT !.status = "purged"] \in Job
  BY <1>1 DEF Job, NoJob, NewJob
<1>3. NoRecord \in Record /\ Listed \in Record
  BY <1>1 DEF Record, NoRecord, Listed
<1> QED
  BY <1>2, <1>3

LEMMA NoTxnType ==
  /\ NoTxn \in Txn /\ ~NoTxn.open /\ ~NoTxn.creates /\ ~NoTxn.locked /\ ~NoTxn.stale
  /\ NoTxn.lists = {}
  /\ \A j \in Jobs : ~Writes(NoTxn, j) /\ NoTxn.job[j].status = {}
<1>1. /\ Unwritten(NoJob) = [status |-> {}, first |-> {}, expired |-> {}, reopened |-> {}]
      /\ Unwritten(NoRecord) = [kept |-> {}, active |-> {}, missing |-> {}, seen |-> {}]
  BY DEF Unwritten, NoJob, NoRecord
<1>2. Unwritten(NoJob) \in JobColumns /\ Unwritten(NoRecord) \in RecordColumns
  BY <1>1 DEF JobColumns, RecordColumns
<1>3. ~IsWrite(Unwritten(NoJob)) /\ ~IsWrite(Unwritten(NoRecord))
  BY DEF IsWrite, Unwritten
<1>4. \A j \in Jobs : NoTxn.job[j] = Unwritten(NoJob) /\ NoTxn.rec[j] = Unwritten(NoRecord)
  BY DEF NoTxn
<1>5. \A j \in Jobs : ~Writes(NoTxn, j) /\ NoTxn.job[j].status = {}
  BY <1>1, <1>3, <1>4 DEF Writes
<1>6. NoTxn \in Txn
  BY <1>2 DEF NoTxn, Txn
<1> QED
  BY <1>5, <1>6 DEF NoTxn

-----------------------------------------------------------------------------
(* The oldest and the newest of some jobs *)

LEMMA NewestIs ==
  ASSUME NEW S \in SUBSET Jobs, S # {}
  PROVE  Max(S) \in S
BY LifecycleConstants, GreatestOf DEF Jobs

LEMMA LatestIs ==
  ASSUME NEW records, Latest(records) # Null
  PROVE  Latest(records) \in Jobs /\ records[Latest(records)].kept
<1> DEFINE kept == {j \in Jobs : records[j].kept}
<1>1. kept # {} /\ Latest(records) = Max(kept)
  BY DEF Latest
<1>2. Max(kept) \in kept
  BY <1>1, NewestIs
<1> QED
  BY <1>1, <1>2

-----------------------------------------------------------------------------
(* A transaction reads *)

\* What makes a transaction one that may begin.
Ready(t, s) ==
  /\ t \in Txn /\ ~t.stale
  /\ \A j \in Jobs : Writes(t, j) => job[j].status # "none"
  /\ t.locked => LockFree
  /\ t.creates => t.locked /\ Canonical = {} /\ ~NoneLeft
  /\ OwnWrites(t, s) /\ Earned(t, s)

LEMMA SameDecisions ==
  ASSUME NEW t, NEW u, NEW s,
         u.job = t.job, u.rec = t.rec, u.lists = t.lists, u.creates = t.creates
  PROVE  /\ OwnWrites(u, s) <=> OwnWrites(t, s)
         /\ Earned(u, s) <=> Earned(t, s)
         /\ \A j : Writes(u, j) <=> Writes(t, j)
BY DEF OwnWrites, Earned, Left, LeftCount, Writes

LEMMA BeginStep ==
  ASSUME IInv, NEW s \in Sources, NEW t, Ready(t, s), Begin(s, t)
  PROVE  IInv'
<1> DEFINE o == [t EXCEPT !.open = TRUE]
<1>1. txn' = [txn EXCEPT ![s] = o] /\ UNCHANGED <<job, rec, missed, gone, day>>
  BY DEF Begin
<1>2. /\ o \in Txn /\ o.open /\ o.stale = t.stale /\ o.locked = t.locked
      /\ o.job = t.job /\ o.rec = t.rec /\ o.lists = t.lists /\ o.creates = t.creates
  BY DEF Ready, Txn
<1> HIDE DEF o
<1>3. txn \in [Sources -> Txn]
  BY DEF IInv, Typed
<1>4. \A u \in Sources : txn'[u] = IF u = s THEN o ELSE txn[u]
  BY <1>1, <1>3
<1>5. Typed'
  BY <1>1, <1>2, <1>3 DEF IInv, Typed, Records
<1>6. Idle'
  BY <1>2, <1>4 DEF IInv, Idle
<1>7. Attached' /\ Tallied'
  BY <1>1 DEF IInv, Attached, Exists, Tallied
<1>8. OwnWrites(o, s) /\ Earned(o, s) /\ \A j : Writes(o, j) <=> Writes(t, j)
  BY <1>2, SameDecisions DEF Ready
<1>9. Known'
  <2> SUFFICES ASSUME NEW u \in Sources, NEW j \in Jobs, Writes(txn'[u], j)
               PROVE  job[j].status # "none"
    BY <1>1 DEF Known, Writes
  <2> QED
    BY <1>4, <1>8 DEF IInv, Known, Ready
<1>10. OneCreator'
  <2>1. Canonical' = Canonical /\ NoneLeft' = NoneLeft
    BY <1>1 DEF Canonical, Exists, NoneLeft
  <2>2. \A u, v \in Sources : txn'[u].locked /\ txn'[v].locked => u = v
    BY <1>2, <1>4 DEF IInv, OneCreator, Ready, LockFree
  <2>3. \A u \in Sources : txn'[u].creates => txn'[u].locked /\ Canonical = {} /\ ~NoneLeft
    BY <1>2, <1>4 DEF IInv, OneCreator, Ready
  <2> QED
    BY <2>1, <2>2, <2>3 DEF OneCreator
<1>11. ASSUME NEW u \in Sources, txn'[u].open
       PROVE  OwnWrites(txn[u], u)'
  <2>1. OwnWrites(txn'[u], u)
    BY <1>4, <1>8, <1>11 DEF IInv
  <2> QED
    BY <1>1, <2>1 DEF OwnWrites, Left, LeftCount
<1>12. ASSUME NEW u \in Sources, ~txn'[u].stale
       PROVE  Earned(txn[u], u)'
  <2>1. Earned(txn'[u], u)
    BY <1>4, <1>8, <1>12 DEF IInv
  <2> QED
    BY <1>1, <2>1 DEF Earned, Left
<1> QED
  BY <1>5, <1>6, <1>7, <1>9, <1>10, <1>11, <1>12 DEF IInv

\* A record that a transaction does not write stays as it is.
LEMMA Untouched ==
  ASSUME IInv, NEW s \in Sources, NEW t \in Txn, NEW k \in Jobs, ~IsWrite(t.rec[k])
  PROVE  /\ Left(t, s, k) = rec[s][k]
         /\ Proper(rec[s][k], missed[s][k]) /\ Proper(rec[s][k], More(missed[s][k]))
<1>1. rec[s][k] \in Record /\ missed[s][k] \in 0..ExpireAfter /\ t.rec[k] \in RecordColumns
  BY DEF IInv, Typed, Records, Txn
<1>2. Left(t, s, k) = rec[s][k]
  BY <1>1, NothingWritten DEF Left
<1>3. Proper(rec[s][k], missed[s][k])
  BY DEF IInv, Attached, Tallied, Proper
<1>4. missed[s][k] <= More(missed[s][k])
  BY <1>1, LifecycleConstants DEF More
<1>5. Proper(rec[s][k], More(missed[s][k]))
  <2>1. rec[s][k].missing \in Nat /\ More(missed[s][k]) \in Nat /\ missed[s][k] \in Nat
    BY <1>1, LifecycleConstants DEF Record, More
  <2> QED
    BY <1>3, <1>4, <2>1 DEF Proper
<1> QED
  BY <1>2, <1>3, <1>5

LEMMA NoTxnFields ==
  /\ \A j \in Jobs : NoTxn.job[j] = Unwritten(NoJob) /\ NoTxn.rec[j] = Unwritten(NoRecord)
  /\ ~IsWrite(Unwritten(NoJob)) /\ ~IsWrite(Unwritten(NoRecord))
  /\ Unwritten(NoJob).status = {}
BY DEF NoTxn, IsWrite, Unwritten, NoJob

\* The snapshot lists the posting as the occurrence of a job that is to be written, or not.
LEMMA ListsReady ==
  ASSUME IInv, NEW s \in Sources, NEW k \in Jobs, NEW t \in Txn, Exists(k),
         ~t.stale, ~t.creates, t.locked => LockFree, t.lists = {k},
         \A j \in Jobs \ {k} : t.job[j] = Unwritten(NoJob) /\ t.rec[j] = Unwritten(NoRecord),
         "expired" \notin t.job[k].status,
         Proper(Left(t, s, k), 0)
  PROVE  Ready(t, s)
<1>1. \A j \in Jobs : Writes(t, j) => job[j].status # "none"
  BY NoTxnFields DEF Writes, Exists
<1>2. ASSUME NEW j \in Jobs
      PROVE  Proper(Left(t, s, j), LeftCount(t, s, j))
  <2>1. CASE j = k
    BY <2>1 DEF LeftCount
  <2>2. CASE j # k
    <3>1. ~IsWrite(t.rec[j]) /\ LeftCount(t, s, j) = missed[s][j]
      BY <2>2, NoTxnFields DEF LeftCount
    <3> QED
      BY <3>1, Untouched
  <2> QED
    BY <2>1, <2>2
<1>3. \A j \in Jobs : "expired" \notin t.job[j].status
  BY NoTxnFields
<1> QED
  BY <1>1, <1>2, <1>3 DEF Ready, OwnWrites, Earned

LEMMA UpdateStep ==
  ASSUME IInv, NEW s \in Sources, NEW edited \in BOOLEAN, UpdateExisting(s, edited)
  PROVE  IInv'
<1> DEFINE j == Latest(rec[s])
           a == [status   |-> Diff(job[j].status, "active"), first |-> {},
                 expired  |-> Diff(job[j].expired, Null),
                 reopened |-> IF Reopens(s, j) THEN {TRUE} ELSE {}]
           b == [kept |-> {}, active |-> Diff(rec[s][j].active, TRUE),
                 missing |-> Diff(rec[s][j].missing, 0), seen |-> {0}]
           t == [NoTxn EXCEPT !.lists = {j}, !.job[j] = a, !.rec[j] = b]
           u == [NoTxn EXCEPT !.lists = {j}]
<1>1. j \in Jobs /\ rec[s][j].kept /\ Exists(j)
  <2>1. j \in Jobs /\ rec[s][j].kept
    BY LatestIs DEF UpdateExisting
  <2> QED
    BY <2>1 DEF IInv, Attached
<1>2. Begin(s, IF ~NeedsWrite(s, j, edited) THEN u ELSE t)
  BY DEF UpdateExisting
<1> HIDE DEF j
<1>3. rec[s][j] \in Record /\ missed[s][j] \in 0..ExpireAfter /\ job[j] \in Job
  BY <1>1 DEF IInv, Typed, Records
<1>4. CASE ~NeedsWrite(s, j, edited)
  <2>1. /\ u \in Txn /\ ~u.stale /\ ~u.creates /\ ~u.locked /\ u.lists = {j}
        /\ u.job = NoTxn.job /\ u.rec = NoTxn.rec
    BY <1>1, NoTxnType DEF Txn
  <2> HIDE DEF u
  <2>2. Left(u, s, j) = rec[s][j] /\ Proper(rec[s][j], missed[s][j])
    BY <1>1, <2>1, Untouched, NoTxnFields
  <2>3. Proper(rec[s][j], 0)
    BY <1>1, <1>4, <2>2 DEF Proper, NeedsWrite
  <2>4. "expired" \notin u.job[j].status
    BY <1>1, <2>1, NoTxnFields
  <2>5. \A k \in Jobs \ {j} : u.job[k] = Unwritten(NoJob) /\ u.rec[k] = Unwritten(NoRecord)
    BY <2>1, NoTxnFields
  <2>6. Ready(u, s)
    BY <1>1, <2>1, <2>2, <2>3, <2>4, <2>5, ListsReady
  <2> QED
    BY <1>2, <1>4, <2>6, BeginStep
<1>5. CASE NeedsWrite(s, j, edited)
  <2>1. a \in JobColumns
    <3>1. Diff(job[j].status, "active") \in SUBSET {"active", "stale", "expired"}
      BY DEF Diff
    <3>2. Diff(job[j].expired, Null) \in SUBSET (Null..Retention)
      BY LifecycleConstants DEF Diff, Null
    <3>3. (IF Reopens(s, j) THEN {TRUE} ELSE {}) \in SUBSET BOOLEAN
      OBVIOUS
    <3> QED
      BY <3>1, <3>2, <3>3 DEF JobColumns
  <2>2. b \in RecordColumns
    <3>1. Diff(rec[s][j].active, TRUE) \in SUBSET BOOLEAN
      BY DEF Diff
    <3>2. /\ Diff(rec[s][j].missing, 0) \in SUBSET (0..ExpireAfter)
          /\ {0} \in SUBSET (0..RepostAge)
      BY LifecycleConstants DEF Diff
    <3> QED
      BY <3>1, <3>2 DEF RecordColumns
  <2>3. "expired" \notin a.status
    BY DEF Diff
  <2>4. /\ b.kept = {} /\ b.active = Diff(rec[s][j].active, TRUE)
        /\ b.missing = Diff(rec[s][j].missing, 0)
    OBVIOUS
  <2> HIDE DEF a, b
  <2>5. /\ t \in Txn /\ ~t.stale /\ ~t.creates /\ ~t.locked /\ t.lists = {j}
        /\ t.job = [NoTxn.job EXCEPT ![j] = a] /\ t.rec = [NoTxn.rec EXCEPT ![j] = b]
    BY <1>1, <2>1, <2>2, NoTxnType DEF Txn
  <2> HIDE DEF t
  <2>6. /\ t.job[j] = a /\ t.rec[j] = b
        /\ \A k \in Jobs \ {j} : t.job[k] = Unwritten(NoJob) /\ t.rec[k] = Unwritten(NoRecord)
    BY <1>1, <2>5, NoTxnType, NoTxnFields DEF Txn
  <2>7. /\ Left(t, s, j).kept = rec[s][j].kept /\ Left(t, s, j).missing = 0
        /\ Left(t, s, j).active = TRUE
    <3>1. Left(t, s, j) = Written(rec[s][j], b)
      BY <2>6 DEF Left
    <3>2. /\ Written(rec[s][j], b).kept = Column(rec[s][j].kept, b.kept)
          /\ Written(rec[s][j], b).active = Column(rec[s][j].active, b.active)
          /\ Written(rec[s][j], b).missing = Column(rec[s][j].missing, b.missing)
      BY <1>3, <2>2, WrittenRecord, Zenon
    <3>3. Column(rec[s][j].kept, {}) = rec[s][j].kept
      BY Zenon DEF Column
    <3>4. Column(rec[s][j].active, Diff(rec[s][j].active, TRUE)) = TRUE
      BY ColumnOfDiff, Zenon
    <3>5. Column(rec[s][j].missing, Diff(rec[s][j].missing, 0)) = 0
      BY ColumnOfDiff
    <3>6. Left(t, s, j).kept = rec[s][j].kept
      BY <2>4, <3>1, <3>2, <3>3, Zenon
    <3>7. Left(t, s, j).active = TRUE
      BY <2>4, <3>1, <3>2, <3>4, Zenon
    <3>8. Left(t, s, j).missing = 0
      BY <2>4, <3>1, <3>2, <3>5, Zenon
    <3> QED
      BY <3>6, <3>7, <3>8
  <2>8. Proper(Left(t, s, j), 0)
    BY <1>1, <2>7, LifecycleConstants DEF Proper
  <2>9. Ready(t, s)
    BY <1>1, <2>3, <2>5, <2>6, <2>8, ListsReady
  <2> QED
    BY <1>2, <1>5, <2>9, BeginStep
<1> QED
  BY <1>4, <1>5

LEMMA AddStep ==
  ASSUME IInv, NEW s \in Sources, AddOccurrence(s)
  PROVE  IInv'
<1> DEFINE t == [NoTxn EXCEPT !.locked = TRUE]
           k == Max(Canonical)
           u == [t EXCEPT !.creates = TRUE]
           v == [t EXCEPT !.lists = {k}, !.rec[k] = Inserted(Listed)]
<1>1. /\ LockFree /\ (Canonical = {} => ~NoneLeft)
      /\ Begin(s, IF Canonical = {} THEN u ELSE v)
  BY DEF AddOccurrence, NoneLeft
<1>2. CASE Canonical = {}
  <2>1. /\ u \in Txn /\ ~u.stale /\ u.creates /\ u.locked /\ u.lists = {}
        /\ u.job = NoTxn.job /\ u.rec = NoTxn.rec
    BY NoTxnType DEF Txn
  <2> HIDE DEF u
  <2>2. \A j \in Jobs : ~IsWrite(u.rec[j]) /\ ~Writes(u, j) /\ u.job[j].status = {}
    BY <2>1, NoTxnType, NoTxnFields DEF Writes
  <2>3. \A j \in Jobs : LeftCount(u, s, j) = missed[s][j]
    BY <2>1 DEF LeftCount
  <2>4. OwnWrites(u, s)
    BY <2>1, <2>2, <2>3, Untouched DEF OwnWrites
  <2>5. Earned(u, s)
    BY <2>2 DEF Earned
  <2>6. Ready(u, s)
    BY <1>1, <1>2, <2>1, <2>2, <2>4, <2>5 DEF Ready
  <2> QED
    BY <1>1, <1>2, <2>6, BeginStep
<1>3. CASE Canonical # {}
  <2>1. k \in Jobs /\ Exists(k)
    <3>1. Canonical \in SUBSET Jobs
      BY DEF Canonical
    <3>2. k \in Canonical
      BY <1>3, <3>1, NewestIs
    <3> QED
      BY <3>2 DEF Canonical
  <2> DEFINE b == Inserted(Listed)
  <2>2. b = [kept |-> {TRUE}, active |-> {TRUE}, missing |-> {0}, seen |-> {0}]
    <3>1. b = [c \in {"kept", "active", "missing", "seen"} |-> {Listed[c]}]
      BY DEF Inserted, Listed
    <3>2. /\ Listed["kept"] = TRUE /\ Listed["active"] = TRUE
          /\ Listed["missing"] = 0 /\ Listed["seen"] = 0
      BY DEF Listed
    <3> HIDE DEF b
    <3> QED
      BY <3>1, <3>2
  <2>3. b \in RecordColumns
    BY <2>2, LifecycleConstants DEF RecordColumns
  <2> HIDE DEF k, b
  <2>4. /\ v \in Txn /\ ~v.stale /\ ~v.creates /\ v.lists = {k}
        /\ v.job = NoTxn.job /\ v.rec = [NoTxn.rec EXCEPT ![k] = b]
    BY <2>1, <2>3, NoTxnType DEF Txn, b
  <2> HIDE DEF v
  <2>5. /\ v.rec[k] = b /\ "expired" \notin v.job[k].status
        /\ \A j \in Jobs \ {k} : v.job[j] = Unwritten(NoJob) /\ v.rec[j] = Unwritten(NoRecord)
    BY <2>1, <2>4, NoTxnType, NoTxnFields DEF Txn
  <2>6. Left(v, s, k).active = TRUE /\ Left(v, s, k).missing = 0 /\ Left(v, s, k).kept = TRUE
    <3>1. rec[s][k] \in Record
      BY <2>1 DEF IInv, Typed, Records
    <3>2. Left(v, s, k) = Written(rec[s][k], b)
      BY <2>5 DEF Left
    <3>3. /\ Column(rec[s][k].kept, {TRUE}) = TRUE /\ Column(rec[s][k].active, {TRUE}) = TRUE
          /\ Column(rec[s][k].missing, {0}) = 0
      BY DEF Column
    <3>4. /\ Written(rec[s][k], b).kept = Column(rec[s][k].kept, b.kept)
          /\ Written(rec[s][k], b).active = Column(rec[s][k].active, b.active)
          /\ Written(rec[s][k], b).missing = Column(rec[s][k].missing, b.missing)
      BY <2>3, <3>1, WrittenRecord, Zenon
    <3>5. b.kept = {TRUE} /\ b.active = {TRUE} /\ b.missing = {0}
      BY <2>2
    <3>6. Left(v, s, k).kept = TRUE
      BY <3>2, <3>3, <3>4, <3>5, Zenon
    <3>7. Left(v, s, k).active = TRUE
      BY <3>2, <3>3, <3>4, <3>5, Zenon
    <3>8. Left(v, s, k).missing = 0
      BY <3>2, <3>3, <3>4, <3>5, Zenon
    <3> QED
      BY <3>6, <3>7, <3>8
  <2>7. Proper(Left(v, s, k), 0)
    BY <2>6, LifecycleConstants DEF Proper
  <2>8. Ready(v, s)
    BY <1>1, <2>1, <2>4, <2>5, <2>7, ListsReady
  <2> QED
    BY <1>1, <1>3, <2>8, BeginStep
<1> QED
  BY <1>2, <1>3

\* One more snapshot misses a record.
LEMMA MissedIs ==
  ASSUME NEW r \in Record, NEW n \in 0..ExpireAfter,
         r.active <=> r.missing < StaleAfter, r.missing <= n
  PROVE  /\ Missed(r) \in Record /\ Missed(r).kept = r.kept
         /\ Missed(r).active <=> Missed(r).missing < StaleAfter
         /\ Missed(r).missing <= More(n)
<1> DEFINE m == More(r.missing)
           a == r.active /\ m < StaleAfter
<1>1. Missed(r) = [r EXCEPT !.missing = m, !.active = a]
  BY DEF Missed, More
<1>2. /\ r.missing \in 0..ExpireAfter /\ ExpireAfter \in Nat /\ StaleAfter \in Nat
      /\ ExpireAfter > StaleAfter
  BY LifecycleConstants DEF Record
<1>3. m \in 0..ExpireAfter /\ m <= More(n) /\ r.missing <= m
  BY <1>2 DEF More
<1>4. a \in BOOLEAN /\ (a <=> m < StaleAfter)
  BY <1>2, <1>3
<1> HIDE DEF m, a
<1>5. /\ Missed(r) \in Record /\ Missed(r).kept = r.kept
      /\ Missed(r).missing = m /\ Missed(r).active = a
  BY <1>1, <1>3, <1>4 DEF Record
<1> QED
  BY <1>3, <1>4, <1>5

\* What is judged of a job: it expires only when all its records were missed for long.
LEMMA JudgedIs ==
  ASSUME NEW status, NEW records
  PROVE  /\ Judged(status, records).status \in SUBSET {"active", "stale", "expired"}
         /\ Judged(status, records).expired \in SUBSET (Null..Retention)
         /\ "expired" \in Judged(status, records).status =>
              \A c \in records : c.missing >= ExpireAfter
<1>1. {0} \in SUBSET (Null..Retention)
  BY LifecycleConstants DEF Null
<1> QED
  BY <1>1 DEF Judged, Diff

LEMMA MarkStep ==
  ASSUME IInv, NEW s \in Sources, NEW seen \in 0..Others, MarkMissing(s, seen)
  PROVE  IInv'
<1> DEFINE T == {j \in Jobs : Tracked(rec[s][j])}
           m(j) == Missed(rec[s][j])
           jd(j) == Judged(job[j].status, RecordsOf(j, s, m(j)))
           a(j) == [status |-> jd(j).status, first |-> {}, expired |-> jd(j).expired,
                    reopened |-> {}]
           b(j) == [kept |-> {}, active |-> Diff(rec[s][j].active, m(j).active),
                    missing |-> Diff(rec[s][j].missing, m(j).missing), seen |-> {}]
           ja == [j \in Jobs |-> IF j \in T THEN a(j) ELSE Unwritten(NoJob)]
           rb == [j \in Jobs |-> IF j \in T THEN b(j) ELSE Unwritten(NoRecord)]
           t == [NoTxn EXCEPT !.job = ja, !.rec = rb]
<1>1. Begin(s, t)
  BY DEF MarkMissing
<1>2. /\ Unwritten(NoJob) = [status |-> {}, first |-> {}, expired |-> {}, reopened |-> {}]
      /\ Unwritten(NoRecord) = [kept |-> {}, active |-> {}, missing |-> {}, seen |-> {}]
  BY DEF Unwritten, NoJob, NoRecord
<1>3. ASSUME NEW j \in T
      PROVE  /\ rec[s][j].kept /\ Exists(j)
             /\ rec[s][j] \in Record /\ missed[s][j] \in 0..ExpireAfter
             /\ rec[s][j].active <=> rec[s][j].missing < StaleAfter
             /\ rec[s][j].missing <= missed[s][j]
  <2>1. rec[s][j].kept
    BY DEF IInv, Attached, Tracked, NoRecord
  <2> QED
    BY <2>1 DEF IInv, Attached, Tallied, Typed, Records
<1>4. ASSUME NEW j \in T
      PROVE  /\ m(j) \in Record /\ m(j).kept = rec[s][j].kept
             /\ m(j).active <=> m(j).missing < StaleAfter
             /\ m(j).missing <= More(missed[s][j])
  BY <1>3, MissedIs
<1> HIDE DEF m
<1>5. ASSUME NEW j \in T
      PROVE  a(j) \in JobColumns /\ a(j).status = jd(j).status
  <2>1. /\ jd(j).status \in SUBSET {"active", "stale", "expired"}
        /\ jd(j).expired \in SUBSET (Null..Retention)
    BY JudgedIs
  <2> HIDE DEF jd
  <2> QED
    BY <2>1 DEF JobColumns
<1>6. ASSUME NEW j \in T
      PROVE  /\ b(j) \in RecordColumns /\ b(j).kept = {}
             /\ b(j).active = Diff(rec[s][j].active, m(j).active)
             /\ b(j).missing = Diff(rec[s][j].missing, m(j).missing)
  <2>1. Diff(rec[s][j].active, m(j).active) \in SUBSET BOOLEAN
    BY <1>4 DEF Diff, Record
  <2>2. Diff(rec[s][j].missing, m(j).missing) \in SUBSET (0..ExpireAfter)
    BY <1>4 DEF Diff, Record
  <2> QED
    BY <2>1, <2>2 DEF RecordColumns
<1>7. Unwritten(NoJob) \in JobColumns /\ Unwritten(NoRecord) \in RecordColumns
  BY <1>2 DEF JobColumns, RecordColumns
<1> HIDE DEF a, b
<1>8. ja \in [Jobs -> JobColumns] /\ rb \in [Jobs -> RecordColumns]
  BY <1>5, <1>6, <1>7
<1>9. /\ t \in Txn /\ ~t.stale /\ ~t.creates /\ ~t.locked /\ t.lists = {}
      /\ t.job = ja /\ t.rec = rb
  <2> HIDE DEF ja, rb
  <2> QED
    BY <1>8, NoTxnType DEF Txn
<1>10. \A j \in Jobs : /\ t.job[j] = IF j \in T THEN a(j) ELSE Unwritten(NoJob)
                       /\ t.rec[j] = IF j \in T THEN b(j) ELSE Unwritten(NoRecord)
  <2> HIDE DEF t
  <2> QED
    BY <1>9
<1> HIDE DEF t, ja, rb
<1>11. ASSUME NEW j \in T
       PROVE  /\ Left(t, s, j).kept = rec[s][j].kept
              /\ Left(t, s, j).active = m(j).active /\ Left(t, s, j).missing = m(j).missing
  <2>1. Left(t, s, j) = Written(rec[s][j], b(j))
    BY <1>10 DEF Left
  <2>2. rec[s][j] \in Record /\ b(j) \in RecordColumns
    BY <1>3, <1>6
  <2>3. /\ Written(rec[s][j], b(j)).kept = Column(rec[s][j].kept, b(j).kept)
        /\ Written(rec[s][j], b(j)).active = Column(rec[s][j].active, b(j).active)
        /\ Written(rec[s][j], b(j)).missing = Column(rec[s][j].missing, b(j).missing)
    BY <2>2, WrittenRecord, Zenon
  <2>4. Column(rec[s][j].kept, {}) = rec[s][j].kept
    BY Zenon DEF Column
  <2>5. /\ Column(rec[s][j].active, Diff(rec[s][j].active, m(j).active)) = m(j).active
        /\ Column(rec[s][j].missing, Diff(rec[s][j].missing, m(j).missing)) = m(j).missing
    BY ColumnOfDiff, Zenon
  <2>6. Left(t, s, j).kept = rec[s][j].kept
    BY <1>6, <2>1, <2>3, <2>4, Zenon
  <2>7. Left(t, s, j).active = m(j).active
    BY <1>6, <2>1, <2>3, <2>5, Zenon
  <2>8. Left(t, s, j).missing = m(j).missing
    BY <1>6, <2>1, <2>3, <2>5, Zenon
  <2> QED
    BY <2>6, <2>7, <2>8
<1>12. OwnWrites(t, s)
  <2> SUFFICES ASSUME NEW j \in Jobs PROVE Proper(Left(t, s, j), LeftCount(t, s, j))
    BY DEF OwnWrites
  <2>1. LeftCount(t, s, j) = More(missed[s][j])
    BY <1>9 DEF LeftCount
  <2>2. CASE j \in T
    BY <1>3, <1>4, <1>11, <2>1, <2>2 DEF Proper
  <2>3. CASE j \notin T
    <3>1. ~IsWrite(t.rec[j])
      BY <1>10, <2>3, NoTxnFields
    <3> QED
      BY <1>9, <2>1, <3>1, Untouched
  <2> QED
    BY <2>2, <2>3
<1>13. Earned(t, s)
  <2> SUFFICES ASSUME NEW j \in Jobs, "expired" \in t.job[j].status
               PROVE  /\ Left(t, s, j).kept => Left(t, s, j).missing >= ExpireAfter
                      /\ \A u \in Sources \ {s} : rec[u][j].kept => rec[u][j].missing >= ExpireAfter
    BY DEF Earned
  <2>1. j \in T
    BY <1>10, NoTxnFields
  <2>2. "expired" \in jd(j).status
    BY <1>5, <1>10, <2>1
  <2>3. \A c \in RecordsOf(j, s, m(j)) : c.missing >= ExpireAfter
    BY <2>2, JudgedIs
  <2>4. m(j) \in RecordsOf(j, s, m(j))
    BY DEF RecordsOf
  <2>5. \A u \in Sources \ {s} : rec[u][j].kept => rec[u][j] \in RecordsOf(j, s, m(j))
    BY DEF RecordsOf
  <2> QED
    BY <1>11, <2>1, <2>3, <2>4, <2>5
<1>14. \A j \in Jobs : Writes(t, j) => job[j].status # "none"
  <2> SUFFICES ASSUME NEW j \in Jobs, Writes(t, j) PROVE job[j].status # "none"
    OBVIOUS
  <2>1. j \in T
    BY <1>10, NoTxnFields DEF Writes
  <2> QED
    BY <1>3, <2>1 DEF Exists
<1> QED
  BY <1>1, <1>9, <1>12, <1>13, <1>14, BeginStep DEF Ready

-----------------------------------------------------------------------------
(* A transaction ends, and what happens besides *)

LEMMA OvertakenIs ==
  ASSUME NEW ts \in [Sources -> Txn], NEW changed \in BOOLEAN, NEW u \in Sources
  PROVE  LET o == Overtaken(ts, changed)[u] IN
         /\ o \in Txn /\ o.open = ts[u].open /\ o.locked = ts[u].locked
         /\ o.creates = ts[u].creates /\ o.lists = ts[u].lists
         /\ o.job = ts[u].job /\ o.rec = ts[u].rec
         /\ o.stale <=> ts[u].stale \/ (ts[u].open /\ changed)
<1> DEFINE b == ts[u].stale \/ (ts[u].open /\ changed)
<1>1. Overtaken(ts, changed)[u] = [ts[u] EXCEPT !.stale = b]
  BY DEF Overtaken
<1>2. ts[u] \in Txn /\ b \in BOOLEAN
  BY DEF Txn
<1> HIDE DEF b
<1>3. LET o == [ts[u] EXCEPT !.stale = b] IN
      /\ o \in Txn /\ o.open = ts[u].open /\ o.locked = ts[u].locked
      /\ o.creates = ts[u].creates /\ o.lists = ts[u].lists
      /\ o.job = ts[u].job /\ o.rec = ts[u].rec /\ o.stale = b
  BY <1>2 DEF Txn
<1> QED
  BY <1>1, <1>3 DEF b

LEMMA OvertakenType ==
  ASSUME NEW ts \in [Sources -> Txn], NEW changed \in BOOLEAN
  PROVE  Overtaken(ts, changed) \in [Sources -> Txn]
<1>1. \A u \in Sources : Overtaken(ts, changed)[u] \in Txn
  BY OvertakenIs
<1>2. Overtaken(ts, changed) = [u \in Sources |-> Overtaken(ts, changed)[u]]
  BY DEF Overtaken
<1> QED
  BY <1>1, <1>2

\* A transaction that is not open is not overtaken.
LEMMA IdleStays ==
  ASSUME NEW ts \in [Sources -> Txn], NEW changed \in BOOLEAN, NEW u \in Sources, ts[u] = NoTxn
  PROVE  Overtaken(ts, changed)[u] = NoTxn
<1> DEFINE o == Overtaken(ts, changed)[u]
<1>1. /\ o \in Txn /\ o.open = NoTxn.open /\ o.locked = NoTxn.locked
      /\ o.creates = NoTxn.creates /\ o.lists = NoTxn.lists
      /\ o.job = NoTxn.job /\ o.rec = NoTxn.rec /\ (o.stale <=> FALSE)
  BY OvertakenIs, NoTxnType
<1>2. NoTxn.stale = FALSE /\ o.stale = FALSE
  BY <1>1, NoTxnType DEF Txn
<1> HIDE DEF o
<1>3. \A t \in Txn : t = [open |-> t.open, job |-> t.job, rec |-> t.rec, creates |-> t.creates,
                        locked |-> t.locked, lists |-> t.lists, stale |-> t.stale]
  BY DEF Txn
<1> QED
  BY <1>1, <1>2, <1>3, NoTxnType DEF o

LEMMA NoTxnReady ==
  ASSUME NEW s
  PROVE  Earned(NoTxn, s)
BY NoTxnType DEF Earned

LEMMA AbortStep ==
  ASSUME IInv, NEW s \in Sources, Abort(s)
  PROVE  IInv'
<1>1. txn' = [txn EXCEPT ![s] = NoTxn] /\ UNCHANGED <<job, rec, missed, gone, day>>
  BY DEF Abort
<1>2. txn \in [Sources -> Txn]
  BY DEF IInv, Typed
<1>3. \A u \in Sources : txn'[u] = IF u = s THEN NoTxn ELSE txn[u]
  BY <1>1, <1>2
<1>4. Typed'
  BY <1>1, <1>2, NoTxnType DEF IInv, Typed, Records
<1>5. Idle'
  BY <1>3 DEF IInv, Idle
<1>6. Attached' /\ Tallied'
  BY <1>1 DEF IInv, Attached, Exists, Tallied
<1>7. Known'
  <2> SUFFICES ASSUME NEW u \in Sources, NEW j \in Jobs, Writes(txn'[u], j)
               PROVE  job[j].status # "none"
    BY <1>1 DEF Known, Writes
  <2> QED
    BY <1>3, NoTxnType DEF IInv, Known
<1>8. OneCreator'
  <2>1. Canonical' = Canonical /\ NoneLeft' = NoneLeft
    BY <1>1 DEF Canonical, Exists, NoneLeft
  <2>2. \A u \in Sources : txn'[u].creates => txn[u].creates /\ txn'[u].locked
    BY <1>3, NoTxnType DEF IInv, OneCreator
  <2>3. \A u, v \in Sources : txn'[u].locked /\ txn'[v].locked => u = v
    BY <1>3, NoTxnType DEF IInv, OneCreator
  <2> QED
    BY <2>1, <2>2, <2>3 DEF IInv, OneCreator
<1>9. ASSUME NEW u \in Sources, txn'[u].open
      PROVE  OwnWrites(txn[u], u)'
  <2>1. OwnWrites(txn'[u], u)
    BY <1>3, <1>9, NoTxnType DEF IInv
  <2> QED
    BY <1>1, <2>1 DEF OwnWrites, Left, LeftCount
<1>10. ASSUME NEW u \in Sources, ~txn'[u].stale
       PROVE  Earned(txn[u], u)'
  <2>1. Earned(txn'[u], u)
    BY <1>3, <1>10, NoTxnReady DEF IInv
  <2> QED
    BY <1>1, <2>1 DEF Earned, Left
<1> QED
  BY <1>4, <1>5, <1>6, <1>7, <1>8, <1>9, <1>10 DEF IInv

\* What a commit does to the tables: a new job has one record, and every other row is what
\* the transaction made of it, which leaves alone what does not exist.
CommitEffect(s, created) ==
  /\ created = {} <=> ~txn[s].creates
  /\ job' \in [Jobs -> Job] /\ rec' \in [Sources -> [Jobs -> Record]]
  /\ missed' \in [Sources -> [Jobs -> 0..ExpireAfter]]
  /\ \A u \in Sources \ {s} : rec'[u] = rec[u] /\ missed'[u] = missed[u]
  /\ \A j \in created : job'[j] = NewJob /\ rec'[s][j] = Listed
  /\ \A j \in Jobs \ created :
       /\ job'[j].status = Column(job[j].status, txn[s].job[j].status)
       /\ job'[j].first = job[j].first
       /\ rec'[s][j] = Left(txn[s], s, j)
       /\ missed'[s][j] = LeftCount(txn[s], s, j)
       /\ IF Exists(j) THEN Exists(j)' ELSE job'[j] = job[j] /\ rec'[s][j] = rec[s][j]

LEMMA CommitWrites ==
  ASSUME IInv, NEW s \in Sources, Commit(s)
  PROVE  \E created \in SUBSET {j \in Jobs : job[j].status = "none"} : CommitEffect(s, created)
<1> DEFINE t == txn[s]
           none == {j \in Jobs : job[j].status = "none"}
           created == IF t.creates THEN {Min(none)} ELSE {}
           listed == t.lists \cup created
<1>1. /\ t \in Txn /\ job \in [Jobs -> Job] /\ rec \in [Sources -> [Jobs -> Record]]
      /\ missed \in [Sources -> [Jobs -> 0..ExpireAfter]]
  BY DEF IInv, Typed, Records
<1>2. created \in SUBSET none
  <2>1. none \in SUBSET Nat
    BY LifecycleConstants DEF Jobs
  <2>2. t.creates => none # {}
    BY DEF IInv, OneCreator, NoneLeft
  <2> HIDE DEF none, t
  <2> QED
    BY <2>1, <2>2, LeastOf
<1>3. created = {} <=> ~t.creates
  OBVIOUS
<1>4. /\ job' = [j \in Jobs |-> IF j \in created THEN NewJob ELSE Written(job[j], t.job[j])]
      /\ rec' = [rec EXCEPT ![s] = [j \in Jobs |-> IF j \in created THEN Listed
                                                   ELSE Written(rec[s][j], t.rec[j])]]
      /\ missed' = [missed EXCEPT ![s] =
           [j \in Jobs |-> IF j \in listed THEN 0
                           ELSE IF listed = {} /\ missed[s][j] < ExpireAfter THEN missed[s][j] + 1
                           ELSE missed[s][j]]]
  BY <1>1 DEF Commit
<1>5. \A j \in Jobs : t.job[j] \in JobColumns /\ t.rec[j] \in RecordColumns
  BY <1>1 DEF Txn
<1> HIDE DEF created
<1>6. job' \in [Jobs -> Job]
  BY <1>1, <1>4, <1>5, WrittenJob, RowTypes
<1>7. rec' \in [Sources -> [Jobs -> Record]]
  <2>1. \A j \in Jobs : Written(rec[s][j], t.rec[j]) \in Record
    BY <1>1, <1>5, WrittenRecord
  <2> QED
    BY <1>1, <1>4, <2>1, RowTypes
<1>8. missed' \in [Sources -> [Jobs -> 0..ExpireAfter]]
  <2>1. \A n \in 0..ExpireAfter : n < ExpireAfter => n + 1 \in 0..ExpireAfter
    BY LifecycleConstants
  <2>2. 0 \in 0..ExpireAfter
    BY LifecycleConstants
  <2> HIDE DEF listed
  <2> QED
    BY <1>1, <1>4, <2>1, <2>2
<1>9. \A u \in Sources \ {s} : rec'[u] = rec[u] /\ missed'[u] = missed[u]
  BY <1>1, <1>4
<1>10. \A j \in created : job'[j] = NewJob /\ rec'[s][j] = Listed
  BY <1>1, <1>2, <1>4
<1>11. ASSUME NEW j \in Jobs \ created
       PROVE  /\ job'[j].status = Column(job[j].status, t.job[j].status)
              /\ job'[j].first = job[j].first
              /\ rec'[s][j] = Left(t, s, j)
              /\ missed'[s][j] = LeftCount(t, s, j)
              /\ IF Exists(j) THEN Exists(j)' ELSE job'[j] = job[j] /\ rec'[s][j] = rec[s][j]
  <2>1. /\ job'[j] = Written(job[j], t.job[j]) /\ rec'[s][j] = Written(rec[s][j], t.rec[j])
        /\ job[j] \in Job /\ rec[s][j] \in Record
    BY <1>1, <1>4
  <2>2. job'[j].status = Column(job[j].status, t.job[j].status) /\ job'[j].first = job[j].first
    BY <1>5, <2>1, WrittenJob
  <2>3. rec'[s][j] = Left(t, s, j)
    BY <2>1 DEF Left
  <2>4. missed'[s][j] = LeftCount(t, s, j)
    <3>1. missed'[s][j] = IF j \in listed THEN 0
                          ELSE IF listed = {} /\ missed[s][j] < ExpireAfter THEN missed[s][j] + 1
                          ELSE missed[s][j]
      BY <1>1, <1>4
    <3>2. (j \in listed <=> j \in t.lists) /\ (listed = {} <=> t.lists = {} /\ ~t.creates)
      BY <1>3
    <3> QED
      BY <3>1, <3>2 DEF LeftCount, More
  <2>5. CASE Exists(j)
    <3>1. t.job[j].status \in SUBSET {"active", "stale", "expired"}
      BY <1>5 DEF JobColumns
    <3>2. Exists(j)'
      BY <2>2, <2>5, <3>1 DEF Exists, Column
    <3> QED
      BY <2>2, <2>3, <2>4, <2>5, <3>2
  <2>6. CASE ~Exists(j)
    <3>1. ~IsWrite(t.job[j]) /\ ~IsWrite(t.rec[j])
      <4>1. CASE job[j].status = "none"
        BY <4>1 DEF IInv, Known, Writes
      <4>2. CASE job[j].status = "purged"
        BY <4>2 DEF Commit, WritesToPurged
      <4> QED
        BY <2>6, <4>1, <4>2 DEF Exists
    <3>2. job'[j] = job[j] /\ rec'[s][j] = rec[s][j]
      BY <1>5, <2>1, <3>1, NothingWritten
    <3> QED
      BY <2>2, <2>3, <2>4, <2>6, <3>2
  <2> QED
    BY <2>5, <2>6
<1> HIDE DEF none, t, listed
<1>12. CommitEffect(s, created)
  BY <1>3, <1>6, <1>7, <1>8, <1>9, <1>10, <1>11 DEF t, CommitEffect
<1> QED
  BY <1>2, <1>12 DEF none

\* What the commit of s does to the transactions: its own ends, and the others have been
\* overtaken if the tables changed.
LEMMA CommitTxns ==
  ASSUME IInv, NEW s \in Sources, Commit(s)
  PROVE  /\ txn' \in [Sources -> Txn] /\ txn'[s] = NoTxn
         /\ \A u \in Sources \ {s} :
              /\ txn'[u].open = txn[u].open /\ txn'[u].locked = txn[u].locked
              /\ txn'[u].creates = txn[u].creates /\ txn'[u].lists = txn[u].lists
              /\ txn'[u].job = txn[u].job /\ txn'[u].rec = txn[u].rec
              /\ txn[u] = NoTxn => txn'[u] = NoTxn
              /\ ~txn'[u].stale => /\ ~txn[u].stale
                                   /\ ~txn[u].open \/ (job' = job /\ rec' = rec)
<1> DEFINE changed == <<job', rec'>> # <<job, rec>>
           ts == [txn EXCEPT ![s] = NoTxn]
<1>1. ts \in [Sources -> Txn] /\ ts[s] = NoTxn /\ \A u \in Sources \ {s} : ts[u] = txn[u]
  BY NoTxnType DEF IInv, Typed
<1>2. txn' = Overtaken(ts, changed)
  BY DEF Commit
<1>3. changed \in BOOLEAN /\ (~changed => job' = job /\ rec' = rec)
  OBVIOUS
<1> HIDE DEF ts, changed
<1>4. txn' \in [Sources -> Txn] /\ txn'[s] = NoTxn
  BY <1>1, <1>2, <1>3, OvertakenType, IdleStays
<1>5. ASSUME NEW u \in Sources \ {s}
      PROVE  /\ txn'[u].open = txn[u].open /\ txn'[u].locked = txn[u].locked
             /\ txn'[u].creates = txn[u].creates /\ txn'[u].lists = txn[u].lists
             /\ txn'[u].job = txn[u].job /\ txn'[u].rec = txn[u].rec
             /\ txn[u] = NoTxn => txn'[u] = NoTxn
             /\ ~txn'[u].stale => /\ ~txn[u].stale
                                  /\ ~txn[u].open \/ (job' = job /\ rec' = rec)
  BY <1>1, <1>2, <1>3, OvertakenIs, IdleStays
<1> QED
  BY <1>4, <1>5

LEMMA CommitStep ==
  ASSUME IInv, NEW s \in Sources, Commit(s)
  PROVE  IInv'
<1> DEFINE t == txn[s]
<1>1. PICK created \in SUBSET {j \in Jobs : job[j].status = "none"} :
           /\ created = {} <=> ~t.creates
           /\ job' \in [Jobs -> Job] /\ rec' \in [Sources -> [Jobs -> Record]]
           /\ missed' \in [Sources -> [Jobs -> 0..ExpireAfter]]
           /\ \A u \in Sources \ {s} : rec'[u] = rec[u] /\ missed'[u] = missed[u]
           /\ \A j \in created : job'[j] = NewJob /\ rec'[s][j] = Listed
           /\ \A j \in Jobs \ created :
                /\ job'[j].status = Column(job[j].status, t.job[j].status)
                /\ job'[j].first = job[j].first
                /\ rec'[s][j] = Left(t, s, j)
                /\ missed'[s][j] = LeftCount(t, s, j)
                /\ IF Exists(j) THEN Exists(j)' ELSE job'[j] = job[j] /\ rec'[s][j] = rec[s][j]
  BY CommitWrites DEF CommitEffect
<1> DEFINE others == Sources \ {s}
<1>2. /\ txn' \in [Sources -> Txn] /\ txn'[s] = NoTxn
      /\ \A u \in others :
           /\ txn'[u].open = txn[u].open /\ txn'[u].locked = txn[u].locked
           /\ txn'[u].creates = txn[u].creates /\ txn'[u].lists = txn[u].lists
           /\ txn'[u].job = txn[u].job /\ txn'[u].rec = txn[u].rec
           /\ txn[u] = NoTxn => txn'[u] = NoTxn
           /\ ~txn'[u].stale => ~txn[u].stale /\ (~txn[u].open \/ (job' = job /\ rec' = rec))
  BY CommitTxns
<1>3. t.open /\ created \subseteq Jobs /\ \A j \in created : ~Exists(j) /\ Exists(j)'
  <2>1. t.open
    BY DEF Commit
  <2>2. \A j \in created : j \in Jobs /\ ~Exists(j)
    BY <1>1 DEF Exists
  <2>3. NewJob.status = "active"
    BY DEF NewJob, NoJob
  <2>4. \A j \in created : Exists(j)'
    BY <1>1, <2>3 DEF Exists
  <2> QED
    BY <2>1, <2>2, <2>4
<1>4. \A j \in Jobs : Exists(j) => Exists(j)' /\ j \notin created
  BY <1>1, <1>3
<1>5. Typed'
  <2>1. gone' \in [Jobs -> Null..ReopenAge] /\ day' = day
    <3>1. /\ gone' = [j \in Jobs |-> IF job'[j].status # "expired" THEN Null
                                     ELSE IF job[j].status # "expired" THEN 0 ELSE gone[j]]
          /\ day' = day
      BY DEF Commit
    <3>2. Null \in Null..ReopenAge /\ 0 \in Null..ReopenAge /\ gone \in [Jobs -> Null..ReopenAge]
      BY LifecycleConstants DEF IInv, Typed, Records, Null
    <3> QED
      BY <3>1, <3>2
  <2> QED
    BY <1>1, <1>2, <2>1 DEF IInv, Typed, Records
<1>6. Idle'
  BY <1>2 DEF IInv, Idle
<1>7. Attached'
  <2> SUFFICES ASSUME NEW u \in Sources, NEW j \in Jobs
               PROVE  IF rec'[u][j].kept THEN Exists(j)' ELSE rec'[u][j] = NoRecord
    BY DEF Attached
  <2>1. IF rec[u][j].kept THEN Exists(j) ELSE rec[u][j] = NoRecord
    BY DEF IInv, Attached
  <2>2. CASE u # s
    BY <1>1, <1>4, <2>1, <2>2
  <2>3. CASE u = s /\ j \in created
    BY <1>1, <1>3, <2>3 DEF Listed
  <2>4. CASE u = s /\ j \notin created /\ ~Exists(j)
    BY <1>1, <2>1, <2>4
  <2>5. CASE u = s /\ j \notin created /\ Exists(j)
    <3>1. Proper(Left(t, s, j), LeftCount(t, s, j))
      BY <1>3, <2>5 DEF IInv, OwnWrites, Exists
    <3> QED
      BY <1>1, <1>4, <2>5, <3>1 DEF Proper
  <2> QED
    BY <2>2, <2>3, <2>4, <2>5
<1>8. Tallied'
  <2> SUFFICES ASSUME NEW u \in Sources, NEW j \in Jobs, rec'[u][j].kept
               PROVE  /\ rec'[u][j].active <=> rec'[u][j].missing < StaleAfter
                      /\ rec'[u][j].missing <= missed'[u][j]
    BY DEF Tallied
  <2>1. CASE u # s
    BY <1>1, <2>1 DEF IInv, Tallied
  <2>2. CASE u = s /\ j \in created
    <3>1. missed'[u][j] \in 0..ExpireAfter
      BY <1>1
    <3> QED
      BY <1>1, <2>2, <3>1, LifecycleConstants DEF Listed
  <2>3. CASE u = s /\ j \notin created
    <3>1. Exists(j)
      BY <1>1, <2>3 DEF IInv, Attached, NoRecord
    <3>2. Proper(Left(t, s, j), LeftCount(t, s, j))
      BY <1>3, <3>1 DEF IInv, OwnWrites, Exists
    <3> QED
      BY <1>1, <2>3, <3>2 DEF Proper
  <2> QED
    BY <2>1, <2>2, <2>3
<1>9. Known'
  <2> SUFFICES ASSUME NEW u \in Sources, NEW j \in Jobs, Writes(txn'[u], j)
               PROVE  job'[j].status # "none"
    BY DEF Known, Writes
  <2>1. u # s
    BY <1>2, NoTxnType
  <2>2. job[j].status # "none"
    BY <1>2, <2>1 DEF IInv, Known, Writes
  <2> QED
    BY <1>1, <1>4, <2>2 DEF Exists
<1>10. OneCreator'
  <2>1. \A u, v \in Sources : txn'[u].locked /\ txn'[v].locked => u = v
    BY <1>2, NoTxnType DEF IInv, OneCreator
  <2>2. ASSUME NEW u \in Sources, txn'[u].creates
        PROVE  txn'[u].locked /\ Canonical' = {} /\ ~NoneLeft'
    <3>1. u # s
      BY <1>2, <2>2, NoTxnType
    <3>2. txn[u].creates /\ txn[u].locked /\ Canonical = {} /\ ~NoneLeft
      BY <1>2, <2>2, <3>1 DEF IInv, OneCreator
    <3>3. created = {}
      BY <1>1, <3>1, <3>2 DEF IInv, OneCreator
    <3>4. Canonical' = {}
      <4> SUFFICES ASSUME NEW j \in Jobs, Exists(j)', job'[j].first < RepostAge
                   PROVE  FALSE
        BY DEF Canonical
      <4>1. Exists(j) /\ job[j].first < RepostAge
        BY <1>1, <3>3 DEF Exists
      <4> QED
        BY <3>2, <4>1 DEF Canonical
    <3>5. ~NoneLeft'
      <4>1. PICK j \in Jobs : job[j].status = "none"
        BY <3>2 DEF NoneLeft
      <4>2. job'[j] = job[j]
        BY <1>1, <3>3, <4>1 DEF Exists
      <4> QED
        BY <4>1, <4>2 DEF NoneLeft
    <3> QED
      BY <1>2, <3>1, <3>2, <3>4, <3>5
  <2> QED
    BY <2>1, <2>2 DEF OneCreator
<1>11. ASSUME NEW u \in Sources, txn'[u].open
       PROVE  OwnWrites(txn[u], u)'
  <2>1. u # s /\ txn[u].open
    BY <1>2, <1>11, NoTxnType
  <2>2. OwnWrites(txn[u], u)
    BY <2>1 DEF IInv
  <2>3. /\ rec'[u] = rec[u] /\ missed'[u] = missed[u] /\ txn'[u].lists = txn[u].lists
        /\ txn'[u].creates = txn[u].creates /\ txn'[u].rec = txn[u].rec
    BY <1>1, <1>2, <2>1
  <2>4. \A j \in Jobs : job'[j].status # "purged" => job[j].status # "purged"
    BY <1>1 DEF Exists
  <2> QED
    BY <2>2, <2>3, <2>4 DEF OwnWrites, Left, LeftCount
<1>12. ASSUME NEW u \in Sources, ~txn'[u].stale
       PROVE  Earned(txn[u], u)'
  <2>1. CASE txn'[u] = NoTxn
    <3>1. \A j \in Jobs : "expired" \notin txn'[u].job[j].status
      BY <2>1, NoTxnType
    <3> QED
      BY <3>1 DEF Earned
  <2>2. CASE txn'[u] # NoTxn
    <3>1. u # s /\ txn[u].open
      BY <1>2, <2>2 DEF IInv, Idle
    <3>2. Earned(txn[u], u) /\ rec' = rec
      BY <1>2, <1>12, <3>1 DEF IInv
    <3>3. txn'[u].job = txn[u].job /\ txn'[u].rec = txn[u].rec
      BY <1>2, <3>1
    <3> QED
      BY <3>2, <3>3 DEF Earned, Left
  <2> QED
    BY <2>1, <2>2
<1> QED
  BY <1>5, <1>6, <1>7, <1>8, <1>9, <1>10, <1>11, <1>12 DEF IInv

\* The deletion of expired jobs takes away their records, and what overtakes a transaction
\* does not change what it writes.
LEMMA PurgeStep ==
  ASSUME IInv, NEW S \in SUBSET Jobs, Purge(S)
  PROVE  IInv'
<1> DEFINE Gone == [NoJob EXCEPT !.status = "purged"]
<1>1. /\ job' = [j \in Jobs |-> IF j \in S THEN Gone ELSE job[j]]
      /\ rec' = [s \in Sources |-> [j \in Jobs |-> IF j \in S THEN NoRecord ELSE rec[s][j]]]
      /\ gone' = [j \in Jobs |-> IF j \in S THEN Null ELSE gone[j]]
      /\ txn' = Overtaken(txn, TRUE) /\ missed' = missed /\ day' = day
  BY DEF Purge
<1>2. Gone \in Job /\ Gone.status = "purged"
  BY RowTypes DEF NoJob
<1>3. \A j \in S : job[j].status = "expired"
  BY DEF Purge, Purgeable
<1> HIDE DEF Gone
<1>4. /\ job \in [Jobs -> Job] /\ rec \in [Sources -> [Jobs -> Record]]
      /\ gone \in [Jobs -> Null..ReopenAge] /\ txn \in [Sources -> Txn]
  BY DEF IInv, Typed, Records
<1>5. \A j \in Jobs : job'[j] = IF j \in S THEN Gone ELSE job[j]
  BY <1>1
<1>6. \A s \in Sources, j \in Jobs : rec'[s][j] = IF j \in S THEN NoRecord ELSE rec[s][j]
  BY <1>1
<1>7. \A u \in Sources :
        /\ txn'[u].open = txn[u].open /\ txn'[u].locked = txn[u].locked
        /\ txn'[u].creates = txn[u].creates /\ txn'[u].lists = txn[u].lists
        /\ txn'[u].job = txn[u].job /\ txn'[u].rec = txn[u].rec
        /\ txn[u] = NoTxn => txn'[u] = NoTxn
        /\ ~txn'[u].stale => ~txn[u].open
  BY <1>1, <1>4, OvertakenIs, IdleStays
<1>8. Typed'
  <2>1. txn' \in [Sources -> Txn]
    BY <1>1, <1>4, OvertakenType
  <2>2. job' \in [Jobs -> Job]
    BY <1>1, <1>2, <1>4
  <2>3. rec' \in [Sources -> [Jobs -> Record]]
    BY <1>1, <1>4, RowTypes
  <2>4. gone' \in [Jobs -> Null..ReopenAge]
    <3>1. Null \in Null..ReopenAge
      BY LifecycleConstants DEF Null
    <3> QED
      BY <1>1, <1>4, <3>1
  <2> QED
    BY <1>1, <2>1, <2>2, <2>3, <2>4 DEF IInv, Typed, Records
<1>9. Idle'
  BY <1>7 DEF IInv, Idle
<1>10. \A j \in Jobs : j \notin S => (Exists(j) <=> Exists(j)')
  BY <1>5 DEF Exists
<1>11. Attached'
  <2>1. NoRecord.kept = FALSE
    BY DEF NoRecord
  <2> QED
    BY <1>6, <1>10, <2>1 DEF IInv, Attached
<1>12. Tallied'
  <2>1. NoRecord.kept = FALSE
    BY DEF NoRecord
  <2> QED
    BY <1>1, <1>6, <2>1 DEF IInv, Tallied
<1>13. Known'
  <2> SUFFICES ASSUME NEW u \in Sources, NEW j \in Jobs, Writes(txn'[u], j)
               PROVE  job'[j].status # "none"
    BY DEF Known, Writes
  <2>1. job[j].status # "none"
    BY <1>7 DEF IInv, Known, Writes
  <2> QED
    BY <1>2, <1>5, <2>1
<1>14. OneCreator'
  <2>1. Canonical = {} => Canonical' = {}
    <3> SUFFICES ASSUME NEW j \in Jobs, Exists(j)', job'[j].first < RepostAge
                 PROVE  Canonical # {}
      BY DEF Canonical
    <3>1. j \notin S
      BY <1>2, <1>5 DEF Exists
    <3> QED
      BY <1>5, <1>10, <3>1 DEF Canonical
  <2>2. ~NoneLeft => ~NoneLeft'
    BY <1>3, <1>5 DEF NoneLeft
  <2>3. \A u, v \in Sources : txn'[u].locked /\ txn'[v].locked => u = v
    BY <1>7 DEF IInv, OneCreator
  <2>4. \A u \in Sources : txn'[u].creates => txn'[u].locked /\ Canonical = {} /\ ~NoneLeft
    BY <1>7 DEF IInv, OneCreator
  <2> QED
    BY <2>1, <2>2, <2>3, <2>4 DEF OneCreator
<1>15. ASSUME NEW u \in Sources, txn'[u].open
       PROVE  OwnWrites(txn[u], u)'
  <2>1. OwnWrites(txn[u], u)
    BY <1>7, <1>15 DEF IInv
  <2> SUFFICES ASSUME NEW j \in Jobs, job'[j].status # "purged"
               PROVE  Proper(Left(txn[u], u, j), LeftCount(txn[u], u, j))'
    BY DEF OwnWrites
  <2>2. job[j].status # "purged" /\ rec'[u][j] = rec[u][j]
    BY <1>2, <1>5, <1>6
  <2>3. Left(txn[u], u, j)' = Left(txn[u], u, j)
    BY <1>7, <2>2 DEF Left
  <2>4. LeftCount(txn[u], u, j)' = LeftCount(txn[u], u, j)
    BY <1>1, <1>7 DEF LeftCount
  <2> QED
    BY <2>1, <2>2, <2>3, <2>4 DEF OwnWrites, Proper
<1>16. ASSUME NEW u \in Sources, ~txn'[u].stale
       PROVE  Earned(txn[u], u)'
  <2>1. txn'[u] = NoTxn
    BY <1>7, <1>16 DEF IInv, Idle
  <2>2. \A j \in Jobs : "expired" \notin txn'[u].job[j].status
    BY <2>1, NoTxnType
  <2> QED
    BY <2>2 DEF Earned
<1> QED
  BY <1>8, <1>9, <1>11, <1>12, <1>13, <1>14, <1>15, <1>16 DEF IInv

LEMMA OlderAge ==
  ASSUME NEW cap \in Nat, NEW age \in Null..cap
  PROVE  /\ Older(age, cap) \in Null..cap
         /\ age \in 0..cap => Older(age, cap) \in 0..cap /\ Older(age, cap) >= age
BY DEF Older, Null

\* A day passes while no transaction is open.
LEMMA TickStep ==
  ASSUME IInv, Tick
  PROVE  IInv'
<1>1. /\ job' = [j \in Jobs |->
           IF ~Exists(j) THEN job[j]
           ELSE [job[j] EXCEPT !.first = Older(@, RepostAge), !.expired = Older(@, Retention)]]
      /\ rec' = [s \in Sources |-> [j \in Jobs |->
           IF rec[s][j].kept THEN [rec[s][j] EXCEPT !.seen = Older(@, RepostAge)] ELSE rec[s][j]]]
      /\ gone' = [j \in Jobs |-> Older(gone[j], ReopenAge)]
      /\ txn' = txn /\ missed' = missed /\ day' = day + 1 /\ day < MaxDays
  BY DEF Tick
<1>2. \A s \in Sources : txn[s] = NoTxn
  BY DEF IInv, Idle, Tick
<1>3. /\ job \in [Jobs -> Job] /\ rec \in [Sources -> [Jobs -> Record]]
      /\ gone \in [Jobs -> Null..ReopenAge] /\ day \in 0..MaxDays
  BY DEF IInv, Typed, Records
<1>4. RepostAge \in Nat /\ Retention \in Nat /\ ReopenAge \in Nat /\ MaxDays \in Nat
  BY LifecycleConstants
<1>5. ASSUME NEW j \in Jobs
      PROVE  job'[j] \in Job /\ job'[j].status = job[j].status
  <2>1. CASE ~Exists(j)
    BY <1>1, <1>3, <2>1
  <2>2. CASE Exists(j)
    <3>1. /\ Older(job[j].first, RepostAge) \in 0..RepostAge
          /\ Older(job[j].expired, Retention) \in Null..Retention
      <4>1. job[j].first \in 0..RepostAge /\ job[j].expired \in Null..Retention
        BY <1>3 DEF Job
      <4>2. job[j].first \in Null..RepostAge
        BY <1>4, <4>1 DEF Null
      <4> QED
        BY <1>4, <4>1, <4>2, OlderAge
    <3>2. job'[j] = [job[j] EXCEPT !.first = Older(job[j].first, RepostAge),
                                   !.expired = Older(job[j].expired, Retention)]
      BY <1>1, <2>2
    <3>3. \A r \in Job, f \in 0..RepostAge, e \in Null..Retention :
            /\ [r EXCEPT !.first = f, !.expired = e] \in Job
            /\ [r EXCEPT !.first = f, !.expired = e].status = r.status
      BY DEF Job
    <3> DEFINE f == Older(job[j].first, RepostAge)
               e == Older(job[j].expired, Retention)
    <3>4. job[j] \in Job /\ f \in 0..RepostAge /\ e \in Null..Retention
      BY <1>3, <3>1
    <3>5. job'[j] = [job[j] EXCEPT !.first = f, !.expired = e]
      BY <3>2
    <3> HIDE DEF f, e
    <3>6. /\ [job[j] EXCEPT !.first = f, !.expired = e] \in Job
          /\ [job[j] EXCEPT !.first = f, !.expired = e].status = job[j].status
      BY <3>3, <3>4
    <3> QED
      BY <3>5, <3>6
  <2> QED
    BY <2>1, <2>2
<1>6. ASSUME NEW s \in Sources, NEW j \in Jobs
      PROVE  /\ rec'[s][j] \in Record /\ rec'[s][j].kept = rec[s][j].kept
             /\ rec'[s][j].active = rec[s][j].active /\ rec'[s][j].missing = rec[s][j].missing
             /\ ~rec[s][j].kept => rec'[s][j] = rec[s][j]
  <2>1. CASE ~rec[s][j].kept
    BY <1>1, <1>3, <2>1
  <2>2. CASE rec[s][j].kept
    <3> DEFINE r == rec[s][j]
               age == Older(r.seen, RepostAge)
    <3>1. r \in Record /\ r.seen \in 0..RepostAge
      BY <1>3 DEF Record
    <3>2. r.seen \in Null..RepostAge
      BY <1>4, <3>1 DEF Null
    <3>3. age \in 0..RepostAge
      BY <1>4, <3>1, <3>2, OlderAge
    <3>4. rec'[s][j] = [r EXCEPT !.seen = age]
      BY <1>1, <2>2
    <3> HIDE DEF r, age
    <3>5. /\ [r EXCEPT !.seen = age] \in Record /\ [r EXCEPT !.seen = age].kept = r.kept
          /\ [r EXCEPT !.seen = age].active = r.active
          /\ [r EXCEPT !.seen = age].missing = r.missing
      BY <3>1, <3>3 DEF Record
    <3> QED
      BY <2>2, <3>4, <3>5 DEF r
  <2> QED
    BY <2>1, <2>2
<1>7. Typed'
  <2>1. job' \in [Jobs -> Job]
    BY <1>1, <1>5
  <2>2. rec' \in [Sources -> [Jobs -> Record]]
    BY <1>1, <1>6
  <2>3. gone' \in [Jobs -> Null..ReopenAge]
    <3>1. \A j \in Jobs : Older(gone[j], ReopenAge) \in Null..ReopenAge
      BY <1>3, <1>4, OlderAge
    <3> QED
      BY <1>1, <3>1 DEF Null
  <2>4. day' \in 0..MaxDays
    <3>1. day' = day + 1 /\ day < MaxDays
      BY <1>1
    <3>2. day \in 0..MaxDays
      BY <1>3
    <3> QED
      BY <1>4, <3>1, <3>2
  <2> QED
    BY <1>1, <2>1, <2>2, <2>3, <2>4 DEF IInv, Typed, Records
<1>8. Idle'
  BY <1>1 DEF IInv, Idle
<1>9. \A j \in Jobs : Exists(j) <=> Exists(j)'
  BY <1>5 DEF Exists
<1>10. Attached'
  BY <1>6, <1>9 DEF IInv, Attached
<1>11. Tallied'
  <2> SUFFICES ASSUME NEW u \in Sources, NEW j \in Jobs, rec'[u][j].kept
               PROVE  /\ rec'[u][j].active <=> rec'[u][j].missing < StaleAfter
                      /\ rec'[u][j].missing <= missed'[u][j]
    BY DEF Tallied
  <2>1. /\ rec'[u][j].kept = rec[u][j].kept /\ rec'[u][j].active = rec[u][j].active
        /\ rec'[u][j].missing = rec[u][j].missing /\ missed'[u][j] = missed[u][j]
    BY <1>1, <1>6
  <2>2. rec[u][j].kept
    BY <2>1
  <2>3. /\ rec[u][j].active <=> rec[u][j].missing < StaleAfter
        /\ rec[u][j].missing <= missed[u][j]
    BY <2>2 DEF IInv, Tallied
  <2> QED
    BY <2>1, <2>3
<1>12. Known' /\ OneCreator'
  BY <1>1, <1>2, NoTxnType DEF Known, Writes, OneCreator
<1>13. ASSUME NEW u \in Sources
       PROVE  ~txn'[u].open /\ Earned(txn[u], u)'
  <2>1. txn'[u] = NoTxn
    BY <1>1, <1>2
  <2>2. \A j \in Jobs : "expired" \notin txn'[u].job[j].status
    BY <2>1, NoTxnType
  <2> QED
    BY <2>1, <2>2, NoTxnType DEF Earned
<1> QED
  BY <1>7, <1>8, <1>10, <1>11, <1>12, <1>13 DEF IInv

LEMMA InitIInv == Init => IInv
<1> SUFFICES ASSUME Init
             PROVE  IInv
  OBVIOUS
<1>1. /\ job = [j \in Jobs |-> NoJob] /\ rec = [s \in Sources |-> [j \in Jobs |-> NoRecord]]
      /\ txn = [s \in Sources |-> NoTxn] /\ day = 0 /\ gone = [j \in Jobs |-> Null]
      /\ missed = [s \in Sources |-> [j \in Jobs |-> ExpireAfter]]
  BY DEF Init
<1>2. Typed
  <2>1. 0 \in 0..MaxDays /\ ExpireAfter \in 0..ExpireAfter /\ Null \in Null..ReopenAge
    BY LifecycleConstants DEF Null
  <2> QED
    BY <1>1, <2>1, RowTypes, NoTxnType DEF Typed, Records
<1>3. \A s \in Sources : txn[s] = NoTxn
  BY <1>1
<1>4. \A s \in Sources, j \in Jobs : rec[s][j] = NoRecord /\ ~rec[s][j].kept
  BY <1>1 DEF NoRecord
<1>5. Idle /\ Attached /\ Tallied
  BY <1>3, <1>4 DEF Idle, Attached, Tallied
<1>6. Known /\ OneCreator
  BY <1>3, NoTxnType DEF Known, OneCreator
<1>7. \A s \in Sources : ~txn[s].open /\ Earned(txn[s], s)
  BY <1>3, NoTxnType, NoTxnReady
<1> QED
  BY <1>2, <1>5, <1>6, <1>7 DEF IInv

LEMMA StepIInv == IInv /\ [Next]_vars => IInv'
<1> SUFFICES ASSUME IInv, [Next]_vars
             PROVE  IInv'
  OBVIOUS
<1>1. CASE \E s \in Sources, edited \in BOOLEAN : UpdateExisting(s, edited)
  BY <1>1, UpdateStep
<1>2. CASE \E s \in Sources : AddOccurrence(s)
  BY <1>2, AddStep
<1>3. CASE \E s \in Sources, seen \in 0..Others : MarkMissing(s, seen)
  BY <1>3, MarkStep
<1>4. CASE \E s \in Sources : Commit(s)
  BY <1>4, CommitStep
<1>5. CASE \E s \in Sources : Abort(s)
  BY <1>5, AbortStep
<1>6. CASE \E S \in SUBSET Jobs : Purge(S)
  BY <1>6, PurgeStep
<1>7. CASE Tick
  BY <1>7, TickStep
<1>8. CASE UNCHANGED vars
  <2>1. UNCHANGED <<job, rec, txn, missed, gone, day>>
    BY <1>8 DEF vars
  <2> QED
    BY <2>1 DEF IInv, Typed, Records, Idle, Attached, Known, Writes, OneCreator, Canonical, NoneLeft,
                Exists, Tallied, OwnWrites, Earned, Left, LeftCount
<1> QED
  BY <1>1, <1>2, <1>3, <1>4, <1>5, <1>6, <1>7, <1>8 DEF Next, Snapshot

\* The tables and the open transactions stay as the comments of the parts of IInv say.
THEOREM Invariance == Spec => []IInv
<1>1. Init => IInv
  BY InitIInv
<1>2. IInv /\ [Next]_vars => IInv'
  BY StepIInv
<1> QED
  BY <1>1, <1>2, PTL DEF Spec

\* Every variable keeps its shape, and a record is active exactly while few snapshots in a
\* row missed it, whatever happens to its job: TypeOK.
THEOREM TypeCorrect == Spec => []TypeOK
<1>1. IInv => TypeOK
  <2> SUFFICES ASSUME IInv
               PROVE  TypeOK
    OBVIOUS
  <2>1. Records /\ \A s \in Sources : txn[s] \in Txn
    BY DEF IInv, Typed
  <2>2. \A s \in Sources :
          {txn[s].open, txn[s].creates, txn[s].locked, txn[s].stale} \subseteq BOOLEAN
    BY <2>1 DEF Txn
  <2> QED
    BY <2>1, <2>2 DEF Records, IInv, Tallied, TypeOK
<1> QED
  BY <1>1, Invariance, PTL

\* Only a commit or the deletion of expired jobs changes the status of a job.
LEMMA StatusWriters ==
  ASSUME IInv, [Next]_vars, \A s \in Sources : ~Commit(s), NEW j \in Jobs,
         job'[j].status # job[j].status
  PROVE  job[j].status = "expired" /\ job'[j].status = "purged"
<1>1. job' # job
  OBVIOUS
<1>2. ASSUME NEW S \in SUBSET Jobs, Purge(S)
      PROVE  job[j].status = "expired" /\ job'[j].status = "purged"
  <2>1. job'[j] = IF j \in S THEN [NoJob EXCEPT !.status = "purged"] ELSE job[j]
    BY <1>2 DEF Purge
  <2>2. j \in S /\ job'[j] = [NoJob EXCEPT !.status = "purged"]
    BY <2>1
  <2> QED
    BY <1>2, <2>2 DEF Purge, Purgeable, NoJob
<1>3. ~Tick
  <2> SUFFICES ASSUME Tick
               PROVE  FALSE
    OBVIOUS
  <2>1. job[j] \in Job
    BY DEF IInv, Typed, Records
  <2>2. job'[j] = IF ~Exists(j) THEN job[j]
                  ELSE [job[j] EXCEPT !.first = Older(@, RepostAge),
                                      !.expired = Older(@, Retention)]
    BY DEF Tick
  <2>3. job'[j].status = job[j].status
    <3>1. CASE ~Exists(j)
      BY <2>2, <3>1
    <3>2. CASE Exists(j)
      BY <2>1, <2>2, <3>2 DEF Job
    <3> QED
      BY <3>1, <3>2
  <2> QED
    BY <2>3
<1>4. ASSUME NEW s \in Sources, Snapshot(s) \/ Abort(s)
      PROVE  FALSE
  BY <1>1, <1>4 DEF Snapshot, UpdateExisting, AddOccurrence, MarkMissing, Begin, Abort
<1>5. ~UNCHANGED vars
  BY <1>1 DEF vars
<1> QED
  BY <1>2, <1>3, <1>4, <1>5 DEF Next

\* No job is created for the posting while there is one that a new occurrence would join,
\* whatever the sources that list it for the first time, or again, do at once: the lock on
\* the identity of the posting makes what its holder found true at its commit.
THEOREM CreatedOnce == Spec => NoSecondCreation
<1>1. IInv /\ [Next]_vars =>
        [(\E j \in Jobs : job[j].status = "none" /\ job'[j].status # "none") =>
           ~\E j \in Jobs : Exists(j) /\ job[j].first < RepostAge]_vars
  <2> SUFFICES ASSUME IInv, [Next]_vars,
                      NEW j \in Jobs, job[j].status = "none", job'[j].status # "none"
               PROVE  ~\E k \in Jobs : Exists(k) /\ job[k].first < RepostAge
    OBVIOUS
  <2>1. PICK s \in Sources : Commit(s)
    BY StatusWriters
  <2>2. PICK created \in SUBSET {k \in Jobs : job[k].status = "none"} : CommitEffect(s, created)
    BY <2>1, CommitWrites
  <2>3. /\ created = {} <=> ~txn[s].creates
        /\ \A k \in Jobs \ created : ~Exists(k) => job'[k] = job[k]
    BY <2>2 DEF CommitEffect
  <2>4. Canonical = {}
    <3>1. j \in created
      BY <2>3 DEF Exists
    <3> QED
      BY <2>3, <3>1 DEF IInv, OneCreator
  <2> QED
    BY <2>4 DEF Canonical
<1>2. Spec => [][(\E j \in Jobs : job[j].status = "none" /\ job'[j].status # "none") =>
           ~\E j \in Jobs : Exists(j) /\ job[j].first < RepostAge]_vars
  BY <1>1, Invariance, PTL DEF Spec
<1> QED
  BY <1>2 DEF NoSecondCreation

\* A job expires only when every source with an occurrence of it has missed it in
\* ExpireAfter snapshots since it last listed it, unless the tables changed while the
\* transaction was open: that one reads the records of the other sources once, while its own
\* record is its own to write.
THEOREM ExpiredInTime == Spec => ExpiryIsEarned
<1>1. IInv /\ IInv' /\ [Next]_vars =>
        [\A j \in Jobs : job[j].status # "expired" /\ job'[j].status = "expired" =>
           \/ \E s \in Sources : CommitsStale(s)
           \/ \A s \in Sources :
                rec'[s][j].kept => ~rec'[s][j].active /\ missed'[s][j] >= ExpireAfter]_vars
  <2> SUFFICES ASSUME IInv, IInv', [Next]_vars, NEW j \in Jobs,
                      job[j].status # "expired", job'[j].status = "expired",
                      \A s \in Sources : ~CommitsStale(s),
                      NEW u \in Sources, rec'[u][j].kept
               PROVE  ~rec'[u][j].active /\ missed'[u][j] >= ExpireAfter
    OBVIOUS
  <2>1. PICK s \in Sources : Commit(s)
    BY StatusWriters
  <2> DEFINE t == txn[s]
  <2>2. PICK created \in SUBSET {k \in Jobs : job[k].status = "none"} : CommitEffect(s, created)
    BY <2>1, CommitWrites
  <2>3. /\ \A v \in Sources \ {s} : rec'[v] = rec[v]
        /\ job'[j].status = Column(job[j].status, t.job[j].status)
        /\ rec'[s][j] = Left(t, s, j)
    <3>1. j \notin created
      <4>1. \A k \in created : job'[k] = NewJob
        BY <2>2 DEF CommitEffect
      <4> QED
        BY <4>1 DEF NewJob, NoJob
    <3> QED
      BY <2>2, <3>1 DEF CommitEffect
  <2>4. "expired" \in t.job[j].status
    BY <2>3 DEF Column
  <2>5. ~t.stale
    <3>1. txn'[s] = NoTxn
      BY <2>1, CommitTxns
    <3> QED
      BY <3>1, NoTxnType DEF CommitsStale
  <2>6. rec'[u][j].missing >= ExpireAfter
    <3>1. Earned(t, s)
      BY <2>5 DEF IInv
    <3> QED
      BY <2>3, <2>4, <3>1 DEF Earned
  <2>7. /\ rec'[u][j].active <=> rec'[u][j].missing < StaleAfter
        /\ rec'[u][j].missing <= missed'[u][j]
    BY DEF IInv, Tallied
  <2>8. rec'[u][j].missing \in 0..ExpireAfter /\ missed'[u][j] \in 0..ExpireAfter
    BY DEF IInv, Typed, Records, Record
  <2> QED
    BY <2>6, <2>7, <2>8, LifecycleConstants
<1>2. Spec => [][\A j \in Jobs : job[j].status # "expired" /\ job'[j].status = "expired" =>
           \/ \E s \in Sources : CommitsStale(s)
           \/ \A s \in Sources :
                rec'[s][j].kept => ~rec'[s][j].active /\ missed'[s][j] >= ExpireAfter]_vars
  BY <1>1, Invariance, PTL DEF Spec
<1> QED
  BY <1>2 DEF ExpiryIsEarned

-----------------------------------------------------------------------------
(* Terms *)

Evident == [1..5 -> Evidence]
Terms == [season : Seasons \cup {None}, year : Nat]

LEMMA SeasonsFinite ==
  ASSUME NEW S \in SUBSET Seasons
  PROVE  /\ IsFiniteSet(S) /\ Cardinality(S) \in Nat
         /\ S # {} /\ ~(Cardinality(S) > 1) => \E s \in S : S = {s}
<1>1. IsFiniteSet(Seasons)
  <2>1. IsFiniteSet({"Winter"})
    BY FS_EmptySet, FS_AddElement
  <2>2. IsFiniteSet({"Winter"} \cup {"Summer"})
    BY <2>1, FS_AddElement
  <2>3. IsFiniteSet({"Winter"} \cup {"Summer"} \cup {"Fall"})
    BY <2>2, FS_AddElement
  <2>4. Seasons = {"Winter"} \cup {"Summer"} \cup {"Fall"}
    BY DEF Seasons
  <2> QED
    BY <2>3, <2>4
<1>2. IsFiniteSet(S) /\ Cardinality(S) \in Nat
  BY <1>1, FS_Subset, FS_CardinalityType
<1>3. ASSUME NEW s \in S, ~(Cardinality(S) > 1)
      PROVE  S = {s}
  <2>1. IsFiniteSet(S \ {s}) /\ Cardinality(S \ {s}) = Cardinality(S) - 1
    BY <1>2, FS_RemoveElement
  <2>2. Cardinality(S \ {s}) \in Nat
    BY <2>1, FS_CardinalityType
  <2>3. S \ {s} = {}
    BY <1>2, <1>3, <2>1, <2>2, FS_EmptySet
  <2> QED
    BY <2>3
<1> QED
  BY <1>2, <1>3

LEMMA CandidatesType ==
  ASSUME NEW row \in Row, NEW heading \in Evidence
  PROVE  Candidates(row, heading) \in Evident
BY FileConstants DEF Candidates, Evident, Row

\* A term that is found is that of a text that names one season, and no text before it names
\* any or says that there is no one term.
LEMMA TermFound ==
  ASSUME NEW texts \in Evident
  PROVE  /\ Term(texts) \in Terms
         /\ Term(texts) # NoTerm =>
              \E k \in 1..5 :
                /\ texts[k].seasons = {Term(texts).season} /\ ~texts[k].off
                /\ \A h \in 1..(k - 1) : texts[h].seasons = {} /\ ~texts[h].off
<1> DEFINE m == Min(Settling(texts))
           y == Min(Years(texts))
<1>1. DOMAIN texts = 1..5 /\ \A k \in 1..5 : texts[k] \in Evidence
  BY DEF Evident
<1>2. \A k \in 1..5 : texts[k].seasons \in SUBSET Seasons /\ texts[k].year \in Nat /\ texts[k].off \in BOOLEAN
  BY <1>1 DEF Evidence
<1>3. Settling(texts) \in SUBSET (1..5) /\ Years(texts) \in SUBSET (1..5)
  BY <1>1 DEF Settling, Years
<1>4. Settling(texts) # {} => m \in Settling(texts) /\ \A k \in Settling(texts) : m <= k
  BY <1>3, LeastOf
<1>5. Years(texts) # {} => y \in Years(texts)
  BY <1>3, LeastOf
<1>6. NoTerm \in Terms
  BY DEF NoTerm, Terms, NoYear
<1>7. CASE Settling(texts) = {} \/ texts[m].off \/ Many(texts[m])
  <2>1. Term(texts) = NoTerm
    BY <1>7 DEF Term
  <2> QED
    BY <1>6, <2>1
<1>8. CASE Settling(texts) # {} /\ ~texts[m].off /\ ~Many(texts[m])
  <2>1. m \in 1..5 /\ m \in Settling(texts)
    BY <1>3, <1>4, <1>8
  <2>2. texts[m].seasons # {} /\ YearOf(texts, m) # NoYear
    BY <1>8, <2>1 DEF Settling
  <2>3. PICK s \in texts[m].seasons : texts[m].seasons = {s}
    BY <1>2, <1>8, <2>1, <2>2, SeasonsFinite DEF Many
  <2>4. Term(texts) = [season |-> s, year |-> YearOf(texts, m)]
    <3>1. (CHOOSE x \in texts[m].seasons : TRUE) = s
      BY <2>3
    <3> QED
      BY <1>8, <3>1 DEF Term
  <2>5. Years(texts) # {}
    BY <1>1, <2>1, <2>2 DEF YearOf, Years
  <2>6. YearOf(texts, m) \in Nat
    BY <1>2, <1>3, <1>5, <2>1 DEF YearOf
  <2>7. Term(texts) \in Terms /\ Term(texts).season = s
    <3>1. s \in Seasons
      BY <1>2, <2>1, <2>3
    <3> QED
      BY <2>4, <2>6, <3>1 DEF Terms
  <2>8. ASSUME NEW h \in 1..(m - 1)
        PROVE  texts[h].seasons = {} /\ ~texts[h].off
    <3>1. h \in 1..5 /\ h \notin Settling(texts)
      BY <1>4, <1>8, <2>1
    <3>2. ~texts[h].off /\ (texts[h].seasons = {} \/ YearOf(texts, h) = NoYear)
      BY <1>1, <3>1 DEF Settling
    <3>3. YearOf(texts, h) # NoYear
      BY <1>5, <2>5 DEF YearOf, Years
    <3> QED
      BY <3>2, <3>3
  <2> QED
    BY <1>8, <2>1, <2>3, <2>7, <2>8
<1> QED
  BY <1>7, <1>8

-----------------------------------------------------------------------------
(* Rows *)

\* The position of a job in the file, and what a row must be to become it.
At(j) == <<j.table, j.row>>
Sound(j) ==
  /\ At(j) \in Rows /\ Above(At(j)) # {}
  /\ j.company = RowAt(<<j.table, Max(Above(At(j)))>>).company
  /\ j.term = Term(Candidates(RowAt(At(j)), Tables[j.table].heading))

\* The rows D have been read.
Accounted(acc, D) ==
  /\ acc \in Parsed /\ IsFiniteSet(D)
  /\ acc.errors < MaxErrors =>
       Len(acc.records) + acc.errors + Cardinality(Closed \cap D) = Cardinality(D)
  /\ \A i \in 1..Len(acc.records) : Sound(acc.records[i])

\* What the parser knows after the first r rows of table t.
Knows(acc, t, r) ==
  /\ acc.open <=> (Tables[t].html \/ \A i \in 1..r : Tables[t].rows[i].fit)
  /\ acc.open => acc.above = IF Above(<<t, r>>) = {} THEN None
                             ELSE RowAt(<<t, Max(Above(<<t, r>>))>>).company

\* The rows above row r of table t when the tables with this html are read.
Done(html, t, r) ==
  {x \in Rows : \/ html /\ ~Tables[x[1]].html
                \/ Tables[x[1]].html = html /\ (x[1] < t \/ (x[1] = t /\ x[2] <= r))}

LEMMA FileTypes ==
  ASSUME file \in File
  PROVE  /\ Tables \in Seq(Table) /\ Len(Tables) \in Nat /\ DOMAIN Tables = 1..Len(Tables)
         /\ \A t \in 1..Len(Tables) :
              /\ Tables[t] \in Table /\ Tables[t].html \in BOOLEAN /\ Tables[t].heading \in Evidence
              /\ Tables[t].rows \in Seq(Row) /\ Len(Tables[t].rows) \in Nat
              /\ DOMAIN Tables[t].rows = 1..Len(Tables[t].rows)
              /\ \A r \in 1..Len(Tables[t].rows) : Tables[t].rows[r] \in Row
<1>1. Tables \in Seq(Table)
  BY DEF Tables, File
<1>2. ASSUME NEW t \in 1..Len(Tables)
      PROVE  /\ Tables[t] \in Table /\ Tables[t].html \in BOOLEAN /\ Tables[t].heading \in Evidence
             /\ Tables[t].rows \in Seq(Row)
  <2>1. Tables[t] \in Table
    BY <1>1
  <2> QED
    BY <2>1 DEF Table
<1>3. ASSUME NEW t \in 1..Len(Tables)
      PROVE  /\ Len(Tables[t].rows) \in Nat /\ DOMAIN Tables[t].rows = 1..Len(Tables[t].rows)
             /\ \A r \in 1..Len(Tables[t].rows) : Tables[t].rows[r] \in Row
  BY <1>2
<1> QED
  BY <1>1, <1>2, <1>3

\* The company of the rows below changes with a row that names one.
LEMMA AboveGrows ==
  ASSUME NEW t, NEW r \in Nat \ {0}
  PROVE  /\ Naming(<<t, r>>) => Above(<<t, r>>) # {} /\ Max(Above(<<t, r>>)) = r
         /\ ~Naming(<<t, r>>) => Above(<<t, r>>) = Above(<<t, r - 1>>)
<1>1. \A n \in Nat : Above(<<t, n>>) = {q \in 1..n : Naming(<<t, q>>)}
  BY DEF Above
<1>2. CASE Naming(<<t, r>>)
  <2>1. r \in Above(<<t, r>>) /\ Above(<<t, r>>) \in SUBSET (1..r)
    <3>1. Above(<<t, r>>) = {q \in 1..r : Naming(<<t, q>>)}
      BY <1>1
    <3>2. r \in 1..r
      OBVIOUS
    <3> QED
      BY <1>2, <3>1, <3>2
  <2>2. Max(Above(<<t, r>>)) \in Above(<<t, r>>) /\ Max(Above(<<t, r>>)) >= r
    BY <2>1, GreatestOf
  <2>3. Max(Above(<<t, r>>)) \in 1..r
    BY <2>1, <2>2
  <2> QED
    BY <1>2, <2>1, <2>2, <2>3
<1>3. CASE ~Naming(<<t, r>>)
  <2>1. r - 1 \in Nat /\ \A q \in 1..r : q \in 1..(r - 1) \/ q = r
    OBVIOUS
  <2>2. \A q \in 1..(r - 1) : q \in 1..r
    OBVIOUS
  <2> QED
    BY <1>1, <1>3, <2>1, <2>2
<1> QED
  BY <1>2, <1>3

LEMMA DoneGrows ==
  ASSUME file \in File, NEW t \in Readable, NEW r \in 1..Len(Tables[t].rows)
  PROVE  LET before == Done(Tables[t].html, t, r - 1)
             after == Done(Tables[t].html, t, r)
         IN  IF r \in Until(t)
             THEN <<t, r>> \in Rows /\ <<t, r>> \notin before /\ after = before \cup {<<t, r>>}
             ELSE after = before
<1> DEFINE before == Done(Tables[t].html, t, r - 1)
           after == Done(Tables[t].html, t, r)
<1>1. t \in 1..Len(Tables) /\ r \in Nat /\ \A x \in Rows : x = <<x[1], x[2]>> /\ x[1] \in Nat /\ x[2] \in Nat /\ x[2] \in Until(x[1])
  BY FileTypes DEF Rows, Readable, Until
<1>2. \A x \in Rows : x[1] = t => (x[2] <= r <=> x[2] <= r - 1 \/ x = <<t, r>>)
  BY <1>1
<1>3. r \in Until(t) <=> <<t, r>> \in Rows
  BY <1>1 DEF Rows
<1>4. \A x : x \in after <=> x \in before \/ (x = <<t, r>> /\ x \in Rows)
  BY <1>1, <1>2 DEF Done
<1>5. <<t, r>> \notin before
  BY <1>1, FileTypes DEF Done
<1>6. CASE r \in Until(t)
  <2>1. after = before \cup {<<t, r>>}
    BY <1>3, <1>4, <1>6, Zenon
  <2> QED
    BY <1>3, <1>5, <1>6, <2>1
<1>7. CASE r \notin Until(t)
  <2>1. after = before
    BY <1>3, <1>4, <1>7, Zenon
  <2> QED
    BY <1>7, <2>1
<1> QED
  BY <1>6, <1>7

LEMMA RejectedIs ==
  ASSUME NEW acc \in Parsed
  PROVE  /\ Rejected(acc) \in Parsed /\ Rejected(acc).open = acc.open
         /\ Rejected(acc).above = acc.above /\ Rejected(acc).records = acc.records
         /\ Rejected(acc).errors < MaxErrors =>
              acc.errors < MaxErrors /\ Rejected(acc).errors = acc.errors + 1
<1> DEFINE e == Min({acc.errors + 1, MaxErrors})
<1>1. acc.errors \in 0..MaxErrors /\ MaxErrors \in Nat
  BY FileConstants DEF Parsed
<1>2. {acc.errors + 1, MaxErrors} \in SUBSET Nat
  BY <1>1
<1>3. e \in {acc.errors + 1, MaxErrors} /\ e <= acc.errors + 1 /\ e <= MaxErrors
  BY <1>2, LeastOf
<1>4. Rejected(acc) = [acc EXCEPT !.errors = e]
  BY DEF Rejected
<1> HIDE DEF e
<1>5. e \in 0..MaxErrors
  BY <1>1, <1>3
<1>6. /\ Rejected(acc) \in Parsed /\ Rejected(acc).open = acc.open
      /\ Rejected(acc).above = acc.above /\ Rejected(acc).records = acc.records
      /\ Rejected(acc).errors = e
  BY <1>4, <1>5 DEF Parsed
<1> QED
  BY <1>1, <1>3, <1>6

\* A row that is read is rejected, or closed, or becomes a job.
LEMMA OneMore ==
  ASSUME NEW acc, NEW D, NEW new \in Parsed, Accounted(acc, D), NEW x \in Rows, x \notin D,
         \/ /\ x \notin Closed /\ new.records = acc.records
            /\ new.errors < MaxErrors => acc.errors < MaxErrors /\ new.errors = acc.errors + 1
         \/ x \in Closed /\ new.records = acc.records /\ new.errors = acc.errors
         \/ /\ x \notin Closed /\ new.errors = acc.errors
            /\ \E j \in RawSourceJob : Sound(j) /\ new.records = Append(acc.records, j)
  PROVE  Accounted(new, D \cup {x})
<1> DEFINE E == D \cup {x}
           d == Cardinality(D)
           c == Cardinality(Closed \cap D)
<1>1. /\ acc \in Parsed /\ IsFiniteSet(D)
      /\ acc.errors < MaxErrors => Len(acc.records) + acc.errors + c = d
      /\ \A i \in 1..Len(acc.records) : Sound(acc.records[i])
  BY DEF Accounted
<1>2. /\ acc.records \in Seq(RawSourceJob) /\ Len(acc.records) \in Nat
      /\ acc.errors \in Nat /\ new.errors \in Nat /\ MaxErrors \in Nat
  BY <1>1, FileConstants DEF Parsed
<1>3. IsFiniteSet(Closed \cap D) /\ d \in Nat /\ c \in Nat
  BY <1>1, FS_Subset, FS_CardinalityType
<1>4. IsFiniteSet(E) /\ Cardinality(E) = d + 1
  BY <1>1, FS_AddElement
<1>5. Cardinality(Closed \cap E) = IF x \in Closed THEN c + 1 ELSE c
  <2>1. CASE x \in Closed
    <3>1. Closed \cap E = (Closed \cap D) \cup {x} /\ x \notin Closed \cap D
      BY <2>1
    <3> QED
      BY <1>3, <2>1, <3>1, FS_AddElement
  <2>2. CASE x \notin Closed
    <3>1. Closed \cap E = Closed \cap D
      BY <2>2
    <3> QED
      BY <2>2, <3>1
  <2> QED
    BY <2>1, <2>2
<1> HIDE DEF c, d, E
<1>6. CASE new.records = acc.records
  <2>1. \A i \in 1..Len(new.records) : Sound(new.records[i])
    BY <1>1, <1>6
  <2>2. new.errors < MaxErrors => Len(new.records) + new.errors + Cardinality(Closed \cap E) = Cardinality(E)
    <3>1. CASE x \in Closed /\ new.errors = acc.errors
      BY <1>1, <1>2, <1>3, <1>4, <1>5, <1>6, <3>1
    <3>2. CASE x \notin Closed /\ (new.errors < MaxErrors => acc.errors < MaxErrors /\ new.errors = acc.errors + 1)
      <4> SUFFICES ASSUME new.errors < MaxErrors
                   PROVE  Len(new.records) + new.errors + Cardinality(Closed \cap E) = Cardinality(E)
        OBVIOUS
      <4>1. acc.errors < MaxErrors /\ new.errors = acc.errors + 1 /\ Cardinality(Closed \cap E) = c
        BY <1>5, <3>2
      <4>2. Len(acc.records) + acc.errors + c = d
        BY <1>1, <4>1
      <4> QED
        BY <1>2, <1>3, <1>4, <1>6, <4>1, <4>2
    <3>3. CASE \E j \in RawSourceJob : new.records = Append(acc.records, j)
      <4>1. PICK j \in RawSourceJob : new.records = Append(acc.records, j)
        BY <3>3
      <4>2. Len(new.records) = Len(acc.records) + 1
        BY <1>2, <4>1
      <4> QED
        BY <1>2, <1>6, <4>2
    <3> QED
      BY <3>1, <3>2, <3>3
  <2> QED
    BY <1>4, <2>1, <2>2 DEF Accounted, E
<1>7. CASE x \notin Closed /\ new.errors = acc.errors
           /\ \E j \in RawSourceJob : Sound(j) /\ new.records = Append(acc.records, j)
  <2>1. PICK j \in RawSourceJob : Sound(j) /\ new.records = Append(acc.records, j)
    BY <1>7
  <2>2. /\ Len(new.records) = Len(acc.records) + 1
        /\ \A i \in 1..Len(new.records) :
             new.records[i] = IF i = Len(acc.records) + 1 THEN j ELSE acc.records[i]
    BY <1>2, <2>1
  <2>3. \A i \in 1..Len(new.records) : Sound(new.records[i])
    BY <1>1, <1>2, <2>1, <2>2
  <2>4. new.errors < MaxErrors => Len(new.records) + new.errors + Cardinality(Closed \cap E) = Cardinality(E)
    <3> SUFFICES ASSUME new.errors < MaxErrors
                 PROVE  Len(new.records) + new.errors + Cardinality(Closed \cap E) = Cardinality(E)
      OBVIOUS
    <3>1. Cardinality(Closed \cap E) = c /\ new.errors = acc.errors
      BY <1>5, <1>7
    <3>2. Len(acc.records) + acc.errors + c = d
      BY <1>1, <3>1
    <3>3. Len(new.records) = Len(acc.records) + 1
      BY <2>2
    <3>4. Cardinality(E) = d + 1
      BY <1>4
    <3>5. Len(acc.records) \in Nat /\ acc.errors \in Nat /\ c \in Nat /\ d \in Nat
      BY <1>2, <1>3
    <3> QED
      BY <3>1, <3>2, <3>3, <3>4, <3>5
  <2> QED
    BY <1>4, <2>3, <2>4 DEF Accounted, E
<1> QED
  BY <1>6, <1>7

LEMMA RawJobType ==
  ASSUME NEW row \in Row, row.link \in Pages, NEW company \in Companies, NEW heading \in Evidence, NEW t \in Nat, NEW r \in Nat
  PROVE  /\ RawJob(row, company, heading, t, r) \in RawSourceJob
         /\ RawJob(row, company, heading, t, r).table = t /\ RawJob(row, company, heading, t, r).row = r
         /\ RawJob(row, company, heading, t, r).company = company
         /\ RawJob(row, company, heading, t, r).term = Term(Candidates(row, heading))
<1> DEFINE term == Term(Candidates(row, heading))
<1>1. term \in [season : Seasons \cup {None}, year : Nat]
  BY CandidatesType, TermFound DEF Terms
<1>2. row.title \in Titles
  BY DEF Row
<1> HIDE DEF term
<1>3. RawJob(row, company, heading, t, r) =
        [table |-> t, row |-> r, company |-> company, title |-> row.title, id |-> row.link, term |-> term]
  BY DEF RawJob, term
<1> QED
  BY <1>1, <1>2, <1>3 DEF RawSourceJob, term

LEMMA ReadRowStep ==
  ASSUME file \in File, NEW t \in Readable, NEW r \in 1..Len(Tables[t].rows), NEW acc,
         Accounted(acc, Done(Tables[t].html, t, r - 1)), Knows(acc, t, r - 1)
  PROVE  /\ Accounted(ReadRow(acc, Tables[t], t, r), Done(Tables[t].html, t, r))
         /\ Knows(ReadRow(acc, Tables[t], t, r), t, r)
<1> DEFINE table == Tables[t]
           row == table.rows[r]
           x == <<t, r>>
           new == ReadRow(acc, table, t, r)
           before == Done(table.html, t, r - 1)
           after == Done(table.html, t, r)
           company == Company(acc.above, row)
<1>1. /\ t \in Nat /\ t \in 1..Len(Tables) /\ table \in Table /\ table.html \in BOOLEAN
      /\ table.heading \in Evidence
      /\ row \in Row /\ r \in Nat /\ r \in Nat \ {0} /\ r - 1 \in Nat /\ RowAt(x) = row /\ DOMAIN table.rows = 1..Len(table.rows)
      /\ \A i \in 1..Len(table.rows) : table.rows[i].fit \in BOOLEAN
  BY FileTypes DEF Readable, RowAt, Row
<1>2. /\ row.fit \in BOOLEAN /\ row.company \in Companies \cup {None, Same}
      /\ row.link \in Pages \cup {None, "closed"}
  BY <1>1 DEF Row
<1>3. acc \in Parsed /\ acc.open \in BOOLEAN /\ acc.above \in Companies \cup {None} /\ acc.records \in Seq(RawSourceJob)
  BY DEF Accounted, Parsed
<1>4. r \in Until(t) <=> table.html \/ \A i \in 1..r : table.rows[i].fit
  BY <1>1 DEF Until
<1>5. \A i : i \in 1..r <=> i \in 1..(r - 1) \/ i = r
  BY <1>1
<1>6. /\ acc.open <=> table.html \/ \A i \in 1..(r - 1) : table.rows[i].fit
      /\ acc.open => acc.above = IF Above(<<t, r - 1>>) = {} THEN None
                                 ELSE RowAt(<<t, Max(Above(<<t, r - 1>>))>>).company
  BY DEF Knows
<1>7. CASE ~acc.open
  <2>1. new = acc
    BY <1>7 DEF ReadRow
  <2>2. r \notin Until(t)
    BY <1>4, <1>5, <1>6, <1>7
  <2>3. after = before
    BY <2>2, DoneGrows
  <2>4. Knows(acc, t, r)
    BY <1>5, <1>6, <1>7 DEF Knows
  <2> QED
    BY <2>1, <2>3, <2>4
<1>8. CASE acc.open /\ ~row.fit /\ ~table.html
  <2>1. new = [acc EXCEPT !.open = FALSE]
    BY <1>8 DEF ReadRow, Misfit
  <2>2. new \in Parsed /\ new.open = FALSE /\ new.records = acc.records /\ new.errors = acc.errors
    BY <1>3, <2>1 DEF Parsed
  <2>3. after = before
    BY <1>4, <1>5, <1>8, DoneGrows
  <2>4. Knows(new, t, r)
    BY <1>5, <1>8, <2>2 DEF Knows
  <2>5. Accounted(new, before)
    BY <2>2 DEF Accounted
  <2> QED
    BY <2>3, <2>4, <2>5
<1>9. CASE acc.open /\ (row.fit \/ table.html)
  <2>1. x \in Rows /\ x \notin before /\ after = before \cup {x}
    BY <1>4, <1>5, <1>6, <1>9, DoneGrows
  <2>2. table.html \/ \A i \in 1..r : table.rows[i].fit
    BY <1>4, <1>5, <1>6, <1>9
  <2>3. acc.above = IF Above(<<t, r - 1>>) = {} THEN None
                    ELSE RowAt(<<t, Max(Above(<<t, r - 1>>))>>).company
    BY <1>6, <1>9
  \* A row that is rejected names nothing.
  <2>4. ASSUME new = Rejected(acc), ~Naming(x), x \notin Closed
        PROVE  Accounted(new, after) /\ Knows(new, t, r)
    <3>1. /\ new \in Parsed /\ new.open = acc.open /\ new.above = acc.above /\ new.records = acc.records
          /\ new.errors < MaxErrors => acc.errors < MaxErrors /\ new.errors = acc.errors + 1
      BY <1>3, <2>4, RejectedIs
    <3>2. Accounted(new, after)
      BY <2>1, <2>4, <3>1, OneMore
    <3>3. Above(x) = Above(<<t, r - 1>>)
      BY <1>1, <2>4, AboveGrows
    <3> QED
      BY <1>9, <2>2, <2>3, <3>1, <3>2, <3>3 DEF Knows
  \* One that is taken gives its company to the rows below.
  <2>5. ASSUME row.fit, company # None, row.link = "closed" \/ ~Lacks(row)
        PROVE  /\ Above(x) # {} /\ company = RowAt(<<t, Max(Above(x))>>).company
               /\ row.company # None
    <3>1. CASE row.company = Same
      <4>1. company = acc.above /\ ~Naming(x)
        BY <1>1, <3>1 DEF Company, Naming
      <4>2. Above(x) = Above(<<t, r - 1>>)
        BY <1>1, <4>1, AboveGrows
      <4> QED
        BY <2>3, <2>5, <3>1, <4>1, <4>2 DEF Same, None
    <3>2. CASE row.company # Same
      <4>1. company = row.company /\ Naming(x)
        BY <1>1, <2>5, <3>2 DEF Company, Naming
      <4>2. Above(x) # {} /\ Max(Above(x)) = r
        BY <1>1, <4>1, AboveGrows
      <4> QED
        BY <1>1, <2>5, <4>1, <4>2
    <3> QED
      BY <3>1, <3>2
  <2>6. CASE ~row.fit
    <3>1. new = Rejected(acc)
      BY <1>9, <2>6 DEF ReadRow, Misfit
    <3>2. ~Naming(x) /\ x \notin Closed
      BY <1>1, <2>6 DEF Naming, Closed
    <3> QED
      BY <2>4, <3>1, <3>2
  <2>7. CASE row.fit /\ company = None
    <3>1. new = Rejected(acc)
      BY <1>9, <2>7 DEF ReadRow, Mapped
    <3>2. ~Naming(x)
      BY <1>1, <2>7 DEF Naming, Company
    <3>3. x \notin Closed
      <4>1. CASE row.company = None
        BY <1>1, <4>1 DEF Closed
      <4>2. CASE row.company # None
        <5>1. row.company = Same /\ acc.above = None
          BY <2>7, <4>2 DEF Company
        <5>2. Above(x) = Above(<<t, r - 1>>)
          BY <1>1, <3>2, AboveGrows
        <5>3. Above(<<t, r - 1>>) = {}
          <6> SUFFICES ASSUME Above(<<t, r - 1>>) # {}
                       PROVE  FALSE
            OBVIOUS
          <6> DEFINE q == Max(Above(<<t, r - 1>>))
          <6>1. Above(<<t, r - 1>>) \in SUBSET (1..(r - 1))
            BY DEF Above
          <6>2. q \in Above(<<t, r - 1>>)
            BY <1>1, <6>1, GreatestOf
          <6>3. Naming(<<t, q>>)
            BY <6>2 DEF Above
          <6>4. RowAt(<<t, q>>).company # None
            BY <6>3 DEF Naming
          <6> QED
            BY <2>3, <5>1, <6>4
        <5> QED
          BY <5>2, <5>3 DEF Closed
      <4> QED
        BY <4>1, <4>2
    <3> QED
      BY <2>4, <3>1, <3>2, <3>3
  <2>8. CASE row.fit /\ company # None /\ row.link = "closed"
    <3>1. new = [acc EXCEPT !.above = company]
      BY <1>9, <2>8 DEF ReadRow, Mapped
    <3>2. company \in Companies
      BY <1>2, <1>3, <2>8 DEF Company
    <3>3. /\ new \in Parsed /\ new.open = acc.open /\ new.above = company
          /\ new.records = acc.records /\ new.errors = acc.errors
      BY <1>3, <3>1, <3>2 DEF Parsed
    <3>4. x \in Closed
      BY <1>1, <2>1, <2>5, <2>8 DEF Closed
    <3>5. Accounted(new, after)
      BY <2>1, <3>3, <3>4, OneMore
    <3>6. Knows(new, t, r)
      BY <1>9, <2>2, <2>5, <2>8, <3>3 DEF Knows
    <3> QED
      BY <3>5, <3>6
  <2>9. CASE row.fit /\ company # None /\ row.link # "closed" /\ Lacks(row)
    <3>1. new = Rejected(acc)
      BY <1>9, <2>9 DEF ReadRow, Mapped
    <3>2. ~Naming(x) /\ x \notin Closed
      BY <1>1, <2>9 DEF Naming, Closed
    <3> QED
      BY <2>4, <3>1, <3>2
  <2>10. CASE row.fit /\ company # None /\ row.link # "closed" /\ ~Lacks(row)
    <3> DEFINE j == RawJob(row, company, table.heading, t, r)
    <3>1. new = [acc EXCEPT !.above = company, !.records = Append(acc.records, j)]
      BY <1>9, <2>10 DEF ReadRow, Mapped
    <3>2. company \in Companies /\ row.link \in Pages
      BY <1>2, <1>3, <2>10 DEF Company, Lacks
    <3>3. /\ j \in RawSourceJob /\ j.table = t /\ j.row = r /\ j.company = company
          /\ j.term = Term(Candidates(row, table.heading))
      <4> HIDE DEF company, row, table
      <4> QED
        BY <1>1, <3>2, RawJobType
    <3> HIDE DEF j, company
    <3>4. /\ new \in Parsed /\ new.open = acc.open /\ new.above = company
          /\ new.records = Append(acc.records, j) /\ new.errors = acc.errors
      <4> DEFINE rs == Append(acc.records, j)
      <4>1. rs \in Seq(RawSourceJob)
        BY <1>3, <3>3
      <4>2. new = [acc EXCEPT !.above = company, !.records = rs]
        BY <3>1
      <4> HIDE DEF rs
      <4>3. /\ new \in Parsed /\ new.open = acc.open /\ new.above = company
            /\ new.records = rs /\ new.errors = acc.errors
        BY <1>3, <3>2, <4>1, <4>2 DEF Parsed
      <4> QED
        BY <4>3 DEF rs
    <3>5. x \notin Closed
      BY <1>1, <2>10 DEF Closed
    <3>6. Sound(j)
      BY <1>1, <2>1, <2>5, <2>10, <3>3 DEF Sound, At
    <3>7. Accounted(new, after)
      BY <2>1, <3>3, <3>4, <3>5, <3>6, OneMore
    <3>8. Knows(new, t, r)
      BY <1>9, <2>2, <2>5, <2>10, <3>4 DEF Knows
    <3> QED
      BY <3>7, <3>8
  <2> QED
    BY <1>2, <1>9, <2>6, <2>7, <2>8, <2>9, <2>10
<1> QED
  BY <1>2, <1>7, <1>8, <1>9

-----------------------------------------------------------------------------
(* Loops *)

LEMMA ReadRowType ==
  ASSUME file \in File, NEW acc \in Parsed, NEW t \in 1..Len(Tables), NEW r \in 1..Len(Tables[t].rows)
  PROVE  ReadRow(acc, Tables[t], t, r) \in Parsed
<1> DEFINE table == Tables[t]
           row == table.rows[r]
           company == Company(acc.above, row)
           j == RawJob(row, company, table.heading, t, r)
<1>1. row \in Row /\ table.heading \in Evidence /\ t \in Nat /\ r \in Nat
  BY FileTypes
<1>2. company \in Companies \cup {None} /\ acc.records \in Seq(RawSourceJob)
  BY <1>1 DEF Company, Row, Parsed
<1>3. Rejected(acc) \in Parsed /\ [acc EXCEPT !.open = FALSE] \in Parsed
  BY RejectedIs DEF Parsed
<1>4. Misfit(acc, table) \in Parsed
  BY <1>3 DEF Misfit
<1>5. ASSUME company # None, row.link # "closed", ~Lacks(row)
      PROVE  j \in RawSourceJob
  <2>1. company \in Companies /\ row.link \in Pages
    BY <1>1, <1>2, <1>5 DEF Lacks, Row
  <2> HIDE DEF company, row, table
  <2> QED
    BY <1>1, <2>1, RawJobType
<1> HIDE DEF j, company
<1>6. \A rs \in Seq(RawSourceJob) : [acc EXCEPT !.above = company, !.records = rs] \in Parsed
  BY <1>2 DEF Parsed
<1>7. ASSUME company # None, row.link # "closed", ~Lacks(row)
      PROVE  [acc EXCEPT !.above = company, !.records = Append(@, j)] \in Parsed
  <2>1. Append(acc.records, j) \in Seq(RawSourceJob)
    BY <1>2, <1>5, <1>7
  <2> QED
    BY <1>6, <2>1
<1>8. [acc EXCEPT !.above = company] \in Parsed
  BY <1>2 DEF Parsed
<1>9. Mapped(acc, table, t, r) \in Parsed
  BY <1>3, <1>7, <1>8 DEF Mapped, j, company
<1> QED
  BY <1>4, <1>9 DEF ReadRow

\* The loop over the rows of a table.
LEMMA ReadRowsIs ==
  ASSUME file \in File, NEW acc \in Parsed, NEW t \in 1..Len(Tables)
  PROVE  LET n == Len(Tables[t].rows)
         IN  \E f \in [0..n -> Parsed] :
               /\ f[0] = acc /\ ReadRows(acc, Tables[t], t) = f[n]
               /\ \A r \in 1..n : f[r] = ReadRow(f[r - 1], Tables[t], t, r)
<1> DEFINE n == Len(Tables[t].rows)
           step(r, a) == ReadRow(a, Tables[t], t, r)
           g == [r \in 1..n |-> [a \in Parsed |-> step(r, a)]]
           Is(read) == read = [r \in 0..n |-> IF r = 0 THEN acc ELSE step(r, read[r - 1])]
<1>1. n \in Nat
  BY FileTypes
<1>2. \A r \in 1..n, a \in Parsed : step(r, a) \in Parsed
  BY ReadRowType
<1>3. ReadRows(acc, Tables[t], t) = (CHOOSE read : Is(read))[n]
  BY DEF ReadRows
<1> HIDE DEF n, step
<1>4. g \in Bodies(n, Parsed)
  BY <1>2 DEF Bodies
<1>5. \A r \in 1..n, a \in Parsed : g[r][a] = step(r, a)
  OBVIOUS
<1> HIDE DEF g
<1>6. PICK f : Loops(f, n, Parsed, acc, g)
  BY <1>1, <1>4, LoopEnds
<1>7. f \in [0..n -> Parsed] /\ f[0] = acc /\ \A r \in 1..n : r - 1 \in 0..n /\ f[r] = step(r, f[r - 1])
  BY <1>1, <1>5, <1>6 DEF Loops
<1>8. Is(f)
  BY <1>1, <1>7
<1> DEFINE e == CHOOSE read : Is(read)
<1>9. Is(e)
  BY <1>8
<1> HIDE DEF e
<1>10. e[0] = acc /\ \A r \in 1..n : e[r] = step(r, e[r - 1])
  BY <1>1, <1>9
<1>11. \A k \in 0..n : e[k] = f[k]
  <2> DEFINE P == {k \in 0..n : e[k] = f[k]}
  <2>1. 0 \in P
    BY <1>1, <1>7, <1>10
  <2>2. \A k \in 1..n : k - 1 \in P => k \in P
    BY <1>7, <1>10
  <2>3. \A k \in 0..n : k \in P
    <3> HIDE DEF P
    <3> QED
      BY <1>1, <2>1, <2>2, Induction
  <2> QED
    BY <2>3
<1>12. ReadRows(acc, Tables[t], t) = f[n]
  BY <1>1, <1>3, <1>11 DEF e
<1> QED
  BY <1>7, <1>12 DEF n, step

LEMMA ReadRowsRight ==
  ASSUME file \in File, NEW t \in Readable, NEW acc,
         Accounted(acc, Done(Tables[t].html, t, 0)), Knows(acc, t, 0)
  PROVE  Accounted(ReadRows(acc, Tables[t], t), Done(Tables[t].html, t, Len(Tables[t].rows)))
<1> DEFINE n == Len(Tables[t].rows)
           Right(a, r) == Accounted(a, Done(Tables[t].html, t, r)) /\ Knows(a, t, r)
<1>1. t \in 1..Len(Tables) /\ n \in Nat
  BY FileTypes DEF Readable
<1>2. acc \in Parsed
  BY DEF Accounted
<1>3. PICK f \in [0..n -> Parsed] :
        /\ f[0] = acc /\ ReadRows(acc, Tables[t], t) = f[n]
        /\ \A r \in 1..n : f[r] = ReadRow(f[r - 1], Tables[t], t, r)
  BY <1>1, <1>2, ReadRowsIs
<1> DEFINE P == {k \in 0..n : Right(f[k], k)}
<1>4. 0 \in P
  BY <1>1, <1>3
<1>5. ASSUME NEW k \in 1..n, k - 1 \in P
      PROVE  k \in P
  <2>1. Right(f[k - 1], k - 1) /\ k \in 0..n
    BY <1>1, <1>5
  <2>2. Right(ReadRow(f[k - 1], Tables[t], t, k), k)
    BY <2>1, ReadRowStep
  <2> QED
    BY <1>3, <2>1, <2>2
<1>6. \A k \in 0..n : k \in P
  <2>1. \A k \in 1..n : k - 1 \in P => k \in P
    BY <1>5
  <2> HIDE DEF P
  <2> QED
    BY <1>1, <1>4, <2>1, Induction
<1>7. n \in P
  BY <1>1, <1>6
<1> QED
  BY <1>3, <1>7

\* What is known above a table is forgotten.
LEMMA TopIs ==
  ASSUME NEW acc \in Parsed, NEW top, top = [acc EXCEPT !.open = TRUE, !.above = None]
  PROVE  /\ top \in Parsed /\ top.open = TRUE /\ top.above = None
         /\ top.records = acc.records /\ top.errors = acc.errors
<1>1. \A s \in Companies \cup {None}, b \in BOOLEAN : [acc EXCEPT !.open = b, !.above = s] \in Parsed
  BY DEF Parsed
<1>2. None \in Companies \cup {None}
  OBVIOUS
<1>3. top \in Parsed
  BY <1>1, <1>2, Zenon
<1>4. DOMAIN acc = {"open", "above", "records", "errors"}
  BY DEF Parsed
<1>5. top.open = TRUE
  BY <1>4
<1>6. top.above = None /\ top.records = acc.records /\ top.errors = acc.errors
  BY <1>4
<1> QED
  BY <1>3, <1>5, <1>6

LEMMA ReadTableType ==
  ASSUME file \in File, NEW acc \in Parsed, NEW t \in 1..Len(Tables)
  PROVE  ReadTable(acc, Tables, t) \in Parsed
<1> DEFINE top == [acc EXCEPT !.open = TRUE, !.above = None]
           n == Len(Tables[t].rows)
<1>1. top \in Parsed
  BY TopIs
<1> HIDE DEF top
<1>2. ReadRows(top, Tables[t], t) \in Parsed
  <2>1. PICK f \in [0..n -> Parsed] : ReadRows(top, Tables[t], t) = f[n]
    BY <1>1, ReadRowsIs
  <2>2. n \in 0..n
    BY FileTypes
  <2> QED
    BY <2>1, <2>2
<1> QED
  BY <1>2 DEF ReadTable, top

\* A table starts with no company above, and each of its rows is read.
LEMMA ReadTableStep ==
  ASSUME file \in File, NEW t \in 1..Len(Tables), NEW acc, Accounted(acc, Done(Tables[t].html, t, 0))
  PROVE  Accounted(ReadTable(acc, Tables, t), Done(Tables[t].html, t + 1, 0))
<1> DEFINE top == [acc EXCEPT !.open = TRUE, !.above = None]
<1>1. /\ t \in Nat
      /\ \A x \in Rows : /\ x[1] \in 1..Len(Tables) /\ x[1] \in Readable /\ x[2] \in Nat /\ x[2] >= 1
                         /\ x[2] <= Len(Tables[x[1]].rows)
  BY FileTypes DEF Rows, Readable, Until
<1>2. CASE t \in Readable
  <2>1. Done(Tables[t].html, t + 1, 0) = Done(Tables[t].html, t, Len(Tables[t].rows))
    BY <1>1 DEF Done
  <2>2. top \in Parsed /\ top.open = TRUE /\ top.above = None /\ top.records = acc.records /\ top.errors = acc.errors
    BY TopIs DEF Accounted
  <2> HIDE DEF top
  <2>3. Accounted(top, Done(Tables[t].html, t, 0))
    BY <2>2 DEF Accounted
  <2>4. Knows(top, t, 0)
    <3>1. Above(<<t, 0>>) = {} /\ 1..0 = {}
      BY DEF Above
    <3> QED
      BY <2>2, <3>1 DEF Knows
  <2>5. ReadTable(acc, Tables, t) = ReadRows(top, Tables[t], t)
    BY <1>2 DEF ReadTable, Readable, top
  <2> QED
    BY <1>2, <2>1, <2>3, <2>4, <2>5, ReadRowsRight
<1>3. CASE t \notin Readable
  <2>1. Done(Tables[t].html, t + 1, 0) = Done(Tables[t].html, t, 0)
    BY <1>1, <1>3 DEF Done
  <2>2. ReadTable(acc, Tables, t) = acc
    BY <1>3, FileTypes DEF ReadTable, Readable
  <2> QED
    BY <2>1, <2>2
<1> QED
  BY <1>2, <1>3

\* The loop over the tables of a file.
LEMMA ReadTablesIs ==
  ASSUME file \in File, NEW acc \in Parsed, NEW html \in BOOLEAN
  PROVE  LET n == Len(Tables)
         IN  \E f \in [0..n -> Parsed] :
               /\ f[0] = acc /\ ReadTables(acc, Tables, html) = f[n]
               /\ \A t \in 1..n : f[t] = IF Tables[t].html = html THEN ReadTable(f[t - 1], Tables, t)
                                         ELSE f[t - 1]
<1> DEFINE n == Len(Tables)
           step(t, a) == IF Tables[t].html = html THEN ReadTable(a, Tables, t) ELSE a
           g == [t \in 1..n |-> [a \in Parsed |-> step(t, a)]]
           Is(read) == read = [t \in 0..n |-> IF t = 0 THEN acc ELSE step(t, read[t - 1])]
<1>1. n \in Nat
  BY FileTypes
<1>2. \A t \in 1..n, a \in Parsed : step(t, a) \in Parsed
  BY ReadTableType
<1>3. ReadTables(acc, Tables, html) = (CHOOSE read : Is(read))[n]
  <2>1. \A read, t : (IF t = 0 THEN acc ELSE IF Tables[t].html = html THEN ReadTable(read[t - 1], Tables, t) ELSE read[t - 1])
                       = IF t = 0 THEN acc ELSE step(t, read[t - 1])
    OBVIOUS
  <2> QED
    BY <2>1 DEF ReadTables
<1> HIDE DEF n, step
<1>4. g \in Bodies(n, Parsed)
  BY <1>2 DEF Bodies
<1>5. \A t \in 1..n, a \in Parsed : g[t][a] = step(t, a)
  OBVIOUS
<1> HIDE DEF g
<1>6. PICK f : Loops(f, n, Parsed, acc, g)
  BY <1>1, <1>4, LoopEnds
<1>7. f \in [0..n -> Parsed] /\ f[0] = acc /\ \A t \in 1..n : t - 1 \in 0..n /\ f[t] = step(t, f[t - 1])
  BY <1>1, <1>5, <1>6 DEF Loops
<1>8. Is(f)
  BY <1>1, <1>7
<1> DEFINE e == CHOOSE read : Is(read)
<1>9. Is(e)
  BY <1>8
<1> HIDE DEF e
<1>10. e[0] = acc /\ \A t \in 1..n : e[t] = step(t, e[t - 1])
  BY <1>1, <1>9
<1>11. \A k \in 0..n : e[k] = f[k]
  <2> DEFINE P == {k \in 0..n : e[k] = f[k]}
  <2>1. 0 \in P
    BY <1>1, <1>7, <1>10
  <2>2. \A k \in 1..n : k - 1 \in P => k \in P
    BY <1>7, <1>10
  <2>3. \A k \in 0..n : k \in P
    <3> HIDE DEF P
    <3> QED
      BY <1>1, <2>1, <2>2, Induction
  <2> QED
    BY <2>3
<1>12. ReadTables(acc, Tables, html) = f[n]
  BY <1>1, <1>3, <1>11 DEF e
<1> QED
  BY <1>7, <1>12 DEF n, step

LEMMA ReadTablesRight ==
  ASSUME file \in File, NEW html \in BOOLEAN, NEW acc, Accounted(acc, Done(html, 1, 0))
  PROVE  Accounted(ReadTables(acc, Tables, html), Done(html, Len(Tables) + 1, 0))
<1> DEFINE n == Len(Tables)
<1>1. n \in Nat /\ acc \in Parsed
  BY FileTypes DEF Accounted
<1>2. PICK f \in [0..n -> Parsed] :
        /\ f[0] = acc /\ ReadTables(acc, Tables, html) = f[n]
        /\ \A t \in 1..n : f[t] = IF Tables[t].html = html THEN ReadTable(f[t - 1], Tables, t)
                                  ELSE f[t - 1]
  BY <1>1, ReadTablesIs
<1> DEFINE P == {k \in 0..n : Accounted(f[k], Done(html, k + 1, 0))}
<1>3. 0 \in P
  BY <1>1, <1>2
<1>4. ASSUME NEW k \in 1..n, k - 1 \in P
      PROVE  k \in P
  <2>1. Accounted(f[k - 1], Done(html, k, 0)) /\ k \in 0..n
    BY <1>1, <1>4
  <2>2. CASE Tables[k].html = html
    BY <1>2, <2>1, <2>2, ReadTableStep
  <2>3. CASE Tables[k].html # html
    <3>1. Done(html, k + 1, 0) = Done(html, k, 0)
      <4>1. \A x \in Rows : x[1] \in Nat /\ x[2] \in Nat /\ x[2] >= 1
        BY FileTypes DEF Rows, Readable, Until
      <4> QED
        BY <2>3, <4>1 DEF Done
    <3> QED
      BY <1>2, <2>1, <2>3, <3>1
  <2> QED
    BY <2>2, <2>3
<1>5. \A k \in 0..n : k \in P
  <2>1. \A k \in 1..n : k - 1 \in P => k \in P
    BY <1>4
  <2> HIDE DEF P
  <2> QED
    BY <1>1, <1>3, <2>1, Induction
<1>6. n \in P
  BY <1>1, <1>5
<1> QED
  BY <1>2, <1>6

\* All rows are read: those of the Markdown tables first, and then the rest.
LEMMA ParseRight ==
  ASSUME file \in File
  PROVE  Accounted(Parse(Tables), Rows)
<1> DEFINE n == Len(Tables)
<1>1. /\ n \in Nat
      /\ \A x \in Rows : x[1] \in 1..n /\ x[1] \in Nat /\ x[2] \in Nat /\ x[2] >= 1 /\ Tables[x[1]].html \in BOOLEAN
  BY FileTypes DEF Rows, Readable, Until
<1>2. Accounted(Start, Done(FALSE, 1, 0))
  <2>1. Done(FALSE, 1, 0) = {}
    BY <1>1 DEF Done
  <2>2. Start \in Parsed
    <3>1. None \in Companies \cup {None}
      OBVIOUS
    <3>2. <<>> \in Seq(RawSourceJob) /\ 0 \in 0..MaxErrors
      BY FileConstants
    <3> QED
      BY <3>1, <3>2, Zenon DEF Start, Parsed
  <2>3. Closed \cap {} = {} /\ Cardinality({}) = 0 /\ IsFiniteSet({})
    BY FS_EmptySet
  <2>4. Start.records = <<>> /\ Start.errors = 0 /\ Len(<<>>) = 0
    BY DEF Start
  <2>5. Len(Start.records) = 0 /\ Len(Start.records) + Start.errors + Cardinality(Closed \cap {}) = Cardinality({})
    BY <2>3, <2>4
  <2>6. \A i \in 1..Len(Start.records) : Sound(Start.records[i])
    BY <2>5
  <2> QED
    BY <2>1, <2>2, <2>3, <2>5, <2>6 DEF Accounted
<1>3. Accounted(ReadTables(Start, Tables, FALSE), Done(FALSE, n + 1, 0))
  BY <1>2, ReadTablesRight
<1>4. Done(FALSE, n + 1, 0) = Done(TRUE, 1, 0)
  BY <1>1 DEF Done
<1>5. Accounted(Parse(Tables), Done(TRUE, n + 1, 0))
  BY <1>3, <1>4, ReadTablesRight DEF Parse
<1>6. Done(TRUE, n + 1, 0) = Rows
  BY <1>1 DEF Done
<1> QED
  BY <1>5, <1>6

-----------------------------------------------------------------------------
(* The counters of a run *)

Counters == [fetched : Nat, jobs : Seq(RawSourceJob), duplicates : Nat, rejected : Nat]
Given(c) == Len(c.jobs) + c.duplicates + c.rejected

LEMMA CountedStep ==
  ASSUME NEW c \in Counters, NEW record \in RawSourceJob
  PROVE  LET new == Counted(c, record)
         IN  /\ new \in Counters /\ new.fetched = c.fetched /\ new.rejected >= c.rejected
             /\ Given(new) = Given(c) + 1
             /\ new.jobs = c.jobs \/ new.jobs = Append(c.jobs, record)
<1>1. /\ c.fetched \in Nat /\ c.jobs \in Seq(RawSourceJob) /\ c.duplicates \in Nat /\ c.rejected \in Nat
      /\ Len(c.jobs) \in Nat
  BY DEF Counters
<1>2. ASSUME NEW new, new = [c EXCEPT !.rejected = @ + 1]
      PROVE  /\ new \in Counters /\ new.fetched = c.fetched /\ new.jobs = c.jobs
             /\ new.duplicates = c.duplicates /\ new.rejected = c.rejected + 1
  BY <1>1, <1>2 DEF Counters
<1>3. ASSUME NEW new, new = [c EXCEPT !.duplicates = @ + 1]
      PROVE  /\ new \in Counters /\ new.fetched = c.fetched /\ new.jobs = c.jobs
             /\ new.duplicates = c.duplicates + 1 /\ new.rejected = c.rejected
  BY <1>1, <1>3 DEF Counters
<1>4. ASSUME NEW new, new = [c EXCEPT !.jobs = Append(@, record)]
      PROVE  /\ new \in Counters /\ new.fetched = c.fetched /\ new.jobs = Append(c.jobs, record)
             /\ new.duplicates = c.duplicates /\ new.rejected = c.rejected
             /\ Len(new.jobs) = Len(c.jobs) + 1
  <2> DEFINE js == Append(c.jobs, record)
  <2>1. js \in Seq(RawSourceJob) /\ Len(js) = Len(c.jobs) + 1
    BY <1>1
  <2>2. new = [c EXCEPT !.jobs = js]
    BY <1>4
  <2> HIDE DEF js
  <2>3. /\ new \in Counters /\ new.fetched = c.fetched /\ new.jobs = js
        /\ new.duplicates = c.duplicates /\ new.rejected = c.rejected
    BY <1>1, <2>1, <2>2 DEF Counters
  <2> QED
    BY <2>1, <2>3 DEF js
<1>5. SUFFICES ASSUME NEW new, new = Counted(c, record)
               PROVE  /\ new \in Counters /\ new.fetched = c.fetched /\ new.rejected >= c.rejected
                      /\ Given(new) = Given(c) + 1
                      /\ new.jobs = c.jobs \/ new.jobs = Append(c.jobs, record)
  BY Zenon
<1>6. CASE Unacceptable(record)
  <2>1. new = [c EXCEPT !.rejected = @ + 1]
    BY <1>5, <1>6 DEF Counted
  <2>2. /\ new \in Counters /\ new.fetched = c.fetched /\ new.jobs = c.jobs
        /\ new.duplicates = c.duplicates /\ new.rejected = c.rejected + 1
    BY <1>2, <2>1
  <2> QED
    BY <1>1, <2>2 DEF Given
<1>7. CASE ~Unacceptable(record) /\ \E i \in DOMAIN c.jobs : c.jobs[i].id = record.id
  <2>1. new = [c EXCEPT !.duplicates = @ + 1]
    BY <1>5, <1>7 DEF Counted
  <2> QED
    BY <1>1, <1>3, <2>1 DEF Given
<1>8. CASE ~Unacceptable(record) /\ ~\E i \in DOMAIN c.jobs : c.jobs[i].id = record.id
  <2>1. new = [c EXCEPT !.jobs = Append(@, record)]
    BY <1>5, <1>8 DEF Counted
  <2>2. /\ new \in Counters /\ new.fetched = c.fetched /\ new.jobs = Append(c.jobs, record)
        /\ new.duplicates = c.duplicates /\ new.rejected = c.rejected /\ Len(new.jobs) = Len(c.jobs) + 1
    BY <1>4, <2>1
  <2> QED
    BY <1>1, <2>2 DEF Given
<1> QED
  BY <1>6, <1>7, <1>8

\* The loop over the records of a file.
LEMMA RunIs ==
  ASSUME NEW parsed \in Parsed
  PROVE  LET n == Len(parsed.records)
         IN  \E f \in [0..n -> Counters] :
               /\ f[0] = [fetched |-> n + parsed.errors, jobs |-> <<>>, duplicates |-> 0, rejected |-> parsed.errors]
               /\ Run(parsed) = f[n]
               /\ \A k \in 1..n : f[k] = Counted(f[k - 1], parsed.records[k])
<1> DEFINE n == Len(parsed.records)
           top == [fetched |-> n + parsed.errors, jobs |-> <<>>, duplicates |-> 0, rejected |-> parsed.errors]
           step(k, c) == Counted(c, parsed.records[k])
           g == [k \in 1..n |-> [c \in Counters |-> step(k, c)]]
           Is(count) == count = [k \in 0..n |-> IF k = 0 THEN top ELSE step(k, count[k - 1])]
<1>1. /\ n \in Nat /\ parsed.errors \in Nat
      /\ \A k \in 1..n : parsed.records[k] \in RawSourceJob
  BY FileConstants DEF Parsed
<1>2. \A k \in 1..n, c \in Counters : step(k, c) \in Counters
  BY <1>1, CountedStep
<1>3. top \in Counters
  BY <1>1 DEF Counters
<1>4. Run(parsed) = (CHOOSE count : Is(count))[n]
  BY DEF Run
<1> HIDE DEF n, step, top
<1>5. g \in Bodies(n, Counters)
  BY <1>2 DEF Bodies
<1>6. \A k \in 1..n, c \in Counters : g[k][c] = step(k, c)
  OBVIOUS
<1> HIDE DEF g
<1>7. PICK f : Loops(f, n, Counters, top, g)
  BY <1>1, <1>3, <1>5, LoopEnds
<1>8. f \in [0..n -> Counters] /\ f[0] = top /\ \A k \in 1..n : k - 1 \in 0..n /\ f[k] = step(k, f[k - 1])
  BY <1>1, <1>6, <1>7 DEF Loops
<1>9. Is(f)
  BY <1>1, <1>8
<1> DEFINE e == CHOOSE count : Is(count)
<1>10. Is(e)
  BY <1>9
<1> HIDE DEF e
<1>11. e[0] = top /\ \A k \in 1..n : e[k] = step(k, e[k - 1])
  BY <1>1, <1>10
<1>12. \A k \in 0..n : e[k] = f[k]
  <2> DEFINE P == {k \in 0..n : e[k] = f[k]}
  <2>1. 0 \in P
    BY <1>1, <1>8, <1>11
  <2>2. \A k \in 1..n : k - 1 \in P => k \in P
    BY <1>8, <1>11
  <2>3. \A k \in 0..n : k \in P
    <3> HIDE DEF P
    <3> QED
      BY <1>1, <2>1, <2>2, Induction
  <2> QED
    BY <2>3
<1>13. Run(parsed) = f[n]
  BY <1>1, <1>4, <1>12 DEF e
<1> QED
  BY <1>8, <1>13 DEF n, step, top

LEMMA RunRight ==
  ASSUME NEW parsed, NEW D, Accounted(parsed, D)
  PROVE  LET c == Run(parsed)
         IN  /\ c \in Counters /\ c.fetched = Len(parsed.records) + parsed.errors /\ c.fetched = Given(c)
             /\ c.rejected >= parsed.errors
             /\ \A i \in 1..Len(c.jobs) : Sound(c.jobs[i])
<1> DEFINE n == Len(parsed.records)
           m == n + parsed.errors
           Right(c, k) == /\ c.fetched = m /\ Given(c) = parsed.errors + k /\ c.rejected >= parsed.errors
                          /\ \A i \in 1..Len(c.jobs) : Sound(c.jobs[i])
<1>1. /\ parsed \in Parsed /\ n \in Nat /\ parsed.errors \in Nat
      /\ \A k \in 1..n : parsed.records[k] \in RawSourceJob /\ Sound(parsed.records[k])
  BY FileConstants DEF Accounted, Parsed
<1>2. PICK f \in [0..n -> Counters] :
        /\ f[0] = [fetched |-> m, jobs |-> <<>>, duplicates |-> 0, rejected |-> parsed.errors]
        /\ Run(parsed) = f[n]
        /\ \A k \in 1..n : f[k] = Counted(f[k - 1], parsed.records[k])
  BY <1>1, RunIs
<1> DEFINE P == {k \in 0..n : Right(f[k], k)}
<1>3. 0 \in P
  <2>1. f[0].fetched = m /\ f[0].jobs = <<>> /\ f[0].duplicates = 0 /\ f[0].rejected = parsed.errors
    BY <1>2
  <2>2. Len(f[0].jobs) = 0 /\ 1..0 = {} /\ 0 \in 0..n
    BY <1>1, <2>1
  <2>3. Given(f[0]) = parsed.errors + 0
    BY <1>1, <2>1, <2>2 DEF Given
  <2>4. \A i \in 1..Len(f[0].jobs) : Sound(f[0].jobs[i])
    BY <2>2
  <2> QED
    BY <1>1, <2>1, <2>2, <2>3, <2>4
<1>4. ASSUME NEW k \in 1..n, k - 1 \in P
      PROVE  k \in P
  <2> DEFINE c == f[k - 1]
             new == f[k]
             record == parsed.records[k]
  <2>1. k \in 0..n /\ c \in Counters /\ record \in RawSourceJob /\ Sound(record)
    <3>1. k \in 0..n /\ k - 1 \in 0..n
      BY <1>1
    <3> HIDE DEF n
    <3> QED
      BY <1>1, <1>2, <3>1
  <2>2. Right(c, k - 1)
    BY <1>4
  <2>3. /\ new \in Counters /\ new.fetched = c.fetched /\ new.rejected >= c.rejected
        /\ Given(new) = Given(c) + 1
        /\ new.jobs = c.jobs \/ new.jobs = Append(c.jobs, record)
    <3>1. new = Counted(c, record)
      BY <1>2
    <3> HIDE DEF c, new, record
    <3> QED
      BY <2>1, <3>1, CountedStep
  <2>4. c.jobs \in Seq(RawSourceJob) /\ c.rejected \in Nat /\ new.rejected \in Nat
    BY <2>1, <2>3 DEF Counters
  <2> HIDE DEF c, new, record
  <2>5. \A i \in 1..Len(new.jobs) : Sound(new.jobs[i])
    <3>1. CASE new.jobs = c.jobs
      BY <2>2, <3>1
    <3>2. CASE new.jobs = Append(c.jobs, record)
      <4>1. /\ Len(new.jobs) = Len(c.jobs) + 1 /\ Len(c.jobs) \in Nat
            /\ \A i \in 1..Len(new.jobs) : new.jobs[i] = IF i = Len(c.jobs) + 1 THEN record ELSE c.jobs[i]
        BY <2>4, <3>2
      <4> QED
        BY <2>1, <2>2, <4>1
    <3> QED
      BY <2>3, <3>1, <3>2
  <2>6. Given(new) = parsed.errors + k /\ new.rejected >= parsed.errors /\ new.fetched = m
    BY <1>1, <2>2, <2>3, <2>4
  <2>7. Right(new, k)
    BY <2>5, <2>6
  <2> QED
    BY <2>1, <2>7 DEF new
<1>5. n \in P
  <2>1. \A k \in 1..n : k - 1 \in P => k \in P
    BY <1>4
  <2>2. \A k \in 0..n : k \in P
    <3> HIDE DEF P
    <3> QED
      BY <1>1, <1>3, <2>1, Induction
  <2> QED
    BY <1>1, <2>2
<1>6. f[n] \in Counters /\ parsed.errors + n = m
  BY <1>1, <1>2
<1> QED
  BY <1>2, <1>5, <1>6

-----------------------------------------------------------------------------
(* The poll *)

\* There is no run until a file is read, and then it is the run of that file.
FileInv ==
  /\ place \in {"asking", "read", "done", "unchanged", "failed"}
  /\ attempt \in 1..MaxAttempts
  /\ file \in File
  /\ run = IF place = "done" THEN Run(Parse(Tables)) ELSE NoRun

\* A file is asked for MaxAttempts times at most, and what a poll counts is what its file holds.
THEOREM FileInvariance == FileSpec => []FileInv
<1>1. FileInit => FileInv
  <2>1. NoFile \in File
    BY DEF NoFile, File
  <2>2. 1 \in 1..MaxAttempts
    BY FileConstants
  <2> QED
    BY <2>1, <2>2 DEF FileInit, FileInv
<1>2. FileInv /\ [FileNext]_fileVars => FileInv'
  <2> SUFFICES ASSUME FileInv, [FileNext]_fileVars
               PROVE  FileInv'
    OBVIOUS
  <2> USE DEF FileInv, Tables
  <2>1. CASE Answer
    BY <2>1, FileConstants DEF Answer
  <2>2. CASE Unchanged
    BY <2>2 DEF Unchanged
  <2>3. CASE Refused
    BY <2>3 DEF Refused
  <2>4. CASE Transient
    BY <2>4, FileConstants DEF Transient
  <2>5. CASE Read
    BY <2>5 DEF Read
  <2>6. CASE UNCHANGED fileVars
    BY <2>6 DEF fileVars
  <2> QED
    BY <2>1, <2>2, <2>3, <2>4, <2>5, <2>6 DEF FileNext
<1> QED
  BY <1>1, <1>2, PTL DEF FileSpec

\* Every job of a run is sound, and the run counts each row once.
LEMMA RunOfFile ==
  ASSUME FileInv
  PROVE  /\ run \in Counters /\ \A i \in 1..Len(run.jobs) : Sound(run.jobs[i])
         /\ RowsAreCounted
<1>1. CASE place = "done"
  <2> DEFINE parsed == Parse(Tables)
  <2>1. Accounted(parsed, Rows) /\ run = Run(parsed)
    BY <1>1, ParseRight DEF FileInv
  <2>2. /\ run \in Counters /\ run.fetched = Len(parsed.records) + parsed.errors /\ run.fetched = Given(run)
        /\ run.rejected >= parsed.errors
        /\ \A i \in 1..Len(run.jobs) : Sound(run.jobs[i])
    BY <2>1, RunRight
  <2>3. parsed.errors \in Nat /\ MaxErrors \in Nat /\ run.rejected \in Nat
    BY <2>1, <2>2, FileConstants DEF Accounted, Parsed, Counters
  <2>4. Closed \cap Rows = Closed
    BY DEF Closed
  <2>5. parsed.errors < MaxErrors =>
          Len(parsed.records) + parsed.errors + Cardinality(Closed) = Cardinality(Rows)
    BY <2>1, <2>4 DEF Accounted
  <2> HIDE DEF parsed
  <2>6. RowsAreCounted
    BY <2>2, <2>3, <2>5 DEF RowsAreCounted, Given
  <2> QED
    BY <2>2, <2>6
<1>2. CASE place # "done"
  <2>1. run = NoRun
    BY <1>2 DEF FileInv
  <2>2. run.jobs = <<>> /\ Len(run.jobs) = 0 /\ 1..0 = {}
    BY <2>1 DEF NoRun
  <2>3. run \in Counters
    BY <2>1 DEF NoRun, Counters
  <2> QED
    BY <1>2, <2>2, <2>3 DEF RowsAreCounted
<1> QED
  BY <1>1, <1>2

\* In a file of any size every row is a job, a duplicate, a closed posting or a rejected row, and
\* none is two of these, as long as fewer rows are rejected than have their message kept.
THEOREM RowsCounted == FileSpec => []RowsAreCounted
<1>1. FileInv => RowsAreCounted
  BY RunOfFile
<1> QED
  BY <1>1, FileInvariance, PTL

\* No job has the company of another table, of a row that was rejected, or of a row that is not
\* the nearest above it to name one.
THEOREM CompanyRight == FileSpec => []CompanyIsAbove
<1>1. ASSUME FileInv
      PROVE  CompanyIsAbove
  <2>1. run \in Counters /\ \A i \in 1..Len(run.jobs) : Sound(run.jobs[i])
    BY <1>1, RunOfFile
  <2>2. DOMAIN run.jobs = 1..Len(run.jobs)
    BY <2>1 DEF Counters
  <2> QED
    BY <2>1, <2>2 DEF CompanyIsAbove, Sound, At
<1> QED
  BY <1>1, FileInvariance, PTL

\* Whatever a row, its heading and its repository say, a job has the term of the first of them that
\* says anything, or none.
THEOREM TermRight == FileSpec => []TermIsSaid
<1>1. ASSUME FileInv
      PROVE  TermIsSaid
  <2>1. run \in Counters /\ \A i \in 1..Len(run.jobs) : Sound(run.jobs[i])
    BY <1>1, RunOfFile
  <2>2. DOMAIN run.jobs = 1..Len(run.jobs)
    BY <2>1 DEF Counters
  <2>3. SUFFICES ASSUME NEW i \in 1..Len(run.jobs), run.jobs[i].term # NoTerm
        PROVE  LET found == run.jobs[i]
                   row == RowAt(<<found.table, found.row>>)
                   texts == <<row.column, row.says, Tables[found.table].heading,
                              Registered[1], Registered[2]>>
               IN  \E k \in DOMAIN texts :
                     /\ texts[k].seasons = {found.term.season} /\ ~texts[k].off
                     /\ \A h \in 1..(k - 1) : texts[h].seasons = {} /\ ~texts[h].off
    BY <2>2 DEF TermIsSaid
  <2> DEFINE found == run.jobs[i]
             row == RowAt(<<found.table, found.row>>)
             heading == Tables[found.table].heading
             texts == Candidates(row, heading)
  <2>4. <<found.table, found.row>> \in Rows /\ found.term = Term(texts)
    BY <2>1 DEF Sound, At
  <2>5. row \in Row /\ heading \in Evidence
    <3>1. \A x \in Rows : x[1] \in DOMAIN Tables /\ x[2] \in DOMAIN Tables[x[1]].rows
      BY DEF Rows, Readable, Until
    <3>2. found.table \in DOMAIN Tables /\ found.row \in DOMAIN Tables[found.table].rows
      BY <2>4, <3>1
    <3>3. row = Tables[found.table].rows[found.row]
      BY DEF RowAt
    <3> QED
      BY <1>1, <3>2, <3>3, FileTypes DEF FileInv
  <2>6. texts \in Evident /\ DOMAIN texts = 1..5
    <3> HIDE DEF row, heading
    <3> QED
      BY <2>5, CandidatesType DEF Evident
  <2>7. texts = <<row.column, row.says, heading, Registered[1], Registered[2]>>
    BY DEF Candidates
  <2> HIDE DEF texts
  <2>8. \E k \in 1..5 :
          /\ texts[k].seasons = {Term(texts).season} /\ ~texts[k].off
          /\ \A h \in 1..(k - 1) : texts[h].seasons = {} /\ ~texts[h].off
    BY <2>3, <2>4, <2>6, TermFound
  <2> QED
    BY <2>4, <2>6, <2>7, <2>8
<1> QED
  BY <1>1, FileInvariance, PTL
=============================================================================
