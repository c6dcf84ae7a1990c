--------------------------- MODULE PostingLifecycle ---------------------------
(***************************************************************************)
(* The life of a posting (src/backend/api/ingestion/persistence.py and      *)
(* lifecycle.py, retention.py): sources list it, snapshots of the sources   *)
(* create and update canonical jobs and mark what they no longer list, a    *)
(* job that all its sources dropped expires, a posting that comes back      *)
(* reopens its job or, after a long absence, gets a new one.                *)
(*                                                                         *)
(* One posting is modelled, that is one company, title, location and term,  *)
(* which each source lists under one external id or does not list.  The     *)
(* other rows of a source count only for the question whether a snapshot    *)
(* is credible.                                                             *)
(*                                                                         *)
(* The snapshot of a source is one transaction of a session that does not   *)
(* flush before its commit (database.py): it reads, works on the objects in *)
(* memory, and writes the columns it changed at commit, over what the rows  *)
(* are by then.  Read and commit are two steps.  Sources do not exclude     *)
(* each other, except by the lock on the identity of a posting.             *)
(*                                                                         *)
(* Times are ages in whole days, rounded down, which saturate where no      *)
(* comparison of the code tells further values apart: to be more than n     *)
(* days old is to have reached n.  Transactions are short against a day.    *)
(***************************************************************************)
EXTENDS Integers, FiniteSets, FiniteSetsExt

CONSTANTS
  Sources,      \* source repositories
  StaleAfter,   \* stale_after_misses
  ExpireAfter,  \* expire_after_misses
  RepostAge,    \* repost_threshold_days
  ReopenAge,    \* the day after which an expired job counts as reopened
  Retention,    \* job_retention_days
  Others,       \* active rows of each source for other postings
  MaxJobs,      \* bound: canonical jobs ever created for the posting
  MaxDays       \* bound: days of a behaviour

ASSUME LifecycleConstants ==
  /\ StaleAfter \in Nat \ {0} /\ ExpireAfter \in Nat /\ ExpireAfter > StaleAfter
  /\ RepostAge \in Nat \ {0} /\ ReopenAge \in Nat \ {0}
  /\ Retention \in Nat /\ Retention >= RepostAge
  /\ Others \in Nat /\ MaxJobs \in Nat /\ MaxDays \in Nat

VARIABLES
  job,     \* [Jobs -> Job]: the rows of jobs for the posting, oldest first
  rec,     \* [Sources -> [Jobs -> Record]]: job_sources, one occurrence per job
  txn,     \* [Sources -> Txn]: the transaction that processes a snapshot
  missed,  \* [Sources -> [Jobs -> Nat]]: how many snapshots, of those that count, lack the
           \* posting since a snapshot last listed it as an occurrence of the job
  gone,    \* [Jobs -> Age]: days since the job expired
  day      \* days so far

vars == <<job, rec, txn, missed, gone, day>>

-----------------------------------------------------------------------------
(* Jobs and their source records *)

Jobs == 1..MaxJobs
Null == -1

Job == [status   : {"none", "active", "stale", "expired", "purged"},
        first    : 0..RepostAge,      \* age of first_seen_at
        expired  : Null..Retention,   \* age of expired_at
        reopened : BOOLEAN]           \* is there a reopened_at?
NoJob == [status |-> "none", first |-> 0, expired |-> Null, reopened |-> FALSE]
NewJob == [NoJob EXCEPT !.status = "active"]

Record == [kept    : BOOLEAN,         \* is there such a record?
           active  : BOOLEAN,
           missing : 0..ExpireAfter,  \* missing_snapshot_count
           seen    : 0..RepostAge]    \* age of last_seen_at
NoRecord == [kept |-> FALSE, active |-> FALSE, missing |-> 0, seen |-> 0]
Listed == [kept |-> TRUE, active |-> TRUE, missing |-> 0, seen |-> 0]

Exists(j) == job[j].status \notin {"none", "purged"}

\* The job of the latest occurrence of the posting in the records of a source, or Null.
Latest(records) ==
  LET kept == {j \in Jobs : records[j].kept}
  IN  IF kept = {} THEN Null ELSE Max(kept)

\* What a statement writes: for each column the set of its new value, which is empty for
\* a column that is as it was read.
Diff(old, new) == IF old = new THEN {} ELSE {new}
Inserted(values) == [c \in DOMAIN values |-> {values[c]}]
Unwritten(values) == [c \in DOMAIN values |-> {}]
Written(now, columns) ==
  [c \in DOMAIN now |-> IF columns[c] = {} THEN now[c] ELSE CHOOSE v \in columns[c] : TRUE]
IsWrite(columns) == \E c \in DOMAIN columns : columns[c] # {}

\* What is known of an open transaction: what it writes, whether it creates a job,
\* whether it holds the lock on the identity, the job as whose occurrence its snapshot
\* lists the posting, and whether the tables have changed since it read them.
NoTxn == [open    |-> FALSE,
          job     |-> [j \in Jobs |-> Unwritten(NoJob)],
          rec     |-> [j \in Jobs |-> Unwritten(NoRecord)],
          creates |-> FALSE, locked |-> FALSE, lists |-> {}, stale |-> FALSE]

Init ==
  /\ job = [j \in Jobs |-> NoJob]
  /\ rec = [s \in Sources |-> [j \in Jobs |-> NoRecord]]
  /\ txn = [s \in Sources |-> NoTxn]
  /\ missed = [s \in Sources |-> [j \in Jobs |-> ExpireAfter]]
  /\ gone = [j \in Jobs |-> Null]
  /\ day = 0

Begin(s, t) ==
  /\ ~txn[s].open
  /\ txn' = [txn EXCEPT ![s] = [t EXCEPT !.open = TRUE]]
  /\ UNCHANGED <<job, rec, missed, gone, day>>

-----------------------------------------------------------------------------
(* JobPersister.persist(): a snapshot lists the posting *)

\* An occurrence of a job that expired and that was last written long ago is not taken
\* up again.  Snapshots that list an unchanged posting do not write last_seen_at.
Reposted(s, j) == job[j].status = "expired" /\ rec[s][j].seen >= RepostAge

\* Mutant: the status of the job is not looked at.
NeedsWriteOfRecord(s, j, edited) ==
  ~rec[s][j].active \/ rec[s][j].missing # 0 \/ edited

\* Nothing is written for a posting that is active, complete and unedited.
NeedsWrite(s, j, edited) ==
  job[j].status # "active" \/ ~rec[s][j].active \/ rec[s][j].missing # 0 \/ edited

Reopens(s, j) ==
  job[j].status = "expired" /\ job[j].expired >= ReopenAge /\ ~rec[s][j].active

\* _update_existing(): job and record are active again.
UpdateExisting(s, edited) ==
  LET j == Latest(rec[s]) IN
  /\ j # Null /\ ~Reposted(s, j)
  /\ Begin(s,
       IF ~NeedsWrite(s, j, edited) THEN [NoTxn EXCEPT !.lists = {j}]
       ELSE [NoTxn EXCEPT
               !.lists  = {j},
               !.job[j] = [status   |-> Diff(job[j].status, "active"),
                           first    |-> {},
                           expired  |-> Diff(job[j].expired, Null),
                           reopened |-> IF Reopens(s, j) THEN {TRUE} ELSE {}],
               !.rec[j] = [kept    |-> {},
                           active  |-> Diff(rec[s][j].active, TRUE),
                           missing |-> Diff(rec[s][j].missing, 0),
                           seen    |-> {0}]])

\* Mutant: no lock.
Unlocked == TRUE

\* The lock on the identity of the posting, held until the end of the transaction.
LockFree == \A s \in Sources : ~txn[s].locked

\* The jobs that a new occurrence may join, whatever their status: those first seen
\* within the threshold.
Canonical == {j \in Jobs : Exists(j) /\ job[j].first < RepostAge}

\* A new occurrence joins the newest canonical job or creates one.
AddOccurrence(s) ==
  LET j == Latest(rec[s])
      t == [NoTxn EXCEPT !.locked = TRUE]
  IN
  /\ j # Null => Reposted(s, j)
  /\ LockFree
  /\ Canonical = {} => \E k \in Jobs : job[k].status = "none"  \* the bound MaxJobs
  /\ Begin(s, IF Canonical = {} THEN [t EXCEPT !.creates = TRUE]
              ELSE [t EXCEPT !.lists = {Max(Canonical)},
                             !.rec[Max(Canonical)] = Inserted(Listed)])

-----------------------------------------------------------------------------
(* JobLifecycleService.apply_complete_snapshot(): one does not list it *)

\* A snapshot without any row, or with fewer than half of the active ones, changes
\* nothing: active and seen are numbers of rows.
Credible(active, seen) == active = 0 \/ (seen > 0 /\ 2 * seen >= active)

\* Mutant: a record that has become inactive is not looked at again.
TrackedActive(c) == c.active

\* The records the snapshot is compared with: the active ones, and those that went
\* missing.
Tracked(c) == c.active \/ c.missing > 0

Missed(c) ==
  LET n == IF c.missing < ExpireAfter THEN c.missing + 1 ELSE c.missing
  IN  [c EXCEPT !.missing = n, !.active = @ /\ n < StaleAfter]

\* Mutant: one record that was missing long enough is enough.
JudgedByOne(status, records) ==
  IF \E c \in records : c.active THEN [status |-> {}, expired |-> {}]
  ELSE IF \E c \in records : c.missing >= ExpireAfter
  THEN [status |-> Diff(status, "expired"), expired |-> {0}]
  ELSE [status |-> Diff(status, "stale"), expired |-> {}]

\* What becomes of a job: it loses its status when none of its records is active, and
\* each time it is found missing everywhere it is dated anew.
Judged(status, records) ==
  IF \E c \in records : c.active THEN [status |-> {}, expired |-> {}]
  ELSE IF \A c \in records : c.missing >= ExpireAfter
  THEN [status |-> Diff(status, "expired"), expired |-> {0}]
  ELSE [status |-> Diff(status, "stale"), expired |-> {}]

\* The records of job j when that of s is c.
RecordsOf(j, s, c) == {c} \cup {d \in {rec[u][j] : u \in Sources \ {s}} : d.kept}

\* seen is the number of other rows that the snapshot, a complete one, holds.
MarkMissing(s, seen) ==
  LET tracked == {j \in Jobs : Tracked(rec[s][j])}
      marked(j) == Missed(rec[s][j])
      judged(j) == Judged(job[j].status, RecordsOf(j, s, marked(j)))
  IN
  /\ Credible(Others + Cardinality({j \in tracked : rec[s][j].active}), seen)
  /\ Begin(s, [NoTxn EXCEPT
       !.job = [j \in Jobs |-> IF j \in tracked
                               THEN [status   |-> judged(j).status,
                                     first    |-> {},
                                     expired  |-> judged(j).expired,
                                     reopened |-> {}]
                               ELSE Unwritten(NoJob)],
       !.rec = [j \in Jobs |-> IF j \in tracked
                               THEN [kept    |-> {},
                                     active  |-> Diff(rec[s][j].active, marked(j).active),
                                     missing |-> Diff(rec[s][j].missing, marked(j).missing),
                                     seen    |-> {}]
                               ELSE Unwritten(NoRecord)]])

-----------------------------------------------------------------------------
(* The end of the transaction, and what happens to jobs besides *)

\* Is the transaction to write to a job that was deleted since it was read?
WritesToPurged(s) ==
  \E j \in Jobs : job[j].status = "purged"
                  /\ (IsWrite(txn[s].job[j]) \/ IsWrite(txn[s].rec[j]))

\* The transactions that are open while the tables change.
Overtaken(ts, changed) ==
  [s \in Sources |-> [ts[s] EXCEPT !.stale = @ \/ (ts[s].open /\ changed)]]

Commit(s) ==
  LET t == txn[s]
      created == IF t.creates THEN {Min({j \in Jobs : job[j].status = "none"})} ELSE {}
      listed == t.lists \cup created
  IN
  /\ t.open
  /\ ~WritesToPurged(s)
  /\ job' = [j \in Jobs |-> IF j \in created THEN NewJob ELSE Written(job[j], t.job[j])]
  /\ rec' = [rec EXCEPT ![s] =
       [j \in Jobs |-> IF j \in created THEN Listed ELSE Written(@[j], t.rec[j])]]
  /\ missed' = [missed EXCEPT ![s] =
       [j \in Jobs |-> IF j \in listed THEN 0
                       ELSE IF listed = {} /\ @[j] < ExpireAfter THEN @[j] + 1 ELSE @[j]]]
  /\ gone' = [j \in Jobs |-> IF job'[j].status # "expired" THEN Null
                             ELSE IF job[j].status # "expired" THEN 0 ELSE gone[j]]
  /\ txn' = Overtaken([txn EXCEPT ![s] = NoTxn], <<job', rec'>> # <<job, rec>>)
  /\ UNCHANGED day

\* A crash, or an error of any statement: the transaction is rolled back.
Abort(s) ==
  /\ txn[s].open
  /\ txn' = [txn EXCEPT ![s] = NoTxn]
  /\ UNCHANGED <<job, rec, missed, gone, day>>

\* purge_expired_jobs(): those that no user has kept, with their records.
Purgeable(j) == job[j].status = "expired" /\ job[j].expired >= Retention

Purge(S) ==
  /\ S # {} /\ \A j \in S : Purgeable(j)
  /\ job' = [j \in Jobs |-> IF j \in S THEN [NoJob EXCEPT !.status = "purged"] ELSE job[j]]
  /\ rec' = [s \in Sources |-> [j \in Jobs |-> IF j \in S THEN NoRecord ELSE rec[s][j]]]
  /\ gone' = [j \in Jobs |-> IF j \in S THEN Null ELSE gone[j]]
  /\ txn' = Overtaken(txn, TRUE)
  /\ UNCHANGED <<missed, day>>

Older(age, cap) == IF age = Null \/ age = cap THEN age ELSE age + 1

Tick ==
  /\ day < MaxDays
  /\ \A s \in Sources : ~txn[s].open
  /\ day' = day + 1
  /\ job' = [j \in Jobs |->
       IF ~Exists(j) THEN job[j]
       ELSE [job[j] EXCEPT !.first = Older(@, RepostAge), !.expired = Older(@, Retention)]]
  /\ rec' = [s \in Sources |-> [j \in Jobs |->
       IF rec[s][j].kept THEN [rec[s][j] EXCEPT !.seen = Older(@, RepostAge)] ELSE rec[s][j]]]
  /\ gone' = [j \in Jobs |-> Older(gone[j], ReopenAge)]
  /\ UNCHANGED <<txn, missed>>

\* What a source lists is up to its maintainer.  A poll that finds the file unchanged
\* does nothing, nor does one that neither lists the posting nor counts.
Snapshot(s) ==
  \/ \E edited \in BOOLEAN : UpdateExisting(s, edited)
  \/ AddOccurrence(s)
  \/ \E seen \in 0..Others : MarkMissing(s, seen)

Next ==
  \/ \E s \in Sources : Snapshot(s) \/ Commit(s) \/ Abort(s)
  \/ \E S \in SUBSET Jobs : Purge(S)
  \/ Tick

Spec == Init /\ [][Next]_vars

\* Transactions end, and every source again and again delivers a changed file that
\* counts, of which some commit.
Fairness ==
  \A s \in Sources : /\ WF_vars(Commit(s) \/ Abort(s))
                     /\ SF_vars(Snapshot(s)) /\ SF_vars(Commit(s))
FairSpec == Spec /\ Fairness

-----------------------------------------------------------------------------
(* Properties *)

\* Every variable keeps the shape the code gives it, and the record of a source is active
\* exactly while fewer than StaleAfter snapshots in a row missed it, whatever happens to
\* its job.
TypeOK ==
  /\ job \in [Jobs -> Job]
  /\ rec \in [Sources -> [Jobs -> Record]]
  /\ \A s \in Sources, j \in Jobs :
       rec[s][j].kept => (rec[s][j].active <=> rec[s][j].missing < StaleAfter)
  /\ \A s \in Sources :
       {txn[s].open, txn[s].creates, txn[s].locked, txn[s].stale} \subseteq BOOLEAN
  /\ missed \in [Sources -> [Jobs -> 0..ExpireAfter]]
  /\ gone \in [Jobs -> Null..ReopenAge]
  /\ day \in 0..MaxDays

\* Does s commit, in this step, what it decided on tables that have changed since?
CommitsStale(s) == txn[s].stale /\ ~txn'[s].open

\* A job expires only when ExpireAfter snapshots that count, of every source with an
\* occurrence of it, have missed it since one last listed it: neither partial, empty or
\* shrunk snapshots nor the absence from one of two sources expire it, unless a source
\* relists it while the transaction that expires it is open.
ExpiryIsEarned ==
  [][\A j \in Jobs : job[j].status # "expired" /\ job'[j].status = "expired" =>
       \/ \E s \in Sources : CommitsStale(s)
       \/ \A s \in Sources :
            rec'[s][j].kept => ~rec'[s][j].active /\ missed'[s][j] >= ExpireAfter]_vars

\* Two sources that list a posting for the first time at once, or again after a long
\* absence, do not both create a job for it: no job is created when there is one that
\* was first seen within the threshold.
NoSecondCreation ==
  [][(\E j \in Jobs : job[j].status = "none" /\ job'[j].status # "none") =>
       ~\E j \in Jobs : Exists(j) /\ job[j].first < RepostAge]_vars

\* A posting that a source goes on listing is active in the end, whatever expired it,
\* raced with its return or left it attached to a closed job.
ListedComesBack ==
  \A s \in Sources :
    <>[](\E j \in Jobs : missed[s][j] = 0) =>
    <>[](Latest(rec[s]) # Null /\ job[Latest(rec[s])].status = "active")

\* A posting that no source lists any more is closed in the end, and dated, without which
\* it is never purged: also when two sources drop it in transactions that do not see each
\* other, or when one that had seen it come back expires it and the other clears the date.
DroppedExpires ==
  <>[](\A s \in Sources, j \in Jobs : missed[s][j] >= ExpireAfter) =>
  <>[](\A j \in Jobs : Exists(j) => job[j].status = "expired" /\ job[j].expired # Null)

\* README.md:34: "source records are validated, normalized, deduplicated across
\* repositories": a posting is not shown twice.
ShownOnce == Cardinality({j \in Jobs : job[j].status = "active"}) <= 1

\* ingestion/persistence.py:183: "A notification is warranted only when this exact
\* occurrence was fully expired and stayed expired long enough to rule out source churn":
\* one that did and is listed again is marked as reopened.
ReopeningIsMarked ==
  [][\A s \in Sources, j \in Jobs :
       /\ gone[j] >= ReopenAge /\ job'[j].status = "active"
       /\ rec[s][j].kept /\ ~rec[s][j].active /\ rec'[s][j].active
       => job'[j].reopened]_vars
=============================================================================
