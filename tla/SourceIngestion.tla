---------------------------- MODULE SourceIngestion ----------------------------
(***************************************************************************)
(* How one source is read (src/backend/api/ingestion/service.py, the fetch  *)
(* of ingestion/adapters/github.py, and the notices to administrators of    *)
(* notifications/planning.py).                                              *)
(*                                                                         *)
(* Workers and administrators start runs at will.  A run takes an advisory  *)
(* lock, which belongs to a database session of its own and is free as soon *)
(* as that session's connection is, loads the cursor, asks GitHub for the   *)
(* file unless it is the one of the cursor, and applies it in one           *)
(* transaction.  That transaction reads before and writes, at commit, the   *)
(* columns it changed.                                                      *)
(*                                                                         *)
(* A version of the file counts for what the code sees in it: some rows,    *)
(* none at all, rows of which too many are rejected or whose number is out  *)
(* of proportion (doubtful), or no table.                                   *)
(***************************************************************************)
EXTENDS Integers, FiniteSets

CONSTANTS
  Kinds,        \* what the maintainers may make of the file
  Runners,      \* workers and API requests that run ingestion
  AlertAfter,   \* failures in a row that raise an alert
  TouchAfter,   \* source_success_touch_interval_seconds, in ticks
  StaleAfter,   \* source_stale_after_hours, in ticks
  MaxVersions,  \* bound: versions of the file
  MaxAlerts,    \* bound: rows of parser_alerts told apart, later ones count as the last
  MaxFaults     \* bound: crashes, broken connections, database errors

ASSUME IngestionConstants ==
  /\ Kinds \subseteq {"fine", "empty", "doubtful", "tableless"}
  /\ Runners # {} /\ "none" \notin Runners
  /\ AlertAfter \in Nat \ {0}
  /\ TouchAfter \in Nat \ {0} /\ StaleAfter \in Nat /\ StaleAfter >= TouchAfter
  /\ MaxVersions \in Nat \ {0} /\ MaxAlerts \in Nat \ {0} /\ MaxFaults \in Nat

VARIABLES
  file,     \* File: the newest version at GitHub
  content,  \* File: the version that jobs and job_sources were last made from
  state,    \* State: the row of source_states
  alert,    \* [Categories -> Nat]: the unresolved row of parser_alerts, or 0
  alerts,   \* rows of parser_alerts so far, saturated
  told,     \* the rows of parser_alerts that administrators were told of
  lock,     \* the runner whose session holds the advisory lock, or "none"
  pc,       \* [Runners -> Places]
  mine,     \* [Runners -> Local]: what a run has read
  faults,   \* faults so far
  broken,   \* has a run lost its lock before its end?
  trouble,  \* what was wrong with the source at its latest poll
  notices,  \* [Categories -> 0..2]: notices, counted to two, since the source last was without that trouble
  quiet     \* ticks since a poll last succeeded

polled == <<file, content, state, alert, alerts, trouble, notices, quiet>>
vars == <<polled, told, lock, pc, mine, faults, broken>>

-----------------------------------------------------------------------------
(* Rows and places *)

Null == -1
Categories == {"zero", "doubtful", "table", "repeated"}
File == [ver : 0..MaxVersions, kind : Kinds \cup {"empty"}]
NoFile == [ver |-> 0, kind |-> "empty"]

State == [exists   : BOOLEAN,
          cursor   : 0..MaxVersions,           \* the version it names, 0 for {}
          failures : 0..AlertAfter,            \* consecutive_failures, saturated
          age      : Null..(StaleAfter + 1)]   \* age of last_succeeded_at

\* What a run knows: the cursor it fetched with, its batch, the error that ended it, and
\* the columns and alerts that its transaction has loaded.
Local == [cursor : 0..MaxVersions, batch : File, error : {"none", "table", "other"},
          was : [cursor : 0..MaxVersions, failures : 0..AlertAfter],
          open : [Categories -> 0..MaxAlerts]]

Places == {"idle", "skipping", "fetching", "unchanged", "fetched", "started",
           "applying", "failed", "failing", "done"}

NoAlert == [c \in Categories |-> 0]
NoState == [exists |-> FALSE, cursor |-> 0, failures |-> 0, age |-> Null]
Nothing == [cursor |-> 0, batch |-> NoFile, error |-> "none", was |-> [cursor |-> 0, failures |-> 0],
            open |-> NoAlert]

\* The places of a run for which there is a row RUNNING.
Recorded == {"skipping", "started", "applying", "failing"}

\* The places at which a run counts on its lock.
Locked == Places \ {"idle", "skipping"}

Init ==
  /\ \E k \in Kinds : file = [ver |-> 1, kind |-> k]
  /\ content = NoFile
  /\ state = NoState
  /\ alert = NoAlert /\ alerts = 0 /\ told = {}
  /\ lock = "none"
  /\ pc = [r \in Runners |-> "idle"]
  /\ mine = [r \in Runners |-> Nothing]
  /\ faults = 0 /\ broken = FALSE
  /\ trouble = {} /\ notices = NoAlert /\ quiet = 0

Goto(r, place) == pc' = [pc EXCEPT ![r] = place]
Ends(r) == Goto(r, "done") /\ mine' = [mine EXCEPT ![r] = Nothing]

-----------------------------------------------------------------------------
(* The beginning of a run *)

\* Mutant: the lock is tried but its answer is not looked at.
LockIgnored == TRUE

LockIsFree == lock = "none"

\* run(), _load_state(): the lock is taken and the cursor read.
Begin(r) ==
  /\ pc[r] = "idle" /\ LockIsFree
  /\ lock' = r
  /\ mine' = [mine EXCEPT ![r] = [Nothing EXCEPT !.cursor = state.cursor]]
  /\ Goto(r, "fetching")
  /\ UNCHANGED <<polled, told, faults, broken>>

Created == [state EXCEPT !.exists = TRUE]

\* _record_start(), which makes the row of the source if there is none.
RecordStart(r) ==
  /\ state' = Created
  /\ UNCHANGED <<file, content, alert, alerts, trouble, notices, quiet, told, lock, mine,
                  faults, broken>>

\* _record_skipped(): another run has the lock.
Skip(r) == pc[r] = "idle" /\ ~LockIsFree /\ RecordStart(r) /\ Goto(r, "skipping")

\* The row is closed as SKIPPED.
SkipEnds(r) ==
  /\ pc[r] = "skipping"
  /\ Goto(r, "idle")
  /\ UNCHANGED <<polled, told, lock, mine, faults, broken>>

\* fetch(): GitHub answers that the file has not changed, or with the file, which may be
\* the same one, or not at all.  A file without a table is an error, too.
Fetch(r) ==
  /\ pc[r] = "fetching"
  /\ \/ /\ mine[r].cursor = file.ver
        /\ Goto(r, "unchanged")
        /\ UNCHANGED mine
     \/ /\ file.kind # "tableless"
        /\ mine' = [mine EXCEPT ![r].batch = file]
        /\ Goto(r, "fetched")
     \/ /\ mine' = [mine EXCEPT ![r] = [Nothing EXCEPT !.error = "other"]]
        /\ Goto(r, "failed")
     \/ /\ file.kind = "tableless"
        /\ mine' = [mine EXCEPT ![r] = [Nothing EXCEPT !.error = "table"]]
        /\ Goto(r, "failed")
  /\ UNCHANGED <<polled, told, lock, faults, broken>>

\* A run is recorded for a batch that is to be applied, and for a fetch that failed.
Start(r) ==
  /\ \/ pc[r] = "fetched" /\ Goto(r, "started")
     \/ pc[r] = "failed" /\ Goto(r, "failing")
  /\ RecordStart(r)

-----------------------------------------------------------------------------
(* What a poll leaves behind *)

\* What the latest poll says is wrong, and for how many notices that has lasted.
Trouble(S) ==
  /\ trouble' = S
  /\ notices' = [c \in Categories |-> IF c \in S THEN notices[c] ELSE 0]

\* Mutant: a source that does not fail is not touched.
TouchedOnFailure == state.failures > 0 \/ alert # NoAlert

\* Mutant: alerts do not count.
TouchedWithoutAlert == state.age = Null \/ state.age >= TouchAfter \/ state.failures > 0

\* An unchanged file is worth a write only now and then, or if there is something to clear.
NeedsTouch ==
  state.age = Null \/ state.age >= TouchAfter \/ state.failures > 0 \/ alert # NoAlert

\* _record_unchanged_success(): no run is recorded.
Unchanged(r) ==
  /\ pc[r] = "unchanged"
  /\ IF NeedsTouch
     THEN /\ state' = [state EXCEPT !.age = 0, !.failures = 0]
          /\ alert' = NoAlert
     ELSE UNCHANGED <<state, alert>>
  /\ Trouble({})
  /\ quiet' = 0
  /\ Ends(r)
  /\ UNCHANGED <<file, content, alerts, told, lock, faults, broken>>

\* The transaction that applies a batch loads the row of the source and its open alerts.
Read(r) ==
  /\ pc[r] = "started"
  /\ mine' = [mine EXCEPT 
    ![r].was = [cursor |-> state.cursor, failures |-> state.failures], ![r].open = alert]
  /\ Goto(r, "applying")
  /\ UNCHANGED <<polled, told, lock, faults, broken>>

\* What the code finds wrong with the batch.
Issues(r) ==
  IF mine[r].batch.kind = "empty" /\ mine[r].batch.ver # mine[r].cursor THEN {"zero"}
  ELSE IF mine[r].batch.kind = "doubtful" THEN {"doubtful"} ELSE {}

\* Is there by now an open alert of one of these categories that the run has not loaded?
\* Then its own has the same fingerprint and is refused.
Clashes(r) == \E c \in Issues(r) : alert[c] \notin {0, mine[r].open[c]}

NewRow == IF alerts < MaxAlerts THEN alerts + 1 ELSE alerts

\* The alerts that were open are resolved, then those of the batch are raised as new rows.
Apply(r) ==
  LET batch == mine[r].batch
      was   == mine[r].was
  IN
  /\ pc[r] = "applying" /\ ~Clashes(r)
  /\ content' = batch
  /\ state' = [exists   |-> TRUE,
               cursor   |-> IF batch.ver # was.cursor THEN batch.ver ELSE state.cursor,
               failures |-> IF was.failures # 0 THEN 0 ELSE state.failures,
               age      |-> 0]
  /\ alerts' = IF Issues(r) = {} THEN alerts ELSE NewRow
  /\ alert' = [c \in Categories |->
       IF c \in Issues(r) THEN NewRow
       ELSE IF alert[c] = mine[r].open[c] THEN 0 ELSE alert[c]]
  /\ Trouble(Issues(r))
  /\ quiet' = 0
  /\ Ends(r)
  /\ UNCHANGED <<file, told, lock, faults, broken>>

\* A transaction fails and is rolled back: it was refused, or it is a fault.
Fails(r) ==
  /\ pc[r] \in {"unchanged", "fetched", "started", "applying"}
  /\ IF pc[r] = "applying" /\ Clashes(r) THEN UNCHANGED faults
     ELSE faults < MaxFaults /\ faults' = faults + 1
  /\ mine' = [mine EXCEPT ![r].error = "other"]
  /\ Goto(r, IF pc[r] \in {"started", "applying"} THEN "failing" ELSE "failed")
  /\ UNCHANGED <<polled, told, lock, broken>>

\* Mutant: the cursor of a batch that could not be applied is kept.
FailedWithCursor(r) ==
  [state EXCEPT !.failures = IF @ < AlertAfter THEN @ + 1 ELSE @,
                !.cursor = IF mine[r].batch.ver # 0 THEN mine[r].batch.ver ELSE @]

Failed(r) == [state EXCEPT !.failures = IF @ < AlertAfter THEN @ + 1 ELSE @]

\* The alert that a failure raises, or goes on with if it is open.
FailureCategory(r) ==
  IF mine[r].error = "table" THEN {"table"}
  ELSE IF Failed(r).failures >= AlertAfter THEN {"repeated"} ELSE {}

Raised(r) == {c \in FailureCategory(r) : alert[c] = 0}

\* _record_failure()
RecordFailure(r) ==
  /\ pc[r] = "failing"
  /\ state' = Failed(r)
  /\ alerts' = IF Raised(r) = {} THEN alerts ELSE NewRow
  /\ alert' = [c \in Categories |-> IF c \in Raised(r) THEN NewRow ELSE alert[c]]
  /\ Trouble(trouble \cup FailureCategory(r))
  /\ Ends(r)
  /\ UNCHANGED <<file, content, quiet, told, lock, faults, broken>>

\* What is left of a lock when its session's connection is closed.
Freed(r) == IF lock = r THEN "none" ELSE lock

\* Mutant: the lock is not given back, and the pool keeps the connection.
NotReleased(r) == lock

\* pg_advisory_unlock(), which is an error if the connection is broken.
Released(r) == Freed(r)

\* The run is over.
End(r) ==
  /\ pc[r] = "done"
  /\ lock' = Released(r)
  /\ Goto(r, "idle")
  /\ UNCHANGED <<polled, told, mine, faults, broken>>

-----------------------------------------------------------------------------
(* Faults, and what happens besides *)

\* The process dies, or closing a run fails: the row of a recorded run stays RUNNING, and
\* nothing closes it later.
Dies(r) ==
  /\ pc[r] # "idle" /\ faults < MaxFaults
  /\ faults' = faults + 1
  /\ lock' = Freed(r)
  /\ mine' = [mine EXCEPT ![r] = Nothing]
  /\ Goto(r, "idle")
  /\ UNCHANGED <<polled, told, broken>>

\* The connection breaks whose session holds the lock.  The run goes on: its other
\* transactions have connections of their own.
LoseLock(r) ==
  /\ lock = r /\ faults < MaxFaults
  /\ faults' = faults + 1
  /\ lock' = "none"
  /\ broken' = TRUE
  /\ UNCHANGED <<polled, told, pc, mine>>

\* The maintainers of the source change the file.
Edit ==
  /\ file.ver < MaxVersions
  /\ \E k \in Kinds : file' = [ver |-> file.ver + 1, kind |-> k]
  /\ UNCHANGED <<content, state, alert, alerts, trouble, notices, quiet, told, lock, pc,
                 mine, faults, broken>>

\* _plan_system_events(): administrators are told once of each unresolved row.
PlanNotices ==
  LET new == {c \in Categories : alert[c] # 0 /\ alert[c] \notin told} IN
  /\ new # {}
  /\ told' = told \cup {alert[c] : c \in new}
  /\ notices' = [c \in Categories |-> IF c \in new THEN IF notices[c] < 2 THEN notices[c] + 1 ELSE 2 ELSE notices[c]]
  /\ UNCHANGED <<file, content, state, alert, alerts, trouble, quiet, lock, pc, mine, 
                 faults, broken>>

Older(age) == IF age = Null \/ age > StaleAfter THEN age ELSE age + 1

Tick ==
  /\ state' = [state EXCEPT !.age = Older(@)]
  /\ quiet' = Older(quiet)
  /\ <<state', quiet'>> # <<state, quiet>>
  /\ UNCHANGED <<file, content, alert, alerts, trouble, notices, told, lock, pc, mine, 
                 faults, broken>>

Step(r) ==
  \/ Skip(r) \/ SkipEnds(r) \/ Fetch(r) \/ Start(r) \/ Unchanged(r)
  \/ Read(r) \/ Apply(r) \/ Fails(r) \/ RecordFailure(r) \/ End(r)

Next ==
  \/ \E r \in Runners : Begin(r) \/ Step(r) \/ Dies(r) \/ LoseLock(r)
  \/ Edit \/ PlanNotices \/ Tick

Spec == Init /\ [][Next]_vars

\* Runs are started again and again, end, and GitHub answers again and again.
Answered(r) == Fetch(r) /\ pc'[r] # "failed"
Fairness ==
  \A r \in Runners : /\ WF_vars(Step(r) /\ pc[r] # "idle")
                     /\ SF_vars(Begin(r)) /\ SF_vars(Answered(r))
FairSpec == Spec /\ Fairness

-----------------------------------------------------------------------------
(* Properties *)

\* Every variable keeps the shape the code gives it, and every recorded run belongs to a
\* source that has a row.
TypeOK ==
  /\ file \in File /\ content \in File /\ state \in State
  /\ alert \in [Categories -> 0..MaxAlerts] /\ alerts \in 0..MaxAlerts
  /\ told \subseteq 1..MaxAlerts
  /\ lock \in Runners \cup {"none"}
  /\ pc \in [Runners -> Places]
  /\ mine \in [Runners -> Local]
  /\ faults \in 0..MaxFaults /\ broken \in BOOLEAN
  /\ trouble \subseteq Categories
  /\ notices \in [Categories -> 0..2]
  /\ quiet \in 0..(StaleAfter + 1)
  /\ \A r \in Runners : pc[r] \in Recorded => state.exists

\* Workers and administrators who poll one source at once do not both work on it: a run
\* that finds another at work is skipped.  Only a broken connection of the lock's session,
\* which the run does not notice, lets two go on.
OneRunAtATime ==
  broken \/ \A r, s \in Runners : pc[r] \in Locked /\ pc[s] \in Locked => r = s

\* The stored cursor names the version that the postings were made from, whatever failed or
\* died on the way: a cursor ahead of them would hide a version for ever behind "not modified",
\* one behind them would apply an old one again.
CursorIsApplied == broken \/ state.cursor = content.ver

\* The unresolved alerts of a source are exactly what its polls found wrong since one last
\* was clean, whichever path ended those polls.
AlertsAreCurrent == broken \/ {c \in Categories : alert[c] # 0} = trouble

\* service.py:212: unchanged polls are written rarely, "comfortably inside the 24-hour
\* stale-source window": a source is not reported stale while polls of it succeed.
FreshWhilePolled == state.age > StaleAfter => quiet > StaleAfter - TouchAfter

\* A file that is left alone and has a table is in the database in the end, whatever
\* failed and died meanwhile.
SourceCatchesUp ==
  (<>[](file.kind # "tableless") /\ []~broken) => <>[](content.ver = file.ver)

\* notifications/planning.py:469: "One unresolved incident should produce one alert": while
\* every poll finds the same wrong, administrators are told of it once.
OneNoticePerIncident == \A c \in Categories : notices[c] <= 1
=============================================================================
