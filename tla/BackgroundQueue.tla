--------------------------- MODULE BackgroundQueue ---------------------------
(***************************************************************************)
(* The durable job queue (src/backend/api/jobs/queue.py) and the worker     *)
(* loop that drains it (src/backend/api/worker/runtime.py).                 *)
(*                                                                         *)
(* A job is a row of background_jobs.  A worker claims one row under a      *)
(* lease, runs its handler, and settles the row with succeed() or fail().   *)
(* Claiming locks the row; settling does NOT: it reads the row, compares    *)
(* lease_owner in memory and writes at commit, so the read and the write    *)
(* are two steps here.                                                      *)
(*                                                                         *)
(* Times are relative to the present, so that the clock needs no bound:     *)
(* wait is available_at - now, lockAge is now - locked_at and doneAge is    *)
(* now - finished_at.  They saturate where no comparison of the code can    *)
(* tell further values apart.                                               *)
(***************************************************************************)
EXTENDS Integers

CONSTANTS
  Jobs,         \* idempotency keys
  Workers,      \* worker processes
  NoOne,        \* lease_owner IS NULL, and the job of a worker that has none
  Lease,        \* worker_lease_seconds, in ticks
  Retention,    \* background_job_retention_days, in ticks
  MaxAttempts,  \* max_attempts of every row
  BaseDelay,    \* the 30 seconds of the first retry, in ticks
  MaxDelay,     \* the 3600 seconds no retry delay exceeds, in ticks
  Horizon,      \* bound: how long an overdue row's age is told apart
  HoldLimits,   \* bound: ticks from a claim to the commit that settles it
  MaxFaults     \* bound: crashes and database errors of a behaviour

ASSUME QueueConstants ==
  /\ NoOne \notin Jobs \cup Workers
  /\ Lease \in Nat \ {0} /\ Retention \in Nat \ {0}
  /\ HoldLimits \subseteq Nat
  /\ BaseDelay \in Nat /\ MaxDelay \in Nat /\ Horizon \in Nat
  /\ MaxFaults \in Nat
  /\ MaxAttempts \in Nat \ {0}

VARIABLES
  row,     \* [Jobs -> Row]: the table background_jobs
  pc,      \* where each worker is in the loop of run_worker
  job,     \* the job object each worker holds
  ran,     \* ticks since the worker claimed that job
  seen,    \* the attempts column as fail() read it
  faults,  \* crashes and database errors so far
  limit    \* the HoldLimits a behaviour keeps to

vars == <<row, pc, job, ran, seen, faults, limit>>

-----------------------------------------------------------------------------
(* Rows *)

Null == -1                      \* locked_at or finished_at IS NULL
AttemptCap == MaxAttempts + MaxFaults + 1
  \* attempts saturates here: the code only asks whether it reached MaxAttempts

Row == [status   : {"absent", "queued", "running", "succeeded", "dead", "purged"},
        attempts : 0..AttemptCap,
        wait     : -Horizon..MaxDelay,
        lockAge  : Null..(Lease + 1),
        doneAge  : Null..(Retention + 1),
        owner    : Workers \cup {NoOne}]

NoRow == [status |-> "absent", attempts |-> 0, wait |-> 0,
          lockAge |-> Null, doneAge |-> Null, owner |-> NoOne]

InTable(r) == r.status \notin {"absent", "purged"}
Settled(r) == r.status \in {"succeeded", "dead"}
Unfinished(r) == r.status \in {"queued", "running"}

\* Mutant: <= for < in the comparison of locked_at with the start of the lease.
ClaimableEarly(r) ==
  \/ r.status = "queued" /\ r.wait <= 0 /\ r.lockAge = Null
  \/ r.status = "running" /\ r.lockAge >= Lease

\* The WHERE clause of claim(): a queued row that is due and unlocked, or a
\* running row whose lease has run out.
Claimable(r) ==
  \/ r.status = "queued" /\ r.wait <= 0 /\ r.lockAge = Null
  \/ r.status = "running" /\ r.lockAge > Lease

\* min(30 * 2 ** (attempts - 1), 3600)
RetryDelay(attempts) ==
  LET delay == BaseDelay * 2^(attempts - 1)
  IN  IF delay \in 0..MaxDelay THEN delay ELSE MaxDelay

ClaimedBy(w, r) ==
  [r EXCEPT !.status   = "running",
            !.attempts = IF @ < AttemptCap THEN @ + 1 ELSE @,
            !.lockAge  = 0,
            !.owner    = w]

Succeeded(r) ==
  [r EXCEPT !.status = "succeeded", !.doneAge = 0, !.lockAge = Null, !.owner = NoOne]

\* Mutants: the lock left in place; > for >= in the comparison with max_attempts;
\* the attempt counted twice.
FailedStillLocked(attempts, r) ==
  IF attempts >= MaxAttempts
  THEN [r EXCEPT !.status = "dead", !.doneAge = 0, !.lockAge = Null, !.owner = NoOne]
  ELSE [r EXCEPT !.status = "queued", !.wait = RetryDelay(attempts), !.owner = NoOne]
FailedOnceMore(attempts, r) ==
  IF attempts > MaxAttempts
  THEN [r EXCEPT !.status = "dead", !.doneAge = 0, !.lockAge = Null, !.owner = NoOne]
  ELSE [r EXCEPT !.status = "queued", !.wait = RetryDelay(1),
                 !.lockAge = Null, !.owner = NoOne]
FailedTooSoon(attempts, r) ==
  IF attempts + 1 >= MaxAttempts
  THEN [r EXCEPT !.status = "dead", !.doneAge = 0, !.lockAge = Null, !.owner = NoOne]
  ELSE [r EXCEPT !.status = "queued", !.wait = RetryDelay(attempts),
                 !.lockAge = Null, !.owner = NoOne]

\* attempts is the value fail() loaded; the statement writes the other columns.
FailedAfter(attempts, r) ==
  IF attempts >= MaxAttempts
  THEN [r EXCEPT !.status = "dead", !.doneAge = 0, !.lockAge = Null, !.owner = NoOne]
  ELSE [r EXCEPT !.status = "queued", !.wait = RetryDelay(attempts),
                 !.lockAge = Null, !.owner = NoOne]

-----------------------------------------------------------------------------
(* Workers *)

Busy(w) == pc[w] \in {"handling", "succeeding", "marking", "failing", "requeueing"}
InTransaction(w) == pc[w] \in {"succeeding", "marking", "failing", "requeueing"}

Init ==
  /\ row = [j \in Jobs |-> NoRow]
  /\ pc = [w \in Workers |-> "polling"]
  /\ job = [w \in Workers |-> NoOne]
  /\ ran = [w \in Workers |-> 0]
  /\ seen = [w \in Workers |-> 0]
  /\ faults = 0
  /\ limit \in HoldLimits

\* No handler outlasts its lease.  The code neither renews a lease nor stops a
\* handler when the lease runs out, so that this is a condition on the workload.
Timely == limit <= Lease

GoTo(w, place) == pc' = [pc EXCEPT ![w] = place]

\* The worker leaves the job it holds and stands at place.
LeaveJob(w, place) ==
  /\ GoTo(w, place)
  /\ job' = [job EXCEPT ![w] = NoOne]
  /\ ran' = [ran EXCEPT ![w] = 0]
  /\ seen' = [seen EXCEPT ![w] = 0]

\* INSERT ... ON CONFLICT (idempotency_key) DO NOTHING: a key that has a row,
\* whatever its status, keeps it.  Keys hold a time bucket or a fresh uuid, so
\* a key whose row was purged is not enqueued again.
Enqueue(j) ==
  /\ row' = IF row[j].status = "absent"
            THEN [row EXCEPT ![j].status = "queued"]
            ELSE row
  /\ UNCHANGED <<pc, job, ran, seen, faults, limit>>

\* claim(): SELECT ... ORDER BY available_at LIMIT 1 FOR UPDATE SKIP LOCKED.
Claim(w) ==
  /\ pc[w] = "polling"
  /\ \E j \in Jobs :
       /\ Claimable(row[j])
       /\ \A k \in Jobs : Claimable(row[k]) => row[j].wait <= row[k].wait
       /\ row' = [row EXCEPT ![j] = ClaimedBy(w, @)]
       /\ job' = [job EXCEPT ![w] = j]
  /\ ran' = [ran EXCEPT ![w] = 0]
  /\ GoTo(w, "handling")
  /\ UNCHANGED <<seen, faults, limit>>

\* await handler.handle(job) returns or raises.
HandlerEnds(w) ==
  /\ pc[w] = "handling"
  /\ \/ GoTo(w, "succeeding")
     \/ GoTo(w, "failing")
  /\ UNCHANGED <<row, job, ran, seen, faults, limit>>

\* succeed() reads the row; a row that is gone raises NoResultFound, which the
\* worker loop turns into a fail().
SucceedRead(w) ==
  LET r == row[job[w]] IN
  /\ pc[w] = "succeeding"
  /\ \/ /\ ~InTable(r)
        /\ GoTo(w, "failing")
        /\ UNCHANGED <<job, ran, seen>>
     \/ /\ InTable(r) /\ r.owner # w
        /\ LeaveJob(w, "polling")
     \/ /\ InTable(r) /\ r.owner = w
        /\ GoTo(w, "marking")
        /\ UNCHANGED <<job, ran, seen>>
  /\ UNCHANGED <<row, faults, limit>>

\* The commit of succeed(): UPDATE by primary key, on whatever the row is now.
SucceedWrite(w) ==
  /\ pc[w] = "marking"
  /\ \/ /\ InTable(row[job[w]])
        /\ row' = [row EXCEPT ![job[w]] = Succeeded(@)]
        /\ LeaveJob(w, "polling")
     \/ /\ ~InTable(row[job[w]])
        /\ GoTo(w, "failing")
        /\ UNCHANGED <<row, job, ran, seen>>
  /\ UNCHANGED <<faults, limit>>

\* fail() reads the row.  It is called from the except clause of the loop, so
\* that what it raises itself ends run_worker and with it the process.
FailRead(w) ==
  LET r == row[job[w]] IN
  /\ pc[w] = "failing"
  /\ \/ /\ ~InTable(r)
        /\ LeaveJob(w, "exited")
     \/ /\ InTable(r) /\ r.owner # w
        /\ LeaveJob(w, "polling")
     \/ /\ InTable(r) /\ r.owner = w
        /\ GoTo(w, "requeueing")
        /\ seen' = [seen EXCEPT ![w] = r.attempts]
        /\ UNCHANGED <<job, ran>>
  /\ UNCHANGED <<row, faults, limit>>

\* The commit of fail().
FailWrite(w) ==
  /\ pc[w] = "requeueing"
  /\ \/ /\ InTable(row[job[w]])
        /\ row' = [row EXCEPT ![job[w]] = FailedAfter(seen[w], @)]
        /\ LeaveJob(w, "polling")
     \/ /\ ~InTable(row[job[w]])
        /\ LeaveJob(w, "exited")
        /\ UNCHANGED row
  /\ UNCHANGED <<faults, limit>>

\* The database refuses a statement of succeed() or fail().  An error in claim()
\* is caught, logged and waited out: it changes nothing.
DatabaseError(w) ==
  /\ faults < MaxFaults
  /\ faults' = faults + 1
  /\ \/ /\ pc[w] \in {"succeeding", "marking"}
        /\ GoTo(w, "failing")
        /\ UNCHANGED <<job, ran, seen>>
     \/ /\ pc[w] \in {"failing", "requeueing"}
        /\ LeaveJob(w, "exited")
  /\ UNCHANGED <<row, limit>>

\* The process is killed between any two steps, and the platform starts another.
Crash(w) ==
  /\ faults < MaxFaults
  /\ faults' = faults + 1
  /\ pc[w] \notin {"crashed", "exited"}
  /\ LeaveJob(w, "crashed")
  /\ UNCHANGED <<row, limit>>

Restart(w) ==
  /\ pc[w] \in {"crashed", "exited"}
  /\ GoTo(w, "polling")
  /\ UNCHANGED <<row, job, ran, seen, faults, limit>>

\* purge_completed_background_jobs, run daily by a retention job.
Purgeable(r) == Settled(r) /\ r.doneAge > Retention

Purge ==
  /\ \E j \in Jobs : Purgeable(row[j])
  /\ row' = [j \in Jobs |->
               IF Purgeable(row[j]) THEN [NoRow EXCEPT !.status = "purged"] ELSE row[j]]
  /\ UNCHANGED <<pc, job, ran, seen, faults, limit>>

\* One tick of time.  No worker holds a job for more than limit ticks.
Later(age, cap) == IF age = Null \/ age = cap THEN age ELSE age + 1

Aged(r) ==
  [r EXCEPT !.wait    = IF Unfinished(r) /\ @ > -Horizon THEN @ - 1 ELSE @,
            !.lockAge = Later(@, Lease + 1),
            !.doneAge = Later(@, Retention + 1)]

Tick ==
  /\ \A w \in Workers : Busy(w) => ran[w] < limit
  /\ row' = [j \in Jobs |-> Aged(row[j])]
  /\ ran' = [w \in Workers |-> IF Busy(w) THEN ran[w] + 1 ELSE ran[w]]
  /\ UNCHANGED <<pc, job, seen, faults, limit>>

Work(w) ==
  \/ Claim(w)
  \/ HandlerEnds(w)
  \/ SucceedRead(w)
  \/ SucceedWrite(w)
  \/ FailRead(w)
  \/ FailWrite(w)
  \/ Restart(w)

Next ==
  \/ \E j \in Jobs : Enqueue(j)
  \/ \E w \in Workers : Work(w) \/ DatabaseError(w) \/ Crash(w)
  \/ Purge
  \/ Tick

Spec == Init /\ [][Next]_vars

\* A worker that can take a step of its loop takes it, and time passes.  Nobody
\* is obliged to enqueue, to fail or to purge.
Fairness == (\A w \in Workers : WF_vars(Work(w))) /\ WF_vars(Tick)
FairSpec == Spec /\ Fairness

-----------------------------------------------------------------------------
(* Properties *)

\* Every variable keeps the shape the code gives it.
TypeOK ==
  /\ row \in [Jobs -> Row]
  /\ pc \in [Workers -> {"polling", "handling", "succeeding", "marking",
                         "failing", "requeueing", "crashed", "exited"}]
  /\ job \in [Workers -> Jobs \cup {NoOne}]
  /\ \A w \in Workers : Busy(w) => job[w] \in Jobs
  /\ limit \in HoldLimits
  /\ ran \in [Workers -> 0..limit]
  /\ seen \in [Workers -> 0..AttemptCap]
  /\ faults \in 0..MaxFaults

\* The lease of claim() excludes: no two workers are ever between the claim of a
\* job and its settlement at once.  The expiry test, the unlocked read in
\* succeed() and fail(), and the crash of a holder all bear on it.
ExclusiveRun ==
  Timely => \A v, w \in Workers : Busy(v) /\ Busy(w) /\ job[v] = job[w] => v = w

\* A row that is unfinished can always be claimed, now or when time has passed:
\* no crash, error or late settlement leaves one that claim() will never select
\* (queued but still locked, or running but without a lock to expire).
Reclaimable ==
  \A j \in Jobs :
    /\ row[j].status = "queued" => row[j].lockAge = Null
    /\ row[j].status = "running" => row[j].lockAge # Null /\ row[j].owner # NoOne

\* claim() never looks at max_attempts: what bounds the number of runs of a job
\* is that every run settles the row unless a fault interrupts it, so that each
\* run beyond max_attempts is paid for by a crash or a database error.
RunsPaidFor == Timely => \A j \in Jobs : row[j].attempts <= MaxAttempts + faults

\* A job is given up only when it has been started max_attempts times.
NoEarlyDeath == \A j \in Jobs : row[j].status = "dead" => row[j].attempts >= MaxAttempts

\* A job that was settled is not run or settled again: the late write of a worker
\* whose lease ran out does not take a finished row back to the queue.
SettledIsFinal ==
  [][Timely => \A j \in Jobs : Settled(row[j]) =>
       row'[j].status \in {row[j].status, "purged"}]_vars

\* A running row only ever leaves "running" by the worker that holds its lease.
OnlyTheHolderSettles ==
  [][Timely => \A j \in Jobs : row[j].status = "running" /\ row'[j].status # "running" =>
       \E w \in Workers : row[j].owner = w /\ job[w] = j /\ InTransaction(w)]_vars

\* The job as its submitter sees it: open until settled, and run by the worker
\* that is between its claim and its settlement.
PhaseOf(r) == IF Unfinished(r) THEN "open" ELSE r.status
HoldersOf(j) == {w \in Workers : Busy(w) /\ job[w] = j}
RunnerOf(j) == IF HoldersOf(j) = {} THEN NoOne ELSE CHOOSE w \in HoldersOf(j) : TRUE

Contract == INSTANCE JobContract
              WITH phase <- [j \in Jobs |-> PhaseOf(row[j])],
                   runner <- [j \in Jobs |-> RunnerOf(j)]

\* While handlers keep within their leases, the rows, leases, retries and crashes
\* of the queue are one of the ways to keep the contract of JobContract: every
\* step is a step of the contract or changes nothing a submitter sees.
ImplementsContract ==
  Contract!Init /\ [][Timely => [Contract!Next]_(Contract!vars)]_vars

\* Every job that is enqueued is settled, through crashes of its workers, retries
\* with backoff and competition from other jobs.
EveryJobSettles ==
  \A j \in Jobs : Timely /\ Unfinished(row[j]) ~> ~Unfinished(row[j])

\* worker/runtime.py:155: "A transient database timeout must not terminate the
\* process."
DatabaseErrorsEndNoWorker == \A w \in Workers : pc[w] # "exited"
=============================================================================
