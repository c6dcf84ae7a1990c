------------------------ MODULE BackgroundQueueProofs ------------------------
(***************************************************************************)
(* Proofs about BackgroundQueue for every set of jobs and workers, every    *)
(* lease, retention, backoff and number of faults.                          *)
(***************************************************************************)
EXTENDS BackgroundQueue, TLAPS

(* While handlers keep within their leases a busy worker holds the row of    *)
(* its job, and the row's lock is exactly as old as the worker's claim.      *)
Holds(w) ==
  /\ row[job[w]].status = "running"
  /\ row[job[w]].owner = w
  /\ row[job[w]].lockAge = ran[w]

HoldersHold == Timely => \A w \in Workers : Busy(w) => Holds(w)

(* Nobody is between the claim of j and its settlement. *)
Unheld(j) == \A w \in Workers : ~(Busy(w) /\ job[w] = j)

(* fail() never acts on more attempts than the row has, and on no fewer while    *)
(* handlers keep within their leases.                                           *)
SeenIsOld ==
  \A w \in Workers : pc[w] = "requeueing" /\ InTable(row[job[w]]) =>
    /\ seen[w] <= row[job[w]].attempts
    /\ Timely => seen[w] = row[job[w]].attempts

(* A row that waits for a claim has a run to spare. *)
RunToSpare ==
  Timely => \A j \in Jobs :
    Unfinished(row[j]) /\ Unheld(j) => row[j].attempts <= MaxAttempts - 1 + faults

(* A key without a row has no lock and no attempts to inherit, and no worker. *)
NewRows ==
  \A j \in Jobs : row[j].status = "absent" =>
    row[j].lockAge = Null /\ row[j].attempts = 0 /\ Unheld(j)

IInv ==
  /\ TypeOK
  /\ NewRows
  /\ Reclaimable
  /\ HoldersHold
  /\ SeenIsOld
  /\ NoEarlyDeath
  /\ RunsPaidFor
  /\ RunToSpare

-----------------------------------------------------------------------------
(* What the operators on rows return. *)

\* The bounds of the row's fields are not empty, and the cap on attempts is out of
\* the reach of the runs the faults allow.
LEMMA Bounds ==
  /\ AttemptCap \in Nat /\ MaxAttempts + MaxFaults < AttemptCap
  /\ Null \in Null..(Lease + 1) /\ 0 \in Null..(Lease + 1)
  /\ Null \in Null..(Retention + 1) /\ 0 \in Null..(Retention + 1)
  /\ 0 \in -Horizon..MaxDelay
  /\ Null \notin Nat
  BY QueueConstants DEF AttemptCap, Null

\* claim() makes a row a running one, owned and freshly locked by the claimer, and
\* counts at most one attempt.
LEMMA ClaimedRow ==
  ASSUME NEW r \in Row, NEW w \in Workers
  PROVE  /\ ClaimedBy(w, r) \in Row
         /\ ClaimedBy(w, r).status = "running"
         /\ ClaimedBy(w, r).owner = w
         /\ ClaimedBy(w, r).lockAge = 0
         /\ ClaimedBy(w, r).attempts >= r.attempts
         /\ ClaimedBy(w, r).attempts <= r.attempts + 1
  <1>1. (IF r.attempts < AttemptCap THEN r.attempts + 1 ELSE r.attempts) \in 0..AttemptCap
    BY Bounds DEF Row
  <1>2. ClaimedBy(w, r) \in Row
    BY <1>1, Bounds DEF ClaimedBy, Row
  <1>3. /\ ClaimedBy(w, r).attempts >= r.attempts
        /\ ClaimedBy(w, r).attempts <= r.attempts + 1
    BY Bounds DEF ClaimedBy, Row
  <1>4. /\ ClaimedBy(w, r).status = "running"
        /\ ClaimedBy(w, r).owner = w
        /\ ClaimedBy(w, r).lockAge = 0
    BY DEF ClaimedBy, Row
  <1>5. QED
    BY <1>2, <1>3, <1>4

\* succeed() unlocks the row and leaves its attempts alone.
LEMMA SucceededRow ==
  ASSUME NEW r \in Row
  PROVE  /\ Succeeded(r) \in Row
         /\ Succeeded(r).status = "succeeded"
         /\ Succeeded(r).attempts = r.attempts
         /\ Succeeded(r).lockAge = Null
  BY Bounds DEF Succeeded, Row

\* The backoff of fail() stays within its bounds for every number of attempts.
LEMMA RetryDelayBounded == \A a : RetryDelay(a) \in -Horizon..MaxDelay
  BY QueueConstants DEF RetryDelay

\* fail() unlocks the row, leaves its attempts alone, and decides by the attempts it
\* read whether the row is dead or queued again.
LEMMA FailedRow ==
  ASSUME NEW r \in Row, NEW a \in 0..AttemptCap
  PROVE  /\ FailedAfter(a, r) \in Row
         /\ FailedAfter(a, r).status = (IF a >= MaxAttempts THEN "dead" ELSE "queued")
         /\ FailedAfter(a, r).attempts = r.attempts
         /\ FailedAfter(a, r).lockAge = Null
  <1>1. CASE a >= MaxAttempts
    BY <1>1, Bounds DEF FailedAfter, Row
  <1>2. CASE ~(a >= MaxAttempts)
    BY <1>2, RetryDelayBounded, Bounds DEF FailedAfter, Row
  <1>3. QED
    BY <1>1, <1>2

\* Time changes nothing of a row but its ages, and a lock within its lease ages by one.
LEMMA AgedRow ==
  ASSUME NEW r \in Row
  PROVE  /\ Aged(r) \in Row
         /\ Aged(r).status = r.status
         /\ Aged(r).owner = r.owner
         /\ Aged(r).attempts = r.attempts
         /\ Aged(r).lockAge = Null <=> r.lockAge = Null
         /\ r.lockAge \in 0..Lease => Aged(r).lockAge = r.lockAge + 1
  <1>1. (IF Unfinished(r) /\ r.wait > -Horizon THEN r.wait - 1 ELSE r.wait)
          \in -Horizon..MaxDelay
    BY QueueConstants DEF Row
  <1>2. Later(r.lockAge, Lease + 1) \in Null..(Lease + 1)
    BY QueueConstants DEF Row, Later, Null
  <1>3. Later(r.doneAge, Retention + 1) \in Null..(Retention + 1)
    BY QueueConstants DEF Row, Later, Null
  <1>4. Aged(r) \in Row
    BY <1>1, <1>2, <1>3 DEF Aged, Row
  <1>5. /\ Aged(r).lockAge = Later(r.lockAge, Lease + 1)
        /\ Aged(r).status = r.status
        /\ Aged(r).owner = r.owner
        /\ Aged(r).attempts = r.attempts
    BY DEF Aged, Row
  <1>6. r.lockAge \in Null..(Lease + 1)
    BY DEF Row
  <1>7. /\ Aged(r).lockAge = Null <=> r.lockAge = Null
        /\ r.lockAge \in 0..Lease => Aged(r).lockAge = r.lockAge + 1
    BY <1>5, <1>6, QueueConstants DEF Later, Null
  <1>8. QED
    BY <1>4, <1>5, <1>7

\* A key without a row, and a key whose row was purged, have rows of the right type.
LEMMA EmptyRow ==
  /\ NoRow \in Row
  /\ [NoRow EXCEPT !.status = "purged"] \in Row
  /\ [NoRow EXCEPT !.status = "purged"].status = "purged"
  BY Bounds DEF NoRow, Row
-----------------------------------------------------------------------------
(* Type correctness. *)

Places == {"polling", "handling", "succeeding", "marking",
           "failing", "requeueing", "crashed", "exited"}

(* The part of TypeOK about the workers. *)
WorkersOK ==
  /\ pc \in [Workers -> Places]
  /\ job \in [Workers -> Jobs \cup {NoOne}]
  /\ \A w \in Workers : Busy(w) => job[w] \in Jobs
  /\ limit \in HoldLimits
  /\ ran \in [Workers -> 0..limit]
  /\ seen \in [Workers -> 0..AttemptCap]

\* Type correctness is that of the table, of the workers and of the fault counter.
LEMMA TypeParts ==
  TypeOK <=> row \in [Jobs -> Row] /\ WorkersOK /\ faults \in 0..MaxFaults
  BY DEF TypeOK, WorkersOK, Places

\* The time limit of a behaviour is a natural number.
LEMMA LimitIsNatural == limit \in HoldLimits => limit \in Nat /\ 0 \in 0..limit
  BY QueueConstants

\* A worker that leaves its job keeps the workers' types.
LEMMA LeaveJobOK ==
  ASSUME WorkersOK, NEW w \in Workers, NEW place \in {"polling", "crashed", "exited"},
         LeaveJob(w, place), limit' = limit
  PROVE  WorkersOK'
  <1>1. 0 \in 0..limit /\ 0 \in 0..AttemptCap
    BY LimitIsNatural, Bounds DEF WorkersOK
  <1>2. \A v \in Workers : Busy(v)' => v # w /\ Busy(v) /\ job'[v] = job[v]
    BY DEF WorkersOK, LeaveJob, GoTo, Busy
  <1>3. QED
    BY <1>1, <1>2 DEF WorkersOK, LeaveJob, GoTo, Places

\* A busy worker that goes on to its next step keeps the workers' types.
LEMMA GoToOK ==
  ASSUME WorkersOK, NEW w \in Workers, Busy(w), NEW place \in Places,
         GoTo(w, place), UNCHANGED <<job, ran, seen, limit>>
  PROVE  WorkersOK'
  BY DEF WorkersOK, GoTo, Busy

\* The four steps of succeed() and fail() keep the types of the rows and workers.
LEMMA SettleJobOK ==
  ASSUME WorkersOK, NEW w \in Workers, row \in [Jobs -> Row],
         SucceedRead(w) \/ SucceedWrite(w) \/ FailRead(w) \/ FailWrite(w)
  PROVE  WorkersOK' /\ row' \in [Jobs -> Row]
  <1>1. CASE SucceedRead(w)
    <2>1. Busy(w) BY <1>1 DEF SucceedRead, Busy
    <2>2. row' \in [Jobs -> Row] /\ limit' = limit BY <1>1 DEF SucceedRead
    <2>3. WorkersOK'
      BY <1>1, <2>1, <2>2, GoToOK, LeaveJobOK DEF SucceedRead, Places
    <2>4. QED BY <2>2, <2>3
  <1>2. CASE SucceedWrite(w)
    <2>1. Busy(w) BY <1>2 DEF SucceedWrite, Busy
    <2>2. job[w] \in Jobs BY <2>1 DEF WorkersOK
    <2>3. Succeeded(row[job[w]]) \in Row BY <2>2, SucceededRow
    <2>4. row' \in [Jobs -> Row] /\ limit' = limit
      BY <1>2, <2>2, <2>3 DEF SucceedWrite
    <2>5. WorkersOK'
      BY <1>2, <2>1, <2>4, GoToOK, LeaveJobOK DEF SucceedWrite, Places
    <2>6. QED BY <2>4, <2>5
  <1>3. CASE FailRead(w)
    <2>1. Busy(w) BY <1>3 DEF FailRead, Busy
    <2>2. job[w] \in Jobs BY <2>1 DEF WorkersOK
    <2>3. row' \in [Jobs -> Row] /\ limit' = limit BY <1>3 DEF FailRead
    <2>4. CASE LeaveJob(w, "polling") \/ LeaveJob(w, "exited")
      BY <2>3, <2>4, LeaveJobOK
    <2>5. CASE /\ GoTo(w, "requeueing")
               /\ seen' = [seen EXCEPT ![w] = row[job[w]].attempts]
               /\ UNCHANGED <<job, ran>>
      <3>1. row[job[w]].attempts \in 0..AttemptCap BY <2>2 DEF Row
      <3>2. QED BY <2>1, <2>3, <2>5, <3>1 DEF WorkersOK, GoTo, Busy, Places
    <2>6. QED BY <1>3, <2>3, <2>4, <2>5 DEF FailRead
  <1>4. CASE FailWrite(w)
    <2>1. Busy(w) BY <1>4 DEF FailWrite, Busy
    <2>2. job[w] \in Jobs /\ seen[w] \in 0..AttemptCap BY <2>1 DEF WorkersOK
    <2>3. FailedAfter(seen[w], row[job[w]]) \in Row BY <2>2, FailedRow
    <2>4. row' \in [Jobs -> Row] /\ limit' = limit
      BY <1>4, <2>2, <2>3 DEF FailWrite
    <2>5. WorkersOK'
      BY <1>4, <2>4, LeaveJobOK DEF FailWrite
    <2>6. QED BY <2>4, <2>5
  <1>5. QED
    BY <1>1, <1>2, <1>3, <1>4

\* The initial states have the right types.
LEMMA InitTypeOK == Init => TypeOK
  BY EmptyRow, Bounds, QueueConstants DEF Init, TypeOK, Busy

\* Every step keeps the types.
LEMMA NextTypeOK == TypeOK /\ [Next]_vars => TypeOK'
  <1> SUFFICES ASSUME TypeOK, [Next]_vars PROVE TypeOK'
    OBVIOUS
  <1>p. row \in [Jobs -> Row] /\ WorkersOK /\ faults \in 0..MaxFaults
    BY TypeParts
  <1>1. ASSUME NEW j \in Jobs, Enqueue(j) PROVE TypeOK'
    <2>1. [row[j] EXCEPT !.status = "queued"] \in Row
      BY <1>p DEF Row
    <2>2. row' \in [Jobs -> Row]
      BY <1>1, <1>p, <2>1 DEF Enqueue
    <2>3. QED
      BY <1>1, <2>2 DEF Enqueue, TypeOK, Busy
  <1>2. ASSUME NEW w \in Workers, Claim(w) PROVE TypeOK'
    <2>1. PICK j \in Jobs : /\ row' = [row EXCEPT ![j] = ClaimedBy(w, @)]
                            /\ job' = [job EXCEPT ![w] = j]
      BY <1>2 DEF Claim
    <2>2. ClaimedBy(w, row[j]) \in Row
      BY <1>p, ClaimedRow
    <2>3. row' \in [Jobs -> Row]
      BY <1>p, <2>1, <2>2
    <2>4. 0 \in 0..limit
      BY <1>p, LimitIsNatural DEF WorkersOK
    <2>5. QED
      BY <1>2, <2>1, <2>3, <2>4 DEF Claim, GoTo, TypeOK, Busy
  <1>3. ASSUME NEW w \in Workers, HandlerEnds(w) PROVE TypeOK'
    BY <1>3 DEF HandlerEnds, GoTo, TypeOK, Busy
  <1>4. ASSUME NEW w \in Workers,
               SucceedRead(w) \/ SucceedWrite(w) \/ FailRead(w) \/ FailWrite(w)
        PROVE  TypeOK'
    <2>1. WorkersOK' /\ row' \in [Jobs -> Row]
      BY <1>p, <1>4, SettleJobOK
    <2>2. faults' = faults
      BY <1>4 DEF SucceedRead, SucceedWrite, FailRead, FailWrite
    <2>3. QED
      BY <1>p, <2>1, <2>2 DEF TypeOK, WorkersOK, Places
  <1>5. ASSUME NEW w \in Workers, DatabaseError(w) PROVE TypeOK'
    <2>1. /\ faults' \in 0..MaxFaults /\ row' = row /\ limit' = limit
      BY <1>5, <1>p, QueueConstants DEF DatabaseError
    <2>2. WorkersOK'
      BY <1>5, <1>p, <2>1, GoToOK, LeaveJobOK DEF DatabaseError, Places, Busy
    <2>3. QED
      BY <1>p, <2>1, <2>2 DEF TypeOK, WorkersOK, Places
  <1>6. ASSUME NEW w \in Workers, Crash(w) PROVE TypeOK'
    <2>1. /\ faults' \in 0..MaxFaults /\ row' = row /\ limit' = limit
      BY <1>6, <1>p, QueueConstants DEF Crash
    <2>2. WorkersOK'
      BY <1>6, <1>p, <2>1, LeaveJobOK DEF Crash
    <2>3. QED
      BY <1>p, <2>1, <2>2 DEF TypeOK, WorkersOK, Places
  <1>7. ASSUME NEW w \in Workers, Restart(w) PROVE TypeOK'
    BY <1>7 DEF Restart, GoTo, TypeOK, Busy
  <1>8. CASE Purge
    <2>1. row' \in [Jobs -> Row]
      BY <1>8, <1>p, EmptyRow DEF Purge
    <2>2. QED
      BY <1>8, <2>1 DEF Purge, TypeOK, Busy
  <1>9. CASE Tick
    <2>1. row' \in [Jobs -> Row]
      BY <1>9, <1>p, AgedRow DEF Tick
    <2>2. limit \in Nat
      BY <1>p, LimitIsNatural DEF WorkersOK
    <2>3. ran' \in [Workers -> 0..limit]
      BY <1>9, <1>p, <2>2 DEF Tick, WorkersOK
    <2>4. QED
      BY <1>9, <2>1, <2>3 DEF Tick, TypeOK, Busy
  <1>10. CASE UNCHANGED vars
    BY <1>10 DEF vars, TypeOK, Busy
  <1>11. QED
    BY <1>1, <1>2, <1>3, <1>4, <1>5, <1>6, <1>7, <1>8, <1>9, <1>10 DEF Next, Work

(* Every variable keeps its type, whatever the workload and the faults. *)
THEOREM TypeCorrect == Spec => []TypeOK
  BY InitTypeOK, NextTypeOK, PTL DEF Spec

-----------------------------------------------------------------------------
(* The inductive invariant, action by action. *)

\* The inductive invariant holds of an empty queue.
LEMMA InitIInv == Init => IInv
  BY InitTypeOK, QueueConstants
  DEF Init, IInv, NewRows, Unheld, Reclaimable, HoldersHold, SeenIsOld, NoEarlyDeath, RunsPaidFor,
      RunToSpare, NoRow, Busy, Unfinished

\* enqueue() keeps the inductive invariant: a new row has no lock and no holder.
LEMMA EnqueueIInv ==
  ASSUME IInv, NEW j \in Jobs, Enqueue(j), TypeOK' PROVE IInv'
  <1>1. CASE row' = row
    BY <1>1 DEF Enqueue, IInv, NewRows, Reclaimable, HoldersHold, Holds, SeenIsOld, NoEarlyDeath,
                RunsPaidFor, RunToSpare, Unheld, Timely, Busy
  <1>2. CASE row[j].status = "absent" /\ row' = [row EXCEPT ![j].status = "queued"]
    <2>1. row \in [Jobs -> Row] /\ \A v \in Workers : Busy(v) => job[v] \in Jobs
      BY DEF IInv, TypeOK
    <2>2. /\ row'[j].status = "queued"
          /\ row'[j].lockAge = row[j].lockAge /\ row'[j].attempts = row[j].attempts
          /\ \A k \in Jobs \ {j} : row'[k] = row[k]
      BY <1>2, <2>1 DEF Row
    <2>3. UNCHANGED <<pc, job, ran, seen, faults, limit>>
      BY DEF Enqueue
    <2>4. row[j].lockAge = Null /\ row[j].attempts = 0
      BY <1>2 DEF IInv, NewRows
    <2>5. \A v \in Workers : Busy(v)' <=> Busy(v)
      BY <2>3 DEF Busy
    <2>6. Reclaimable' /\ NoEarlyDeath' /\ NewRows'
      BY <2>2, <2>3, <2>4, <2>5 DEF Unheld, IInv, Reclaimable, NoEarlyDeath, NewRows
    <2>7. HoldersHold'
      BY <1>2, <2>1, <2>2, <2>3, <2>5 DEF IInv, HoldersHold, Holds, Timely
    <2>8. SeenIsOld'
      <3> SUFFICES ASSUME NEW v \in Workers, pc[v] = "requeueing", InTable(row'[job[v]])
                   PROVE  /\ seen[v] <= row'[job[v]].attempts
                          /\ Timely => seen[v] = row'[job[v]].attempts
        BY <2>3 DEF SeenIsOld, Timely
      <3>1. job[v] \in Jobs
        BY <2>1 DEF Busy
      <3>2. job[v] # j
        BY <1>2, <2>1 DEF IInv, NewRows, Unheld, Busy
      <3>3. QED
        BY <2>2, <3>1, <3>2 DEF IInv, SeenIsOld
    <2>9. RunsPaidFor' /\ RunToSpare'
      <3>1. faults \in Nat
        BY DEF IInv, TypeOK
      <3>2. RunsPaidFor'
        BY <2>2, <2>3, <3>1 DEF IInv, RunsPaidFor, Timely
      <3>3. RunToSpare'
        BY <2>2, <2>3, <2>4, <2>5, <3>1, QueueConstants
        DEF IInv, RunToSpare, Timely, Unheld
      <3>4. QED BY <3>2, <3>3
    <2>10. QED
      BY <2>6, <2>7, <2>8, <2>9 DEF IInv
  <1>3. QED
    BY <1>1, <1>2 DEF Enqueue

\* claim() keeps the inductive invariant: within the lease only a row that nobody
\* holds is claimed, and it has a run to spare.
LEMMA ClaimIInv ==
  ASSUME IInv, NEW w \in Workers, Claim(w), TypeOK' PROVE IInv'
  <1>1. PICK j \in Jobs : /\ Claimable(row[j])
                          /\ row' = [row EXCEPT ![j] = ClaimedBy(w, @)]
                          /\ job' = [job EXCEPT ![w] = j]
    BY DEF Claim
  <1>2. /\ pc[w] = "polling" /\ pc' = [pc EXCEPT ![w] = "handling"]
        /\ ran' = [ran EXCEPT ![w] = 0]
        /\ UNCHANGED <<seen, faults, limit>>
    BY DEF Claim, GoTo
  <1>3. /\ row \in [Jobs -> Row] /\ pc \in [Workers -> Places]
        /\ job \in [Workers -> Jobs \cup {NoOne}] /\ ran \in [Workers -> 0..limit]
        /\ limit \in Nat /\ faults \in Nat /\ seen \in [Workers -> 0..AttemptCap]
    BY LimitIsNatural DEF IInv, TypeOK, Places
  <1>4. \A v \in Workers : Busy(v) => job[v] \in Jobs
    BY DEF IInv, TypeOK
  <1>5. /\ row'[j] = ClaimedBy(w, row[j]) /\ row'[j] \in Row
        /\ row'[j].status = "running" /\ row'[j].owner = w /\ row'[j].lockAge = 0
        /\ row'[j].attempts >= row[j].attempts
        /\ row'[j].attempts <= row[j].attempts + 1
        /\ \A k \in Jobs \ {j} : row'[k] = row[k]
    BY <1>1, <1>3, ClaimedRow
  <1>6. \A v \in Workers \ {w} : /\ Busy(v)' <=> Busy(v)
                                 /\ job'[v] = job[v] /\ ran'[v] = ran[v] /\ pc'[v] = pc[v]
    BY <1>1, <1>2, <1>3 DEF Busy
  <1>7. /\ Busy(w)' /\ ~Busy(w) /\ pc'[w] = "handling"
        /\ job'[w] = j /\ ran'[w] = 0
    BY <1>1, <1>2, <1>3 DEF Busy
  <1>8. Timely => Unheld(j)
    BY <1>1, <1>3, <1>4, QueueConstants
    DEF IInv, HoldersHold, Holds, Unheld, Timely, Claimable
  <1>9. Reclaimable'
    BY <1>5, Bounds, QueueConstants DEF IInv, Reclaimable
  <1>10. HoldersHold'
    BY <1>2, <1>4, <1>5, <1>6, <1>7, <1>8 DEF IInv, HoldersHold, Holds, Unheld, Timely
  <1>11. SeenIsOld'
    <2> SUFFICES ASSUME NEW v \in Workers, pc'[v] = "requeueing", InTable(row'[job'[v]])
                 PROVE  /\ seen'[v] <= row'[job'[v]].attempts
                        /\ Timely => seen'[v] = row'[job'[v]].attempts
      BY <1>2 DEF SeenIsOld, Timely
    <2>1. v # w /\ pc[v] = "requeueing" /\ job'[v] = job[v] /\ job[v] \in Jobs
      BY <1>4, <1>6, <1>7 DEF Busy
    <2>2. CASE job[v] = j
      <3>1. InTable(row[j]) BY <1>1 DEF Claimable, InTable
      <3>2. seen[v] <= row[j].attempts BY <2>1, <2>2, <3>1 DEF IInv, SeenIsOld
      <3>3. row[j].attempts \in Nat /\ row'[j].attempts \in Nat /\ seen[v] \in Nat
        BY <1>3, <1>5 DEF Row
      <3>4. ~Timely BY <1>8, <2>1, <2>2 DEF Unheld, Busy
      <3>5. QED BY <1>2, <1>5, <2>1, <2>2, <3>2, <3>3, <3>4
    <2>3. CASE job[v] # j
      BY <1>2, <1>5, <2>1, <2>3 DEF IInv, SeenIsOld
    <2>4. QED BY <2>2, <2>3
  <1>12. NoEarlyDeath' /\ NewRows'
    BY <1>1, <1>5, <1>6, <1>7 DEF IInv, NoEarlyDeath, NewRows, Unheld, Claimable
  <1>13. RunsPaidFor' /\ RunToSpare'
    <2>1. Timely => row[j].attempts <= MaxAttempts - 1 + faults
      BY <1>1, <1>8 DEF IInv, RunToSpare, Claimable, Unfinished
    <2>2. row[j].attempts \in Nat /\ row'[j].attempts \in Nat
      BY <1>3, <1>5 DEF Row
    <2>3. Timely => row'[j].attempts <= MaxAttempts + faults
      BY <1>3, <1>5, <2>1, <2>2, QueueConstants
    <2>4. RunsPaidFor'
      BY <1>2, <1>5, <2>3 DEF IInv, RunsPaidFor, Timely
    <2>5. \A k \in Jobs : Unheld(k)' => k # j /\ Unheld(k)
      <3> SUFFICES ASSUME NEW k \in Jobs, Unheld(k)' PROVE k # j /\ Unheld(k)
        OBVIOUS
      <3>1. k # j
        BY <1>7 DEF Unheld
      <3>2. \A v \in Workers : ~(Busy(v) /\ job[v] = k)
        BY <1>6, <1>7 DEF Unheld
      <3>3. QED
        BY <3>1, <3>2 DEF Unheld
    <2>6. RunToSpare'
      BY <1>2, <1>5, <2>5 DEF IInv, RunToSpare, Timely
    <2>7. QED BY <2>4, <2>6
  <1>14. QED
    BY <1>9, <1>10, <1>11, <1>12, <1>13 DEF IInv

(* A step that leaves the rows alone, and after which every worker is still     *)
(* busy with the job it was busy with or, at the price of a fault or because it  *)
(* does not hold the row, is not busy any more.                                  *)
LEMMA RowsUntouched ==
  ASSUME IInv, NEW w \in Workers, TypeOK',
         UNCHANGED <<row, limit>>,
         faults' = faults \/ faults' = faults + 1,
         \A v \in Workers \ {w} : /\ pc'[v] = pc[v] /\ job'[v] = job[v]
                                  /\ ran'[v] = ran[v] /\ seen'[v] = seen[v],
         Busy(w)' => Busy(w) /\ job'[w] = job[w] /\ ran'[w] = ran[w],
         pc'[w] = "requeueing" => seen'[w] = row[job[w]].attempts,
         Timely => Busy(w)' \/ ~Busy(w) \/ faults' = faults + 1
  PROVE  IInv'
  <1>1. /\ row \in [Jobs -> Row] /\ faults \in Nat
        /\ \A v \in Workers : Busy(v) => job[v] \in Jobs
    BY DEF IInv, TypeOK
  <1>2. \A v \in Workers : Busy(v)' => Busy(v) /\ job'[v] = job[v] /\ ran'[v] = ran[v]
    BY DEF Busy
  <1>3. \A j \in Jobs : Unheld(j) => Unheld(j)'
    BY <1>2 DEF Unheld
  <1>4. Reclaimable' /\ NoEarlyDeath' /\ NewRows'
    BY <1>3 DEF IInv, Reclaimable, NoEarlyDeath, NewRows
  <1>5. HoldersHold'
    BY <1>2 DEF IInv, HoldersHold, Holds, Timely
  <1>6. SeenIsOld'
    <2> SUFFICES ASSUME NEW v \in Workers, pc'[v] = "requeueing", InTable(row[job'[v]])
                 PROVE  /\ seen'[v] <= row[job'[v]].attempts
                        /\ Timely => seen'[v] = row[job'[v]].attempts
      BY DEF SeenIsOld, Timely
    <2>1. CASE v = w
      <3>1. job'[w] = job[w] /\ job[w] \in Jobs
        BY <1>1, <1>2, <2>1 DEF Busy
      <3>2. row[job[w]].attempts \in Nat
        BY <1>1, <3>1 DEF Row
      <3>3. QED BY <2>1, <3>1, <3>2
    <2>2. CASE v # w
      BY <2>2 DEF IInv, SeenIsOld
    <2>3. QED BY <2>1, <2>2
  <1>7. \A j \in Jobs : row[j].attempts \in Nat
    BY <1>1 DEF Row
  <1>8. RunsPaidFor'
    BY <1>1, <1>7, QueueConstants DEF IInv, RunsPaidFor, Timely
  <1>9. RunToSpare'
    <2> SUFFICES ASSUME Timely, NEW j \in Jobs, Unfinished(row[j]), Unheld(j)'
                 PROVE  row[j].attempts <= MaxAttempts - 1 + faults'
      BY DEF RunToSpare, Timely
    <2>1. CASE Unheld(j)
      BY <1>1, <1>7, <2>1, QueueConstants DEF IInv, RunToSpare
    <2>2. CASE ~Unheld(j)
      <3>1. PICK v \in Workers : Busy(v) /\ job[v] = j
        BY <2>2 DEF Unheld
      <3>2. v = w
        BY <3>1 DEF Unheld, Busy
      <3>3. ~Busy(w)'
        BY <1>2, <3>1, <3>2 DEF Unheld
      <3>4. faults' = faults + 1
        BY <3>1, <3>2, <3>3
      <3>5. QED
        BY <1>1, <1>7, <3>4, QueueConstants DEF IInv, RunsPaidFor
    <2>3. QED BY <2>1, <2>2
  <1>10. QED
    BY <1>4, <1>5, <1>6, <1>8, <1>9 DEF IInv

\* The reads of succeed() and fail(), and what interrupts a run, keep the inductive
\* invariant: a run that leaves its row running is paid for by a fault.
LEMMA ReadIInv ==
  ASSUME IInv, NEW w \in Workers, TypeOK',
         HandlerEnds(w) \/ SucceedRead(w) \/ FailRead(w) \/ DatabaseError(w)
           \/ Crash(w) \/ Restart(w)
  PROVE  IInv'
  <1>1. /\ pc \in [Workers -> Places] /\ job \in [Workers -> Jobs \cup {NoOne}]
        /\ ran \in [Workers -> 0..limit] /\ seen \in [Workers -> 0..AttemptCap]
        /\ Busy(w) => job[w] \in Jobs
    BY DEF IInv, TypeOK, Places
  <1>2. Timely /\ Busy(w) => Holds(w)
    BY DEF IInv, HoldersHold
  <1>3. CASE HandlerEnds(w)
    BY <1>1, <1>3, RowsUntouched DEF HandlerEnds, GoTo, Busy
  <1>4. CASE SucceedRead(w)
    <2>1. Timely => InTable(row[job[w]]) /\ row[job[w]].owner = w
      BY <1>2, <1>4 DEF SucceedRead, Busy, Holds, InTable
    <2>2. CASE LeaveJob(w, "polling") /\ ~Timely
      BY <1>1, <1>4, <2>2, RowsUntouched DEF SucceedRead, LeaveJob, GoTo, Busy
    <2>3. CASE /\ GoTo(w, "failing") \/ GoTo(w, "marking")
               /\ UNCHANGED <<job, ran, seen>>
      BY <1>1, <1>4, <2>3, RowsUntouched DEF SucceedRead, GoTo, Busy
    <2>4. QED BY <1>4, <2>1, <2>2, <2>3 DEF SucceedRead
  <1>5. CASE FailRead(w)
    <2>1. Timely => InTable(row[job[w]]) /\ row[job[w]].owner = w
      BY <1>2, <1>5 DEF FailRead, Busy, Holds, InTable
    <2>2. CASE (LeaveJob(w, "polling") \/ LeaveJob(w, "exited")) /\ ~Timely
      BY <1>1, <1>5, <2>2, RowsUntouched DEF FailRead, LeaveJob, GoTo, Busy
    <2>3. CASE /\ GoTo(w, "requeueing")
               /\ seen' = [seen EXCEPT ![w] = row[job[w]].attempts]
               /\ UNCHANGED <<job, ran>>
      BY <1>1, <1>5, <2>3, RowsUntouched DEF FailRead, GoTo, Busy
    <2>4. QED BY <1>5, <2>1, <2>2, <2>3 DEF FailRead
  <1>6. CASE DatabaseError(w)
    <2>1. CASE GoTo(w, "failing") /\ UNCHANGED <<job, ran, seen>>
      BY <1>1, <1>6, <2>1, RowsUntouched DEF DatabaseError, GoTo, Busy
    <2>2. CASE LeaveJob(w, "exited")
      BY <1>1, <1>6, <2>2, RowsUntouched DEF DatabaseError, LeaveJob, GoTo, Busy
    <2>3. QED BY <1>6, <2>1, <2>2 DEF DatabaseError
  <1>7. CASE Crash(w)
    BY <1>1, <1>7, RowsUntouched DEF Crash, LeaveJob, GoTo, Busy
  <1>8. CASE Restart(w)
    BY <1>1, <1>8, RowsUntouched DEF Restart, GoTo, Busy
  <1>9. QED
    BY <1>3, <1>4, <1>5, <1>6, <1>7, <1>8

(* The commit of succeed() or fail() by a worker: the row of its job gets a new   *)
(* status, keeps its attempts and loses its lock.                                *)
LEMMA SettleIInv ==
  ASSUME IInv, NEW w \in Workers, TypeOK', Busy(w), NEW r \in Row,
         row' = [row EXCEPT ![job[w]] = r], LeaveJob(w, "polling"),
         UNCHANGED <<faults, limit>>,
         InTable(row[job[w]]),
         r.status \in {"succeeded", "dead", "queued"},
         r.lockAge = Null,
         r.attempts = row[job[w]].attempts,
         r.status = "dead" => r.attempts >= MaxAttempts,
         r.status = "queued" /\ Timely => r.attempts <= MaxAttempts - 1
  PROVE  IInv'
  <1> DEFINE j == job[w]
  <1>1. /\ row \in [Jobs -> Row] /\ faults \in Nat /\ j \in Jobs
        /\ pc \in [Workers -> Places] /\ job \in [Workers -> Jobs \cup {NoOne}]
        /\ ran \in [Workers -> 0..limit] /\ seen \in [Workers -> 0..AttemptCap]
        /\ \A v \in Workers : Busy(v) => job[v] \in Jobs
    BY DEF IInv, TypeOK, Places
  <1>2. row'[j] = r /\ \A k \in Jobs \ {j} : row'[k] = row[k]
    BY <1>1
  <1>3. /\ ~Busy(w)'
        /\ \A v \in Workers \ {w} : /\ Busy(v)' <=> Busy(v)
                                    /\ pc'[v] = pc[v] /\ job'[v] = job[v]
                                    /\ ran'[v] = ran[v] /\ seen'[v] = seen[v]
    BY <1>1 DEF LeaveJob, GoTo, Busy
  <1>4. Timely => \A v \in Workers \ {w} : Busy(v) => job[v] # j
    BY DEF IInv, HoldersHold, Holds
  <1>5. Reclaimable' /\ NoEarlyDeath'
    BY <1>2 DEF IInv, Reclaimable, NoEarlyDeath
  <1>6. NewRows'
    BY <1>2, <1>3 DEF IInv, NewRows, Unheld
  <1>7. HoldersHold'
    BY <1>1, <1>2, <1>3, <1>4 DEF IInv, HoldersHold, Holds, Timely
  <1>8. SeenIsOld'
    <2> SUFFICES ASSUME NEW v \in Workers, pc'[v] = "requeueing", InTable(row'[job'[v]])
                 PROVE  /\ seen'[v] <= row'[job'[v]].attempts
                        /\ Timely => seen'[v] = row'[job'[v]].attempts
      BY DEF SeenIsOld, Timely
    <2>1. v # w /\ pc[v] = "requeueing" /\ job[v] \in Jobs
      BY <1>1, <1>3 DEF Busy
    <2>2. InTable(row[job[v]]) /\ row'[job[v]].attempts = row[job[v]].attempts
      BY <1>2, <1>3, <2>1
    <2>3. QED
      BY <1>3, <2>1, <2>2 DEF IInv, SeenIsOld
  <1>9. RunsPaidFor'
    BY <1>1, <1>2 DEF IInv, RunsPaidFor, Timely
  <1>10. RunToSpare'
    <2> SUFFICES ASSUME Timely, NEW k \in Jobs, Unfinished(row'[k]), Unheld(k)'
                 PROVE  row'[k].attempts <= MaxAttempts - 1 + faults
      BY DEF RunToSpare, Timely
    <2>1. CASE k = j
      <3>1. r.attempts <= MaxAttempts - 1 /\ r.attempts \in Nat
        BY <1>2, <2>1 DEF Unfinished, Row
      <3>2. QED BY <1>1, <1>2, <2>1, <3>1, QueueConstants
    <2>2. CASE k # j
      BY <1>2, <1>3, <2>2 DEF IInv, RunToSpare, Unheld
    <2>3. QED BY <2>1, <2>2
  <1>11. QED
    BY <1>5, <1>6, <1>7, <1>8, <1>9, <1>10 DEF IInv

\* The commits of succeed() and fail() keep the inductive invariant: they fall on a
\* row the worker still holds, with the attempts it read.
LEMMA WriteIInv ==
  ASSUME IInv, NEW w \in Workers, TypeOK', SucceedWrite(w) \/ FailWrite(w)
  PROVE  IInv'
  <1>1. /\ Busy(w) /\ job[w] \in Jobs /\ row[job[w]] \in Row
        /\ seen[w] \in 0..AttemptCap
        /\ pc \in [Workers -> Places] /\ job \in [Workers -> Jobs \cup {NoOne}]
        /\ ran \in [Workers -> 0..limit] /\ seen \in [Workers -> 0..AttemptCap]
    BY DEF SucceedWrite, FailWrite, Busy, IInv, TypeOK, Places
  <1>2. Timely => InTable(row[job[w]])
    BY <1>1 DEF IInv, HoldersHold, Holds, InTable
  <1>3. CASE SucceedWrite(w) /\ InTable(row[job[w]])
    BY <1>1, <1>3, SucceededRow, SettleIInv DEF SucceedWrite
  <1>4. CASE SucceedWrite(w) /\ ~InTable(row[job[w]])
    BY <1>1, <1>4, RowsUntouched DEF SucceedWrite, GoTo, Busy
  <1>5. CASE FailWrite(w) /\ InTable(row[job[w]])
    <2> DEFINE r == FailedAfter(seen[w], row[job[w]])
    <2>1. /\ r \in Row /\ r.lockAge = Null /\ r.attempts = row[job[w]].attempts
          /\ r.status = IF seen[w] >= MaxAttempts THEN "dead" ELSE "queued"
      BY <1>1, FailedRow
    <2>2. /\ seen[w] <= row[job[w]].attempts
          /\ Timely => seen[w] = row[job[w]].attempts
      BY <1>5 DEF IInv, SeenIsOld, FailWrite
    <2>3. row[job[w]].attempts \in Nat
      BY <1>1 DEF Row
    <2>4. r.status = "dead" => r.attempts >= MaxAttempts
      BY <1>1, <2>1, <2>2, <2>3, QueueConstants
    <2>5. r.status = "queued" /\ Timely => r.attempts <= MaxAttempts - 1
      BY <1>1, <2>1, <2>2, <2>3, QueueConstants
    <2>6. /\ row' = [row EXCEPT ![job[w]] = r] /\ LeaveJob(w, "polling")
          /\ UNCHANGED <<faults, limit>>
      BY <1>5 DEF FailWrite
    <2> HIDE DEF r
    <2>7. QED
      BY <1>1, <1>5, <2>1, <2>4, <2>5, <2>6, SettleIInv
  <1>6. CASE FailWrite(w) /\ ~InTable(row[job[w]])
    BY <1>1, <1>2, <1>6, RowsUntouched DEF FailWrite, LeaveJob, GoTo, Busy
  <1>7. QED
    BY <1>3, <1>4, <1>5, <1>6

\* The retention job keeps the inductive invariant: it only takes settled rows.
LEMMA PurgeIInv ==
  ASSUME IInv, Purge, TypeOK' PROVE IInv'
  <1>1. UNCHANGED <<pc, job, ran, seen, faults, limit>>
    BY DEF Purge
  <1>2. \A j \in Jobs : \/ row'[j] = row[j]
                        \/ Settled(row[j]) /\ row'[j].status = "purged"
    <2>1. \A j \in Jobs : row'[j] = IF Purgeable(row[j])
                                    THEN [NoRow EXCEPT !.status = "purged"] ELSE row[j]
      BY DEF Purge
    <2>2. QED
      BY <2>1, EmptyRow DEF Purgeable
  <1>3. /\ \A v \in Workers : Busy(v)' <=> Busy(v)
        /\ \A v \in Workers : Busy(v) => job[v] \in Jobs
    BY <1>1 DEF Busy, IInv, TypeOK
  <1>4. Reclaimable' /\ NoEarlyDeath' /\ NewRows'
    BY <1>1, <1>2, <1>3 DEF IInv, Reclaimable, NoEarlyDeath, NewRows, Unheld
  <1>5. HoldersHold'
    BY <1>1, <1>2, <1>3 DEF IInv, HoldersHold, Holds, Timely, Settled
  <1>6. SeenIsOld'
    BY <1>1, <1>2, <1>3 DEF IInv, SeenIsOld, InTable, Timely, Busy
  <1>7. RunsPaidFor'
    <2>1. \A j \in Jobs : row'[j].attempts = row[j].attempts \/ row'[j].attempts = 0
      BY DEF Purge, NoRow
    <2>2. faults \in Nat
      BY DEF IInv, TypeOK
    <2>3. QED
      BY <1>1, <2>1, <2>2, QueueConstants DEF IInv, RunsPaidFor, Timely
  <1>8. RunToSpare'
    BY <1>1, <1>2, <1>3 DEF IInv, RunToSpare, Timely, Unheld, Unfinished
  <1>9. QED
    BY <1>4, <1>5, <1>6, <1>7, <1>8 DEF IInv

\* The passing of time keeps the inductive invariant: a lock ages with the worker
\* that took it.
LEMMA TickIInv ==
  ASSUME IInv, Tick, TypeOK' PROVE IInv'
  <1>1. /\ row \in [Jobs -> Row] /\ ran \in [Workers -> 0..limit] /\ limit \in Nat
        /\ \A v \in Workers : Busy(v) => job[v] \in Jobs
    BY LimitIsNatural DEF IInv, TypeOK
  <1>2. /\ UNCHANGED <<pc, job, seen, faults, limit>>
        /\ \A v \in Workers : Busy(v) => ran[v] < limit /\ ran'[v] = ran[v] + 1
    BY <1>1 DEF Tick
  <1>3. \A j \in Jobs : /\ row'[j].status = row[j].status
                        /\ row'[j].owner = row[j].owner
                        /\ row'[j].attempts = row[j].attempts
                        /\ row'[j].lockAge = Null <=> row[j].lockAge = Null
                        /\ row[j].lockAge \in 0..Lease => row'[j].lockAge = row[j].lockAge + 1
    <2>1. \A j \in Jobs : row[j] \in Row /\ row'[j] = Aged(row[j])
      BY <1>1 DEF Tick
    <2>2. QED
      BY <2>1, AgedRow
  <1>4. \A v \in Workers : Busy(v)' <=> Busy(v)
    BY <1>2 DEF Busy
  <1>5. Reclaimable' /\ NoEarlyDeath' /\ NewRows'
    BY <1>2, <1>3, <1>4 DEF IInv, Reclaimable, NoEarlyDeath, NewRows, Unheld
  <1>6. HoldersHold'
    <2> SUFFICES ASSUME Timely, NEW v \in Workers, Busy(v) PROVE Holds(v)'
      BY <1>2, <1>4 DEF HoldersHold, Timely
    <2>1. Holds(v) /\ job[v] \in Jobs
      BY <1>1 DEF IInv, HoldersHold
    <2>2. ran[v] \in 0..Lease
      BY <1>1, <1>2, QueueConstants DEF Timely
    <2>3. QED
      BY <1>2, <1>3, <2>1, <2>2 DEF Holds
  <1>7. SeenIsOld'
    BY <1>1, <1>2, <1>3 DEF IInv, SeenIsOld, InTable, Timely, Busy
  <1>8. RunsPaidFor' /\ RunToSpare'
    BY <1>2, <1>3, <1>4 DEF IInv, RunsPaidFor, RunToSpare, Timely, Unheld, Unfinished
  <1>9. QED
    BY <1>5, <1>6, <1>7, <1>8 DEF IInv

-----------------------------------------------------------------------------
(* The invariants. *)

\* Every step keeps the inductive invariant.
LEMMA NextIInv == IInv /\ [Next]_vars => IInv'
  <1> SUFFICES ASSUME IInv, [Next]_vars PROVE IInv'
    OBVIOUS
  <1>1. TypeOK'
    BY NextTypeOK DEF IInv
  <1>2. CASE UNCHANGED vars
    BY <1>2 DEF vars, IInv, TypeOK, NewRows, Reclaimable, HoldersHold, Holds, SeenIsOld,
                NoEarlyDeath, RunsPaidFor, RunToSpare, Unheld, Timely, Busy
  <1>3. CASE Next
    BY <1>1, <1>3, EnqueueIInv, ClaimIInv, ReadIInv, WriteIInv, PurgeIInv, TickIInv
    DEF Next, Work
  <1>4. QED
    BY <1>2, <1>3

(* The inductive invariant holds in every behaviour of the queue. *)
THEOREM Invariance == Spec => []IInv
  BY InitIInv, NextIInv, PTL DEF Spec

(* While handlers keep within their leases no job is run by two workers at once, *)
(* however many workers, crashes and retries there are.                          *)
THEOREM LeaseExcludes == Spec => []ExclusiveRun
  <1>1. IInv => ExclusiveRun
    BY DEF IInv, HoldersHold, Holds, ExclusiveRun
  <1>2. QED
    BY <1>1, Invariance, PTL

(* No crash, error or late settlement leaves a row claim() can never select. *)
THEOREM NoRowIsStuck == Spec => []Reclaimable
  BY Invariance, PTL DEF IInv

(* Each run of a job beyond max_attempts is paid for by a fault. *)
THEOREM RunsAreBounded == Spec => []RunsPaidFor
  BY Invariance, PTL DEF IInv

(* No job is given up before max_attempts runs, even when leases overlap. *)
THEOREM DeathIsEarned == Spec => []NoEarlyDeath
  BY Invariance, PTL DEF IInv

-----------------------------------------------------------------------------
(* What a step may do to a row. *)

\* How the status of a row may change while handlers keep within their leases.
LEMMA StatusSteps ==
  ASSUME IInv, [Next]_vars, Timely, NEW j \in Jobs
  PROVE  \/ row'[j].status = row[j].status
         \/ row[j].status = "absent"
         \/ Unfinished(row[j]) /\ row'[j].status = "running"
         \/ Settled(row[j]) /\ row'[j].status = "purged"
         \/ \E w \in Workers : row[j].owner = w /\ job[w] = j /\ InTransaction(w)
                             /\ row[j].status = "running"
  <1>1. row \in [Jobs -> Row] /\ \A v \in Workers : Busy(v) => job[v] \in Jobs
    BY DEF IInv, TypeOK
  <1>2. ASSUME NEW k \in Jobs, Enqueue(k) PROVE row'[j] = row[j] \/ row[j].status = "absent"
    BY <1>1, <1>2 DEF Enqueue
  <1>3. ASSUME NEW w \in Workers, Claim(w)
        PROVE  row'[j] = row[j] \/ (Unfinished(row[j]) /\ row'[j].status = "running")
    <2>1. PICK k \in Jobs : /\ Claimable(row[k])
                            /\ row' = [row EXCEPT ![k] = ClaimedBy(w, @)]
      BY <1>3 DEF Claim
    <2>2. ClaimedBy(w, row[k]).status = "running"
      BY <1>1, ClaimedRow
    <2>3. QED
      BY <1>1, <2>1, <2>2 DEF Claimable, Unfinished
  <1>4. ASSUME NEW w \in Workers, SucceedWrite(w) \/ FailWrite(w)
        PROVE  \/ row'[j] = row[j]
               \/ row[j].owner = w /\ job[w] = j /\ InTransaction(w)
                    /\ row[j].status = "running"
    <2>1. Busy(w) /\ InTransaction(w)
      BY <1>4 DEF SucceedWrite, FailWrite, Busy, InTransaction
    <2>2. Holds(w) /\ job[w] \in Jobs
      BY <1>1, <2>1 DEF IInv, HoldersHold
    <2>3. QED
      BY <1>1, <1>4, <2>1, <2>2 DEF SucceedWrite, FailWrite, Holds
  <1>5. CASE Purge
    <2>1. row'[j] = IF Purgeable(row[j]) THEN [NoRow EXCEPT !.status = "purged"] ELSE row[j]
      BY <1>5 DEF Purge
    <2>2. QED
      BY <2>1, EmptyRow DEF Purgeable
  <1>6. CASE Tick
    <2>1. row'[j] = Aged(row[j])
      BY <1>6 DEF Tick
    <2>2. QED
      BY <1>1, <2>1, AgedRow
  <1>7. CASE row' = row
    BY <1>7
  <1>8. QED
    BY <1>2, <1>3, <1>4, <1>5, <1>6, <1>7
    DEF Next, Work, vars, HandlerEnds, SucceedRead, FailRead, DatabaseError, Crash, Restart

(* A finished job is not taken back to the queue nor settled otherwise. *)
THEOREM SettledForGood == Spec => SettledIsFinal
  <1>1. IInv /\ [Next]_vars =>
          [Timely => \A j \in Jobs : Settled(row[j]) =>
             row'[j].status \in {row[j].status, "purged"}]_vars
    BY StatusSteps DEF Settled, Unfinished
  <1>2. QED
    BY <1>1, Invariance, PTL DEF Spec, SettledIsFinal

(* Only the worker that holds the lease of a running job ends its run. *)
THEOREM HolderSettles == Spec => OnlyTheHolderSettles
  <1>1. IInv /\ [Next]_vars =>
          [Timely => \A j \in Jobs : row[j].status = "running" /\ row'[j].status # "running" =>
             \E w \in Workers : row[j].owner = w /\ job[w] = j /\ InTransaction(w)]_vars
    BY StatusSteps DEF Settled, Unfinished
  <1>2. QED
    BY <1>1, Invariance, PTL DEF Spec, OnlyTheHolderSettles

-----------------------------------------------------------------------------
(* The contract. *)

\* The runner a submitter sees is the one holder of the job, if there is one.
LEMMA RunnerChosen ==
  ASSUME NEW j \in Jobs
  PROVE  /\ HoldersOf(j) = {} => RunnerOf(j) = NoOne
         /\ \A w \in Workers : HoldersOf(j) = {w} => RunnerOf(j) = w
         /\ HoldersOf(j) # {} => RunnerOf(j) \in HoldersOf(j)
  BY DEF RunnerOf

\* The same in the next state; and the runner stays while the holders do.
LEMMA RunnerChosenNext ==
  ASSUME NEW j \in Jobs
  PROVE  /\ HoldersOf(j)' = {} => RunnerOf(j)' = NoOne
         /\ \A w \in Workers : HoldersOf(j)' = {w} => RunnerOf(j)' = w
         /\ HoldersOf(j)' = HoldersOf(j) => RunnerOf(j)' = RunnerOf(j)
  <1>1. RunnerOf(j)' = IF HoldersOf(j)' = {} THEN NoOne ELSE CHOOSE w \in HoldersOf(j)' : TRUE
    BY DEF RunnerOf
  <1>2. RunnerOf(j) = IF HoldersOf(j) = {} THEN NoOne ELSE CHOOSE w \in HoldersOf(j) : TRUE
    BY DEF RunnerOf
  <1>3. HoldersOf(j)' = {} => RunnerOf(j)' = NoOne
    BY <1>1
  <1>4. \A w \in Workers : HoldersOf(j)' = {w} => RunnerOf(j)' = w
    BY <1>1
  <1>5. HoldersOf(j)' = HoldersOf(j) => RunnerOf(j)' = RunnerOf(j)
    BY <1>1, <1>2
  <1>6. QED
    BY <1>3, <1>4, <1>5

(* With the lease respected a job has at most one holder. *)
LEMMA OneHolder ==
  ASSUME IInv, Timely, NEW w \in Workers, Busy(w)
  PROVE  job[w] \in Jobs /\ HoldersOf(job[w]) = {w} /\ RunnerOf(job[w]) = w
  <1>1. job[w] \in Jobs
    BY DEF IInv, TypeOK
  <1>2. HoldersOf(job[w]) = {w}
    BY DEF IInv, HoldersHold, Holds, HoldersOf
  <1>3. QED
    BY <1>1, <1>2, RunnerChosen

(* A worker that leaves its job stops running it, whatever becomes of the row. *)
LEMMA LeavingStops ==
  ASSUME IInv, Timely, NEW w \in Workers, Busy(w), NEW j \in Jobs, job[w] = j,
         NEW place \in {"polling", "crashed", "exited"}, LeaveJob(w, place),
         NEW r \in Row, PhaseOf(r) \in {"open", "succeeded", "dead"},
         row' = [row EXCEPT ![j] = r]
  PROVE  Contract!Next
  <1>1. /\ row \in [Jobs -> Row] /\ pc \in [Workers -> Places]
        /\ job \in [Workers -> Jobs \cup {NoOne}]
    BY DEF IInv, TypeOK, Places
  <1>2. HoldersOf(j) = {w} /\ RunnerOf(j) = w
    BY OneHolder
  <1>3. PhaseOf(row[j]) = "open"
    BY DEF IInv, HoldersHold, Holds, PhaseOf, Unfinished
  <1>4. ~Busy(w)' /\ \A v \in Workers \ {w} : (Busy(v)' <=> Busy(v)) /\ job'[v] = job[v]
    BY <1>1 DEF LeaveJob, GoTo, Busy
  <1>5. HoldersOf(j)' = {}
    BY <1>2, <1>4 DEF HoldersOf
  <1>6. \A k \in Jobs \ {j} : HoldersOf(k)' = HoldersOf(k)
    BY <1>4 DEF HoldersOf
  <1>7. RunnerOf(j)' = NoOne
    BY <1>5, RunnerChosenNext
  <1>8. \A k \in Jobs \ {j} : RunnerOf(k)' = RunnerOf(k)
    BY <1>6, RunnerChosenNext
  <1>9. [k \in Jobs |-> RunnerOf(k)]' =
          [[k \in Jobs |-> RunnerOf(k)] EXCEPT ![j] = NoOne]
    BY <1>7, <1>8
  <1>10. [k \in Jobs |-> PhaseOf(row[k])]' =
          [[k \in Jobs |-> PhaseOf(row[k])] EXCEPT ![j] = PhaseOf(r)]
    BY <1>1
  <1>11. Contract!Stop(w, j)
    BY <1>2, <1>3, <1>9, <1>10 DEF Contract!Stop
  <1>12. QED
    BY <1>11 DEF Contract!Next

(* A step after which every worker is busy with what it was busy with, and every   *)
(* row shows the same phase, is invisible to the submitter.                       *)
LEMMA Invisible ==
  ASSUME \A j \in Jobs : PhaseOf(row[j])' = PhaseOf(row[j]),
         \A j \in Jobs : HoldersOf(j)' = HoldersOf(j)
  PROVE  UNCHANGED Contract!vars
  <1>1. \A j \in Jobs : RunnerOf(j)' = RunnerOf(j)
    BY RunnerChosenNext
  <1>2. QED
    BY <1>1 DEF Contract!vars

\* To a submitter the commit of succeed() or fail() is the end of a run.
LEMMA SettlingStops ==
  ASSUME IInv, Timely, NEW w \in Workers, SucceedWrite(w) \/ FailWrite(w)
  PROVE  Contract!Next
  <1>1. Busy(w)
    BY DEF SucceedWrite, FailWrite, Busy
  <1>2. /\ job[w] \in Jobs /\ row[job[w]] \in Row /\ seen[w] \in 0..AttemptCap
        /\ InTable(row[job[w]])
    BY <1>1 DEF IInv, TypeOK, HoldersHold, Holds, InTable
  <1>3. CASE SucceedWrite(w)
    <2>1. /\ row' = [row EXCEPT ![job[w]] = Succeeded(row[job[w]])]
          /\ LeaveJob(w, "polling")
      BY <1>2, <1>3 DEF SucceedWrite
    <2>2. /\ Succeeded(row[job[w]]) \in Row
          /\ PhaseOf(Succeeded(row[job[w]])) = "succeeded"
      BY <1>2, SucceededRow DEF PhaseOf, Unfinished
    <2>3. QED
      BY <1>1, <1>2, <2>1, <2>2, LeavingStops
  <1>4. CASE FailWrite(w)
    <2>1. /\ row' = [row EXCEPT ![job[w]] = FailedAfter(seen[w], row[job[w]])]
          /\ LeaveJob(w, "polling")
      BY <1>2, <1>4 DEF FailWrite
    <2>2. /\ FailedAfter(seen[w], row[job[w]]) \in Row
          /\ PhaseOf(FailedAfter(seen[w], row[job[w]])) \in {"open", "dead"}
      BY <1>2, FailedRow DEF PhaseOf, Unfinished
    <2>3. QED
      BY <1>1, <1>2, <2>1, <2>2, LeavingStops
  <1>5. QED
    BY <1>3, <1>4

\* To a submitter a crash, or the exit of a worker, is the end of a run.
LEMMA InterruptionStops ==
  ASSUME IInv, Timely, NEW w \in Workers, Busy(w), row' = row,
         LeaveJob(w, "crashed") \/ LeaveJob(w, "exited")
  PROVE  Contract!Next
  <1>1. job[w] \in Jobs /\ row \in [Jobs -> Row] /\ row[job[w]].status = "running"
    BY DEF IInv, TypeOK, HoldersHold, Holds
  <1>2. row' = [row EXCEPT ![job[w]] = row[job[w]]] /\ row[job[w]] \in Row
    BY <1>1
  <1>3. PhaseOf(row[job[w]]) = "open"
    BY <1>1 DEF PhaseOf, Unfinished
  <1>4. PICK j \in Jobs : job[w] = j
    BY <1>1
  <1>5. PICK r \in Row : r = row[j] /\ row' = [row EXCEPT ![j] = r]
    BY <1>2, <1>4
  <1>6. PhaseOf(r) \in {"open", "succeeded", "dead"}
    BY <1>3, <1>4, <1>5
  <1>7. QED
    BY <1>4, <1>5, <1>6, LeavingStops

\* To a submitter a claim is the start of a run of a job that nobody runs.
LEMMA ClaimStarts ==
  ASSUME IInv, Timely, NEW w \in Workers, Claim(w)
  PROVE  Contract!Next
  <1>1. PICK j \in Jobs : /\ Claimable(row[j])
                          /\ row' = [row EXCEPT ![j] = ClaimedBy(w, @)]
                          /\ job' = [job EXCEPT ![w] = j]
    BY DEF Claim
  <1>2. /\ row \in [Jobs -> Row] /\ pc \in [Workers -> Places]
        /\ job \in [Workers -> Jobs \cup {NoOne}] /\ ran \in [Workers -> 0..limit]
        /\ limit \in Nat /\ \A v \in Workers : Busy(v) => Holds(v)
    BY LimitIsNatural DEF IInv, TypeOK, Places, HoldersHold
  <1>3. /\ ~Busy(w) /\ Busy(w)' /\ job'[w] = j
        /\ \A v \in Workers \ {w} : (Busy(v)' <=> Busy(v)) /\ job'[v] = job[v]
    BY <1>1, <1>2 DEF Claim, GoTo, Busy
  <1>4. HoldersOf(j) = {}
    BY <1>1, <1>2, QueueConstants DEF HoldersOf, Holds, Timely, Claimable
  <1>5. HoldersOf(j)' = {w}
    BY <1>3, <1>4 DEF HoldersOf
  <1>6. \A k \in Jobs \ {j} : HoldersOf(k)' = HoldersOf(k)
    BY <1>3 DEF HoldersOf
  <1>7. RunnerOf(j) = NoOne /\ RunnerOf(j)' = w
    BY <1>4, <1>5, RunnerChosen, RunnerChosenNext
  <1>8. \A k \in Jobs \ {j} : RunnerOf(k)' = RunnerOf(k)
    BY <1>6, RunnerChosenNext
  <1>9. \A k \in Jobs : RunnerOf(k) # w
    <2> SUFFICES ASSUME NEW k \in Jobs PROVE RunnerOf(k) # w
      OBVIOUS
    <2>1. w \notin HoldersOf(k)
      BY <1>3 DEF HoldersOf
    <2>2. RunnerOf(k) = NoOne \/ RunnerOf(k) \in HoldersOf(k)
      BY RunnerChosen
    <2>3. QED
      BY <2>1, <2>2, QueueConstants
  <1>10. PhaseOf(row[j]) = "open" /\ PhaseOf(ClaimedBy(w, row[j])) = "open"
    BY <1>1, <1>2, ClaimedRow DEF Claimable, PhaseOf, Unfinished
  <1>11. [k \in Jobs |-> RunnerOf(k)]' = [[k \in Jobs |-> RunnerOf(k)] EXCEPT ![j] = w]
    BY <1>7, <1>8
  <1>12. [k \in Jobs |-> PhaseOf(row[k])]' = [k \in Jobs |-> PhaseOf(row[k])]
    BY <1>1, <1>2, <1>10
  <1>13. Contract!Start(w, j)
    BY <1>7, <1>9, <1>10, <1>11, <1>12 DEF Contract!Start
  <1>14. QED
    BY <1>13 DEF Contract!Next

\* To a submitter enqueue() submits a new key, or does nothing.
LEMMA EnqueueSubmits ==
  ASSUME IInv, NEW j \in Jobs, Enqueue(j)
  PROVE  Contract!Next \/ UNCHANGED Contract!vars
  <1>1. row \in [Jobs -> Row] /\ UNCHANGED <<pc, job>>
    BY DEF IInv, TypeOK, Enqueue
  <1>2. \A k \in Jobs : HoldersOf(k)' = HoldersOf(k)
    BY <1>1 DEF HoldersOf, Busy
  <1>3. CASE row' = row
    BY <1>2, <1>3, Invisible
  <1>4. CASE row[j].status = "absent" /\ row' = [row EXCEPT ![j].status = "queued"]
    <2>1. PhaseOf(row[j]) = "absent" /\ PhaseOf(row'[j]) = "open"
      BY <1>1, <1>4 DEF PhaseOf, Unfinished, Row
    <2>2. [k \in Jobs |-> PhaseOf(row[k])]' =
            [[k \in Jobs |-> PhaseOf(row[k])] EXCEPT ![j] = "open"]
      BY <1>1, <1>4, <2>1
    <2>3. \A k \in Jobs : RunnerOf(k)' = RunnerOf(k)
      BY <1>2, RunnerChosenNext
    <2>4. Contract!Submit(j)
      BY <2>1, <2>2, <2>3 DEF Contract!Submit
    <2>5. QED
      BY <2>4 DEF Contract!Next
  <1>5. QED
    BY <1>3, <1>4 DEF Enqueue

\* To a submitter the retention job forgets settled jobs.
LEMMA PurgeForgets ==
  ASSUME IInv, Purge PROVE Contract!Next
  <1> DEFINE S == {j \in Jobs : Purgeable(row[j])}
  <1>1. \A j \in Jobs : row'[j] = IF j \in S THEN [NoRow EXCEPT !.status = "purged"] ELSE row[j]
    BY DEF Purge
  <1>2. \A j \in S : PhaseOf(row[j]) \in {"succeeded", "dead"}
    BY DEF Purgeable, Settled, PhaseOf, Unfinished
  <1>3. [j \in Jobs |-> PhaseOf(row[j])]' =
          [j \in Jobs |-> IF j \in S THEN "purged" ELSE [k \in Jobs |-> PhaseOf(row[k])][j]]
    BY <1>1, EmptyRow DEF PhaseOf, Unfinished
  <1>4. \A j \in Jobs : HoldersOf(j)' = HoldersOf(j)
    BY DEF Purge, HoldersOf, Busy
  <1>5. \A j \in Jobs : RunnerOf(j)' = RunnerOf(j)
    BY <1>4, RunnerChosenNext
  <1>6. Contract!Forget(S)
    BY <1>2, <1>3, <1>5 DEF Contract!Forget
  <1>7. QED
    BY <1>6 DEF Contract!Next

\* Every step is a step of the contract or invisible to the submitter.
LEMMA StepImplements ==
  ASSUME IInv, [Next]_vars, Timely
  PROVE  Contract!Next \/ UNCHANGED Contract!vars
  <1>1. ASSUME NEW w \in Workers, Work(w) \/ DatabaseError(w) \/ Crash(w)
        PROVE  Contract!Next \/ UNCHANGED Contract!vars
    <2>1. /\ pc \in [Workers -> Places] /\ job \in [Workers -> Jobs \cup {NoOne}]
          /\ Busy(w) => Holds(w)
      BY DEF IInv, TypeOK, Places, HoldersHold
    <2>2. ASSUME row' = row, UNCHANGED job, NEW place \in Places, GoTo(w, place),
                 place # "handling",
                 (place \in {"succeeding", "marking", "failing", "requeueing"}) <=> Busy(w)
          PROVE  UNCHANGED Contract!vars
      <3>1. \A v \in Workers : Busy(v)' <=> Busy(v)
        <4>1. pc'[w] = place /\ \A v \in Workers \ {w} : pc'[v] = pc[v]
          BY <2>1, <2>2 DEF GoTo
        <4>2. (Busy(w))' <=> place \in {"succeeding", "marking", "failing", "requeueing"}
          BY <2>2, <4>1 DEF Busy
        <4>3. \A v \in Workers \ {w} : Busy(v)' <=> Busy(v)
          BY <4>1 DEF Busy
        <4>4. QED
          BY <2>2, <4>2, <4>3
      <3>2. \A j \in Jobs : HoldersOf(j)' = HoldersOf(j)
        BY <2>2, <3>1 DEF HoldersOf
      <3>3. QED
        BY <2>2, <3>2, Invisible
    <2>3. CASE HandlerEnds(w) \/ Restart(w)
      BY <2>2, <2>3 DEF HandlerEnds, Restart, Busy, Places
    <2>4. CASE SucceedRead(w) \/ FailRead(w)
      <3>1. Busy(w) /\ row[job[w]].owner = w /\ InTable(row[job[w]])
        BY <2>1, <2>4 DEF SucceedRead, FailRead, Busy, Holds, InTable
      <3>2. row' = row /\ UNCHANGED job /\ (GoTo(w, "marking") \/ GoTo(w, "requeueing"))
        BY <2>4, <3>1 DEF SucceedRead, FailRead
      <3>3. QED
        BY <2>2, <3>1, <3>2 DEF Places
    <2>5. CASE DatabaseError(w)
      <3>1. Busy(w) /\ row' = row
        BY <2>5 DEF DatabaseError, Busy
      <3>2. \/ GoTo(w, "failing") /\ UNCHANGED job
            \/ LeaveJob(w, "exited")
        BY <2>5 DEF DatabaseError
      <3>3. QED
        BY <2>2, <3>1, <3>2, InterruptionStops DEF Places
    <2>6. CASE Crash(w)
      <3>1. row' = row /\ LeaveJob(w, "crashed")
        BY <2>6 DEF Crash
      <3>2. CASE Busy(w)
        BY <3>1, <3>2, InterruptionStops
      <3>3. CASE ~Busy(w)
        <4>1. \A v \in Workers : /\ Busy(v)' <=> Busy(v)
                                 /\ Busy(v) => job'[v] = job[v]
          BY <2>1, <3>1, <3>3 DEF LeaveJob, GoTo, Busy
        <4>2. \A j \in Jobs : HoldersOf(j)' = HoldersOf(j)
          BY <4>1 DEF HoldersOf
        <4>3. QED
          BY <3>1, <4>2, Invisible
      <3>4. QED BY <3>2, <3>3
    <2>7. QED
      BY <1>1, <2>3, <2>4, <2>5, <2>6, ClaimStarts, SettlingStops DEF Work
  <1>2. CASE Tick
    <2>1. row \in [Jobs -> Row] /\ \A j \in Jobs : row'[j] = Aged(row[j])
      BY <1>2 DEF Tick, IInv, TypeOK
    <2>2. \A j \in Jobs : PhaseOf(row[j])' = PhaseOf(row[j])
      BY <2>1, AgedRow DEF PhaseOf, Unfinished
    <2>3. \A j \in Jobs : HoldersOf(j)' = HoldersOf(j)
      BY <1>2 DEF Tick, HoldersOf, Busy
    <2>4. QED
      BY <2>2, <2>3, Invisible
  <1>3. CASE UNCHANGED vars
    <2>1. \A j \in Jobs : HoldersOf(j)' = HoldersOf(j)
      BY <1>3 DEF vars, HoldersOf, Busy
    <2>2. QED
      BY <1>3, <2>1, Invisible DEF vars
  <1>4. QED
    BY <1>1, <1>2, <1>3, EnqueueSubmits, PurgeForgets DEF Next

(* While handlers keep within their leases the queue implements JobContract.      *)
THEOREM KeepsContract == Spec => ImplementsContract
  <1>1. Init => Contract!Init
    <2> SUFFICES ASSUME Init PROVE Contract!Init
      OBVIOUS
    <2>1. \A j \in Jobs : PhaseOf(row[j]) = "absent"
      BY DEF Init, NoRow, PhaseOf, Unfinished
    <2>2. \A j \in Jobs : HoldersOf(j) = {}
      BY DEF Init, HoldersOf, Busy
    <2>3. \A j \in Jobs : RunnerOf(j) = NoOne
      BY <2>2, RunnerChosen
    <2>4. QED
      BY <2>1, <2>3 DEF Contract!Init
  <1>2. IInv /\ [Next]_vars => [Timely => [Contract!Next]_(Contract!vars)]_vars
    BY StepImplements
  <1>3. QED
    BY <1>1, <1>2, Invariance, PTL DEF Spec, ImplementsContract
=============================================================================
