----------------------------- MODULE JobContract -----------------------------
(***************************************************************************)
(* What the job queue promises to the code that enqueues work, with no      *)
(* leases, clocks, attempts or transactions in it: a submitted job is run   *)
(* by at most one worker at a time, possibly several times, until it is     *)
(* settled once and for all; a settled job is forgotten some day.           *)
(* BackgroundQueue implements it as long as no handler outlasts its lease.  *)
(***************************************************************************)
CONSTANTS Jobs, Workers, NoOne

VARIABLES
  phase,   \* [Jobs -> Phase]
  runner   \* the worker that runs each job now, or NoOne

vars == <<phase, runner>>

Phase == {"absent", "open", "succeeded", "dead", "purged"}

Init ==
  /\ phase = [j \in Jobs |-> "absent"]
  /\ runner = [j \in Jobs |-> NoOne]

\* The job enters the queue.
Submit(j) ==
  /\ phase[j] = "absent"
  /\ phase' = [phase EXCEPT ![j] = "open"]
  /\ UNCHANGED runner

\* A worker with no job takes an open one that nobody runs.
Start(w, j) ==
  /\ phase[j] = "open"
  /\ runner[j] = NoOne
  /\ \A k \in Jobs : runner[k] # w
  /\ runner' = [runner EXCEPT ![j] = w]
  /\ UNCHANGED phase

\* The worker that runs a job stops, and leaves it settled or open for another run.
Stop(w, j) ==
  /\ runner[j] = w
  /\ phase[j] = "open"
  /\ runner' = [runner EXCEPT ![j] = NoOne]
  /\ \E p \in {"open", "succeeded", "dead"} : phase' = [phase EXCEPT ![j] = p]

\* Settled jobs are dropped from the history.
Forget(S) ==
  /\ \A j \in S : phase[j] \in {"succeeded", "dead"}
  /\ phase' = [j \in Jobs |-> IF j \in S THEN "purged" ELSE phase[j]]
  /\ UNCHANGED runner

Next ==
  \/ \E j \in Jobs : Submit(j)
  \/ \E w \in Workers, j \in Jobs : Start(w, j) \/ Stop(w, j)
  \/ \E S \in SUBSET Jobs : Forget(S)

Spec == Init /\ [][Next]_vars
=============================================================================
