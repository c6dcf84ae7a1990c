---------------------------- MODULE SchedulerLease ----------------------------
(***************************************************************************)
(* One scheduler at a time (src/backend/api/scheduler/runtime.py and        *)
(* status.py): the platform starts the next instance before the old one has *)
(* stopped, and an advisory lock of the database keeps it waiting.  What    *)
(* operators see is one row that the instance at work registers in, renews  *)
(* with heartbeats and marks as stopped.                                    *)
(*                                                                         *)
(* The lock belongs to a database connection: it is free when its instance  *)
(* gives it back, some time after its instance has died, and when the       *)
(* connection is lost while the instance, which never looks, works on.      *)
(*                                                                         *)
(* An instance is one run of run_scheduler(), named by its instance_id.     *)
(***************************************************************************)
EXTENDS Integers, FiniteSets

CONSTANTS
  Instances,   \* runs of the scheduler process
  StaleAfter,  \* ticks without a heartbeat before the row counts as stale
  MaxBreaks,   \* bound: lock connections lost under a living instance
  MaxErrors    \* bound: database errors of register, heartbeat and stop

ASSUME LeaseConstants == StaleAfter \in Nat /\ MaxBreaks \in Nat /\ MaxErrors \in Nat

VARIABLES
  proc,        \* [Instances -> Stages]
  signalled,   \* instances that have had a signal to stop
  lock,        \* whose connection holds the advisory lock: {} or {i}
  broken,      \* instances whose lock connection was lost while they lived
  registered,  \* scheduler_runtimes.instance_id: {} or {i}
  stopped,     \* is there a stopped_at?
  age,         \* ticks since last_heartbeat_at
  errors       \* database errors so far

runtime == <<registered, stopped, age>>
leaseVars == <<proc, signalled, lock, broken, runtime, errors>>

-----------------------------------------------------------------------------

\* "locked": has the lock, the scheduler is built and paused; "ended": marked as stopped,
\* the lock not yet given back.
Stages == {"down", "waiting", "locked", "running", "pausing", "ended", "gone"}

Alive(i) == proc[i] \notin {"down", "gone"}
Working == {i \in Instances : proc[i] = "running"}   \* its jobs fire

\* The age that counts as stale, and is counted no further.
Old == StaleAfter + 1

LeaseInit ==
  /\ proc = [i \in Instances |-> "down"]
  /\ signalled = {} /\ lock = {} /\ broken = {}
  /\ registered = {} /\ stopped = FALSE /\ age = 0
  /\ errors = 0

Go(i, from, to) == proc[i] = from /\ proc' = [proc EXCEPT ![i] = to]

-----------------------------------------------------------------------------
(* An instance *)

StartUp(i) == Go(i, "down", "waiting") /\ UNCHANGED <<signalled, lock, broken, runtime, errors>>

Signal(i) ==
  /\ Alive(i) /\ signalled' = signalled \cup {i}
  /\ UNCHANGED <<proc, lock, broken, runtime, errors>>

NotSignalled(i) == i \notin signalled

\* Mutant: a lock that others share.
AcquireShared(i) ==
  /\ NotSignalled(i)
  /\ Go(i, "waiting", "locked")
  /\ lock' = lock \cup {i}
  /\ UNCHANGED <<signalled, broken, runtime, errors>>

\* scheduler_process_lock(), tried again every few seconds until a signal comes.
Acquire(i) ==
  /\ NotSignalled(i) /\ lock = {}
  /\ Go(i, "waiting", "locked")
  /\ lock' = {i}
  /\ UNCHANGED <<signalled, broken, runtime, errors>>
GiveUp(i) ==
  /\ ~NotSignalled(i) /\ Go(i, "waiting", "gone")
  /\ UNCHANGED <<signalled, lock, broken, runtime, errors>>

\* SchedulerRuntimeStore.start(), whose row replaces any other, and resume().
Register(i) ==
  /\ Go(i, "locked", "running")
  /\ registered' = {i} /\ stopped' = FALSE /\ age' = 0
  /\ UNCHANGED <<signalled, lock, broken, errors>>

\* Mutant: every instance renews the row, whoever it names.
BeatAny(i) ==
  /\ proc[i] = "running"
  /\ age' = 0
  /\ UNCHANGED <<proc, signalled, lock, broken, registered, stopped, errors>>

\* SchedulerRuntimeStore.heartbeat(): nothing happens to the row of another instance, and
\* the instance does not look at the answer.
Beat(i) ==
  /\ proc[i] = "running"
  /\ registered = {i} /\ age' = 0
  /\ UNCHANGED <<proc, signalled, lock, broken, registered, stopped, errors>>

\* The signal: pause(), and no workflow is under way, for none of them ever waits.
Pause(i) ==
  /\ ~NotSignalled(i) /\ Go(i, "running", "pausing")
  /\ UNCHANGED <<signalled, lock, broken, runtime, errors>>

\* Mutant: an instance that has lost its row waits for it.
StopOwn(i) ==
  /\ Go(i, "pausing", "ended")
  /\ registered = {i} /\ stopped' = TRUE /\ age' = 0
  /\ UNCHANGED <<signalled, lock, broken, registered, errors>>

\* SchedulerRuntimeStore.stop(), for the row of this instance only.
Stop(i) ==
  /\ Go(i, "pausing", "ended")
  /\ IF registered = {i} THEN stopped' = TRUE /\ age' = 0 ELSE UNCHANGED <<stopped, age>>
  /\ UNCHANGED <<signalled, lock, broken, registered, errors>>

\* pg_advisory_unlock(): frees nothing that is another's by now.
Release(i) ==
  /\ Go(i, "ended", "gone")
  /\ lock' = lock \ {i}
  /\ UNCHANGED <<signalled, broken, runtime, errors>>

\* The row cannot be written: the instance pauses if it works, gives the lock back and ends.
WriteFails(i) ==
  /\ errors < MaxErrors /\ errors' = errors + 1
  /\ proc[i] \in {"locked", "pausing"}
  /\ proc' = [proc EXCEPT ![i] = "gone"] /\ lock' = lock \ {i}
  /\ UNCHANGED <<signalled, broken, runtime>>

-----------------------------------------------------------------------------
(* The platform, the database and time *)

\* The process dies; the database notices later.
Crash(i) ==
  /\ Alive(i) /\ proc' = [proc EXCEPT ![i] = "gone"]
  /\ UNCHANGED <<signalled, lock, broken, runtime, errors>>
Notice ==
  /\ \E i \in lock : proc[i] = "gone"
  /\ lock' = {}
  /\ UNCHANGED <<proc, signalled, broken, runtime, errors>>

\* The connection of the lock is lost under a living instance.
Break(i) ==
  /\ i \in lock /\ Alive(i) /\ Cardinality(broken) < MaxBreaks
  /\ lock' = {} /\ broken' = broken \cup {i}
  /\ UNCHANGED <<proc, signalled, runtime, errors>>

Tick ==
  /\ registered # {} /\ age < Old /\ age' = age + 1
  /\ UNCHANGED <<proc, signalled, lock, broken, registered, stopped, errors>>

\* scheduler_status()
Healthy == registered # {} /\ ~stopped /\ age <= StaleAfter

LeaseNext ==
  \/ \E i \in Instances :
       \/ StartUp(i) \/ Signal(i) \/ Acquire(i) \/ GiveUp(i) \/ Register(i) \/ Beat(i)
       \/ Pause(i) \/ Stop(i) \/ Release(i) \/ WriteFails(i) \/ Crash(i) \/ Break(i)
  \/ Notice \/ Tick

LeaseSpec == LeaseInit /\ [][LeaseNext]_leaseVars

\* A living instance goes on, its heartbeat is an interval job, time passes, and the
\* database notices a connection that is gone.
FairLeaseSpec ==
  /\ LeaseSpec /\ WF_leaseVars(Notice) /\ WF_leaseVars(Tick)
  /\ \A i \in Instances :
       /\ WF_leaseVars(Acquire(i)) /\ WF_leaseVars(Register(i)) /\ WF_leaseVars(Beat(i))
       /\ WF_leaseVars(Pause(i)) /\ WF_leaseVars(Stop(i)) /\ WF_leaseVars(Release(i)) /\ WF_leaseVars(GiveUp(i))

-----------------------------------------------------------------------------
(* Properties *)

\* The variables have their types.
LeaseTypeOK ==
  /\ proc \in [Instances -> Stages]
  /\ signalled \subseteq Instances /\ broken \subseteq Instances
  /\ lock \subseteq Instances /\ \A i, k \in lock : i = k
  /\ registered \subseteq Instances /\ \A i, k \in registered : i = k
  /\ stopped \in BOOLEAN /\ age \in 0..Old /\ errors \in 0..MaxErrors

\* Two instances fire jobs at once only if one of them lost the connection of its lock: no
\* crash, error or deployment overlap is enough (scheduler/runtime.py:157).
OneScheduler == \A i, k \in Working : i = k \/ i \in broken \/ k \in broken

\* The row says stopped only of an instance that fires no jobs any more, even when
\* instances overlap (scheduler/status.py:77).
StoppedIsTrue == stopped => \A i \in registered : proc[i] \in {"ended", "gone"}

\* An instance that waits does not wait for ever for one that has stopped or died: it gets
\* the lock unless another has it that goes on working (scheduler/runtime.py:144).
HandedOver ==
  \A i \in Instances :
    []<>(proc[i] # "waiting" \/ \E k \in Working : k \in lock /\ NotSignalled(k))

\* An instance that has died is not shown as healthy for ever (scheduler/status.py:106).
DeathIsSeen ==
  \A i \in Instances :
    []((proc[i] = "gone" /\ i \in registered) => <>(i \notin registered \/ []~Healthy))

\* "Waiting preserves the singleton guarantee" (scheduler/runtime.py:157), src/README.md:33.
Singleton == \A i, k \in Working : i = k
=============================================================================
