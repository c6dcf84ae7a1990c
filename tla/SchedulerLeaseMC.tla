---------------------------- MODULE SchedulerLeaseMC ----------------------------
(* Instances of SchedulerLease for TLC: three runs of the scheduler. *)
EXTENDS SchedulerLease

MCInstances == {"s1", "s2", "s3"}
=============================================================================
