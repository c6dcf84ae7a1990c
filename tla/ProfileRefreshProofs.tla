------------------------ MODULE ProfileRefreshProofs ------------------------
(***************************************************************************)
(* Proofs about ProfileRefresh for every set of workers and every number    *)
(* of edits and faults.                                                     *)
(***************************************************************************)
EXTENDS ProfileRefresh, TLAPS

(* Is the pass of w to be completed by the withdrawal of the request it claimed? *)
Withdraws(w) == worker[w].pc = "completing" /\ worker[w].done

(* Does w work on the request it claimed, rather than only unlock the row?       *)
Serves(w) == worker[w].pc \in {"claimed", "matching", "matched"} \/ Withdraws(w)

(* A request that was claimed is one that an edit committed: no edit that is     *)
(* still open will be taken for it.                                              *)
Committed(s) == s <= last /\ (s # Null => api[s].pc # "open")

Numbered ==
  /\ \A r \in Requests : api[r].pc # "none" => r <= last
  /\ Committed(marker.requested)
  /\ \A w \in Workers : Serves(w) => worker[w].requested # Null /\ Committed(worker[w].requested)

Gone == deleted => marker.requested = Null

(* As long as the row asks for what w claimed, the pass of w is wide enough for   *)
(* every edit it has not taken into account, has seen all of them before its      *)
(* commit, and has left none after it.                                            *)
PassKnows(w) ==
  SameRequest(w) =>
    /\ worker[w].pc = "claimed" => \A r \in Owed : Covers(worker[w].since, r)
    /\ worker[w].pc = "matching" => Owed \subseteq worker[w].saw
    /\ worker[w].pc = "matched" \/ Withdraws(w) => Owed = {}

Knowing == ~raced => \A w \in Workers : PassKnows(w)

(* A pass that is committed has its dispatch job.                                 *)
Dispatched ==
  \A w \in Workers : worker[w].pc = "matched" \/ Withdraws(w) => worker[w].requested \in alerts

(* While no lease runs out early a busy worker holds the lock of a row that is not *)
(* claimable.                                                                      *)
Locked ==
  ~overran /\ ~deleted => \A w \in Workers : Busy(w) => marker.lock = w /\ ~expired

IInv ==
  /\ TypeOK
  /\ Numbered
  /\ Gone
  /\ NoEditIsLost
  /\ Knowing
  /\ Dispatched
  /\ OnePassAtATime
  /\ Locked

-----------------------------------------------------------------------------
(* Numbers of requests, and what enqueue_profile_refresh() makes of them. *)

LEMMA Numbers ==
  /\ MaxRequests \in Nat /\ MaxFaults \in Nat /\ NoOne \notin Workers
  /\ Null = 0 /\ Null \notin Requests /\ Null \in Stamp
  /\ \A r : r \in Requests <=> r \in Nat /\ 1 <= r /\ r <= MaxRequests
  /\ \A s \in Stamp : s \in Nat /\ s <= MaxRequests /\ (s # Null => s \in Requests)
  BY RefreshConstants DEF Null, Requests, Stamp

\* The range that is asked for after an edit is a range.
LEMMA WidenedRange ==
  ASSUME NEW requested \in Stamp, NEW since \in Stamp, NEW r \in Requests,
         NEW kind \in {"recent", "full"}
  PROVE  Widened(requested, since, r, kind) \in Stamp
  BY Numbers DEF Widened, Stamp

-----------------------------------------------------------------------------
(* The invariant: each of its parts holds at the start and is preserved. *)

LEMMA InitInv == Init => IInv
  <1> SUFFICES ASSUME Init PROVE IInv
    OBVIOUS
  <1> USE DEF Init, NoMarker, NoRequest, NoPass
  <1>1. TypeOK
    <2>1. marker \in Marker /\ api \in [Requests -> Request]
      BY Numbers DEF Marker, Request
    <2>2. worker \in [Workers -> Pass]
      BY Numbers DEF Pass
    <2>3. last \in 0..MaxRequests /\ faults \in 0..MaxFaults
      BY RefreshConstants
    <2>4. alerts \subseteq Requests
      OBVIOUS
    <2>5. expired \in BOOLEAN /\ deleted \in BOOLEAN /\ raced \in BOOLEAN /\ overran \in BOOLEAN
      OBVIOUS
    <2>6. QED
      BY <2>1, <2>2, <2>3, <2>4, <2>5 DEF TypeOK
  <1>2. \A w \in Workers : ~Serves(w) /\ ~Busy(w)
    BY DEF Serves, Withdraws, Busy
  <1>3. Owed = {}
    BY DEF Owed
  <1>4. Numbered
    BY <1>2, Numbers DEF Numbered, Committed
  <1>5. Gone /\ NoEditIsLost /\ Knowing /\ Dispatched
    BY <1>3 DEF Gone, NoEditIsLost, Knowing, PassKnows, Dispatched, Withdraws
  <1>6. OnePassAtATime /\ Locked
    BY <1>2 DEF OnePassAtATime, Locked
  <1>7. QED
    BY <1>1, <1>4, <1>5, <1>6 DEF IInv

LEMMA TypeStep == IInv /\ [Next]_vars => TypeOK'
  <1> SUFFICES ASSUME IInv, [Next]_vars PROVE TypeOK'
    OBVIOUS
  <1> USE Numbers DEF TypeOK
  <1>0. TypeOK /\ Numbered
    BY DEF IInv
  <1>1. ASSUME NEW kind \in {"recent", "full"}, Edit(kind) PROVE TypeOK'
    <2>1. last + 1 \in Requests /\ last' \in 0..MaxRequests
      BY <1>0, <1>1 DEF Edit
    <2>2. [pc |-> "open", kind |-> kind, requested |-> marker.requested,
           since |-> marker.since] \in Request
      BY <1>0 DEF Request, Marker
    <2>3. api' \in [Requests -> Request]
      BY <1>0, <1>1, <2>1, <2>2 DEF Edit
    <2>4. QED
      BY <1>0, <1>1, <2>1, <2>3 DEF Edit
  <1>2. ASSUME NEW r \in Requests, EditCommit(r) PROVE TypeOK'
    <2>1. api[r] \in Request
      BY <1>0
    <2>2. Widened(api[r].requested, api[r].since, r, api[r].kind) \in Stamp
      BY <2>1, WidenedRange DEF Request
    <2>3. marker' \in Marker
      BY <1>0, <1>2, <2>2 DEF EditCommit, Marker, Stamp
    <2>4. api' \in [Requests -> Request]
      BY <1>0, <1>2, <2>1 DEF EditCommit, Request, NoRequest
    <2>5. QED
      BY <1>0, <1>2, <2>3, <2>4 DEF EditCommit, Unchanged
  <1>3. CASE DeleteProfile
    BY <1>0, <1>3 DEF DeleteProfile, NoMarker, Marker, NoRequest, Request
  <1>4. ASSUME NEW w \in Workers, Claim(w) PROVE TypeOK'
    BY <1>0, <1>4 DEF Claim, Marker, Pass, NoPass
  <1>5. ASSUME NEW w \in Workers, ReadRules(w) PROVE TypeOK'
    <2>1. {r \in Owed : Covers(worker[w].since, r)} \in SUBSET Requests
      BY DEF Owed
    <2>2. worker[w] \in Pass
      BY <1>0
    <2>3. [worker[w] EXCEPT !.pc = "matching", !.since = Null,
             !.saw = {r \in Owed : Covers(worker[w].since, r)}] \in Pass
      BY <2>1, <2>2 DEF Pass
    <2>4. worker' \in [Workers -> Pass]
      BY <1>0, <1>5, <2>3 DEF ReadRules
    <2>5. QED
      BY <1>0, <1>5, <2>4 DEF ReadRules
  <1>6. ASSUME NEW w \in Workers, CommitPass(w) PROVE TypeOK'
    <2>1. worker[w].requested \in Requests
      BY <1>0, <1>6 DEF CommitPass, Numbered, Serves, Pass
    <2>2. worker' \in [Workers -> Pass] /\ api' \in [Requests -> Request]
      <3>1. [worker[w] EXCEPT !.pc = "matched", !.saw = {}] \in Pass
        BY <1>0 DEF Pass
      <3>2. worker' = [worker EXCEPT ![w] = [worker[w] EXCEPT !.pc = "matched", !.saw = {}]]
        BY <1>0, <1>6 DEF CommitPass, Pass
      <3>3. NoRequest \in Request
        BY DEF NoRequest, Request
      <3>4. QED
        BY <1>0, <1>6, <3>1, <3>2, <3>3 DEF CommitPass
    <2>3. QED
      BY <1>0, <1>6, <2>1, <2>2 DEF CommitPass
  <1>7. ASSUME NEW w \in Workers, CompleteRead(w) PROVE TypeOK'
    <2>1. worker[w] \in Pass /\ NoPass \in Pass
      BY <1>0 DEF Pass, NoPass
    <2>2. \/ worker' = [worker EXCEPT ![w] = NoPass]
          \/ worker' = [worker EXCEPT ![w] =
                 [worker[w] EXCEPT !.pc = "completing", !.requested = marker.requested,
                                   !.since = marker.since, !.done = TRUE]]
          \/ worker' = [worker EXCEPT ![w] = [NoPass EXCEPT !.pc = "completing"]]
      BY <1>0, <1>7 DEF CompleteRead
    <2>3. [worker[w] EXCEPT !.pc = "completing", !.requested = marker.requested,
                            !.since = marker.since, !.done = TRUE] \in Pass
      BY <1>0, <2>1 DEF Pass, Marker
    <2>4. [NoPass EXCEPT !.pc = "completing"] \in Pass
      BY DEF Pass, NoPass
    <2>5. worker' \in [Workers -> Pass]
      BY <1>0, <2>1, <2>2, <2>3, <2>4
    <2>6. QED
      BY <1>0, <1>7, <2>5 DEF CompleteRead
  <1>8. ASSUME NEW w \in Workers, CompleteWrite(w) PROVE TypeOK'
    <2>1. worker' \in [Workers -> Pass]
      BY <1>0, <1>8 DEF CompleteWrite, Pass, NoPass
    <2>2. marker' \in Marker
      BY <1>0, <1>8 DEF CompleteWrite, Marker
    <2>3. expired' \in BOOLEAN /\ raced' \in BOOLEAN
      BY <1>0, <1>8 DEF CompleteWrite
    <2>4. QED
      BY <1>0, <1>8, <2>1, <2>2, <2>3 DEF CompleteWrite
  <1>9. ASSUME NEW w \in Workers, Abandon(w) PROVE TypeOK'
    BY <1>0, <1>9 DEF Abandon, Pass, NoPass
  <1>10. CASE LeaseExpires
    BY <1>0, <1>10 DEF LeaseExpires, Busy
  <1>11. CASE UNCHANGED vars
    BY <1>0, <1>11 DEF vars
  <1>12. QED
    BY <1>1, <1>2, <1>3, <1>4, <1>5, <1>6, <1>7, <1>8, <1>9, <1>10, <1>11 DEF Next, Work

\* A worker without a pass, and one that has only the lock to give back.
LEMMA IdlePass ==
  /\ NoPass \in Pass /\ [NoPass EXCEPT !.pc = "completing"] \in Pass
  /\ NoPass.pc = "idle"
  /\ [NoPass EXCEPT !.pc = "completing"].pc = "completing"
  /\ ~[NoPass EXCEPT !.pc = "completing"].done
  BY Numbers DEF NoPass, Pass

\* What the steps of a worker make of it.
LEMMA WorkerSteps ==
  ASSUME TypeOK, NEW w \in Workers
  PROVE  /\ Claim(w) => /\ worker'[w].pc = "claimed"
                        /\ worker'[w].requested = marker.requested
                        /\ worker'[w].since = marker.since
         /\ ReadRules(w) => /\ worker'[w].pc = "matching"
                            /\ worker'[w].requested = worker[w].requested
                            /\ worker'[w].saw = {r \in Owed : Covers(worker[w].since, r)}
         /\ CommitPass(w) => /\ worker'[w].pc = "matched"
                             /\ worker'[w].requested = worker[w].requested
         /\ CompleteRead(w) =>
              \/ worker'[w].pc = "idle"
              \/ worker'[w].pc = "completing" /\ ~worker'[w].done
              \/ /\ SameRequest(w) /\ worker'[w].pc = "completing" /\ worker'[w].done
                 /\ worker'[w].requested = worker[w].requested
                 /\ worker'[w].since = marker.since
         /\ CompleteWrite(w) \/ Abandon(w) => worker'[w].pc = "idle"
         /\ Work(w) \/ Abandon(w) => \A v \in Workers \ {w} : worker'[v] = worker[v]
  <1> USE DEF TypeOK
  <1>1. Claim(w) => /\ worker'[w].pc = "claimed"
                    /\ worker'[w].requested = marker.requested
                    /\ worker'[w].since = marker.since
                    /\ \A v \in Workers \ {w} : worker'[v] = worker[v]
    BY DEF Claim, NoPass
  <1>2. ReadRules(w) => /\ worker'[w].pc = "matching"
                        /\ worker'[w].requested = worker[w].requested
                        /\ worker'[w].saw = {r \in Owed : Covers(worker[w].since, r)}
                        /\ \A v \in Workers \ {w} : worker'[v] = worker[v]
    BY DEF ReadRules, Pass
  <1>3. CommitPass(w) => /\ worker'[w].pc = "matched"
                         /\ worker'[w].requested = worker[w].requested
                         /\ \A v \in Workers \ {w} : worker'[v] = worker[v]
    BY DEF CommitPass, Pass
  <1>4. CompleteRead(w) =>
          /\ \/ worker'[w].pc = "idle"
             \/ worker'[w].pc = "completing" /\ ~worker'[w].done
             \/ /\ SameRequest(w) /\ worker'[w].pc = "completing" /\ worker'[w].done
                /\ worker'[w].requested = worker[w].requested
                /\ worker'[w].since = marker.since
          /\ \A v \in Workers \ {w} : worker'[v] = worker[v]
    <2> SUFFICES ASSUME CompleteRead(w)
                 PROVE  /\ \/ worker'[w].pc = "idle"
                           \/ worker'[w].pc = "completing" /\ ~worker'[w].done
                           \/ /\ SameRequest(w) /\ worker'[w].pc = "completing" /\ worker'[w].done
                              /\ worker'[w].requested = worker[w].requested
                              /\ worker'[w].since = marker.since
                        /\ \A v \in Workers \ {w} : worker'[v] = worker[v]
      OBVIOUS
    <2>1. CASE worker' = [worker EXCEPT ![w] = NoPass]
      BY <2>1, IdlePass
    <2>2. CASE SameRequest(w) /\ worker' = [worker EXCEPT ![w] =
                 [worker[w] EXCEPT !.pc = "completing", !.requested = marker.requested,
                                   !.since = marker.since, !.done = TRUE]]
      BY <2>2 DEF SameRequest, Pass
    <2>3. CASE worker' = [worker EXCEPT ![w] = [NoPass EXCEPT !.pc = "completing"]]
      BY <2>3, IdlePass
    <2>4. QED
      BY <2>1, <2>2, <2>3 DEF CompleteRead
  <1>5. CompleteWrite(w) \/ Abandon(w) =>
          /\ worker'[w].pc = "idle"
          /\ \A v \in Workers \ {w} : worker'[v] = worker[v]
    BY DEF CompleteWrite, Abandon, NoPass
  <1>6. QED
    BY <1>1, <1>2, <1>3, <1>4, <1>5 DEF Work

LEMMA NumberedStep == IInv /\ [Next]_vars => Numbered'
  <1> SUFFICES ASSUME IInv, [Next]_vars PROVE Numbered'
    OBVIOUS
  <1>0. TypeOK /\ Numbered /\ TypeOK'
    BY TypeStep DEF IInv
  <1> USE <1>0, Numbers DEF TypeOK, Numbered, Committed, Serves, Withdraws
  <1>1. ASSUME NEW kind \in {"recent", "full"}, Edit(kind) PROVE Numbered'
    <2>1. last + 1 \in Requests /\ last' = last + 1 /\ marker' = marker /\ worker' = worker
      BY <1>1 DEF Edit
    <2>2. \A r \in Requests : r # last + 1 => api'[r] = api[r]
      BY <1>1 DEF Edit
    <2>3. \A s \in Stamp : Committed(s) => Committed(s)'
      BY <2>1, <2>2
    <2>4. \A r \in Requests : api'[r].pc # "none" => r <= last'
      BY <2>1, <2>2
    <2>5. marker.requested \in Stamp /\ \A w \in Workers : worker[w].requested \in Stamp
      BY DEF Marker, Pass
    <2>6. QED
      BY <2>1, <2>3, <2>4, <2>5
  <1>2. ASSUME NEW r \in Requests, EditCommit(r) PROVE Numbered'
    <2>1. r <= last /\ last' = last /\ marker'.requested = r /\ worker' = worker
      BY <1>2 DEF EditCommit, Marker
    <2>2. api'[r].pc = "owed" /\ \A q \in Requests : q # r => api'[q] = api[q]
      BY <1>2 DEF EditCommit, NoRequest
    <2>3. \A s \in Stamp : Committed(s) => Committed(s)'
      BY <2>1, <2>2
    <2>4. Committed(r)'
      BY <2>1, <2>2
    <2>5. \A w \in Workers : worker[w].requested \in Stamp
      BY DEF Pass
    <2>6. \A q \in Requests : api'[q].pc # "none" => q <= last'
      BY <2>1, <2>2
    <2>7. QED
      BY <2>1, <2>3, <2>4, <2>5, <2>6
  <1>3. CASE DeleteProfile
    <2>1. marker'.requested = Null /\ UNCHANGED <<last, worker>>
      BY <1>3 DEF DeleteProfile, NoMarker
    <2>2. \A r \in Requests : api'[r].pc = "none"
      BY <1>3 DEF DeleteProfile, NoRequest
    <2>3. \A s \in Stamp : Committed(s) => Committed(s)'
      BY <2>1, <2>2
    <2>4. \A w \in Workers : worker[w].requested \in Stamp
      BY DEF Pass
    <2>5. Committed(Null)'
      BY <2>1
    <2>6. QED
      BY <2>1, <2>2, <2>3, <2>4, <2>5
  <1>4. ASSUME NEW w \in Workers, Claim(w) PROVE Numbered'
    <2>1. marker.requested # Null /\ marker'.requested = marker.requested
      BY <1>4 DEF Claim, Claimable, Marker
    <2>2. QED
      BY <1>4, <2>1, WorkerSteps DEF Claim, Work
  <1>5. ASSUME NEW w \in Workers, ReadRules(w) PROVE Numbered'
    <2>1. worker[w].pc = "claimed" /\ UNCHANGED <<marker, last, api>>
      BY <1>5 DEF ReadRules
    <2>2. QED
      BY <1>5, <2>1, WorkerSteps DEF Work
  <1>6. ASSUME NEW w \in Workers, CommitPass(w) PROVE Numbered'
    <2>1. worker[w].pc = "matching" /\ UNCHANGED <<marker, last>>
      BY <1>6 DEF CommitPass
    <2>2. \A r \in Requests : api'[r] = api[r] \/ api'[r].pc = "none"
      BY <1>6 DEF CommitPass, NoRequest
    <2>3. \A s \in Stamp : Committed(s) => Committed(s)'
      BY <2>1, <2>2
    <2>4. \A r \in Requests : api'[r].pc # "none" => r <= last'
      BY <2>1, <2>2
    <2>5. marker.requested \in Stamp /\ \A v \in Workers : worker[v].requested \in Stamp
      BY DEF Marker, Pass
    <2>6. \A v \in Workers : Serves(v)' => Serves(v) /\ worker'[v].requested = worker[v].requested
      BY <1>6, <2>1, WorkerSteps DEF Work
    <2>7. QED
      BY <2>1, <2>3, <2>4, <2>5, <2>6
  <1>7. ASSUME NEW w \in Workers, CompleteRead(w) PROVE Numbered'
    <2>1. worker[w].pc = "matched" /\ UNCHANGED <<marker, last, api>>
      BY <1>7 DEF CompleteRead
    <2>2. QED
      BY <1>7, <2>1, WorkerSteps DEF Work
  <1>8. ASSUME NEW w \in Workers, CompleteWrite(w) PROVE Numbered'
    <2>1. UNCHANGED <<last, api>>
      BY <1>8 DEF CompleteWrite
    <2>2. marker'.requested = Null \/ marker'.requested = marker.requested
      BY <1>8 DEF CompleteWrite
    <2>3. QED
      BY <1>8, <2>1, <2>2, WorkerSteps DEF Work
  <1>9. ASSUME NEW w \in Workers, Abandon(w) PROVE Numbered'
    <2>1. UNCHANGED <<marker, last, api>>
      BY <1>9 DEF Abandon
    <2>2. QED
      BY <1>9, <2>1, WorkerSteps
  <1>10. CASE LeaseExpires
    BY <1>10 DEF LeaseExpires
  <1>11. CASE UNCHANGED vars
    BY <1>11 DEF vars
  <1>12. QED
    BY <1>1, <1>2, <1>3, <1>4, <1>5, <1>6, <1>7, <1>8, <1>9, <1>10, <1>11 DEF Next, Work

LEMMA GoneStep == IInv /\ [Next]_vars => Gone'
  <1> SUFFICES ASSUME IInv, [Next]_vars PROVE Gone'
    OBVIOUS
  <1>0. Gone /\ TypeOK
    BY DEF IInv
  <1>1. CASE DeleteProfile
    BY <1>1 DEF DeleteProfile, NoMarker, Gone
  <1>2. ASSUME NEW r \in Requests, EditCommit(r) PROVE Gone'
    BY <1>2 DEF EditCommit, Gone
  <1>3. ASSUME NEW kind \in {"recent", "full"}, Edit(kind) PROVE Gone'
    BY <1>0, <1>3 DEF Edit, Gone
  <1>4. ASSUME NEW w \in Workers, Work(w) \/ Abandon(w) PROVE Gone'
    <2>1. deleted' = deleted
      BY <1>4 DEF Work, Abandon, Claim, ReadRules, CommitPass, CompleteRead, CompleteWrite
    <2>2. marker'.requested = Null \/ marker'.requested = marker.requested
      BY <1>0, <1>4 DEF Work, Abandon, Claim, ReadRules, CommitPass, CompleteRead,
                        CompleteWrite, TypeOK, Marker
    <2>3. QED
      BY <1>0, <2>1, <2>2 DEF Gone
  <1>5. CASE LeaseExpires \/ UNCHANGED vars
    BY <1>0, <1>5 DEF LeaseExpires, vars, Gone
  <1>6. QED
    BY <1>1, <1>2, <1>3, <1>4, <1>5 DEF Next

LEMMA DispatchedStep == IInv /\ [Next]_vars => Dispatched'
  <1> SUFFICES ASSUME IInv, [Next]_vars PROVE Dispatched'
    OBVIOUS
  <1>0. Dispatched /\ TypeOK
    BY DEF IInv
  <1>1. ASSUME NEW w \in Workers, Work(w) \/ Abandon(w) PROVE Dispatched'
    <2>1. alerts \subseteq alerts'
      BY <1>1 DEF Work, Abandon, Claim, ReadRules, CommitPass, CompleteRead, CompleteWrite
    <2>2. \A v \in Workers \ {w} : worker'[v] = worker[v]
      BY <1>0, <1>1, WorkerSteps
    <2>3. worker'[w].pc = "matched" \/ Withdraws(w)' => worker'[w].requested \in alerts'
      <3>1. CASE CommitPass(w)
        <4>1. worker'[w].requested = worker[w].requested
          BY <1>0, <3>1, WorkerSteps
        <4>2. worker[w].requested \in alerts'
          BY <3>1 DEF CommitPass
        <4>3. QED
          BY <4>1, <4>2
      <3>2. CASE CompleteRead(w)
        <4>1. worker[w].pc = "matched"
          BY <3>2 DEF CompleteRead
        <4>2. worker[w].requested \in alerts'
          BY <1>0, <2>1, <4>1 DEF Dispatched
        <4>3. \/ worker'[w].pc = "idle"
              \/ worker'[w].pc = "completing" /\ ~worker'[w].done
              \/ worker'[w].requested = worker[w].requested
          BY <1>0, <3>2, WorkerSteps
        <4>4. QED
          BY <4>2, <4>3 DEF Withdraws
      <3>3. CASE Claim(w) \/ ReadRules(w) \/ CompleteWrite(w) \/ Abandon(w)
        BY <1>0, <3>3, WorkerSteps DEF Withdraws
      <3>4. QED
        BY <1>1, <3>1, <3>2, <3>3 DEF Work
    <2>4. QED
      BY <1>0, <2>1, <2>2, <2>3 DEF Dispatched, Withdraws
  <1>2. CASE UNCHANGED <<worker, alerts>>
    BY <1>0, <1>2 DEF Dispatched, Withdraws
  <1>3. QED
    BY <1>1, <1>2 DEF Next, Edit, EditCommit, DeleteProfile, LeaseExpires, vars

LEMMA LockedStep == IInv /\ [Next]_vars => OnePassAtATime' /\ Locked'
  <1> SUFFICES ASSUME IInv, [Next]_vars PROVE OnePassAtATime' /\ Locked'
    OBVIOUS
  <1>0. OnePassAtATime /\ Locked /\ TypeOK /\ Gone
    BY DEF IInv
  <1> USE <1>0 DEF OnePassAtATime, Locked, Busy
  <1>1. CASE UNCHANGED <<marker, expired, deleted, worker, overran>>
    BY <1>1
  <1>2. ASSUME NEW r \in Requests, EditCommit(r) PROVE OnePassAtATime' /\ Locked'
    BY <1>2 DEF EditCommit, TypeOK, Marker
  <1>3. CASE DeleteProfile
    BY <1>3 DEF DeleteProfile
  <1>4. ASSUME NEW w \in Workers, Claim(w) PROVE OnePassAtATime' /\ Locked'
    <2>1. ~deleted /\ (marker.lock = NoOne \/ expired) /\ UNCHANGED <<overran, deleted>>
      BY <1>4 DEF Claim, Claimable, Gone
    <2>2. ~overran => \A v \in Workers : worker[v].pc = "idle"
      BY <2>1, Numbers
    <2>3. marker'.lock = w /\ ~expired'
      BY <1>4 DEF Claim, TypeOK, Marker
    <2>4. \A v \in Workers \ {w} : worker'[v] = worker[v]
      BY <1>4, WorkerSteps DEF Work
    <2>5. QED
      BY <2>1, <2>2, <2>3, <2>4
  <1>5. ASSUME NEW w \in Workers, ReadRules(w) \/ CommitPass(w) \/ CompleteRead(w) \/ Abandon(w)
        PROVE OnePassAtATime' /\ Locked'
    <2>1. UNCHANGED <<marker, expired, deleted, overran>> /\ worker[w].pc # "idle"
      BY <1>5 DEF ReadRules, CommitPass, CompleteRead, Abandon, Busy
    <2>2. \A v \in Workers \ {w} : worker'[v] = worker[v]
      BY <1>5, WorkerSteps DEF Work
    <2>3. QED
      BY <2>1, <2>2
  <1>6. ASSUME NEW w \in Workers, CompleteWrite(w) PROVE OnePassAtATime' /\ Locked'
    <2>1. UNCHANGED <<deleted, overran>> /\ worker[w].pc # "idle" /\ worker'[w].pc = "idle"
      BY <1>6, WorkerSteps DEF CompleteWrite
    <2>2. \A v \in Workers \ {w} : worker'[v] = worker[v]
      BY <1>6, WorkerSteps DEF Work
    <2>3. ~overran => \A v \in Workers : worker'[v].pc = "idle"
      BY <2>1, <2>2
    <2>4. QED
      BY <2>1, <2>3
  <1>7. CASE LeaseExpires
    <2>1. UNCHANGED <<marker, deleted, worker>>
          /\ (overran' <=> overran \/ (worker[marker.lock].pc # "idle"))
      BY <1>7 DEF LeaseExpires, TypeOK
    <2>2. ~overran' /\ ~deleted' => \A v \in Workers : worker[v].pc = "idle"
      BY <2>1
    <2>3. QED
      BY <2>1, <2>2
  <1>8. QED
    BY <1>1, <1>2, <1>3, <1>4, <1>5, <1>6, <1>7 DEF Next, Work, Edit, vars

(* No edit is lost, and passes know what they have to take into account.          *)

\* What asks for an edit asks for it also after a later edit has widened the request.
LEMMA WidenedKeeps ==
  ASSUME TypeOK, NEW q \in Requests, NEW r \in Requests, NEW kind \in {"recent", "full"},
         StillAsked(q)
  PROVE  Covers(Widened(marker.requested, marker.since, r, kind), q)
  <1>1. marker.requested \in Stamp /\ marker.since \in Stamp /\ marker.requested # Null
    BY DEF TypeOK, Marker, StillAsked
  <1> DEFINE new == Widened(marker.requested, marker.since, r, kind)
  <1>2. new \in Stamp
    BY <1>1, WidenedRange
  <1>3. new = Null \/ (marker.since # Null /\ new <= marker.since)
    BY <1>1, Numbers DEF Widened, Stamp
  <1>4. marker.since = Null \/ (api[q].kind = "recent" /\ marker.since <= q)
    BY DEF StillAsked, Covers
  <1>5. new \in Nat /\ marker.since \in Nat /\ q \in Nat
    BY <1>1, <1>2, Numbers
  <1> HIDE DEF new
  <1>6. new = Null \/ (api[q].kind = "recent" /\ new <= q)
    BY <1>3, <1>4, <1>5
  <1>7. QED
    BY <1>6 DEF Covers, new

LEMMA EditCommitKeeps ==
  ASSUME IInv, NEW r \in Requests, EditCommit(r)
  PROVE  NoEditIsLost' /\ Knowing'
  <1>0. TypeOK /\ Numbered /\ NoEditIsLost /\ TypeOK'
    BY TypeStep DEF IInv, Next
  <1>1. marker'.requested = r /\ worker' = worker
    BY <1>0 DEF EditCommit, TypeOK, Marker
  <1>2. Owed' = Owed \cup {r} /\ \A q \in Owed' : api'[q].kind = api[q].kind
    BY <1>0 DEF EditCommit, Owed, TypeOK, NoRequest, Request
  <1>3. ASSUME ~raced' PROVE \A q \in Owed' : StillAsked(q)'
    <2> DEFINE new == Widened(marker.requested, marker.since, r, api[r].kind)
    <2>1. ~raced /\ api[r].requested = marker.requested /\ api[r].since = marker.since
      BY <1>0, <1>3 DEF EditCommit, Unchanged, TypeOK
    <2>2. marker'.since = new
      BY <1>0, <2>1 DEF EditCommit, TypeOK, Marker
    <2>3. api[r].kind \in {"recent", "full"} /\ marker.requested \in Stamp /\ marker.since \in Stamp
      BY <1>0 DEF TypeOK, Request, Marker
    <2>4. new = Null \/ (api[r].kind = "recent" /\ new <= r)
      BY <2>3, Numbers DEF Widened, Stamp
    <2>5. \A q \in Owed : new = Null \/ (api[q].kind = "recent" /\ new <= q)
      BY <1>0, <2>1, <2>3, WidenedKeeps DEF NoEditIsLost, Covers, Owed
    <2> HIDE DEF new
    <2>6. QED
      BY <1>1, <1>2, <2>2, <2>4, <2>5, Numbers DEF StillAsked, Covers
  <1>4. \A w \in Workers : Serves(w) => worker[w].requested # r
    BY <1>0, Numbers DEF EditCommit, Numbered, Committed
  <1>5. \A w \in Workers : Serves(w)' => ~SameRequest(w)'
    BY <1>1, <1>4 DEF Serves, Withdraws, SameRequest
  <1>6. QED
    BY <1>3, <1>5 DEF NoEditIsLost, Knowing, PassKnows, Serves, Withdraws

LEMMA WorkKeeps ==
  ASSUME IInv, NEW w \in Workers, Work(w) \/ Abandon(w)
  PROVE  NoEditIsLost' /\ Knowing'
  <1>0. TypeOK /\ Numbered /\ NoEditIsLost /\ Knowing /\ TypeOK'
    BY TypeStep DEF IInv, Next
  <1>1. /\ Owed' \subseteq Owed
        /\ \A q \in Owed' : api'[q] = api[q]
    BY <1>0 DEF Work, Abandon, Claim, ReadRules, CommitPass, CompleteRead, CompleteWrite,
                TypeOK, Owed, NoRequest
  <1>2. \A v \in Workers \ {w} : worker'[v] = worker[v]
    BY <1>0, WorkerSteps
  <1>3. ASSUME ~raced', ~CompleteWrite(w)
        PROVE  ~raced /\ marker'.requested = marker.requested /\ marker'.since = marker.since
    BY <1>0, <1>3 DEF Work, Abandon, Claim, ReadRules, CommitPass, CompleteRead, TypeOK, Marker
  <1>4. ASSUME ~raced', ~CompleteWrite(w), NEW v \in Workers \ {w} PROVE PassKnows(v)'
    <2>1. PassKnows(v) /\ SameRequest(v)' = SameRequest(v)
      BY <1>0, <1>2, <1>3, <1>4 DEF Knowing, SameRequest
    <2>2. worker'[v] = worker[v]
      BY <1>2, <1>4
    <2>3. \A s, q : q \in Owed' /\ Covers(s, q) => Covers(s, q)'
      BY <1>1 DEF Covers
    <2>4. QED
      BY <1>1, <2>1, <2>2, <2>3 DEF PassKnows, Withdraws
  <1>5. ASSUME ~raced', ~CompleteWrite(w) PROVE PassKnows(w)'
    <2>0. ~raced /\ NoEditIsLost /\ PassKnows(w) /\ marker'.requested = marker.requested
      BY <1>0, <1>3, <1>5 DEF Knowing
    <2>1. CASE Claim(w)
      <3>1. worker'[w].pc = "claimed" /\ worker'[w].since = marker'.since
        BY <1>0, <1>3, <1>5, <2>1, WorkerSteps
      <3>2. \A q \in Owed' : Covers(marker.since, q)'
        BY <1>1, <1>3, <1>5, <2>0 DEF NoEditIsLost, StillAsked, Covers
      <3>3. QED
        BY <3>1, <3>2 DEF PassKnows, Withdraws
    <2>2. CASE ReadRules(w)
      <3>1. worker[w].pc = "claimed" /\ worker'[w].pc = "matching" /\ UNCHANGED <<marker, api>>
            /\ worker'[w].requested = worker[w].requested
            /\ worker'[w].saw = {q \in Owed : Covers(worker[w].since, q)}
        BY <1>0, <2>2, WorkerSteps DEF ReadRules
      <3>2. SameRequest(w)' => Owed \subseteq worker'[w].saw
        BY <2>0, <3>1 DEF PassKnows, SameRequest
      <3>3. QED
        BY <1>1, <3>1, <3>2 DEF PassKnows, Withdraws
    <2>3. CASE CommitPass(w)
      <3>1. worker[w].pc = "matching" /\ worker'[w].pc = "matched" /\ UNCHANGED marker
            /\ worker'[w].requested = worker[w].requested
        BY <1>0, <2>3, WorkerSteps DEF CommitPass
      <3>2. Owed' \cap worker[w].saw = {}
        BY <2>3 DEF CommitPass, Owed, NoRequest
      <3>3. SameRequest(w)' => Owed' = {}
        BY <1>1, <2>0, <3>1, <3>2 DEF PassKnows, SameRequest
      <3>4. QED
        BY <3>1, <3>3 DEF PassKnows, Withdraws
    <2>4. CASE CompleteRead(w)
      <3>1. worker[w].pc = "matched"
        BY <2>4 DEF CompleteRead
      <3>2. \/ worker'[w].pc = "idle"
            \/ worker'[w].pc = "completing" /\ ~worker'[w].done
            \/ SameRequest(w) /\ worker'[w].pc = "completing"
        BY <1>0, <2>4, WorkerSteps
      <3>3. SameRequest(w) => Owed' = {}
        BY <1>1, <2>0, <3>1 DEF PassKnows
      <3>4. QED
        BY <3>2, <3>3 DEF PassKnows, Withdraws
    <2>5. CASE Abandon(w)
      BY <1>0, <2>5, WorkerSteps DEF PassKnows, Withdraws
    <2>6. QED
      BY <1>5, <2>1, <2>2, <2>3, <2>4, <2>5 DEF Work
  <1>6. ASSUME ~raced', ~CompleteWrite(w) PROVE \A q \in Owed' : StillAsked(q)'
    BY <1>0, <1>1, <1>3, <1>6 DEF NoEditIsLost, StillAsked, Covers
  <1>7. CASE CompleteWrite(w)
    <2> SUFFICES ASSUME ~raced' PROVE /\ \A q \in Owed' : StillAsked(q)'
                                      /\ \A v \in Workers : PassKnows(v)'
      BY DEF NoEditIsLost, Knowing
    <2>1. ~raced /\ api' = api /\ Owed' = Owed /\ worker'[w].pc = "idle"
          /\ worker[w].pc = "completing"
      BY <1>0, <1>7, WorkerSteps DEF CompleteWrite, TypeOK, Owed
    <2>2. CASE marker'.requested = marker.requested /\ marker'.since = marker.since
      <3>1. \A q \in Owed' : StillAsked(q)'
        BY <1>0, <2>1, <2>2 DEF NoEditIsLost, StillAsked, Covers
      <3>2. \A v \in Workers \ {w} : PassKnows(v)'
        BY <1>0, <1>2, <2>1, <2>2 DEF Knowing, PassKnows, SameRequest, Withdraws, Covers
      <3>3. QED
        BY <2>1, <3>1, <3>2 DEF PassKnows, Withdraws
    <2>3. CASE Withdraws(w) /\ Unchanged(worker[w])
      <3>1. Owed' = {}
        BY <1>0, <2>1, <2>3 DEF Knowing, PassKnows, SameRequest, Unchanged
      <3>2. QED
        BY <3>1 DEF PassKnows
    <2>4. QED
      BY <1>0, <1>7, <2>1, <2>2, <2>3 DEF CompleteWrite, Withdraws, TypeOK, Marker
  <1>8. QED
    BY <1>4, <1>5, <1>6, <1>7 DEF NoEditIsLost, Knowing

LEMMA KnowingStep == IInv /\ [Next]_vars => NoEditIsLost' /\ Knowing'
  <1> SUFFICES ASSUME IInv, [Next]_vars PROVE NoEditIsLost' /\ Knowing'
    OBVIOUS
  <1>0. TypeOK /\ NoEditIsLost /\ Knowing
    BY DEF IInv
  <1>1. ASSUME UNCHANGED <<marker, worker, raced>>, Owed' = Owed,
               \A q \in Owed : api'[q].kind = api[q].kind
        PROVE  NoEditIsLost' /\ Knowing'
    <2>1. ~raced' => \A q \in Owed' : StillAsked(q)'
      BY <1>0, <1>1 DEF NoEditIsLost, StillAsked, Covers
    <2>2. ~raced' => \A w \in Workers : PassKnows(w)'
      BY <1>0, <1>1 DEF Knowing, PassKnows, Withdraws, SameRequest, Covers
    <2>3. QED
      BY <2>1, <2>2 DEF NoEditIsLost, Knowing
  <1>2. ASSUME NEW kind \in {"recent", "full"}, Edit(kind) PROVE NoEditIsLost' /\ Knowing'
    <2>1. last + 1 \in Requests /\ api[last + 1].pc # "owed"
      BY <1>0, <1>2, Numbers DEF Edit, TypeOK, IInv, Numbered
    <2>2. api'[last + 1].pc = "open" /\ \A q \in Requests : q # last + 1 => api'[q] = api[q]
      BY <1>0, <1>2, <2>1 DEF Edit, TypeOK
    <2>3. Owed' = Owed /\ \A q \in Owed : api'[q].kind = api[q].kind
      BY <2>1, <2>2 DEF Owed
    <2>4. QED
      BY <1>1, <1>2, <2>3 DEF Edit
  <1>3. CASE DeleteProfile
    <2>1. Owed' = {}
      BY <1>3 DEF DeleteProfile, Owed, NoRequest
    <2>2. QED
      BY <2>1 DEF NoEditIsLost, Knowing, PassKnows
  <1>4. CASE LeaseExpires \/ UNCHANGED vars
    BY <1>1, <1>4 DEF LeaseExpires, vars, Owed
  <1>5. QED
    BY <1>2, <1>3, <1>4, EditCommitKeeps, WorkKeeps DEF Next

-----------------------------------------------------------------------------
(* The theorems. *)

(* The strengthening of the safety properties of ProfileRefresh is an invariant.  *)
THEOREM Invariance == Spec => []IInv
  <1>1. Init => IInv
    BY InitInv
  <1>2. IInv /\ [Next]_vars => IInv'
    BY TypeStep, NumberedStep, GoneStep, KnowingStep, DispatchedStep, LockedStep DEF IInv
  <1>3. QED
    BY <1>1, <1>2, PTL DEF Spec

(* Every variable keeps the shape the code gives it.                              *)
THEOREM TypeCorrect == Spec => []TypeOK
  <1>1. IInv => TypeOK
    BY DEF IInv
  <1>2. QED
    BY <1>1, Invariance, PTL

(* However many edits, workers, crashes and late completions meet, an edit that no *)
(* pass has taken into account is still asked for by the marker, unless a          *)
(* transaction has written over a row that changed since it read it.               *)
THEOREM NoEditLost == Spec => []NoEditIsLost
  <1>1. IInv => NoEditIsLost
    BY DEF IInv
  <1>2. QED
    BY <1>1, Invariance, PTL

(* While no lease runs out under a worker, one worker at a time rematches.         *)
THEOREM OnePass == Spec => []OnePassAtATime
  <1>1. IInv => OnePassAtATime
    BY DEF IInv
  <1>2. QED
    BY <1>1, Invariance, PTL

(* The marker is cleared only after the pass and the dispatch job of the request   *)
(* it clears are committed.                                                        *)
THEOREM ClearedWhenDispatched == Spec => WithdrawnIsDispatched
  <1> DEFINE A == ~raced' /\ ~deleted' /\ marker.requested # Null /\ marker'.requested = Null =>
                  marker.requested \in alerts
  <1>1. IInv /\ [Next]_vars => [A]_vars
    <2> SUFFICES ASSUME IInv, [Next]_vars, ~raced', ~deleted',
                        marker.requested # Null, marker'.requested = Null
                 PROVE  marker.requested \in alerts
      OBVIOUS
    <2>0. TypeOK /\ Dispatched
      BY DEF IInv
    <2>1. ASSUME NEW w \in Workers, CompleteWrite(w) PROVE marker.requested \in alerts
      <3>1. Withdraws(w) /\ marker.requested = worker[w].requested
        <4>1. ~deleted /\ worker[w].pc = "completing"
          BY <2>1 DEF CompleteWrite
        <4>2. marker'.requested = IF worker[w].done THEN Null ELSE marker.requested
          BY <2>1, <4>1 DEF CompleteWrite
        <4>3. worker[w].done
          BY <4>2
        <4>4. raced' <=> raced \/ (worker[w].done /\ ~Unchanged(worker[w]))
          BY <2>0, <2>1, <4>1 DEF CompleteWrite, TypeOK
        <4>5. QED
          BY <4>1, <4>3, <4>4 DEF Withdraws, Unchanged
      <3>2. QED
        BY <2>0, <3>1 DEF Dispatched
    <2>2. ASSUME NEW r \in Requests, EditCommit(r) PROVE FALSE
      BY <2>0, <2>2, Numbers DEF EditCommit, TypeOK, Marker
    <2>3. ASSUME NEW w \in Workers, Claim(w) PROVE FALSE
      BY <2>0, <2>3 DEF Claim, TypeOK, Marker
    <2>4. CASE DeleteProfile
      BY <2>4 DEF DeleteProfile
    <2>5. CASE UNCHANGED marker
      BY <2>5
    <2>6. QED
      BY <2>1, <2>2, <2>3, <2>4, <2>5 DEF Next, Work, Edit, ReadRules, CommitPass,
         CompleteRead, Abandon, LeaseExpires, vars
  <1>2. QED
    BY <1>1, Invariance, PTL DEF Spec, WithdrawnIsDispatched
=============================================================================
