---------------------------- MODULE SchedulerProofs ----------------------------
(***************************************************************************)
(* Proofs about the two models of the scheduler.                            *)
(*                                                                         *)
(* SchedulerLease, for any number of scheduler runs.  OneScheduler is not   *)
(* inductive: whoever takes the free lock has to know that nobody else is   *)
(* past it.  HoldsOrBroken says so: an instance that is past the lock has   *)
(* it, or its connection was lost.  A crash keeps it, since the database    *)
(* frees a lock only of an instance that is gone.                           *)
(*                                                                         *)
(* SourceRegistry, for any number of keys, settings, requests and database  *)
(* errors.  A request that nobody has overtaken has read the row as it is,  *)
(* so that what it writes is what it meant to.  A row that only such        *)
(* requests have written is validated only if a preview of it passed as it  *)
(* is now.                                                                  *)
(***************************************************************************)
EXTENDS SchedulerLease, SourceRegistry, TLAPS

-----------------------------------------------------------------------------
(* SchedulerLease *)

\* Past the lock, and living.
Past == {"locked", "running", "pausing", "ended"}

HoldsOrBroken == \A i \in Instances : proc[i] \in Past => i \in lock \cup broken

LeaseInv == LeaseTypeOK /\ HoldsOrBroken /\ StoppedIsTrue

-----------------------------------------------------------------------------

\* The initial state satisfies the invariant: no instance runs and there is no row.
LEMMA InitLeaseInv == LeaseInit => LeaseInv
<1> SUFFICES ASSUME LeaseInit PROVE LeaseInv
  OBVIOUS
<1>1. LeaseTypeOK
  <2>1. stopped \in BOOLEAN
    BY DEF LeaseInit
  <2>2. proc \in [Instances -> Stages] /\ age \in 0..Old /\ errors \in 0..MaxErrors
    BY LeaseConstants DEF LeaseInit, Stages, Old
  <2> QED
    BY <2>1, <2>2 DEF LeaseInit, LeaseTypeOK
<1>2. HoldsOrBroken /\ StoppedIsTrue
  BY DEF LeaseInit, HoldsOrBroken, StoppedIsTrue, Past
<1> QED
  BY <1>1, <1>2 DEF LeaseInv

\* Every step of LeaseNext, and stuttering, keeps the types: the lock passes from one connection
\* to one other and the age stops at Old.
LEMMA LeaseTypeStep == LeaseTypeOK /\ [LeaseNext]_leaseVars => LeaseTypeOK'
<1> SUFFICES ASSUME LeaseTypeOK, [LeaseNext]_leaseVars PROVE LeaseTypeOK'
  OBVIOUS
<1> USE LeaseConstants DEF LeaseTypeOK, Stages, Old
<1>1. ASSUME NEW i \in Instances,
             StartUp(i) \/ Signal(i) \/ GiveUp(i) \/ Pause(i)
      PROVE  LeaseTypeOK'
  BY <1>1 DEF StartUp, Signal, GiveUp, Pause, Go, runtime
<1>2. ASSUME NEW i \in Instances, Acquire(i)
      PROVE  LeaseTypeOK'
  BY <1>2 DEF Acquire, Go, runtime
<1>r. ASSUME NEW i \in Instances, Register(i)
      PROVE  LeaseTypeOK'
  <2>1. stopped' \in BOOLEAN
    BY <1>r DEF Register
  <2>2. proc' \in [Instances -> Stages] /\ registered' = {i} /\ age' \in 0..Old
    BY <1>r DEF Register, Go
  <2> QED
    BY <1>r, <2>1, <2>2 DEF Register
<1>3. ASSUME NEW i \in Instances, Beat(i)
      PROVE  LeaseTypeOK'
  BY <1>3 DEF Beat
<1>s. ASSUME NEW i \in Instances, Stop(i)
      PROVE  LeaseTypeOK'
  <2>1. stopped' \in BOOLEAN
    BY <1>s DEF Stop
  <2>2. age' \in 0..Old
    BY <1>s DEF Stop
  <2>3. proc' \in [Instances -> Stages]
    BY <1>s DEF Stop, Go
  <2> QED
    BY <1>s, <2>1, <2>2, <2>3 DEF Stop
<1>f. ASSUME NEW i \in Instances, WriteFails(i)
      PROVE  LeaseTypeOK'
  BY <1>f DEF WriteFails, runtime
<1>4. ASSUME NEW i \in Instances, Release(i) \/ Crash(i) \/ Break(i)
      PROVE  LeaseTypeOK'
  BY <1>4 DEF Release, Crash, Break, Go, runtime
<1>5. CASE Notice \/ Tick
  BY <1>5 DEF Notice, Tick, runtime
<1>6. CASE UNCHANGED leaseVars
  BY <1>6 DEF leaseVars, runtime
<1> QED
  BY <1>1, <1>2, <1>r, <1>3, <1>s, <1>f, <1>4, <1>5, <1>6 DEF LeaseNext

\* Every step keeps HoldsOrBroken: the lock leaves an instance only when the instance ends,
\* is gone, or becomes one of the broken.
LEMMA HoldsStep == LeaseTypeOK /\ HoldsOrBroken /\ [LeaseNext]_leaseVars => HoldsOrBroken'
<1> SUFFICES ASSUME LeaseTypeOK, HoldsOrBroken, [LeaseNext]_leaseVars PROVE HoldsOrBroken'
  OBVIOUS
<1> USE DEF LeaseTypeOK, HoldsOrBroken, Past
<1>1. ASSUME NEW i \in Instances, StartUp(i) \/ Signal(i) \/ GiveUp(i) \/ Pause(i) \/ Beat(i)
      PROVE  HoldsOrBroken'
  BY <1>1 DEF StartUp, Signal, GiveUp, Pause, Beat, Go
<1>2. ASSUME NEW i \in Instances, Acquire(i) \/ Register(i) \/ Stop(i)
      PROVE  HoldsOrBroken'
  BY <1>2 DEF Acquire, Register, Stop, Go
<1>3. ASSUME NEW i \in Instances, Release(i) \/ WriteFails(i) \/ Crash(i)
      PROVE  HoldsOrBroken'
  BY <1>3 DEF Release, WriteFails, Crash, Go
<1>4. ASSUME NEW i \in Instances, Break(i)
      PROVE  HoldsOrBroken'
  BY <1>4 DEF Break
<1>5. CASE Notice
  BY <1>5 DEF Notice
<1>6. CASE Tick
  BY <1>6 DEF Tick
<1>7. CASE UNCHANGED leaseVars
  BY <1>7 DEF leaseVars
<1> QED
  BY <1>1, <1>2, <1>3, <1>4, <1>5, <1>6, <1>7 DEF LeaseNext

\* Every step keeps StoppedIsTrue: only the instance that the row names marks it, and who
\* has marked it never works again.
LEMMA StoppedStep == LeaseTypeOK /\ StoppedIsTrue /\ [LeaseNext]_leaseVars => StoppedIsTrue'
<1> SUFFICES ASSUME LeaseTypeOK, StoppedIsTrue, [LeaseNext]_leaseVars PROVE StoppedIsTrue'
  OBVIOUS
<1> USE DEF LeaseTypeOK, StoppedIsTrue
<1>1. ASSUME NEW i \in Instances, StartUp(i) \/ Signal(i) \/ GiveUp(i) \/ Pause(i) \/ Beat(i)
      PROVE  StoppedIsTrue'
  BY <1>1 DEF StartUp, Signal, GiveUp, Pause, Beat, Go, runtime
<1>2. ASSUME NEW i \in Instances, Acquire(i) \/ Register(i)
      PROVE  StoppedIsTrue'
  BY <1>2 DEF Acquire, Register, Go, runtime
<1>3. ASSUME NEW i \in Instances, Stop(i)
      PROVE  StoppedIsTrue'
  BY <1>3 DEF Stop, Go
<1>4. ASSUME NEW i \in Instances, Release(i) \/ WriteFails(i) \/ Crash(i) \/ Break(i)
      PROVE  StoppedIsTrue'
  BY <1>4 DEF Release, WriteFails, Crash, Break, Go, runtime
<1>5. CASE Notice \/ Tick
  BY <1>5 DEF Notice, Tick, runtime
<1>6. CASE UNCHANGED leaseVars
  BY <1>6 DEF leaseVars, runtime
<1> QED
  BY <1>1, <1>2, <1>3, <1>4, <1>5, <1>6 DEF LeaseNext

\* The invariant holds in every state that LeaseSpec reaches.
THEOREM LeaseInvariance == LeaseSpec => []LeaseInv
<1>1. LeaseInv /\ [LeaseNext]_leaseVars => LeaseInv'
  BY LeaseTypeStep, HoldsStep, StoppedStep DEF LeaseInv
<1> QED
  BY InitLeaseInv, <1>1, PTL DEF LeaseSpec

\* The variables keep their types: one connection at most has the lock, and the row names
\* one instance at most.
THEOREM LeaseTypeCorrect == LeaseSpec => []LeaseTypeOK
BY LeaseInvariance, PTL DEF LeaseInv

\* Two instances fire jobs at once only if one of them lost the connection of its lock.
THEOREM Singular == LeaseSpec => []OneScheduler
<1>1. LeaseInv => OneScheduler
  <2> SUFFICES ASSUME LeaseInv, NEW i \in Working, NEW k \in Working, i \notin broken, k \notin broken
               PROVE  i = k
    BY DEF OneScheduler
  <2>1. i \in Instances /\ k \in Instances /\ proc[i] \in Past /\ proc[k] \in Past
    BY DEF Working, Past
  <2>2. i \in lock /\ k \in lock
    BY <2>1 DEF LeaseInv, HoldsOrBroken
  <2> QED
    BY <2>2 DEF LeaseInv, LeaseTypeOK
<1> QED
  BY LeaseInvariance, <1>1, PTL

\* A row that says stopped names an instance that fires no jobs any more.
THEOREM StoppedMeansStopped == LeaseSpec => []StoppedIsTrue
BY LeaseInvariance, PTL DEF LeaseInv
-----------------------------------------------------------------------------
(* SourceRegistry *)

OnRow(r) == r.op \notin {"none", "create"}

\* Requests that nobody has overtaken.
Current ==
  \A a \in Requests :
    /\ req[a].stale => OnRow(req[a])
    /\ OnRow(req[a]) /\ ~req[a].stale =>
         req[a].was = table[req[a].id] /\ table[req[a].id].status = "row"
    /\ req[a].op = "enable" => req[a].was.validated

\* A row is enabled or validated as it passed a preview.
Checked(i) == table[i].enabled \/ table[i].validated => table[i].conf \in passed[i]
AllChecked == \A i \in Rows \ raced : Checked(i)

\* What is polled, and what the next instance of the scheduler is to poll.
Polled == Valid(jobs) /\ \A C \in loaded : Valid(C)

IInv == TypeOK /\ Current /\ AllChecked /\ Polled

-----------------------------------------------------------------------------
(* Rows *)

LEMMA SeedType == Seed \in Config /\ NoRow \in Row /\ NoRequest \in Request /\ 1 \in Ids
<1>1. Seed \in Config
  BY RegistryConstants
<1>2. FALSE \in BOOLEAN
  OBVIOUS
<1>3. NoRow \in Row
  BY <1>1, <1>2 DEF NoRow, Row
<1>4. 1 \in Ids
  BY RegistryConstants DEF Ids
<1>5. NoRequest \in Request
  BY <1>1, <1>2, <1>3, <1>4 DEF NoRequest, Request
<1> QED
  BY <1>1, <1>3, <1>4, <1>5

LEMMA ColumnIs ==
  /\ \A was, new, now : Column(was, new, now) \in {new, now}
  /\ \A was, new : Column(was, new, was) = new
BY DEF Column

LEMMA RowParts ==
  ASSUME NEW r \in Row
  PROVE  /\ r.conf \in Config /\ r.conf.key \in Keys /\ r.conf.set \in Settings
         /\ r.enabled \in BOOLEAN /\ r.validated \in BOOLEAN
         /\ \A c \in Config, e \in BOOLEAN, v \in BOOLEAN :
              [status |-> r.status, conf |-> c, enabled |-> e, validated |-> v] \in Row
BY DEF Row, Config

\* The row that an update makes, column by column.
LEMMA UpdatedRow ==
  ASSUME NEW a \in Requests, req[a] \in Request, NEW now \in Row, now = table[req[a].id]
  PROVE  /\ Updated(a) \in Row /\ Updated(a).status = now.status
         /\ req[a].was = now => ~Updated(a).enabled /\ ~Updated(a).validated
<1> DEFINE r == req[a]
           key == Column(r.was.conf.key, r.new.key, now.conf.key)
           set == Column(r.was.conf.set, r.new.set, now.conf.set)
           enabled == Column(r.was.enabled, FALSE, now.enabled)
           validated == Column(r.was.validated, FALSE, now.validated)
<1>1. r.new \in Config /\ r.was \in Row
  BY DEF Request
<1>2. key \in Keys /\ set \in Settings
  BY <1>1, ColumnIs, RowParts DEF Config
<1>3. enabled \in BOOLEAN /\ validated \in BOOLEAN
  <2>1. now.enabled \in BOOLEAN /\ now.validated \in BOOLEAN
    BY RowParts
  <2>2. enabled \in {FALSE, now.enabled} /\ validated \in {FALSE, now.validated}
    BY ColumnIs
  <2>3. enabled \in BOOLEAN
    BY <2>1, <2>2
  <2>4. validated \in BOOLEAN
    BY <2>1, <2>2
  <2> QED
    BY <2>3, <2>4
<1>4. r.was = now => enabled = FALSE /\ validated = FALSE
  <2>1. r.was = now => enabled = FALSE
    BY Zenon DEF Column
  <2>2. r.was = now => validated = FALSE
    BY Zenon DEF Column
  <2> QED
    BY <2>1, <2>2
<1>5. Updated(a) = [now EXCEPT !.conf = [key |-> key, set |-> set], !.enabled = enabled,
                               !.validated = validated]
  BY DEF Updated
<1> HIDE DEF key, set, enabled, validated
<1>6. [key |-> key, set |-> set] \in Config
  BY <1>2 DEF Config
<1>8. Updated(a) \in Row
  BY <1>3, <1>5, <1>6 DEF Row
<1>9. Updated(a).status = now.status /\ Updated(a).enabled = enabled /\ Updated(a).validated = validated
  BY <1>5 DEF Row
<1> QED
  BY <1>4, <1>8, <1>9

LEMMA ResultType ==
  ASSUME TypeOK, NEW a \in Requests, req[a].op # "none", NEW pass \in BOOLEAN
  PROVE  Result(a, pass) \in Row
<1> DEFINE r == req[a]
           now == table[r.id]
<1>1. r \in Request /\ now \in Row /\ r.new \in Config /\ r.was \in Row
  BY DEF TypeOK, Request
<1>2. CASE r.op = "create"
  <2>1. Result(a, pass) = [NoRow EXCEPT !.status = "row", !.conf = r.new]
    BY <1>2 DEF Result
  <2> QED
    BY <1>1, <2>1, SeedType DEF Row
<1>3. CASE r.op = "update"
  <2>1. Result(a, pass) = Updated(a)
    BY <1>3 DEF Result
  <2> QED
    BY <1>1, <2>1, UpdatedRow
<1>4. CASE r.op = "enable" \/ r.op = "disable"
  <2>1. PICK goal \in BOOLEAN : Result(a, pass) = [now EXCEPT !.enabled = Column(r.was.enabled, goal, now.enabled)]
    <3>1. CASE r.op = "enable"
      <4>1. Result(a, pass) = [now EXCEPT !.enabled = Column(r.was.enabled, TRUE, now.enabled)]
        BY <3>1 DEF Result
      <4>2. TRUE \in BOOLEAN
        OBVIOUS
      <4> QED
        BY <4>1, <4>2
    <3>2. CASE r.op = "disable"
      <4>1. Result(a, pass) = [now EXCEPT !.enabled = Column(r.was.enabled, FALSE, now.enabled)]
        BY <3>2 DEF Result
      <4>2. FALSE \in BOOLEAN
        OBVIOUS
      <4> QED
        BY <4>1, <4>2
    <3> QED
      BY <1>4, <3>1, <3>2
  <2>2. Column(r.was.enabled, goal, now.enabled) \in BOOLEAN
    <3>1. Column(r.was.enabled, goal, now.enabled) \in {goal, now.enabled}
      BY ColumnIs
    <3> QED
      BY <1>1, <3>1, RowParts
  <2> QED
    BY <1>1, <2>1, <2>2 DEF Row
<1>5. CASE r.op = "delete"
  <2>1. Result(a, pass) = [NoRow EXCEPT !.status = "deleted"]
    BY <1>5 DEF Result
  <2> QED
    BY <2>1, SeedType DEF Row
<1>6. CASE r.op = "preview"
  <2> DEFINE valid == IF pass THEN TRUE ELSE Column(r.was.validated, FALSE, now.validated)
  <2>1. Result(a, pass) = [now EXCEPT !.validated = valid]
    BY <1>6 DEF Result
  <2>2. valid \in {TRUE, FALSE, now.validated}
    <3>1. CASE pass
      BY <3>1
    <3>2. CASE ~pass
      <4>1. valid = Column(r.was.validated, FALSE, now.validated)
        BY <3>2, Zenon
      <4>2. Column(r.was.validated, FALSE, now.validated) \in {FALSE, now.validated}
        BY ColumnIs
      <4> HIDE DEF valid
      <4> QED
        BY <4>1, <4>2
    <3> QED
      BY <3>1, <3>2
  <2> HIDE DEF valid
  <2>3. valid \in BOOLEAN
    BY <1>1, <2>2, RowParts
  <2> QED
    BY <1>1, <2>1, <2>3 DEF Row
<1> QED
  BY <1>1, <1>2, <1>3, <1>4, <1>5, <1>6 DEF Request

\* What a request that nobody has overtaken makes of its row.
LEMMA ResultIsChecked ==
  ASSUME IInv, NEW a \in Requests, OnRow(req[a]), ~req[a].stale, NEW pass \in BOOLEAN,
         Checked(req[a].id), Result(a, pass).status = "row",
         Result(a, pass).enabled \/ Result(a, pass).validated
  PROVE  \/ Result(a, pass).conf \in passed[req[a].id]
         \/ req[a].op = "preview" /\ pass /\ Result(a, pass).conf = req[a].was.conf
<1> DEFINE r == req[a]
           now == table[r.id]
           row == Result(a, pass)
<1>1. r \in Request /\ now \in Row /\ r.was = now
  BY DEF IInv, TypeOK, Current, Request
<1>2. CASE r.op = "update"
  <2>1. row = Updated(a)
    BY <1>2 DEF Result
  <2> QED
    BY <1>1, <2>1, UpdatedRow
<1>3. CASE r.op = "enable"
  <2>1. row.conf = now.conf
    BY <1>1, <1>3 DEF Result, Row
  <2>2. now.validated
    BY <1>1, <1>3 DEF IInv, Current
  <2> QED
    BY <2>1, <2>2 DEF Checked
<1>4. CASE r.op = "disable"
  <2>1. row = [now EXCEPT !.enabled = Column(now.enabled, FALSE, now.enabled)]
    BY <1>1, <1>4 DEF Result
  <2>2. Column(now.enabled, FALSE, now.enabled) = FALSE
    BY Zenon DEF Column
  <2>3. ~row.enabled /\ row.validated = now.validated /\ row.conf = now.conf
    BY <1>1, <2>1, <2>2 DEF Row
  <2> QED
    BY <2>3 DEF Checked
<1>5. CASE r.op = "delete"
  <2>1. row.status = "deleted"
    BY <1>5, SeedType DEF Result, Row
  <2> QED
    BY <2>1
<1>6. CASE r.op = "preview" /\ pass
  <2>1. row.conf = now.conf
    BY <1>1, <1>6 DEF Result, Row
  <2> QED
    BY <1>1, <1>6, <2>1
<1>7. CASE r.op = "preview" /\ ~pass
  <2>1. row = [now EXCEPT !.validated = Column(now.validated, FALSE, now.validated)]
    BY <1>1, <1>7 DEF Result
  <2>2. Column(now.validated, FALSE, now.validated) = FALSE
    BY Zenon DEF Column
  <2>3. ~row.validated /\ row.enabled = now.enabled /\ row.conf = now.conf
    BY <1>1, <2>1, <2>2 DEF Row
  <2> QED
    BY <2>3 DEF Checked
<1> QED
  BY <1>1, <1>2, <1>3, <1>4, <1>5, <1>6, <1>7 DEF OnRow, Request

-----------------------------------------------------------------------------
(* Steps *)

LEMMA InitIInv == Init => IInv
<1> SUFFICES ASSUME Init PROVE IInv
  OBVIOUS
<1>1. /\ table \in [Ids -> Row] /\ req \in [Requests -> Request]
      /\ \A i \in Ids : table[i].status = "none"
      /\ \A a \in Requests : req[a].op = "none" /\ ~req[a].stale
  BY SeedType DEF Init, NoRow, NoRequest
<1>2. Rows = {}
  BY <1>1 DEF Rows
<1>3. TypeOK
  BY <1>1, <1>2, RegistryConstants DEF Init, TypeOK
<1>4. Current /\ AllChecked /\ Polled
  BY <1>1, <1>2 DEF Init, Current, OnRow, AllChecked, Polled, Valid
<1> QED
  BY <1>3, <1>4 DEF IInv

\* A request reads the row and is not overtaken yet.
LEMMA OpenStep ==
  ASSUME IInv, NEW a \in Requests, NEW i \in Ids, NEW new \in Config,
         NEW op \in {"create", "update", "enable", "disable", "delete", "preview"},
         Open(a, op, i, new), op # "create" => i \in Rows, op = "enable" => table[i].validated
  PROVE  IInv'
<1> DEFINE r == [op |-> op, id |-> i, was |-> table[i], new |-> new, stale |-> FALSE]
<1>1. /\ TypeOK /\ asked < MaxRequests /\ asked' = asked + 1 /\ req' = [req EXCEPT ![a] = r]
      /\ UNCHANGED <<table, jobs, loaded, faults, passed, raced>>
  BY DEF IInv, Open
<1>2. r \in Request
  <2>1. FALSE \in BOOLEAN /\ table[i] \in Row
    BY <1>1 DEF TypeOK
  <2> QED
    BY <2>1 DEF Request
<1>3. /\ req' \in [Requests -> Request] /\ req'[a] = r /\ \A b \in Requests \ {a} : req'[b] = req[b]
  BY <1>1, <1>2 DEF TypeOK
<1>4. asked' \in 0..MaxRequests
  BY <1>1, RegistryConstants DEF TypeOK
<1>5. TypeOK'
  BY <1>1, <1>3, <1>4 DEF TypeOK, Rows
<1>6. Current'
  <2> SUFFICES ASSUME NEW b \in Requests
               PROVE  /\ req'[b].stale => OnRow(req'[b])
                      /\ OnRow(req'[b]) /\ ~req'[b].stale =>
                           req'[b].was = table[req'[b].id] /\ table[req'[b].id].status = "row"
                      /\ req'[b].op = "enable" => req'[b].was.validated
    BY <1>1 DEF Current, OnRow
  <2>1. CASE b = a
    BY <1>3, <2>1 DEF OnRow, Rows
  <2>2. CASE b # a
    BY <1>3, <2>2 DEF IInv, Current, OnRow
  <2> QED
    BY <2>1, <2>2
<1>7. AllChecked' /\ Polled'
  BY <1>1 DEF IInv, AllChecked, Checked, Rows, Polled
<1> QED
  BY <1>5, <1>6, <1>7 DEF IInv

LEMMA AskStep ==
  ASSUME IInv, NEW a \in Requests, Ask(a)
  PROVE  IInv'
<1>1. \A i \in Rows : i \in Ids /\ table[i].conf \in Config
  BY RowParts DEF IInv, TypeOK, Rows
<1>2. CASE Create(a)
  <2>1. PICK c \in Config : Open(a, "create", NoRequest.id, c)
    BY <1>2 DEF Create
  <2>2. NoRequest.id \in Ids
    BY SeedType DEF Request
  <2> QED
    BY <2>1, <2>2, OpenStep
<1>3. ASSUME NEW i \in Rows, Update(a, i)
      PROVE  IInv'
  <2>1. PICK c \in Config : Open(a, "update", i, c)
    BY <1>3 DEF Update
  <2> QED
    BY <1>1, <2>1, OpenStep
<1>4. ASSUME NEW i \in Rows, Enable(a, i)
      PROVE  IInv'
  <2>1. table[i].validated /\ Open(a, "enable", i, table[i].conf)
    BY <1>4 DEF Enable
  <2> QED
    BY <1>1, <2>1, OpenStep
<1>5. ASSUME NEW i \in Rows, Disable(a, i) \/ Delete(a, i) \/ Preview(a, i)
      PROVE  IInv'
  <2>1. PICK op \in {"disable", "delete", "preview"} : Open(a, op, i, table[i].conf)
    BY <1>5 DEF Disable, Delete, Preview
  <2> QED
    BY <1>1, <2>1, OpenStep
<1> QED
  BY <1>2, <1>3, <1>4, <1>5 DEF Ask

LEMMA FailStep ==
  ASSUME IInv, NEW a \in Requests, Fail(a)
  PROVE  IInv'
<1>1. /\ TypeOK /\ req' = [req EXCEPT ![a] = NoRequest]
      /\ UNCHANGED <<table, asked, jobs, loaded, faults, passed, raced>>
  BY DEF IInv, Fail
<1>2. /\ req' \in [Requests -> Request] /\ req'[a] = NoRequest
      /\ \A b \in Requests \ {a} : req'[b] = req[b]
  BY <1>1, SeedType DEF TypeOK
<1>3. TypeOK'
  BY <1>1, <1>2 DEF TypeOK, Rows
<1>4. Current'
  BY <1>1, <1>2 DEF IInv, Current, OnRow, NoRequest
<1>5. AllChecked' /\ Polled'
  BY <1>1 DEF IInv, AllChecked, Checked, Rows, Polled
<1> QED
  BY <1>3, <1>4, <1>5 DEF IInv

LEMMA CommitStep ==
  ASSUME IInv, NEW a \in Requests, Commit(a)
  PROVE  IInv'
<1> DEFINE r == req[a]
           i == IF r.op = "create" THEN First(Unused) ELSE r.id
<1>1. PICK pass \in BOOLEAN :
        /\ r.op # "none" /\ ~Refused(a, Result(a, pass))
        /\ table' = [table EXCEPT ![i] = Result(a, pass)]
        /\ passed' = Passed(a, i, pass)
        /\ raced' = IF r.stale THEN raced \cup {i} ELSE raced
        /\ req' = Closed(a, i)
        /\ UNCHANGED <<asked, jobs, loaded, faults>>
  BY DEF Commit
<1> DEFINE row == Result(a, pass)
<1>2. TypeOK /\ Current /\ AllChecked /\ Polled
  BY DEF IInv
<1>3. r \in Request /\ row \in Row
  BY <1>1, <1>2, ResultType DEF TypeOK
<1>4. r.op = "create" => row.status = "row" /\ ~row.enabled /\ ~row.validated
  BY SeedType DEF Result, NoRow
<1>5. r.op # "create" => OnRow(r) /\ i = r.id /\ i \in Ids
  BY <1>1, <1>3 DEF OnRow, Request
<1>6. r.stale => OnRow(r)
  BY <1>2 DEF Current
<1>7. \A j \in Rows \ {i} : row.status = "row" => table[j].conf.key # row.conf.key
  <2>1. CASE r.op = "create"
    <3>1. \A j \in Rows : j # 0
      BY RegistryConstants DEF Rows, Ids
    <3> QED
      BY <1>1, <2>1, <3>1 DEF Refused, KeyIsTaken
  <2>2. CASE r.op # "create"
    BY <1>1, <2>2 DEF Refused, KeyIsTaken
  <2> QED
    BY <2>1, <2>2
<1> HIDE DEF row, i
<1>8. /\ table' \in [Ids -> Row] /\ (i \in Ids => table'[i] = row)
      /\ \A j \in Ids \ {i} : table'[j] = table[j]
  BY <1>1, <1>2, <1>3 DEF TypeOK, row
<1>9. \A j \in Rows' : j \in Ids /\ (j # i => j \in Rows) /\ (j = i => row.status = "row")
  BY <1>8 DEF Rows
<1>10. \A j, k \in Rows' : table'[j].conf.key = table'[k].conf.key => j = k
  <2> SUFFICES ASSUME NEW j \in Rows', NEW k \in Rows', j # k
               PROVE  table'[j].conf.key # table'[k].conf.key
    OBVIOUS
  <2>1. CASE j = i
    BY <1>7, <1>8, <1>9, <2>1
  <2>2. CASE k = i
    BY <1>7, <1>8, <1>9, <2>2
  <2>3. CASE j # i /\ k # i
    BY <1>2, <1>8, <1>9, <2>3 DEF TypeOK
  <2> QED
    BY <2>1, <2>2, <2>3
<1>11. /\ req' \in [Requests -> Request] /\ req'[a] = NoRequest
       /\ \A b \in Requests \ {a} :
            /\ req'[b] = [req[b] EXCEPT !.stale = req[b].stale \/ (OnRow(req[b]) /\ req[b].id = i)]
            /\ req'[b].op = req[b].op /\ req'[b].id = req[b].id /\ req'[b].was = req[b].was
            /\ req'[b].stale <=> req[b].stale \/ (OnRow(req[b]) /\ req[b].id = i)
  <2> DEFINE late(b) == req[b].stale \/ (OnRow(req[b]) /\ req[b].id = i)
  <2>1. req' = [b \in Requests |-> IF b = a THEN NoRequest ELSE [req[b] EXCEPT !.stale = late(b)]]
    BY <1>1 DEF Closed, OnRow
  <2>2. \A b \in Requests : late(b) \in BOOLEAN /\ req[b] \in Request
    BY <1>2 DEF TypeOK
  <2> HIDE DEF late
  <2>3. \A b \in Requests : LET q == [req[b] EXCEPT !.stale = late(b)] IN
          q \in Request /\ q.op = req[b].op /\ q.id = req[b].id /\ q.was = req[b].was /\ q.stale = late(b)
    BY <2>2 DEF Request
  <2> QED
    BY <2>1, <2>3, SeedType DEF late
<1>12. passed' \in [Ids -> SUBSET Config] /\ \A j \in Ids \ {i} : passed'[j] = passed[j]
  <2>1. r.was.conf \in Config
    BY <1>3, RowParts DEF Request
  <2> QED
    BY <1>1, <1>2, <2>1 DEF Passed, TypeOK
<1>13. raced' \subseteq Ids /\ raced \subseteq raced'
  BY <1>1, <1>2, <1>5, <1>6 DEF TypeOK, OnRow
<1>14. TypeOK'
  BY <1>1, <1>2, <1>8, <1>10, <1>11, <1>12, <1>13 DEF TypeOK
<1>15. Current'
  <2> SUFFICES ASSUME NEW b \in Requests
               PROVE  /\ req'[b].stale => OnRow(req'[b])
                      /\ OnRow(req'[b]) /\ ~req'[b].stale =>
                           req'[b].was = table'[req'[b].id] /\ table'[req'[b].id].status = "row"
                      /\ req'[b].op = "enable" => req'[b].was.validated
    BY DEF Current, OnRow
  <2>1. CASE b = a
    BY <1>11, <2>1 DEF NoRequest, OnRow
  <2>2. CASE b # a
    <3>1. req[b].id \in Ids
      BY <1>2 DEF TypeOK, Request
    <3>2. OnRow(req'[b]) <=> OnRow(req[b])
      BY <1>11, <2>2 DEF OnRow
    <3> QED
      BY <1>2, <1>8, <1>11, <2>2, <3>1, <3>2 DEF Current
  <2> QED
    BY <2>1, <2>2
<1>16. AllChecked'
  <2> SUFFICES ASSUME NEW j \in Rows' \ raced', table'[j].enabled \/ table'[j].validated
               PROVE  table'[j].conf \in passed'[j]
    BY DEF AllChecked, Checked
  <2>1. CASE j # i
    BY <1>2, <1>8, <1>9, <1>12, <1>13, <2>1 DEF AllChecked, Checked
  <2>2. CASE j = i
    <3>1. table'[j] = row /\ row.status = "row" /\ i \in Ids
      BY <1>8, <1>9, <2>2
    <3>2. r.op # "create" /\ OnRow(r) /\ i = r.id
      BY <1>4, <1>5, <3>1 DEF row
    <3>3. ~r.stale /\ i \notin raced
      BY <1>1, <2>2
    <3>4. i \in Rows
      BY <1>2, <3>1, <3>2, <3>3 DEF Current, Rows
    <3>5. Checked(i)
      BY <1>2, <3>3, <3>4 DEF AllChecked
    <3>6. \/ row.conf \in passed[i]
          \/ r.op = "preview" /\ pass /\ row.conf = r.was.conf
      BY <3>1, <3>2, <3>3, <3>5, ResultIsChecked DEF row
    <3>7. row.conf \in passed'[i]
      BY <1>1, <1>2, <3>1, <3>6 DEF Passed, TypeOK
    <3> QED
      BY <2>2, <3>1, <3>7
  <2> QED
    BY <2>1, <2>2
<1>17. Polled'
  BY <1>1, <1>2 DEF Polled
<1> QED
  BY <1>14, <1>15, <1>16, <1>17 DEF IInv

-----------------------------------------------------------------------------
(* The scheduler *)

\* Reading the table may seed it if it is empty; what is read has no two keys that fold to one.
LEMMA LoadStep ==
  ASSUME IInv, NEW failed \in BOOLEAN, Load(failed), UNCHANGED <<requests, raced>>,
         jobs' \subseteq Config, \A C \in loaded' : C \subseteq Config, Polled'
  PROVE  IInv'
<1>1. TypeOK /\ Current /\ AllChecked
  BY DEF IInv
<1>2. faults' \in 0..MaxFaults
  <2>1. faults \in 0..MaxFaults /\ MaxFaults \in Nat
    BY <1>1, RegistryConstants DEF TypeOK
  <2>2. faults' = faults + (IF failed THEN 1 ELSE 0) /\ (failed => faults < MaxFaults)
    BY DEF Load
  <2>3. CASE failed
    BY <2>1, <2>2, <2>3
  <2>4. CASE ~failed
    BY <2>1, <2>2, <2>4
  <2> QED
    BY <2>3, <2>4
<1>3. passed' = [j \in Ids |-> IF table'[j] # table[j] THEN {Seed} ELSE passed[j]]
  BY DEF Load
<1>4. passed' \in [Ids -> SUBSET Config]
  BY <1>1, <1>3, SeedType DEF TypeOK
<1>5. CASE table' = table
  <2>1. passed' = passed
    BY <1>1, <1>3, <1>5 DEF TypeOK
  <2>2. TypeOK'
    BY <1>1, <1>2, <1>4, <1>5 DEF TypeOK, requests, Rows
  <2>3. Current' /\ AllChecked'
    BY <1>1, <1>5, <2>1 DEF Current, OnRow, AllChecked, Checked, Rows, requests
  <2> QED
    BY <2>2, <2>3 DEF IInv
<1>6. CASE table' # table
  <2> DEFINE i == First(Unused)
             row == [NoRow EXCEPT !.status = "row", !.enabled = TRUE]
  <2>1. Rows = {} /\ table' = [table EXCEPT ![i] = row]
    BY <1>6 DEF Load, Seeded
  <2>2. row \in Row /\ row.conf = Seed
    <3>1. TRUE \in BOOLEAN
      OBVIOUS
    <3> QED
      BY <3>1, SeedType DEF NoRow, Row
  <2> HIDE DEF i, row
  <2>3. /\ table' \in [Ids -> Row] /\ \A j \in Ids \ {i} : table'[j] = table[j]
        /\ i \in Ids => table'[i] = row
    BY <1>1, <2>1, <2>2 DEF TypeOK
  <2>4. \A j \in Rows' : j = i /\ j \in Ids
    BY <2>1, <2>3 DEF Rows
  <2>5. TypeOK'
    BY <1>1, <1>2, <1>4, <2>3, <2>4 DEF TypeOK, requests
  <2>6. \A a \in Requests : OnRow(req[a]) => req[a].stale
    <3>1. \A a \in Requests : req[a].id \in Ids
      BY <1>1 DEF TypeOK, Request
    <3> QED
      BY <1>1, <2>1, <3>1 DEF Current, Rows
  <2>7. Current'
    BY <1>1, <2>6 DEF Current, requests, OnRow
  <2>8. AllChecked'
    <3> SUFFICES ASSUME NEW j \in Rows' PROVE Checked(j)'
      BY DEF AllChecked
    <3>1. i \in Ids /\ j = i
      BY <2>4
    <3>2. table'[i] # table[i]
      <4>1. table[i] # row
        BY <2>1, <3>1 DEF row, Rows, NoRow
      <4> QED
        BY <2>3, <3>1, <4>1
    <3>3. passed'[i] = {Seed} /\ table'[i].conf = Seed
      BY <1>3, <2>2, <2>3, <3>1, <3>2
    <3> QED
      BY <3>1, <3>3 DEF Checked
  <2> QED
    BY <2>5, <2>7, <2>8 DEF IInv
<1> QED
  BY <1>5, <1>6

LEMMA LoadedIsValid ==
  ASSUME IInv, NEW failed \in BOOLEAN, Load(failed)
  PROVE  LoadedConfig(failed) \subseteq Config /\ Valid(LoadedConfig(failed))
<1>1. {Seed} \subseteq Config /\ Valid({Seed})
  BY SeedType DEF Valid
<1>2. ASSUME NEW t \in [Ids -> Row]
      PROVE  Runtime(t) \subseteq Config /\ Valid(Runtime(t))
  <2>1. Enabled(t) \subseteq Config
    BY RowParts DEF Enabled
  <2> QED
    BY <1>1, <2>1 DEF Runtime
<1>3. Seeded \in [Ids -> Row]
  <2>1. [NoRow EXCEPT !.status = "row", !.enabled = TRUE] \in Row
    <3>1. TRUE \in BOOLEAN
      OBVIOUS
    <3> QED
      BY <3>1, SeedType DEF NoRow, Row
  <2> QED
    BY <2>1 DEF Seeded, IInv, TypeOK
<1> QED
  BY <1>1, <1>2, <1>3 DEF LoadedConfig

LEMMA ReconciledIsWanted == \A want : Reconciled(want) \subseteq want
BY DEF Reconciled, Kept

LEMMA ValidSubset == \A C, D : Valid(C) /\ D \subseteq C => Valid(D)
BY DEF Valid

LEMMA SchedulerStep ==
  ASSUME IInv, Sync \/ Launch \/ Takeover
  PROVE  IInv'
<1>1. TypeOK /\ Polled
  BY DEF IInv
<1>2. CASE Sync
  <2>1. PICK failed \in BOOLEAN : /\ Load(failed) /\ jobs' = Reconciled(LoadedConfig(failed))
                                  /\ UNCHANGED <<requests, loaded, raced>>
    BY <1>2 DEF Sync
  <2>2. LoadedConfig(failed) \subseteq Config /\ Valid(LoadedConfig(failed))
    BY <2>1, LoadedIsValid
  <2>3. jobs' \subseteq LoadedConfig(failed)
    BY <2>1, ReconciledIsWanted
  <2>4. jobs' \subseteq Config /\ Valid(jobs')
    BY <2>2, <2>3, ValidSubset
  <2>5. Polled' /\ \A C \in loaded' : C \subseteq Config
    BY <1>1, <2>1, <2>4 DEF Polled, Valid, TypeOK
  <2> QED
    BY <2>1, <2>4, <2>5, LoadStep
<1>3. CASE Launch
  <2>1. PICK failed \in BOOLEAN : Load(failed) /\ loaded' = {LoadedConfig(failed)}
    BY <1>3 DEF Launch
  <2>2. UNCHANGED <<requests, jobs, raced>>
    BY <1>3 DEF Launch
  <2>3. LoadedConfig(failed) \subseteq Config /\ Valid(LoadedConfig(failed))
    BY <2>1, LoadedIsValid
  <2>4. \A C \in loaded' : C \subseteq Config /\ Valid(C)
    BY <2>1, <2>3
  <2>5. Polled' /\ jobs' \subseteq Config
    BY <1>1, <2>2, <2>4 DEF Polled, Valid, TypeOK
  <2> QED
    BY <2>1, <2>2, <2>4, <2>5, LoadStep
<1>4. CASE Takeover
  <2>1. jobs' \in loaded /\ loaded' = {} /\ UNCHANGED <<table, requests, faults, passed, raced>>
    BY <1>4 DEF Takeover
  <2>2. Polled'
    BY <1>1, <2>1 DEF Polled, Valid
  <2>3. TypeOK'
    BY <1>1, <2>1 DEF TypeOK, requests, Rows
  <2>4. Current' /\ AllChecked'
    BY <2>1 DEF IInv, Current, OnRow, AllChecked, Checked, Rows, requests
  <2> QED
    BY <2>2, <2>3, <2>4 DEF IInv
<1> QED
  BY <1>2, <1>3, <1>4

-----------------------------------------------------------------------------
(* Theorems *)

LEMMA StepIInv == IInv /\ [Next]_vars => IInv'
<1> SUFFICES ASSUME IInv, [Next]_vars PROVE IInv'
  OBVIOUS
<1>1. ASSUME NEW a \in Requests, Ask(a) \/ Commit(a) \/ Fail(a)
      PROVE  IInv'
  BY <1>1, AskStep, CommitStep, FailStep
<1>2. CASE UNCHANGED vars
  BY <1>2 DEF IInv, TypeOK, Current, OnRow, AllChecked, Checked, Rows, Polled, Valid, vars, requests
<1> QED
  BY <1>1, <1>2, SchedulerStep DEF Next

\* The strengthening of the properties of the registry holds throughout.
THEOREM Invariance == Spec => []IInv
<1>1. Init => IInv
  BY InitIInv
<1>2. IInv /\ [Next]_vars => IInv'
  BY StepIInv
<1> QED
  BY <1>1, <1>2, PTL DEF Spec

\* The variables keep their types, and no two sources in the table have one key.
THEOREM TypeCorrect == Spec => []TypeOK
<1>1. IInv => TypeOK
  BY DEF IInv
<1> QED
  BY <1>1, Invariance, PTL

\* change_source_state(), preview_admin_source(): what is enabled passed a preview as it is,
\* unless two requests on the source overlapped.
THEOREM EnabledRight == Spec => []EnabledWasPreviewed
<1>1. IInv => EnabledWasPreviewed
  BY DEF IInv, AllChecked, Checked, EnabledWasPreviewed, Previewed
<1> QED
  BY <1>1, Invariance, PTL

\* validate_enabled_sources(): no file is polled under two names, whatever the table enables
\* and whichever instance of the scheduler read it.
THEOREM FilesOnce == Spec => []NoFileTwice
<1>1. IInv => NoFileTwice
  BY DEF IInv, Polled, NoFileTwice
<1> QED
  BY <1>1, Invariance, PTL

=============================================================================
