------------------------- MODULE SourceIngestionProofs -------------------------
(***************************************************************************)
(* Proofs about SourceIngestion for any number of workers, versions, alerts *)
(* and faults.                                                              *)
(*                                                                         *)
(* Until a lock connection breaks, whoever is past the lock has it.  So     *)
(* what a run has read of the cursor and the alerts is what they are when   *)
(* it commits, and each commit keeps them true of the postings and polls.   *)
(***************************************************************************)
EXTENDS SourceIngestion, TLAPS

\* A run that counts on the lock has it.
Holding == \A r \in Runners : pc[r] \in Locked => lock = r

\* What the transaction that applies a batch has read is what the rows are.
ReadIsCurrent ==
  \A r \in Runners : pc[r] = "applying" => mine[r].was.cursor = state.cursor /\ mine[r].open = alert

Open == {c \in Categories : alert[c] # 0}

Sound == Holding /\ ReadIsCurrent /\ state.cursor = content.ver /\ Open = trouble

IInv == TypeOK /\ (broken \/ Sound)

-----------------------------------------------------------------------------
(* Types *)

LEMMA RowTypes ==
  ASSUME NEW s \in State
  PROVE  /\ [s EXCEPT !.exists = TRUE] \in State
         /\ [s EXCEPT !.age = 0, !.failures = 0] \in State
         /\ [s EXCEPT !.failures = IF @ < AlertAfter THEN @ + 1 ELSE @] \in State
         /\ [s EXCEPT !.age = Older(@)] \in State
<1> USE IngestionConstants
<1>1. s.failures \in 0..AlertAfter /\ s.age \in Null..(StaleAfter + 1)
  BY DEF State
<1>2. (IF s.failures < AlertAfter THEN s.failures + 1 ELSE s.failures) \in 0..AlertAfter
  BY <1>1
<1>3. Older(s.age) \in Null..(StaleAfter + 1) /\ 0 \in Null..(StaleAfter + 1) /\ 0 \in 0..AlertAfter
  BY <1>1 DEF Older, Null
<1> QED
  BY <1>2, <1>3 DEF State

LEMMA NewRowType ==
  ASSUME TypeOK
  PROVE  NewRow \in 1..MaxAlerts /\ NewRow \in 0..MaxAlerts
BY IngestionConstants DEF NewRow, TypeOK

LEMMA NothingType == Nothing \in Local /\ NoAlert \in [Categories -> 0..MaxAlerts]
                     /\ NoAlert \in [Categories -> 0..2] /\ NoFile \in File
<1> USE IngestionConstants
<1>1. NoFile \in File
  BY DEF NoFile, File
<1>2. NoAlert \in [Categories -> 0..MaxAlerts] /\ NoAlert \in [Categories -> 0..2]
  BY DEF NoAlert
<1>3. Nothing \in Local
  <2>1. 0 \in 0..MaxVersions /\ 0 \in 0..AlertAfter
    OBVIOUS
  <2> QED
    BY <1>1, <1>2, <2>1 DEF Nothing, Local
<1> QED
  BY <1>1, <1>2, <1>3

LEMMA InitIInv == Init => IInv
<1> USE IngestionConstants
<1> SUFFICES ASSUME Init PROVE IInv
  OBVIOUS
<1>1. state \in State
  <2>1. NoState \in State
    BY DEF NoState, State, Null
  <2> QED
    BY <2>1 DEF Init
<1>2. file \in File /\ content \in File
  BY NothingType DEF Init, File
<1>3. TypeOK
  <2>1. mine \in [Runners -> Local] /\ alert \in [Categories -> 0..MaxAlerts] /\ notices \in [Categories -> 0..2]
    BY NothingType DEF Init
  <2>2. broken \in BOOLEAN
    BY DEF Init
  <2>3. pc \in [Runners -> Places] /\ \A r \in Runners : pc[r] \notin Recorded
    BY DEF Init, Places, Recorded
  <2>4. alerts \in 0..MaxAlerts /\ faults \in 0..MaxFaults /\ quiet \in 0..(StaleAfter + 1)
    BY DEF Init
  <2> QED
    BY <1>1, <1>2, <2>1, <2>2, <2>3, <2>4 DEF Init, TypeOK
<1>4. Sound
  BY DEF Init, Sound, Holding, ReadIsCurrent, Open, Locked, Places, NoState, NoFile, NoAlert
<1> QED
  BY <1>3, <1>4 DEF IInv

-----------------------------------------------------------------------------
(* What the actions on the rows do to the types *)

LEMMA TroubleType ==
  ASSUME TypeOK, NEW S, S \subseteq Categories, Trouble(S)
  PROVE  trouble' \subseteq Categories /\ notices' \in [Categories -> 0..2]
BY DEF Trouble, TypeOK

LEMMA StartType ==
  ASSUME TypeOK, NEW r \in Runners, RecordStart(r)
  PROVE  state' \in State /\ state'.exists /\ state'.cursor = state.cursor
<1>1. state \in State
  BY DEF TypeOK
<1>2. state' = [state EXCEPT !.exists = TRUE]
  BY DEF RecordStart, Created
<1>3. state'.exists
  BY <1>1, <1>2 DEF State
<1>4. state'.cursor = state.cursor
  BY <1>1, <1>2 DEF State
<1> QED
  BY <1>1, <1>2, <1>3, <1>4, RowTypes

LEMMA FailedType ==
  ASSUME TypeOK, NEW r \in Runners
  PROVE  Failed(r) \in State /\ Failed(r).cursor = state.cursor /\ Failed(r).exists = state.exists
<1>1. state \in State
  BY DEF TypeOK
<1>2. Failed(r) = [state EXCEPT !.failures = IF @ < AlertAfter THEN @ + 1 ELSE @]
  BY DEF Failed
<1>3. Failed(r).cursor = state.cursor /\ Failed(r).exists = state.exists
  BY <1>1, <1>2 DEF State
<1> QED
  BY <1>1, <1>2, <1>3, RowTypes

\* A step of a run moves that run alone.
LEMMA Moved ==
  ASSUME TypeOK, NEW r \in Runners, NEW place \in Places, Goto(r, place)
  PROVE  /\ pc' \in [Runners -> Places] /\ pc'[r] = place
         /\ \A s \in Runners \ {r} : pc'[s] = pc[s]
BY DEF Goto, TypeOK

LEMMA EndsType ==
  ASSUME TypeOK, NEW r \in Runners, Ends(r)
  PROVE  /\ pc' \in [Runners -> Places] /\ mine' \in [Runners -> Local] /\ pc'[r] = "done"
         /\ \A s \in Runners \ {r} : pc'[s] = pc[s] /\ mine'[s] = mine[s]
<1>1. "done" \in Places
  BY DEF Places
<1>2. pc' \in [Runners -> Places] /\ pc'[r] = "done" /\ \A s \in Runners \ {r} : pc'[s] = pc[s]
  BY <1>1, Moved DEF Ends
<1>3. mine' \in [Runners -> Local] /\ \A s \in Runners \ {r} : mine'[s] = mine[s]
  BY NothingType DEF Ends, TypeOK
<1> QED
  BY <1>2, <1>3

\* The end of a run leaves the places of the others, whose rows stay.
LEMMA ExistsStays ==
  ASSUME TypeOK, NEW r \in Runners, pc' \in [Runners -> Places],
         \A s \in Runners \ {r} : pc'[s] = pc[s],
         pc'[r] \in Recorded => state'.exists,
         state.exists => state'.exists
  PROVE  \A s \in Runners : pc'[s] \in Recorded => state'.exists
BY DEF TypeOK

-----------------------------------------------------------------------------
(* Steps *)

\* While no connection has broken, a run at work is the only one.
LEMMA Alone ==
  ASSUME IInv, ~broken, NEW r \in Runners, pc[r] \in Locked
  PROVE  lock = r /\ \A s \in Runners \ {r} : pc[s] \notin Locked
BY DEF IInv, Sound, Holding

LEMMA BeginStep ==
  ASSUME IInv, NEW r \in Runners, Begin(r)
  PROVE  IInv'
<1>1. TypeOK /\ "fetching" \in Places /\ "fetching" \notin Recorded
  BY DEF IInv, Places, Recorded
<1>2. /\ pc' \in [Runners -> Places] /\ pc'[r] = "fetching"
      /\ \A s \in Runners \ {r} : pc'[s] = pc[s]
  BY <1>1, Moved DEF Begin
<1>3. UNCHANGED <<polled, told, faults, broken>> /\ lock' = r
  BY DEF Begin
<1>4. mine' \in [Runners -> Local]
  <2>1. [Nothing EXCEPT !.cursor = state.cursor] \in Local
    <3>1. state.cursor \in 0..MaxVersions
      BY <1>1 DEF TypeOK, State
    <3> QED
      BY <3>1, NothingType DEF Local
  <2> QED
    BY <1>1, <2>1 DEF Begin, TypeOK
<1>5. TypeOK'
  BY <1>1, <1>2, <1>3, <1>4, ExistsStays DEF TypeOK, polled
<1>6. ASSUME ~broken
      PROVE  Sound'
  <2>1. lock = "none" /\ \A s \in Runners : pc[s] \notin Locked
    BY <1>6, IngestionConstants DEF IInv, Sound, Holding, Begin, LockIsFree
  <2>2. Holding'
    BY <1>2, <1>3, <2>1 DEF Holding
  <2>3. ReadIsCurrent'
    BY <1>2, <2>1 DEF ReadIsCurrent, Locked, Places
  <2> QED
    BY <1>3, <1>6, <2>2, <2>3 DEF IInv, Sound, Open, polled
<1> QED
  BY <1>3, <1>5, <1>6 DEF IInv

\* A run that finds the lock taken touches none of what the other works on.
LEMMA SkipStep ==
  ASSUME IInv, NEW r \in Runners, Skip(r) \/ SkipEnds(r)
  PROVE  IInv'
<1>1. TypeOK
  BY DEF IInv
<1>2. PICK place \in {"skipping", "idle"} : Goto(r, place)
  BY DEF Skip, SkipEnds
<1>3. /\ pc' \in [Runners -> Places] /\ pc'[r] = place
      /\ \A s \in Runners \ {r} : pc'[s] = pc[s]
  BY <1>1, <1>2, Moved DEF Places
<1>4. UNCHANGED <<content, file, alert, alerts, trouble, notices, quiet, told, lock, mine, faults, broken>>
  BY DEF Skip, SkipEnds, RecordStart, polled
<1>5. /\ state' \in State /\ state'.cursor = state.cursor
      /\ (place \in Recorded => state'.exists) /\ (state.exists => state'.exists)
  <2>1. CASE Skip(r)
    BY <1>1, <2>1, StartType DEF Skip
  <2>2. CASE SkipEnds(r)
    <3>1. state' = state /\ place = "idle"
      BY <1>1, <1>2, <1>3, <2>2, Moved DEF SkipEnds, polled, Places
    <3> QED
      BY <1>1, <3>1 DEF TypeOK, Recorded
  <2> QED
    BY <2>1, <2>2
<1>6. TypeOK'
  BY <1>1, <1>3, <1>4, <1>5, ExistsStays DEF TypeOK
<1>7. ASSUME ~broken
      PROVE  Sound'
  <2>1. Holding' /\ ReadIsCurrent'
    BY <1>3, <1>4, <1>5, <1>7 DEF IInv, Sound, Holding, ReadIsCurrent, Locked
  <2> QED
    BY <1>4, <1>5, <1>7, <2>1 DEF IInv, Sound, Open
<1> QED
  BY <1>4, <1>6, <1>7 DEF IInv

\* A run at work goes on to another place and keeps the lock; it writes nothing that others read.
LEMMA WorkStep ==
  ASSUME IInv, NEW r \in Runners, NEW place \in Locked, pc[r] \in Locked, Goto(r, place),
         UNCHANGED <<content, file, alert, alerts, trouble, notices, quiet, told, lock, broken>>,
         mine' \in [Runners -> Local], \A s \in Runners \ {r} : mine'[s] = mine[s],
         faults' \in 0..MaxFaults,
         state' \in State, state'.cursor = state.cursor,
         place \in Recorded => state'.exists, state.exists => state'.exists,
         place = "applying" => mine'[r].was.cursor = state.cursor /\ mine'[r].open = alert
  PROVE  IInv'
<1>1. TypeOK
  BY DEF IInv
<1>2. /\ pc' \in [Runners -> Places] /\ pc'[r] = place
      /\ \A s \in Runners \ {r} : pc'[s] = pc[s]
  BY <1>1, Moved DEF Locked
<1>3. TypeOK'
  BY <1>1, <1>2, ExistsStays DEF TypeOK
<1>4. ASSUME ~broken
      PROVE  Sound'
  <2>1. Holding'
    BY <1>2, <1>4 DEF IInv, Sound, Holding
  <2>2. ReadIsCurrent'
    BY <1>2, <1>4 DEF IInv, Sound, ReadIsCurrent
  <2> QED
    BY <1>4, <2>1, <2>2 DEF IInv, Sound, Open
<1> QED
  BY <1>3, <1>4 DEF IInv

\* A run at work ends and leaves the rows as they should be; the others have not begun, unless
\* a connection broke.
LEMMA FinishStep ==
  ASSUME IInv, NEW r \in Runners, pc[r] \in Locked, Ends(r),
         UNCHANGED <<file, told, lock, faults, broken>>,
         content' \in File, alert' \in [Categories -> 0..MaxAlerts], alerts' \in 0..MaxAlerts,
         trouble' \subseteq Categories, notices' \in [Categories -> 0..2],
         quiet' \in 0..(StaleAfter + 1),
         state' \in State, state.exists => state'.exists,
         ~broken => state'.cursor = content'.ver /\ Open' = trouble'
  PROVE  IInv'
<1>1. TypeOK
  BY DEF IInv
<1>2. /\ pc' \in [Runners -> Places] /\ mine' \in [Runners -> Local] /\ pc'[r] = "done"
      /\ \A s \in Runners \ {r} : pc'[s] = pc[s] /\ mine'[s] = mine[s]
  BY <1>1, EndsType
<1>3. TypeOK'
  <2>1. "done" \notin Recorded
    BY DEF Recorded
  <2> QED
    BY <1>1, <1>2, <2>1, ExistsStays DEF TypeOK
<1>4. ASSUME ~broken
      PROVE  Sound'
  <2>1. lock = r /\ \A s \in Runners \ {r} : pc[s] \notin Locked
    BY <1>4, Alone
  <2>2. Holding' /\ ReadIsCurrent'
    BY <1>2, <2>1 DEF Holding, ReadIsCurrent, Locked, Places
  <2> QED
    BY <1>4, <2>2 DEF Sound
<1> QED
  BY <1>3, <1>4 DEF IInv

LEMMA FetchStep ==
  ASSUME IInv, NEW r \in Runners, Fetch(r)
  PROVE  IInv'
<1>1. TypeOK /\ pc[r] \in Locked
  BY DEF IInv, Fetch, Locked, Places
<1>2. PICK place \in {"unchanged", "fetched", "failed"} : Goto(r, place)
  BY DEF Fetch
<1>3. mine' \in [Runners -> Local] /\ \A s \in Runners \ {r} : mine'[s] = mine[s]
  <2>1. mine[r] \in Local /\ file \in File
    BY <1>1 DEF TypeOK
  <2>2. [mine[r] EXCEPT !.batch = file] \in Local
    BY <2>1 DEF Local
  <2>3. /\ [Nothing EXCEPT !.error = "other"] \in Local
        /\ [Nothing EXCEPT !.error = "table"] \in Local
    BY NothingType DEF Local
  <2>4. mine' \in {mine, [mine EXCEPT ![r].batch = file],
                   [mine EXCEPT ![r] = [Nothing EXCEPT !.error = "other"]],
                   [mine EXCEPT ![r] = [Nothing EXCEPT !.error = "table"]]}
    BY DEF Fetch
  <2> QED
    BY <1>1, <2>2, <2>3, <2>4 DEF TypeOK
<1>4. UNCHANGED <<polled, told, lock, faults, broken>>
  BY DEF Fetch
<1>5. place \in Locked /\ place # "applying" /\ place \notin Recorded
  BY <1>2 DEF Locked, Places, Recorded
<1>6. state' = state /\ state \in State /\ faults' \in 0..MaxFaults
  BY <1>1, <1>4 DEF polled, TypeOK
<1>7. UNCHANGED <<content, file, alert, alerts, trouble, notices, quiet, told, lock, broken>>
  BY <1>4 DEF polled
<1> QED
  BY <1>1, <1>2, <1>3, <1>5, <1>6, <1>7, WorkStep

LEMMA StartStep ==
  ASSUME IInv, NEW r \in Runners, Start(r)
  PROVE  IInv'
<1>1. TypeOK /\ pc[r] \in Locked
  BY DEF IInv, Start, Locked, Places
<1>2. PICK place \in {"started", "failing"} : Goto(r, place)
  BY DEF Start
<1>3. place \in Locked /\ place # "applying"
  BY <1>2 DEF Locked, Places
<1>4. RecordStart(r)
  BY DEF Start
<1>5. state' \in State /\ state'.exists /\ state'.cursor = state.cursor
  BY <1>1, <1>4, StartType
<1>6. /\ UNCHANGED <<content, file, alert, alerts, trouble, notices, quiet, told, lock, broken>>
      /\ mine' = mine /\ faults' = faults
  BY <1>4 DEF RecordStart
<1>7. mine' \in [Runners -> Local] /\ faults' \in 0..MaxFaults
  BY <1>1, <1>6 DEF TypeOK
<1> QED
  BY <1>1, <1>2, <1>3, <1>5, <1>6, <1>7, WorkStep

LEMMA ReadStep ==
  ASSUME IInv, NEW r \in Runners, Read(r)
  PROVE  IInv'
<1>1. TypeOK /\ pc[r] \in Locked /\ "applying" \in Locked /\ Goto(r, "applying")
  BY DEF IInv, Read, Locked, Places
<1>2. UNCHANGED <<polled, told, lock, faults, broken>>
  BY DEF Read
<1>3. mine[r] \in Local /\ state \in State /\ alert \in [Categories -> 0..MaxAlerts]
  BY <1>1 DEF TypeOK
<1> DEFINE was == [cursor |-> state.cursor, failures |-> state.failures]
<1>4. was \in [cursor : 0..MaxVersions, failures : 0..AlertAfter]
  BY <1>3 DEF State
<1>5. /\ mine' \in [Runners -> Local] /\ \A s \in Runners \ {r} : mine'[s] = mine[s]
      /\ mine'[r].was = was /\ mine'[r].open = alert
  <2>1. mine' = [mine EXCEPT ![r] = [mine[r] EXCEPT !.was = was, !.open = alert]]
    BY <1>1 DEF Read, TypeOK
  <2>2. [mine[r] EXCEPT !.was = was, !.open = alert] \in Local
    BY <1>3, <1>4 DEF Local
  <2>3. /\ [mine[r] EXCEPT !.was = was, !.open = alert].was = was
        /\ [mine[r] EXCEPT !.was = was, !.open = alert].open = alert
    BY <1>3 DEF Local
  <2> HIDE DEF was
  <2> QED
    BY <1>1, <2>1, <2>2, <2>3 DEF TypeOK
<1>6. state.exists
  BY <1>1 DEF TypeOK, Recorded, Read
<1>7. mine'[r].was.cursor = state.cursor
  BY <1>5
<1>8. /\ UNCHANGED <<content, file, alert, alerts, trouble, notices, quiet, told, lock, broken>>
      /\ state' = state /\ faults' \in 0..MaxFaults
  BY <1>1, <1>2 DEF polled, TypeOK
<1> HIDE DEF was
<1> QED
  BY <1>1, <1>3, <1>5, <1>6, <1>7, <1>8, WorkStep

LEMMA FailsStep ==
  ASSUME IInv, NEW r \in Runners, Fails(r)
  PROVE  IInv'
<1>1. TypeOK /\ pc[r] \in Locked
  BY DEF IInv, Fails, Locked, Places
<1>2. PICK place \in {"failing", "failed"} :
        Goto(r, place) /\ (place = "failing" => pc[r] \in {"started", "applying"})
  <2>1. CASE pc[r] \in {"started", "applying"}
    BY <2>1 DEF Fails
  <2>2. CASE pc[r] \notin {"started", "applying"}
    BY <2>2 DEF Fails
  <2> QED
    BY <2>1, <2>2
<1>3. place \in Locked /\ place # "applying" /\ (place \in Recorded => pc[r] \in Recorded)
  BY <1>2 DEF Locked, Places, Recorded
<1>4. /\ UNCHANGED <<content, file, alert, alerts, trouble, notices, quiet, told, lock, broken>>
      /\ state' = state
  BY DEF Fails, polled
<1>5. mine' \in [Runners -> Local] /\ \A s \in Runners \ {r} : mine'[s] = mine[s]
  <2>1. [mine[r] EXCEPT !.error = "other"] \in Local
    BY <1>1 DEF TypeOK, Local
  <2> QED
    BY <1>1, <2>1 DEF Fails, TypeOK
<1>6. faults' \in 0..MaxFaults
  <2>1. faults \in 0..MaxFaults /\ MaxFaults \in Nat
    BY <1>1, IngestionConstants DEF TypeOK
  <2>2. faults' = faults \/ (faults < MaxFaults /\ faults' = faults + 1)
    BY DEF Fails
  <2> QED
    BY <2>1, <2>2
<1>7. state' \in State /\ (place \in Recorded => state'.exists)
  BY <1>1, <1>3, <1>4 DEF TypeOK
<1> QED
  BY <1>1, <1>2, <1>3, <1>4, <1>5, <1>6, <1>7, WorkStep

-----------------------------------------------------------------------------
(* The ends of a poll *)

LEMMA UnchangedStep ==
  ASSUME IInv, NEW r \in Runners, Unchanged(r)
  PROVE  IInv'
<1>1. TypeOK /\ pc[r] \in Locked /\ Ends(r)
  BY DEF IInv, Unchanged, Locked, Places
<1>2. UNCHANGED <<file, content, alerts, told, lock, faults, broken>>
  BY DEF Unchanged
<1>3. Trouble({}) /\ quiet' = 0
  BY DEF Unchanged
<1>4. trouble' = {} /\ trouble' \subseteq Categories /\ notices' \in [Categories -> 0..2]
  BY <1>1, <1>3, TroubleType DEF Trouble
<1>5. /\ state' \in State /\ state'.cursor = state.cursor /\ state'.exists = state.exists
      /\ alert' = NoAlert
  <2>1. CASE NeedsTouch
    <3>1. state' = [state EXCEPT !.age = 0, !.failures = 0] /\ alert' = NoAlert
      BY <2>1 DEF Unchanged
    <3>2. state \in State
      BY <1>1 DEF TypeOK
    <3>3. state'.cursor = state.cursor /\ state'.exists = state.exists
      BY <3>1, <3>2 DEF State
    <3> QED
      BY <3>1, <3>2, <3>3, RowTypes
  <2>2. CASE ~NeedsTouch
    <3>1. state' = state /\ alert' = alert
      BY <2>2 DEF Unchanged
    <3>2. alert = NoAlert
      BY <2>2 DEF NeedsTouch
    <3> QED
      BY <1>1, <3>1, <3>2 DEF TypeOK
  <2> QED
    BY <2>1, <2>2
<1>6. Open' = {}
  BY <1>5 DEF Open, NoAlert
<1>7. content' \in File /\ alerts' \in 0..MaxAlerts /\ alert' \in [Categories -> 0..MaxAlerts]
  BY <1>1, <1>2, <1>5, NothingType DEF TypeOK
<1>8. quiet' \in 0..(StaleAfter + 1)
  BY <1>3, IngestionConstants
<1>9. ~broken => state'.cursor = content'.ver
  BY <1>2, <1>5 DEF IInv, Sound
<1> QED
  BY <1>1, <1>2, <1>4, <1>5, <1>6, <1>7, <1>8, <1>9, FinishStep

LEMMA IssuesType == \A r \in Runners : Issues(r) \subseteq Categories
BY DEF Issues, Categories

LEMMA ApplyStep ==
  ASSUME IInv, NEW r \in Runners, Apply(r)
  PROVE  IInv'
<1>1. TypeOK /\ pc[r] = "applying" /\ pc[r] \in Locked /\ Ends(r)
  BY DEF IInv, Apply, Locked, Places
<1>2. UNCHANGED <<file, told, lock, faults, broken>>
  BY DEF Apply
<1>3. Trouble(Issues(r)) /\ quiet' = 0 /\ content' = mine[r].batch
  BY DEF Apply
<1>4. trouble' = Issues(r) /\ trouble' \subseteq Categories /\ notices' \in [Categories -> 0..2]
  BY <1>1, <1>3, TroubleType, IssuesType DEF Trouble
<1>5. mine[r].batch \in File /\ state \in State
  BY <1>1 DEF TypeOK, Local
<1>6. /\ state'.exists
      /\ state'.cursor = IF mine[r].batch.ver # mine[r].was.cursor THEN mine[r].batch.ver ELSE state.cursor
  BY DEF Apply
<1>7. state' \in State
  <2>1. /\ (IF mine[r].batch.ver # mine[r].was.cursor THEN mine[r].batch.ver ELSE state.cursor) \in 0..MaxVersions
        /\ (IF mine[r].was.failures # 0 THEN 0 ELSE state.failures) \in 0..AlertAfter
    BY <1>5, IngestionConstants DEF State, File
  <2>2. 0 \in Null..(StaleAfter + 1)
    BY IngestionConstants DEF Null
  <2> QED
    BY <2>1, <2>2 DEF Apply, State
<1>8. /\ alert' = [c \in Categories |->
           IF c \in Issues(r) THEN NewRow ELSE IF alert[c] = mine[r].open[c] THEN 0 ELSE alert[c]]
      /\ alerts' = IF Issues(r) = {} THEN alerts ELSE NewRow
  BY DEF Apply
<1>9. alert' \in [Categories -> 0..MaxAlerts] /\ alerts' \in 0..MaxAlerts
  <2>1. \A c \in Categories : (IF c \in Issues(r) THEN NewRow
           ELSE IF alert[c] = mine[r].open[c] THEN 0 ELSE alert[c]) \in 0..MaxAlerts
    BY <1>1, NewRowType, IngestionConstants DEF TypeOK
  <2> QED
    BY <1>1, <1>8, <2>1, NewRowType DEF TypeOK
<1>10. ~broken => state'.cursor = content'.ver /\ Open' = trouble'
  <2> SUFFICES ASSUME ~broken PROVE state'.cursor = content'.ver /\ Open' = trouble'
    OBVIOUS
  <2>1. mine[r].was.cursor = state.cursor /\ mine[r].open = alert
    BY <1>1 DEF IInv, Sound, ReadIsCurrent
  <2>2. state'.cursor = content'.ver
    BY <1>3, <1>6, <2>1
  <2>3. \A c \in Categories : alert'[c] = IF c \in Issues(r) THEN NewRow ELSE 0
    BY <1>8, <2>1
  <2>4. NewRow # 0
    BY <1>1, NewRowType
  <2>5. Open' = Issues(r)
    BY <2>3, <2>4, IssuesType DEF Open
  <2> QED
    BY <1>4, <2>2, <2>5
<1>11. quiet' \in 0..(StaleAfter + 1)
  BY <1>3, IngestionConstants
<1> QED
  BY <1>1, <1>2, <1>3, <1>4, <1>5, <1>6, <1>7, <1>9, <1>10, <1>11, FinishStep

LEMMA RecordFailureStep ==
  ASSUME IInv, NEW r \in Runners, RecordFailure(r)
  PROVE  IInv'
<1>1. TypeOK /\ pc[r] \in Locked /\ Ends(r)
  BY DEF IInv, RecordFailure, Locked, Places
<1>2. UNCHANGED <<file, content, quiet, told, lock, faults, broken>>
  BY DEF RecordFailure
<1>3. FailureCategory(r) \subseteq Categories /\ Raised(r) = FailureCategory(r) \ Open
  BY DEF FailureCategory, Categories, Raised, Open
<1>4. /\ trouble' = trouble \cup FailureCategory(r)
      /\ trouble' \subseteq Categories /\ notices' \in [Categories -> 0..2]
  <2>1. trouble \cup FailureCategory(r) \subseteq Categories
    BY <1>1, <1>3 DEF TypeOK
  <2>2. Trouble(trouble \cup FailureCategory(r))
    BY DEF RecordFailure
  <2>3. trouble' = trouble \cup FailureCategory(r)
    BY <2>2 DEF Trouble
  <2> QED
    BY <1>1, <2>1, <2>2, <2>3, TroubleType
<1>5. state' \in State /\ state'.cursor = state.cursor /\ state'.exists = state.exists
  BY <1>1, FailedType DEF RecordFailure
<1>6. /\ alert' = [c \in Categories |-> IF c \in Raised(r) THEN NewRow ELSE alert[c]]
      /\ alerts' = IF Raised(r) = {} THEN alerts ELSE NewRow
  BY DEF RecordFailure
<1>7. alert' \in [Categories -> 0..MaxAlerts] /\ alerts' \in 0..MaxAlerts
  <2>1. \A c \in Categories : (IF c \in Raised(r) THEN NewRow ELSE alert[c]) \in 0..MaxAlerts
    BY <1>1, NewRowType DEF TypeOK
  <2> QED
    BY <1>1, <1>6, <2>1, NewRowType DEF TypeOK
<1>8. Open' = Open \cup FailureCategory(r)
  <2>1. \A c \in Categories : alert'[c] = IF c \in Raised(r) THEN NewRow ELSE alert[c]
    BY <1>6
  <2>2. NewRow # 0
    BY <1>1, NewRowType
  <2>3. Open' = {c \in Categories : alert'[c] # 0}
    BY DEF Open
  <2>4. \A c \in Categories : alert'[c] # 0 <=> c \in Raised(r) \/ alert[c] # 0
    BY <2>1, <2>2
  <2> QED
    BY <1>3, <2>3, <2>4 DEF Open
<1>9. ~broken => state'.cursor = content'.ver /\ Open' = trouble'
  BY <1>2, <1>4, <1>5, <1>8 DEF IInv, Sound
<1>10. content' \in File /\ quiet' \in 0..(StaleAfter + 1)
  BY <1>1, <1>2 DEF TypeOK
<1> QED
  BY <1>1, <1>2, <1>4, <1>5, <1>7, <1>9, <1>10, FinishStep

-----------------------------------------------------------------------------
(* What happens besides *)

LEMMA EndStep ==
  ASSUME IInv, NEW r \in Runners, End(r) \/ Dies(r)
  PROVE  IInv'
<1>1. TypeOK /\ Goto(r, "idle") /\ "idle" \in Places /\ "idle" \notin Recorded /\ "idle" \notin Locked
  BY DEF IInv, End, Dies, Places, Recorded, Locked
<1>2. /\ pc' \in [Runners -> Places] /\ pc'[r] = "idle"
      /\ \A s \in Runners \ {r} : pc'[s] = pc[s]
  BY <1>1, Moved
<1>3. UNCHANGED <<polled, told, broken>> /\ lock' = Freed(r)
  BY DEF End, Dies, Released
<1>4. faults' \in 0..MaxFaults
  <2>1. faults \in 0..MaxFaults /\ MaxFaults \in Nat
    BY <1>1, IngestionConstants DEF TypeOK
  <2>2. faults' = faults \/ (faults < MaxFaults /\ faults' = faults + 1)
    BY DEF End, Dies
  <2> QED
    BY <2>1, <2>2
<1>5. mine' \in [Runners -> Local] /\ \A s \in Runners \ {r} : mine'[s] = mine[s]
  <2>1. mine' = mine \/ mine' = [mine EXCEPT ![r] = Nothing]
    BY DEF End, Dies
  <2> QED
    BY <1>1, <2>1, NothingType DEF TypeOK
<1>6. TypeOK'
  <2>1. lock' \in Runners \cup {"none"}
    BY <1>1, <1>3 DEF TypeOK, Freed
  <2> QED
    BY <1>1, <1>2, <1>3, <1>4, <1>5, <2>1, ExistsStays DEF TypeOK, polled
<1>7. ASSUME ~broken
      PROVE  Sound'
  <2>1. Holding'
    <3> SUFFICES ASSUME NEW s \in Runners, pc'[s] \in Locked PROVE lock' = s
      BY DEF Holding
    <3>1. s # r /\ pc[s] \in Locked
      BY <1>1, <1>2
    <3> QED
      BY <1>3, <1>7, <3>1 DEF IInv, Sound, Holding, Freed
  <2>2. ReadIsCurrent'
    BY <1>2, <1>3, <1>5, <1>7 DEF IInv, Sound, ReadIsCurrent, polled
  <2> QED
    BY <1>3, <1>7, <2>1, <2>2 DEF IInv, Sound, Open, polled
<1> QED
  BY <1>3, <1>6, <1>7 DEF IInv

LEMMA LoseLockStep ==
  ASSUME IInv, NEW r \in Runners, LoseLock(r)
  PROVE  IInv'
<1>1. TypeOK /\ broken' /\ UNCHANGED <<polled, told, pc, mine>> /\ lock' = "none"
  BY DEF IInv, LoseLock
<1>2. faults' \in 0..MaxFaults
  BY <1>1, IngestionConstants DEF TypeOK, LoseLock
<1>3. broken' \in BOOLEAN
  BY DEF LoseLock
<1>4. TypeOK'
  BY <1>1, <1>2, <1>3 DEF TypeOK, polled
<1> QED
  BY <1>1, <1>4 DEF IInv

LEMMA EditStep == IInv /\ Edit => IInv'
<1> SUFFICES ASSUME IInv, Edit PROVE IInv'
  OBVIOUS
<1>1. TypeOK /\ UNCHANGED <<content, state, alert, alerts, trouble, notices, quiet, told, lock, pc,
                 mine, faults, broken>>
  BY DEF IInv, Edit
<1>2. file' \in File
  <2>1. PICK k \in Kinds : file' = [ver |-> file.ver + 1, kind |-> k]
    BY DEF Edit
  <2>2. file.ver + 1 \in 0..MaxVersions
    BY <1>1, IngestionConstants DEF TypeOK, File, Edit
  <2> QED
    BY <2>1, <2>2 DEF File
<1>3. TypeOK'
  BY <1>1, <1>2 DEF TypeOK
<1> QED
  BY <1>1, <1>3 DEF IInv, Sound, Holding, ReadIsCurrent, Open

LEMMA PlanNoticesStep == IInv /\ PlanNotices => IInv'
<1> SUFFICES ASSUME IInv, PlanNotices PROVE IInv'
  OBVIOUS
<1>1. TypeOK /\ UNCHANGED <<file, content, state, alert, alerts, trouble, quiet, lock, pc, mine,
                 faults, broken>>
  BY DEF IInv, PlanNotices
<1> DEFINE new == {c \in Categories : alert[c] # 0 /\ alert[c] \notin told}
<1>2. told' \subseteq 1..MaxAlerts
  <2>1. told' = told \cup {alert[c] : c \in new}
    BY DEF PlanNotices
  <2>2. \A c \in new : alert[c] \in 1..MaxAlerts
    BY <1>1, IngestionConstants DEF TypeOK
  <2> HIDE DEF new
  <2> QED
    BY <1>1, <2>1, <2>2 DEF TypeOK
<1>3. notices' \in [Categories -> 0..2]
  <2>1. notices' = [c \in Categories |->
          IF c \in new THEN IF notices[c] < 2 THEN notices[c] + 1 ELSE 2 ELSE notices[c]]
    BY DEF PlanNotices
  <2>2. \A c \in Categories : (IF c \in new THEN IF notices[c] < 2 THEN notices[c] + 1 ELSE 2
                               ELSE notices[c]) \in 0..2
    BY <1>1 DEF TypeOK
  <2> HIDE DEF new
  <2> QED
    BY <2>1, <2>2
<1>4. TypeOK'
  BY <1>1, <1>2, <1>3 DEF TypeOK
<1> QED
  BY <1>1, <1>4 DEF IInv, Sound, Holding, ReadIsCurrent, Open

LEMMA TickStep == IInv /\ Tick => IInv'
<1> SUFFICES ASSUME IInv, Tick PROVE IInv'
  OBVIOUS
<1>1. TypeOK /\ UNCHANGED <<file, content, alert, alerts, trouble, notices, told, lock, pc, mine,
                 faults, broken>>
  BY DEF IInv, Tick
<1>2. /\ state' \in State /\ state'.cursor = state.cursor /\ state'.exists = state.exists
  <2>1. state \in State /\ state' = [state EXCEPT !.age = Older(@)]
    BY <1>1 DEF TypeOK, Tick
  <2>2. state'.cursor = state.cursor /\ state'.exists = state.exists
    BY <2>1 DEF State
  <2> QED
    BY <2>1, <2>2, RowTypes
<1>3. quiet' \in 0..(StaleAfter + 1)
  BY <1>1, IngestionConstants DEF TypeOK, Tick, Older, Null
<1>4. TypeOK'
  BY <1>1, <1>2, <1>3 DEF TypeOK
<1> QED
  BY <1>1, <1>2, <1>4 DEF IInv, Sound, Holding, ReadIsCurrent, Open

-----------------------------------------------------------------------------
(* How old the success of a source is *)

\* An unchanged poll that writes nothing leaves a success younger than TouchAfter, any other
\* successful poll one of now, and from then on both age together.
Young == state.age <= quiet + TouchAfter - 1

LEMMA YoungStep == TypeOK /\ Young /\ [Next]_vars => Young'
<1> SUFFICES ASSUME TypeOK, Young, [Next]_vars PROVE Young'
  OBVIOUS
<1> USE IngestionConstants
<1>1. /\ state \in State /\ state.age \in Null..(StaleAfter + 1) /\ quiet \in 0..(StaleAfter + 1)
      /\ TouchAfter \in Nat \ {0}
  BY DEF TypeOK, State
<1>2. ASSUME state'.age = state.age, quiet' = quiet
      PROVE  Young'
  BY <1>2 DEF Young
<1>3. ASSUME state'.age = 0, quiet' = 0
      PROVE  Young'
  BY <1>1, <1>3 DEF Young
<1>4. ASSUME NEW r \in Runners, Unchanged(r)
      PROVE  Young'
  <2>1. CASE NeedsTouch
    <3>1. state' = [state EXCEPT !.age = 0, !.failures = 0] /\ quiet' = 0
      BY <1>4, <2>1 DEF Unchanged
    <3> QED
      BY <1>1, <1>3, <3>1 DEF State
  <2>2. CASE ~NeedsTouch
    <3>1. state' = state /\ quiet' = 0 /\ state.age < TouchAfter
      BY <1>1, <1>4, <2>2 DEF Unchanged, NeedsTouch
    <3> QED
      BY <1>1, <3>1 DEF Young
  <2> QED
    BY <2>1, <2>2
<1>5. ASSUME NEW r \in Runners, Apply(r)
      PROVE  Young'
  <2>1. state'.age = 0 /\ quiet' = 0
    BY <1>5 DEF Apply
  <2> QED
    BY <1>3, <2>1
<1>6. ASSUME NEW r \in Runners, RecordFailure(r)
      PROVE  Young'
  <2>1. state' = [state EXCEPT !.failures = IF @ < AlertAfter THEN @ + 1 ELSE @] /\ quiet' = quiet
    BY <1>6 DEF RecordFailure, Failed
  <2> QED
    BY <1>1, <1>2, <2>1 DEF State
<1>7. ASSUME NEW r \in Runners, Skip(r) \/ Start(r)
      PROVE  Young'
  <2>1. state' = [state EXCEPT !.exists = TRUE] /\ quiet' = quiet
    BY <1>7 DEF Skip, Start, RecordStart, Created
  <2> QED
    BY <1>1, <1>2, <2>1 DEF State
<1>8. ASSUME NEW r \in Runners,
             Begin(r) \/ SkipEnds(r) \/ Fetch(r) \/ Read(r) \/ Fails(r) \/ End(r) \/ Dies(r) \/ LoseLock(r)
      PROVE  Young'
  <2>1. UNCHANGED <<state, quiet>>
    BY <1>8 DEF Begin, SkipEnds, Fetch, Read, Fails, End, Dies, LoseLock, polled
  <2> QED
    BY <1>2, <2>1
<1>9. CASE Tick
  <2>1. state'.age = Older(state.age) /\ quiet' = Older(quiet)
    <3>1. state' = [state EXCEPT !.age = Older(@)] /\ quiet' = Older(quiet)
      BY <1>9 DEF Tick
    <3> QED
      BY <1>1, <3>1 DEF State
  <2> QED
    BY <1>1, <2>1 DEF Young, Older, Null
<1>10. CASE Edit \/ PlanNotices \/ UNCHANGED vars
  <2>1. UNCHANGED <<state, quiet>>
    BY <1>10 DEF Edit, PlanNotices, vars, polled
  <2> QED
    BY <1>2, <2>1
<1> QED
  BY <1>4, <1>5, <1>6, <1>7, <1>8, <1>9, <1>10 DEF Next, Step

-----------------------------------------------------------------------------
(* Theorems *)

LEMMA StepIInv == IInv /\ [Next]_vars => IInv'
<1> SUFFICES ASSUME IInv, [Next]_vars PROVE IInv'
  OBVIOUS
<1>1. ASSUME NEW r \in Runners, Begin(r) \/ Step(r) \/ Dies(r) \/ LoseLock(r)
      PROVE  IInv'
  BY <1>1, BeginStep, SkipStep, FetchStep, StartStep, UnchangedStep, ReadStep, ApplyStep,
     FailsStep, RecordFailureStep, EndStep, LoseLockStep DEF Step
<1>2. CASE UNCHANGED vars
  BY <1>2 DEF IInv, TypeOK, Sound, Holding, ReadIsCurrent, Open, vars, polled
<1> QED
  BY <1>1, <1>2, EditStep, PlanNoticesStep, TickStep DEF Next

\* The strengthening of OneRunAtATime, CursorIsApplied and AlertsAreCurrent holds throughout.
THEOREM Invariance == Spec => []IInv
<1>1. Init => IInv
  BY InitIInv
<1>2. IInv /\ [Next]_vars => IInv'
  BY StepIInv
<1> QED
  BY <1>1, <1>2, PTL DEF Spec

\* Every variable of the ingestion of a source keeps the shape the code gives it.
THEOREM TypeCorrect == Spec => []TypeOK
<1>1. IInv => TypeOK
  BY DEF IInv
<1> QED
  BY <1>1, Invariance, PTL

\* run(): however many workers and administrators poll a source, one works on it at a time
\* unless the connection of its lock breaks.
THEOREM OneRun == Spec => []OneRunAtATime
<1>1. IInv => OneRunAtATime
  BY DEF IInv, Sound, Holding, OneRunAtATime
<1> QED
  BY <1>1, Invariance, PTL

\* _persist_batch(), _record_failure(): the stored cursor is that of the version the
\* postings were made from, through every failure, crash and retry.
THEOREM CursorRight == Spec => []CursorIsApplied
<1>1. IInv => CursorIsApplied
  BY DEF IInv, Sound, CursorIsApplied
<1> QED
  BY <1>1, Invariance, PTL

\* _resolve_alerts(), _upsert_alert(): the open alerts are what the polls found wrong since
\* one last was clean.
THEOREM AlertsRight == Spec => []AlertsAreCurrent
<1>1. IInv => AlertsAreCurrent
  BY DEF IInv, Sound, Open, AlertsAreCurrent
<1> QED
  BY <1>1, Invariance, PTL

\* _record_unchanged_success(): that an unchanged file is rarely written does not make a source
\* look stale that is polled with success.  Unlike the others this does not depend on the lock.
THEOREM FreshnessRight == Spec => []FreshWhilePolled
<1>1. Init => Young
  BY IngestionConstants DEF Init, Young, NoState, Null
<1>2. TypeOK /\ Young => FreshWhilePolled
  BY IngestionConstants DEF TypeOK, State, Young, FreshWhilePolled, Null
<1> QED
  BY <1>1, <1>2, YoungStep, TypeCorrect, PTL DEF Spec

=============================================================================
