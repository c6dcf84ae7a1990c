-------------------------- MODULE DeliveryOutboxProofs --------------------------
(***************************************************************************)
(* Proofs about DeliveryOutbox for any number of deliveries, dispatchers,   *)
(* attempts, planner passes and faults.                                     *)
(*                                                                         *)
(* While leases outlast the work done under them, a delivery in somebody's  *)
(* hands is in the hands of one dispatcher, and its row is one that no      *)
(* claim selects: being sent under a fresh lease, or settled by the user    *)
(* or the planner.  A copy that is in excess of the faults is the one of an *)
(* attempt whose success is about to be recorded or settled long ago.       *)
(***************************************************************************)
EXTENDS DeliveryOutbox, FiniteSetTheorems, TLAPS

Unheld(d) == \A v \in Dispatchers : d \notin Held(v)

\* A dispatcher between two groups has none in hand, and an answer goes with a group.
Shapes ==
  \A v \in Dispatchers :
    /\ disp[v].pc = "idle" => disp[v].left = {}
    /\ disp[v].pc # "answered" => disp[v].group = {}
    /\ disp[v].pc = "answered" => disp[v].outcome # "none"
    /\ disp[v].left \cap disp[v].group = {}

\* A success, recorded or about to be, is of a message that was delivered.
Delivered ==
  /\ \A d \in Deliveries : row[d].status = "sent" => Copies(d) > 0
  /\ \A v \in Dispatchers : disp[v].outcome = "sent" => \A d \in disp[v].group : Copies(d) > 0

OneHolder == \A u, v \in Dispatchers : u # v => Held(u) \cap Held(v) = {}

\* What may have become of the row of a delivery that is held.
HeldRow(r) ==
  /\ r.status \notin {"none", "pending", "failed", "sent"}
  /\ r.status = "sending" => r.lock = "fresh"
HeldRows == \A v \in Dispatchers : \A d \in Held(v) : HeldRow(row[d])

\* The planner adds rows that nobody has ever sent.
AddsAreNew ==
  /\ \A d \in planner.adds : row[d].status \in {"none", "gone"} /\ Unheld(d) /\ Copies(d) = 0
  /\ \A d \in Deliveries : row[d].status = "none" => Copies(d) = 0

\* The latest attempt at d succeeded, or there will be none.
Spent(d) ==
  IF Unheld(d) THEN ~Unsettled(row[d])
  ELSE \E v \in Dispatchers : d \in disp[v].group /\ disp[v].outcome = "sent"

Paid == \A d \in Deliveries : Copies(d) <= faults + (IF Spent(d) THEN 1 ELSE 0)

Exclusive == OneHolder /\ HeldRows /\ AddsAreNew /\ Paid

IInv == TypeOK /\ Shapes /\ Delivered /\ (overran \/ Exclusive)

-----------------------------------------------------------------------------
(* Rows *)

LEMMA RowTypes ==
  ASSUME NEW r \in Row
  PROVE  /\ \A status \in {"failed", "sent", "cancelled", "rejected", "gone"} : Ended(r, status) \in Row
         /\ \A group : Retried(r, group) \in Row
         /\ \A due \in BOOLEAN : [NoRow EXCEPT !.status = "pending", !.due = due] \in Row
         /\ \A due \in BOOLEAN : [r EXCEPT !.due = due, !.batch = {}] \in Row
         /\ [r EXCEPT !.due = TRUE] \in Row
         /\ [r EXCEPT !.lock = "expired"] \in Row
         /\ Claimable(r) => MarkClaimed(r) \in Row
<1> USE OutboxConstants
<1>1. FALSE \in BOOLEAN /\ TRUE \in BOOLEAN /\ {} \in SUBSET Emails /\ 0 \in 0..MaxAttempts
  OBVIOUS
<1>2. ASSUME NEW status \in {"failed", "sent", "cancelled", "rejected", "gone"}
      PROVE  Ended(r, status) \in Row
  BY <1>1, <1>2 DEF Ended, Row
<1>3. ASSUME NEW group PROVE Retried(r, group) \in Row
  <2>1. Ended(r, "failed") \in Row /\ group \cap Emails \in SUBSET Emails
    BY <1>2
  <2> QED
    BY <2>1 DEF Retried, Row
<1>4. NoRow \in Row
  BY <1>1 DEF NoRow, Row
<1>5. ASSUME NEW due \in BOOLEAN
      PROVE  /\ [NoRow EXCEPT !.status = "pending", !.due = due] \in Row
             /\ [r EXCEPT !.due = due, !.batch = {}] \in Row
  BY <1>1, <1>4, <1>5 DEF Row
<1>6. [r EXCEPT !.due = TRUE] \in Row
  BY <1>1 DEF Row
<1>7. [r EXCEPT !.lock = "expired"] \in Row
  BY DEF Row
<1>8. Claimable(r) => MarkClaimed(r) \in Row
  <2>1. Claimable(r) => r.attempts + 1 \in 0..MaxAttempts
    BY DEF Claimable, Row
  <2> QED
    BY <1>1, <2>1 DEF MarkClaimed, Row
<1> QED
  BY <1>2, <1>3, <1>5, <1>6, <1>7, <1>8

LEMMA EndedStatus ==
  ASSUME NEW r \in Row, NEW status
  PROVE  /\ Ended(r, status).status = status
         /\ \A group : Retried(r, group).status = "failed"
         /\ \A due : [NoRow EXCEPT !.status = "pending", !.due = due].status = "pending"
         /\ \A due : [r EXCEPT !.due = due, !.batch = {}].status = r.status
         /\ [r EXCEPT !.due = TRUE].status = r.status
         /\ [r EXCEPT !.lock = "expired"].status = r.status
         /\ MarkClaimed(r).status = "sending" /\ MarkClaimed(r).lock = "fresh"
BY DEF Ended, Retried, NoRow, MarkClaimed, Row

LEMMA RecordedRow ==
  ASSUME NEW r \in Row, NEW group, NEW outcome \in {"sent", "transient", "rejected", "ineligible"}
  PROVE  /\ Recorded(outcome, group, r) \in Row
         /\ r.status = "gone" => Recorded(outcome, group, r) = r
         /\ r.status # "gone" =>
              /\ Recorded(outcome, group, r).status \in {"sent", "rejected", "cancelled", "failed"}
              /\ Recorded(outcome, group, r).status = "sent" <=> outcome = "sent"
              /\ outcome = "sent" => ~Unsettled(Recorded(outcome, group, r))
<1> DEFINE R == Recorded(outcome, group, r)
<1>1. r.status = "gone" => R = r
  BY DEF Recorded
<1>2. r.status # "gone" /\ outcome = "sent" => R = Ended(r, "sent")
  BY DEF Recorded
<1>3. r.status # "gone" /\ outcome = "rejected" => R = Ended(r, "rejected")
  BY DEF Recorded
<1>4. r.status # "gone" /\ outcome = "ineligible" => R = Ended(r, "cancelled")
  BY DEF Recorded
<1>5. r.status # "gone" /\ outcome = "transient" => R = Ended(r, "cancelled") \/ R = Retried(r, group)
  BY DEF Recorded
<1> HIDE DEF R
<1>6. R \in Row
  BY <1>1, <1>2, <1>3, <1>4, <1>5, RowTypes
<1>7. r.status # "gone" =>
        /\ R.status \in {"sent", "rejected", "cancelled", "failed"}
        /\ (R.status = "sent") <=> (outcome = "sent")
  BY <1>2, <1>3, <1>4, <1>5, EndedStatus
<1>8. r.status # "gone" /\ outcome = "sent" => ~Unsettled(R)
  BY <1>2, EndedStatus DEF Unsettled
<1> QED
  BY <1>1, <1>6, <1>7, <1>8 DEF R

LEMMA WithoutEmailRows ==
  ASSUME NEW rows \in [Deliveries -> Row]
  PROVE  /\ WithoutEmail(rows) \in [Deliveries -> Row]
         /\ \A d \in Deliveries : \/ WithoutEmail(rows)[d] = rows[d]
                                  \/ Unsettled(rows[d]) /\ WithoutEmail(rows)[d].status = "cancelled"
<1>2. ASSUME NEW d \in Deliveries
      PROVE  \/ WithoutEmail(rows)[d] = rows[d]
             \/ Unsettled(rows[d]) /\ WithoutEmail(rows)[d] = Ended(rows[d], "cancelled")
  <2>1. CASE d \in Emails /\ Unsettled(rows[d])
    BY <2>1 DEF WithoutEmail
  <2>2. CASE ~(d \in Emails /\ Unsettled(rows[d]))
    BY <2>2 DEF WithoutEmail
  <2> QED
    BY <2>1, <2>2
<1>4. \A d \in Deliveries : rows[d] \in Row /\ Ended(rows[d], "cancelled") \in Row
  BY RowTypes
<1>6. WithoutEmail(rows) \in [Deliveries -> Row]
  BY <1>4 DEF WithoutEmail
<1>7. \A d \in Deliveries : Ended(rows[d], "cancelled").status = "cancelled"
  BY EndedStatus
<1> QED
  BY <1>2, <1>6, <1>7

-----------------------------------------------------------------------------
(* Copies *)

LEMMA DigestsOf ==
  ASSUME TypeOK, NEW d \in Deliveries
  PROVE  IsFiniteSet({g \in digests : d \in g}) /\ Copies(d) \in Nat
<1>1. IsFiniteSet(SUBSET Emails)
  BY OutboxConstants, FS_Subset, FS_SUBSET DEF Deliveries
<1>2. {g \in digests : d \in g} \in SUBSET SUBSET Emails
  BY DEF TypeOK
<1>3. IsFiniteSet({g \in digests : d \in g})
  BY <1>1, <1>2, FS_Subset
<1>4. CASE d \in Emails
  BY <1>3, <1>4, FS_CardinalityType DEF Copies
<1>5. CASE d \in Telegrams
  <2>1. d \notin Emails
    BY <1>5, OutboxConstants
  <2> QED
    BY <1>3, <1>5, <2>1 DEF Copies, TypeOK
<1> QED
  BY <1>3, <1>4, <1>5 DEF Deliveries

LEMMA CopiesNat == TypeOK => \A d \in Deliveries : Copies(d) \in Nat
BY DigestsOf

\* A message that a provider accepts reaches each delivery of its group at most once more.
LEMMA Accepted ==
  ASSUME TypeOK, NEW group \in SUBSET Deliveries, group # {},
         group \subseteq Emails \/ group \subseteq Telegrams, Accept(group)
  PROVE  /\ digests' \subseteq SUBSET Emails /\ told' \in [Telegrams -> Nat]
         /\ \A d \in Deliveries \ group : Copies(d)' = Copies(d)
         /\ \A d \in group : Copies(d)' > 0 /\ Copies(d)' <= Copies(d) + 1 /\ Copies(d)' >= Copies(d)
<1>1. CASE group \subseteq Emails
  <2>1. digests' = digests \cup {group} /\ told' = told
    BY <1>1 DEF Accept
  <2>2. digests' \subseteq SUBSET Emails /\ told' \in [Telegrams -> Nat]
    BY <1>1, <2>1 DEF TypeOK
  <2>3. ASSUME NEW d \in Deliveries \ group PROVE Copies(d)' = Copies(d)
    <3>1. {g \in digests' : d \in g} = {g \in digests : d \in g}
      BY <2>1
    <3> QED
      BY <2>1, <3>1 DEF Copies
  <2>4. ASSUME NEW d \in group
        PROVE  Copies(d)' > 0 /\ Copies(d)' <= Copies(d) + 1 /\ Copies(d)' >= Copies(d)
    <3> DEFINE D == {g \in digests : d \in g}
    <3>1. {g \in digests' : d \in g} = D \cup {group}
      BY <2>1
    <3>2. IsFiniteSet(D) /\ Copies(d) = Cardinality(D) /\ Cardinality(D) \in Nat
      BY <1>1, DigestsOf, FS_CardinalityType DEF Copies
    <3>3. Copies(d)' = Cardinality(D \cup {group})
      BY <1>1, <3>1 DEF Copies
    <3> HIDE DEF D
    <3>4. Copies(d)' = IF group \in D THEN Cardinality(D) ELSE Cardinality(D) + 1
      BY <3>2, <3>3, FS_AddElement
    <3>5. group \in D => Cardinality(D) # 0
      BY <3>2, FS_EmptySet
    <3> QED
      BY <3>2, <3>4, <3>5
  <2> QED
    BY <2>2, <2>3, <2>4
<1>2. CASE group \subseteq Telegrams
  <2>1. group \cap Emails = {} /\ ~(group \subseteq Emails)
    BY <1>2, OutboxConstants
  <2>2. told' = [d \in Telegrams |-> IF d \in group THEN told[d] + 1 ELSE told[d]] /\ digests' = digests
    BY <2>1 DEF Accept
  <2>3. digests' \subseteq SUBSET Emails /\ told' \in [Telegrams -> Nat]
    BY <2>2 DEF TypeOK
  <2>4. ASSUME NEW d \in Deliveries \ group PROVE Copies(d)' = Copies(d)
    BY <2>2 DEF Copies, Deliveries
  <2>5. ASSUME NEW d \in group
        PROVE  Copies(d)' > 0 /\ Copies(d)' <= Copies(d) + 1 /\ Copies(d)' >= Copies(d)
    <3>1. d \in Telegrams /\ d \notin Emails
      BY <1>2, <2>1
    <3> QED
      BY <2>2, <3>1 DEF Copies, TypeOK
  <2> QED
    BY <2>3, <2>4, <2>5
<1> QED
  BY <1>1, <1>2

LEMMA InitIInv == Init => IInv
<1> USE OutboxConstants
<1> SUFFICES ASSUME Init PROVE IInv
  OBVIOUS
<1>1. NoRow \in Row
  <2>1. FALSE \in BOOLEAN /\ 0 \in 0..MaxAttempts /\ {} \in SUBSET Emails
    OBVIOUS
  <2> QED
    BY <2>1 DEF NoRow, Row
<1>2. TypeOK
  <2>1. row \in [Deliveries -> Row]
    BY <1>1 DEF Init
  <2>2. wants \in [telegram : BOOLEAN, email : BOOLEAN]
    <3>1. TRUE \in BOOLEAN
      OBVIOUS
    <3> QED
      BY <3>1 DEF Init
  <2>3. suppressed \in BOOLEAN /\ overran \in BOOLEAN
    BY DEF Init
  <2>4. disp \in [Dispatchers -> Sender]
    BY DEF Init, Idle, Sender
  <2>5. told \in [Telegrams -> Nat] /\ digests \subseteq SUBSET Emails
    BY DEF Init
  <2>6. plans \in 0..MaxPlans /\ faults \in 0..MaxFaults /\ live \subseteq Deliveries
    BY DEF Init
  <2>7. planner \in [adds : SUBSET Deliveries, cancels : SUBSET Deliveries, moves : SUBSET Deliveries]
    BY DEF Init, NoPlan
  <2> QED
    BY <2>1, <2>2, <2>3, <2>4, <2>5, <2>6, <2>7 DEF TypeOK
<1>3. \A v \in Dispatchers : Held(v) = {} /\ disp[v] = Idle
  BY DEF Init, Held, Idle
<1>4. Shapes
  BY <1>3 DEF Shapes, Idle
<1>5. \A d \in Deliveries : Copies(d) = 0
  BY FS_EmptySet DEF Init, Copies, Deliveries
<1>6. \A d \in Deliveries : row[d].status = "none" /\ Unheld(d)
  BY <1>3 DEF Init, NoRow, Unheld
<1>7. Delivered
  BY <1>3, <1>6 DEF Delivered, Idle
<1>8. OneHolder /\ HeldRows
  BY <1>3 DEF OneHolder, HeldRows
<1>9. AddsAreNew /\ Paid
  BY <1>5, <1>6 DEF AddsAreNew, Paid, Init, NoPlan
<1> QED
  BY <1>2, <1>4, <1>7, <1>8, <1>9 DEF IInv, Exclusive

-----------------------------------------------------------------------------
(* Steps of the planner, the user and time: they write rows, and hold none *)

\* What such a step may do to the row of d while leases are long enough.
Tame(d) ==
  \/ row'[d] = row[d]
  \/ row'[d].status \in {"cancelled", "gone"}
  \/ row'[d].status = row[d].status /\ (Queued(row[d]) \/ Unheld(d))
  \/ Queued(row'[d]) /\ Unheld(d) /\ Copies(d) = 0

NewTo(plan) ==
  \A d \in plan.adds : row'[d].status \in {"none", "gone"} /\ Unheld(d) /\ Copies(d) = 0

LEMMA RowStep ==
  ASSUME IInv, UNCHANGED <<disp, told, digests, faults>>,
         row' \in [Deliveries -> Row], wants' \in [telegram : BOOLEAN, email : BOOLEAN],
         suppressed' \in BOOLEAN, live' \subseteq Deliveries,
         planner' \in [adds : SUBSET Deliveries, cancels : SUBSET Deliveries,
                       moves : SUBSET Deliveries],
         plans' \in 0..MaxPlans, overran' \in BOOLEAN, overran => overran',
         \A d \in Deliveries : row'[d].status = "sent" => row[d].status = "sent",
         ~overran' => NewTo(planner') /\ \A d \in Deliveries : Tame(d)
  PROVE  IInv'
<1>1. TypeOK'
  BY DEF IInv, TypeOK
<1>2. \A d \in Deliveries : Copies(d)' = Copies(d) /\ Unheld(d)' = Unheld(d)
  BY DEF Copies, Unheld, Held
<1>3. Shapes'
  BY DEF IInv, Shapes
<1>4. Delivered'
  BY <1>2 DEF IInv, Delivered, TypeOK, Sender
<1>5. ASSUME ~overran'
      PROVE  Exclusive'
  <2>1. ~overran /\ Exclusive /\ NewTo(planner') /\ \A d \in Deliveries : Tame(d)
    BY <1>5 DEF IInv
  <2>2. OneHolder'
    BY <2>1 DEF Exclusive, OneHolder, Held
  <2>3. \A v \in Dispatchers : Held(v) \subseteq Deliveries
    BY DEF IInv, TypeOK, Sender, Held
  <2>4. \A d \in Deliveries : Queued(row[d]) => Unheld(d)
    BY <2>1, <2>3 DEF Exclusive, HeldRows, HeldRow, Queued, Unheld
  <2>5. HeldRows'
    <3> SUFFICES ASSUME NEW v \in Dispatchers, NEW d \in Held(v)' PROVE HeldRow(row[d])'
      BY DEF HeldRows
    <3>1. d \in Held(v) /\ d \in Deliveries /\ ~Unheld(d)
      BY <2>3 DEF Held, Unheld
    <3>2. HeldRow(row[d])
      BY <2>1, <3>1 DEF Exclusive, HeldRows
    <3>3. row'[d] = row[d] \/ row'[d].status \in {"cancelled", "gone"}
      BY <2>1, <2>4, <3>1 DEF Tame
    <3> QED
      BY <3>2, <3>3 DEF HeldRow
  <2>6. AddsAreNew'
    <3>1. \A d \in planner'.adds : row'[d].status \in {"none", "gone"} /\ Unheld(d)' /\ Copies(d)' = 0
      BY <1>2, <2>1 DEF NewTo
    <3>2. \A d \in Deliveries : row'[d].status = "none" => row[d].status = "none"
      BY <2>1 DEF Tame, Queued
    <3> QED
      BY <1>2, <2>1, <3>1, <3>2 DEF Exclusive, AddsAreNew
  <2>7. Paid'
    <3> SUFFICES ASSUME NEW d \in Deliveries
                 PROVE  Copies(d)' <= faults' + (IF Spent(d)' THEN 1 ELSE 0)
      BY DEF Paid
    <3>a. Copies(d) <= faults + (IF Spent(d) THEN 1 ELSE 0)
      BY <2>1 DEF Exclusive, Paid
    <3>b. Copies(d) \in Nat
      BY DigestsOf DEF IInv
    <3>c. faults \in Nat /\ faults' = faults
      BY OutboxConstants DEF IInv, TypeOK
    <3>2. CASE Copies(d) = 0
      BY <1>2, <3>a, <3>b, <3>c, <3>2
    <3>3. CASE ~Unheld(d)
      <4>1. Spent(d)' = Spent(d)
        BY <1>2, <3>3 DEF Spent
      <4> QED
        BY <1>2, <3>a, <3>b, <3>c, <4>1
    <3>4. CASE Unheld(d) /\ Copies(d) # 0
      <4>1. Spent(d) => Spent(d)'
        BY <1>2, <2>1, <3>4 DEF Spent, Tame, Unsettled, Queued
      <4> QED
        BY <1>2, <3>a, <3>b, <3>c, <4>1
    <3> QED
      BY <3>2, <3>3, <3>4
  <2> QED
    BY <2>2, <2>5, <2>6, <2>7 DEF Exclusive
<1> QED
  BY <1>1, <1>3, <1>4, <1>5 DEF IInv

LEMMA PlannedRows ==
  ASSUME NEW rows \in [Deliveries -> Row], NEW due \in BOOLEAN, NEW plan
  PROVE  /\ Planned(plan, due, rows) \in [Deliveries -> Row]
         /\ \A d \in Deliveries :
              LET r == Planned(plan, due, rows)[d] IN
              \/ d \in plan.adds /\ r.status = "pending"
              \/ r.status = "cancelled"
              \/ Queued(rows[d]) /\ r.status = rows[d].status
              \/ r = rows[d]
<1>1. ASSUME NEW d \in Deliveries
      PROVE  /\ Ended(rows[d], "cancelled") \in Row
             /\ [NoRow EXCEPT !.status = "pending", !.due = due] \in Row
             /\ [rows[d] EXCEPT !.due = due, !.batch = {}] \in Row
  BY RowTypes
<1>2. Planned(plan, due, rows) \in [Deliveries -> Row]
  BY <1>1 DEF Planned
<1>3. ASSUME NEW d \in Deliveries
      PROVE  LET r == Planned(plan, due, rows)[d] IN
              \/ d \in plan.adds /\ r.status = "pending"
              \/ r.status = "cancelled"
              \/ Queued(rows[d]) /\ r.status = rows[d].status
              \/ r = rows[d]
  <2>1. CASE d \in plan.adds
    BY <2>1, EndedStatus DEF Planned
  <2>2. CASE d \notin plan.adds /\ d \in plan.cancels
    BY <2>2, EndedStatus DEF Planned
  <2>3. CASE d \notin plan.adds /\ d \notin plan.cancels /\ d \in plan.moves /\ Queued(rows[d])
    BY <2>3, EndedStatus DEF Planned
  <2>4. CASE d \notin plan.adds /\ d \notin plan.cancels /\ ~(d \in plan.moves /\ Queued(rows[d]))
    BY <2>4 DEF Planned
  <2> QED
    BY <2>1, <2>2, <2>3, <2>4
<1> QED
  BY <1>2, <1>3

\* What is not queued when nobody has sent it is not held.
LEMMA NoneIsNew ==
  ASSUME IInv, ~overran, NEW d \in Deliveries, row[d].status = "none"
  PROVE  Unheld(d) /\ Copies(d) = 0
BY DEF IInv, Exclusive, HeldRows, HeldRow, AddsAreNew, Unheld

LEMMA Bounds ==
  ASSUME TypeOK
  PROVE  /\ plans < MaxPlans => plans + 1 \in 0..MaxPlans
         /\ faults < MaxFaults => faults + 1 \in 0..MaxFaults
BY OutboxConstants DEF TypeOK

LEMMA PlanStep ==
  ASSUME IInv, NEW S \in SUBSET Deliveries, Plan(S)
  PROVE  IInv'
<1>1. TypeOK /\ UNCHANGED <<row, wants, suppressed, live, disp, told, digests, faults, overran>>
  BY DEF IInv, Plan
<1>2. planner' = PlanFor(S, {d \in Deliveries : Wanted(d)}, row)
  BY DEF Plan
<1>3. planner' \in [adds : SUBSET Deliveries, cancels : SUBSET Deliveries, moves : SUBSET Deliveries]
  BY <1>2 DEF PlanFor
<1>4. plans' \in 0..MaxPlans
  BY <1>1, Bounds DEF Plan
<1>5. ~overran => NewTo(planner')
  <2>1. \A d \in planner'.adds : d \in Deliveries /\ row[d].status = "none"
    BY <1>2 DEF PlanFor
  <2> QED
    BY <1>1, <2>1, NoneIsNew DEF NewTo
<1>6. \A d \in Deliveries : Tame(d)
  BY <1>1 DEF Tame
<1> QED
  BY <1>1, <1>3, <1>4, <1>5, <1>6, RowStep DEF TypeOK

LEMMA NoPlanType ==
  /\ NoPlan \in [adds : SUBSET Deliveries, cancels : SUBSET Deliveries, moves : SUBSET Deliveries]
  /\ NewTo(NoPlan)
BY DEF NoPlan, NewTo

LEMMA FlushStep == IInv /\ Flush => IInv'
<1> SUFFICES ASSUME IInv, Flush PROVE IInv'
  OBVIOUS
<1>1. /\ TypeOK /\ planner' = NoPlan
      /\ UNCHANGED <<wants, suppressed, live, disp, told, digests, plans, faults, overran>>
  BY DEF IInv, Flush
<1>2. PICK due \in BOOLEAN : row' = Planned(planner, due, row)
  BY DEF Flush
<1>3. /\ row' \in [Deliveries -> Row]
      /\ \A d \in Deliveries :
           \/ d \in planner.adds /\ row'[d].status = "pending"
           \/ row'[d].status = "cancelled"
           \/ Queued(row[d]) /\ row'[d].status = row[d].status
           \/ row'[d] = row[d]
  <2>1. row \in [Deliveries -> Row]
    BY <1>1 DEF TypeOK
  <2> QED
    BY <1>2, <2>1, PlannedRows
<1>4. ~overran => \A d \in Deliveries : Tame(d)
  BY <1>3 DEF IInv, Exclusive, AddsAreNew, Tame, Queued
<1>5. \A d \in Deliveries : row'[d].status = "sent" => row[d].status = "sent"
  BY <1>3
<1> QED
  BY <1>1, <1>3, <1>4, <1>5, NoPlanType, RowStep DEF TypeOK

LEMMA SwitchEmailRows ==
  ASSUME TypeOK, SwitchEmail
  PROVE  /\ row' \in [Deliveries -> Row]
         /\ \A d \in Deliveries :
              \/ row[d].status = "none" /\ row'[d].status = "pending"
              \/ row'[d].status = "cancelled"
              \/ Queued(row[d]) /\ row'[d].status = row[d].status
              \/ row'[d] = row[d]
<1> DEFINE rows == IF wants.email THEN WithoutEmail(row) ELSE row
           on == {d \in Deliveries : IF d \in Emails THEN ~wants.email ELSE wants.telegram}
<1>2. PICK S \in SUBSET Deliveries, due \in BOOLEAN : row' = Planned(PlanFor(S, on, rows), due, rows)
  BY DEF SwitchEmail
<1>3. /\ rows \in [Deliveries -> Row]
      /\ \A d \in Deliveries : rows[d] = row[d] \/ (Unsettled(row[d]) /\ rows[d].status = "cancelled")
  BY WithoutEmailRows DEF TypeOK
<1>4. \A d \in PlanFor(S, on, rows).adds : d \in Deliveries /\ rows[d].status = "none"
  BY DEF PlanFor
<1> HIDE DEF rows, on
<1>5. /\ row' \in [Deliveries -> Row]
      /\ \A d \in Deliveries :
           \/ rows[d].status = "none" /\ row'[d].status = "pending"
           \/ row'[d].status = "cancelled"
           \/ Queued(rows[d]) /\ row'[d].status = rows[d].status
           \/ row'[d] = rows[d]
  BY <1>2, <1>3, <1>4, PlannedRows
<1> QED
  BY <1>3, <1>5 DEF Queued

LEMMA SwitchEmailStep == IInv /\ SwitchEmail => IInv'
<1> SUFFICES ASSUME IInv, SwitchEmail PROVE IInv'
  OBVIOUS
<1>1. /\ TypeOK /\ planner = NoPlan
      /\ UNCHANGED <<suppressed, live, planner, disp, told, digests, faults, overran>>
  BY DEF IInv, SwitchEmail
<1>2. /\ row' \in [Deliveries -> Row]
      /\ \A d \in Deliveries :
           \/ row[d].status = "none" /\ row'[d].status = "pending"
           \/ row'[d].status = "cancelled"
           \/ Queued(row[d]) /\ row'[d].status = row[d].status
           \/ row'[d] = row[d]
  BY <1>1, SwitchEmailRows
<1>3. ~overran => \A d \in Deliveries : Tame(d)
  BY <1>2, NoneIsNew DEF Tame, Queued
<1>4. \A d \in Deliveries : row'[d].status = "sent" => row[d].status = "sent"
  BY <1>2
<1>5. plans' \in 0..MaxPlans
  BY <1>1, Bounds DEF SwitchEmail
<1>6. wants' \in [telegram : BOOLEAN, email : BOOLEAN]
  <2>1. wants' = [wants EXCEPT !.email = ~wants.email]
    BY DEF SwitchEmail
  <2>2. (~wants.email) \in BOOLEAN
    OBVIOUS
  <2> QED
    BY <1>1, <2>1, <2>2 DEF TypeOK
<1> QED
  BY <1>1, <1>2, <1>3, <1>4, <1>5, <1>6, NoPlanType, RowStep DEF TypeOK

LEMMA EmailOffStep == IInv /\ EmailOff => IInv'
<1> SUFFICES ASSUME IInv, EmailOff PROVE IInv'
  OBVIOUS
<1>1. TypeOK /\ UNCHANGED <<live, planner, disp, told, digests, faults, overran>> /\ row' = WithoutEmail(row)
  BY DEF IInv, EmailOff
<1>2. /\ row' \in [Deliveries -> Row]
      /\ \A d \in Deliveries : row'[d] = row[d] \/ (Unsettled(row[d]) /\ row'[d].status = "cancelled")
  BY <1>1, WithoutEmailRows DEF TypeOK
<1>3. \A d \in Deliveries : Tame(d)
  BY <1>2 DEF Tame
<1>4. ~overran => NewTo(planner')
  <2>1. \A d \in planner.adds : d \in Deliveries
    BY <1>1 DEF TypeOK
  <2> QED
    BY <1>1, <1>2, <2>1 DEF IInv, Exclusive, AddsAreNew, NewTo, Unsettled
<1>5. plans' \in 0..MaxPlans
  BY <1>1, Bounds DEF EmailOff
<1>6. suppressed' \in BOOLEAN
  BY <1>1 DEF EmailOff, TypeOK
<1>7. wants' \in [telegram : BOOLEAN, email : BOOLEAN]
  <2>1. wants' = [wants EXCEPT !.email = FALSE] /\ FALSE \in BOOLEAN
    BY DEF EmailOff
  <2> QED
    BY <1>1, <2>1 DEF TypeOK
<1> QED
  BY <1>1, <1>2, <1>3, <1>4, <1>5, <1>6, <1>7, RowStep DEF TypeOK

\* A step that keeps every row keeps what the planner is to add.
LEMMA AddsStay ==
  ASSUME IInv, ~overran, planner' = planner,
         \A d \in Deliveries : row[d].status \in {"none", "gone"} => row'[d].status \in {"none", "gone"}
  PROVE  NewTo(planner')
<1>1. \A d \in planner.adds : d \in Deliveries
  BY DEF IInv, TypeOK
<1> QED
  BY <1>1 DEF IInv, Exclusive, AddsAreNew, NewTo

LEMMA SwitchTelegramStep == IInv /\ SwitchTelegram => IInv'
<1> SUFFICES ASSUME IInv, SwitchTelegram PROVE IInv'
  OBVIOUS
<1>1. TypeOK /\ UNCHANGED <<row, suppressed, live, planner, disp, told, digests, faults, overran>>
  BY DEF IInv, SwitchTelegram
<1>2. wants' \in [telegram : BOOLEAN, email : BOOLEAN]
  <2>1. wants' = [wants EXCEPT !.telegram = ~wants.telegram]
    BY DEF SwitchTelegram
  <2>2. (~wants.telegram) \in BOOLEAN
    OBVIOUS
  <2> QED
    BY <1>1, <2>1, <2>2 DEF TypeOK
<1>3. plans' \in 0..MaxPlans
  BY <1>1, Bounds DEF SwitchTelegram
<1>4. \A d \in Deliveries : Tame(d)
  BY <1>1 DEF Tame
<1>5. ~overran => NewTo(planner')
  BY <1>1, AddsStay
<1> QED
  BY <1>1, <1>2, <1>3, <1>4, <1>5, RowStep DEF TypeOK

LEMMA WithdrawStep ==
  ASSUME IInv, NEW d \in Deliveries, Withdraw(d)
  PROVE  IInv'
<1>1. /\ TypeOK /\ UNCHANGED <<wants, suppressed, planner, disp, told, digests, faults, overran>>
      /\ live' \subseteq Deliveries
  BY DEF IInv, TypeOK, Withdraw
<1>2. /\ row' \in [Deliveries -> Row]
      /\ \A e \in Deliveries : row'[e] = row[e] \/ row'[e].status = "gone"
  <2>1. row' = row \/ row' = [row EXCEPT ![d] = Ended(row[d], "gone")]
    BY DEF Withdraw
  <2>2. row[d] \in Row /\ Ended(row[d], "gone") \in Row /\ Ended(row[d], "gone").status = "gone"
    <3>1. row[d] \in Row
      BY <1>1 DEF TypeOK
    <3>2. Ended(row[d], "gone") \in Row
      BY <3>1, RowTypes
    <3>3. Ended(row[d], "gone").status = "gone"
      BY <3>1, EndedStatus
    <3> QED
      BY <3>1, <3>2, <3>3
  <2> QED
    BY <1>1, <2>1, <2>2 DEF TypeOK
<1>3. plans' \in 0..MaxPlans
  BY <1>1, Bounds DEF Withdraw
<1>4. \A e \in Deliveries : Tame(e)
  BY <1>2 DEF Tame
<1>5. ~overran => NewTo(planner')
  BY <1>1, <1>2, AddsStay
<1> QED
  BY <1>1, <1>2, <1>3, <1>4, <1>5, RowStep DEF TypeOK

LEMMA ComesDueStep ==
  ASSUME IInv, NEW d \in Deliveries, ComesDue(d)
  PROVE  IInv'
<1>1. /\ TypeOK
      /\ UNCHANGED <<wants, suppressed, live, planner, disp, told, digests, plans, faults, overran>>
  BY DEF IInv, ComesDue
<1>2. \A e \in Mates(d) : Queued(row[e])
  <2>1. Queued(row[d])
    BY DEF ComesDue
  <2> QED
    BY <2>1 DEF Mates
<1>3. /\ row' \in [Deliveries -> Row]
      /\ \A e \in Deliveries : row'[e] = row[e] \/ (Queued(row[e]) /\ row'[e].status = row[e].status)
  <2>1. row' = [e \in Deliveries |-> IF e \in Mates(d) THEN [row[e] EXCEPT !.due = TRUE] ELSE row[e]]
    BY DEF ComesDue
  <2>2. \A e \in Deliveries : row[e] \in Row
    BY <1>1 DEF TypeOK
  <2>3. \A e \in Deliveries : [row[e] EXCEPT !.due = TRUE] \in Row
                              /\ [row[e] EXCEPT !.due = TRUE].status = row[e].status
    BY <2>2, RowTypes, EndedStatus
  <2>4. row' \in [Deliveries -> Row]
    BY <2>1, <2>2, <2>3
  <2>5. ASSUME NEW e \in Deliveries
        PROVE  row'[e] = row[e] \/ (Queued(row[e]) /\ row'[e].status = row[e].status)
    BY <1>2, <2>1, <2>3
  <2> QED
    BY <2>4, <2>5
<1>4. \A e \in Deliveries : Tame(e)
  BY <1>3 DEF Tame
<1>5. ~overran => NewTo(planner')
  BY <1>1, <1>3, AddsStay
<1> QED
  BY <1>1, <1>3, <1>4, <1>5, RowStep DEF TypeOK

LEMMA LeaseExpiresStep == IInv /\ LeaseExpires => IInv'
<1> SUFFICES ASSUME IInv, LeaseExpires PROVE IInv'
  OBVIOUS
<1>1. /\ TypeOK
      /\ UNCHANGED <<wants, suppressed, live, planner, disp, told, digests, plans, faults>>
  BY DEF IInv, LeaseExpires
<1>2. PICK S : /\ row' = [d \in Deliveries |->
                     IF d \in S THEN [row[d] EXCEPT !.lock = "expired"] ELSE row[d]]
               /\ \/ overran' = TRUE
                  \/ overran' = overran /\ \A d \in S \cap Deliveries : Unheld(d)
  <2>1. CASE overran' = TRUE
    BY <2>1 DEF LeaseExpires
  <2>2. CASE overran' # TRUE
    BY <2>2 DEF LeaseExpires, Unheld
  <2> QED
    BY <2>1, <2>2
<1>3. /\ row' \in [Deliveries -> Row]
      /\ \A d \in Deliveries : row'[d].status = row[d].status /\ (d \notin S => row'[d] = row[d])
  <2>1. \A d \in Deliveries : row[d] \in Row
    BY <1>1 DEF TypeOK
  <2>2. \A d \in Deliveries : [row[d] EXCEPT !.lock = "expired"] \in Row
                              /\ [row[d] EXCEPT !.lock = "expired"].status = row[d].status
    BY <2>1, RowTypes, EndedStatus
  <2>3. row' \in [Deliveries -> Row]
    BY <1>2, <2>1, <2>2
  <2>4. ASSUME NEW d \in Deliveries
        PROVE  row'[d].status = row[d].status /\ (d \notin S => row'[d] = row[d])
    BY <1>2, <2>2
  <2> QED
    BY <2>3, <2>4
<1>4. ~overran' => \A d \in Deliveries : Tame(d)
  BY <1>2, <1>3 DEF Tame
<1>5. overran' \in BOOLEAN /\ (overran => overran')
  BY <1>1, <1>2 DEF TypeOK
<1>6. ~overran' => NewTo(planner')
  BY <1>1, <1>3, <1>5, AddsStay
<1> QED
  BY <1>1, <1>3, <1>4, <1>5, <1>6, RowStep DEF TypeOK

-----------------------------------------------------------------------------
(* Steps of the dispatchers *)

LEMMA SenderTypes ==
  ASSUME TypeOK, NEW v \in Dispatchers
  PROVE  /\ disp[v] \in Sender /\ Held(v) \subseteq Deliveries
         /\ disp[v].left \subseteq Deliveries /\ disp[v].group \subseteq Deliveries
         /\ Idle \in Sender
BY DEF TypeOK, Sender, Held, Idle

\* Only v moves, and what it holds is still among what it held.
LEMMA Others ==
  ASSUME TypeOK, OneHolder, NEW v \in Dispatchers,
         \A u \in Dispatchers \ {v} : disp'[u] = disp[u], Held(v)' \subseteq Held(v)
  PROVE  /\ OneHolder'
         /\ \A u \in Dispatchers : Held(u)' \subseteq Held(u)
         /\ \A d \in Held(v) : \A u \in Dispatchers \ {v} :
              d \notin Held(u)' /\ d \notin disp'[u].group /\ d \notin disp[u].group
<1>1. \A u \in Dispatchers \ {v} : Held(u)' = Held(u)
  BY DEF Held
<1>2. \A u \in Dispatchers : Held(u)' \subseteq Held(u)
  BY <1>1
<1>3. OneHolder'
  BY <1>2 DEF OneHolder
<1>4. \A d \in Held(v) : \A u \in Dispatchers \ {v} : d \notin Held(u)
  BY DEF OneHolder
<1> QED
  BY <1>1, <1>2, <1>3, <1>4 DEF Held

\* A dispatcher takes a group in hand and has an answer for it: what it holds stays, and
\* the copies that this attempt made are paid for by a fault or by its success.
LEMMA AnswerStep ==
  ASSUME IInv, NEW v \in Dispatchers, disp[v].pc = "working",
         NEW group \in SUBSET disp[v].left,
         NEW outcome \in {"sent", "transient", "rejected", "ineligible"},
         Answered(v, group, outcome),
         UNCHANGED <<row, wants, suppressed, live, planner, plans, overran>>,
         digests' \subseteq SUBSET Emails, told' \in [Telegrams -> Nat],
         faults' \in 0..MaxFaults, faults' >= faults,
         \A d \in Deliveries \ group : Copies(d)' = Copies(d),
         \A d \in group : /\ Copies(d)' >= Copies(d)
                          /\ outcome = "sent" => Copies(d)' > 0
                          /\ Copies(d)' <= Copies(d) + (faults' - faults)
                                                     + (IF outcome = "sent" THEN 1 ELSE 0)
  PROVE  IInv'
<1>1. TypeOK /\ disp[v] \in Sender /\ disp[v].left \subseteq Deliveries /\ disp[v].group = {}
  BY SenderTypes DEF IInv, Shapes
<1>2. /\ disp' = [disp EXCEPT ![v] = [disp[v] EXCEPT !.pc = "answered", !.left = disp[v].left \ group,
                                                  !.group = group, !.outcome = outcome]]
  BY <1>1 DEF Answered, TypeOK
<1>3. [disp[v] EXCEPT !.pc = "answered", !.left = disp[v].left \ group,
                      !.group = group, !.outcome = outcome] \in Sender
  BY <1>1 DEF Sender
<1>4. /\ disp' \in [Dispatchers -> Sender]
      /\ \A u \in Dispatchers \ {v} : disp'[u] = disp[u]
      /\ disp'[v].pc = "answered" /\ disp'[v].left = disp[v].left \ group
      /\ disp'[v].group = group /\ disp'[v].outcome = outcome
  BY <1>1, <1>2, <1>3 DEF TypeOK, Sender
<1>5. TypeOK'
  BY <1>1, <1>4 DEF TypeOK
<1>6. Shapes'
  BY <1>4 DEF IInv, Shapes
<1>7. \A d \in Deliveries : Copies(d) \in Nat /\ Copies(d)' >= Copies(d) /\ Copies(d)' \in Nat
  <2>1. \A d \in Deliveries : Copies(d) \in Nat
    BY <1>1, DigestsOf
  <2>2. \A d \in Deliveries : Copies(d)' \in Nat
    <3>1. (TypeOK => \A d \in Deliveries : Copies(d) \in Nat)'
      BY CopiesNat, PTL
    <3> QED
      BY <1>5, <3>1
  <2>3. ASSUME NEW d \in Deliveries PROVE Copies(d)' >= Copies(d)
    <3>1. CASE d \in group
      BY <3>1
    <3>2. CASE d \notin group
      BY <2>1, <3>2
    <3> QED
      BY <3>1, <3>2
  <2> QED
    BY <2>1, <2>2, <2>3
<1>8. Delivered'
  <2>1. \A d \in Deliveries : row'[d].status = "sent" => Copies(d)' > 0
    BY <1>7 DEF IInv, Delivered
  <2>2. ASSUME NEW u \in Dispatchers, disp'[u].outcome = "sent", NEW d \in disp'[u].group
        PROVE  Copies(d)' > 0
    <3>1. CASE u = v
      BY <1>4, <2>2, <3>1
    <3>2. CASE u # v
      <4>1. d \in disp[u].group /\ disp[u].outcome = "sent" /\ d \in Deliveries
        BY <1>1, <1>4, <2>2, <3>2, SenderTypes
      <4>2. Copies(d) > 0
        BY <4>1 DEF IInv, Delivered
      <4> QED
        BY <1>7, <4>1, <4>2
    <3> QED
      BY <3>1, <3>2
  <2> QED
    BY <2>1, <2>2 DEF Delivered
<1>9. ASSUME ~overran
      PROVE  Exclusive'
  <2>1. Exclusive /\ Held(v)' = Held(v)
    BY <1>1, <1>4, <1>9 DEF IInv, Held
  <2>2. \A u \in Dispatchers : Held(u)' = Held(u)
    BY <1>4, <2>1 DEF Held
  <2>3. OneHolder' /\ HeldRows'
    BY <2>1, <2>2 DEF Exclusive, OneHolder, HeldRows
  <2>4. \A d \in Deliveries : Unheld(d)' = Unheld(d)
    BY <2>2 DEF Unheld
  <2>5. \A d \in group : ~Unheld(d) /\ d \in Deliveries
    BY <1>1 DEF Unheld, Held
  <2>6. AddsAreNew'
    <3>1. \A d \in planner.adds : d \in Deliveries /\ d \notin group
      BY <1>1, <2>1, <2>5 DEF TypeOK, Exclusive, AddsAreNew
    <3>2. \A d \in Deliveries : row[d].status = "none" => d \notin group
      BY <1>9, <2>5, NoneIsNew
    <3> QED
      BY <2>1, <2>4, <3>1, <3>2 DEF Exclusive, AddsAreNew
  <2>7. \A d \in group : ~Spent(d) /\ (Spent(d)' <=> outcome = "sent")
    <3> SUFFICES ASSUME NEW d \in group PROVE ~Spent(d) /\ (Spent(d)' <=> outcome = "sent")
      OBVIOUS
    <3>1. \A u \in Dispatchers \ {v} : d \notin disp[u].group /\ d \notin disp'[u].group
      BY <1>1, <1>4, <2>1, Others DEF Held, Exclusive
    <3> QED
      BY <1>1, <1>4, <2>4, <2>5, <3>1 DEF Spent
  <2>8. \A d \in Deliveries \ group : Spent(d)' <=> Spent(d)
    <3> SUFFICES ASSUME NEW d \in Deliveries \ group PROVE Spent(d)' <=> Spent(d)
      OBVIOUS
    <3>1. \A u \in Dispatchers : (d \in disp'[u].group /\ disp'[u].outcome = "sent")
                                 <=> (d \in disp[u].group /\ disp[u].outcome = "sent")
      BY <1>1, <1>4
    <3> QED
      BY <2>4, <3>1 DEF Spent
  <2>9. Paid'
    <3> SUFFICES ASSUME NEW d \in Deliveries
                 PROVE  Copies(d)' <= faults' + (IF Spent(d)' THEN 1 ELSE 0)
      BY DEF Paid
    <3>1. /\ Copies(d) <= faults + (IF Spent(d) THEN 1 ELSE 0)
      BY <2>1 DEF Exclusive, Paid
    <3>2. faults \in Nat /\ faults' \in Nat /\ Copies(d) \in Nat /\ Copies(d)' \in Nat
      BY <1>1, <1>5, <1>7, OutboxConstants DEF TypeOK
    <3>3. CASE d \in group
      <4>1. Copies(d)' <= Copies(d) + (faults' - faults) + (IF outcome = "sent" THEN 1 ELSE 0)
        BY <3>3
      <4> QED
        BY <2>7, <3>1, <3>2, <3>3, <4>1
    <3>4. CASE d \notin group
      <4>1. Copies(d)' = Copies(d) /\ (Spent(d)' <=> Spent(d))
        BY <2>8, <3>4
      <4> QED
        BY <3>1, <3>2, <4>1
    <3> QED
      BY <3>3, <3>4
  <2> QED
    BY <2>3, <2>6, <2>9 DEF Exclusive
<1> QED
  BY <1>5, <1>6, <1>8, <1>9 DEF IInv

LEMMA RejectStep ==
  ASSUME IInv, NEW v \in Dispatchers, Reject(v)
  PROVE  IInv'
<1>1. /\ TypeOK /\ disp[v].pc = "working"
      /\ UNCHANGED <<row, wants, suppressed, live, planner, told, digests, plans, faults, overran>>
  BY DEF IInv, Reject
<1>2. PICK group \in SUBSET disp[v].left : Answered(v, group, "ineligible")
  BY DEF Reject
<1>3. \A d \in Deliveries : Copies(d)' = Copies(d) /\ Copies(d) \in Nat
  BY <1>1, DigestsOf DEF Copies
<1>4. disp[v].left \subseteq Deliveries /\ faults \in Nat
  BY <1>1, SenderTypes, OutboxConstants DEF TypeOK
<1>5. \A d \in group : Copies(d)' >= Copies(d) /\ Copies(d)' <= Copies(d) + (faults' - faults) + 0
  BY <1>1, <1>3, <1>4
<1>6. digests' \subseteq SUBSET Emails /\ told' \in [Telegrams -> Nat]
      /\ faults' \in 0..MaxFaults /\ faults' >= faults
  BY <1>1, <1>4 DEF TypeOK
<1> QED
  BY <1>1, <1>2, <1>3, <1>5, <1>6, AnswerStep

LEMMA SendStep ==
  ASSUME IInv, NEW v \in Dispatchers, Send(v)
  PROVE  IInv'
<1>1. /\ TypeOK /\ disp[v].pc = "working"
      /\ UNCHANGED <<row, wants, suppressed, live, planner, plans, overran>>
  BY DEF IInv, Send
<1>2. PICK group \in (SUBSET disp[v].left) \ {{}} :
        /\ NextGroup(v, group)
        /\ \/ Accept(group) /\ Answered(v, group, "sent") /\ UNCHANGED faults
           \/ /\ \E outcome \in {"rejected", "transient"} : Answered(v, group, outcome)
              /\ UNCHANGED <<told, digests, faults>>
           \/ /\ faults < MaxFaults /\ faults' = faults + 1
              /\ Accept(group) /\ Answered(v, group, "transient")
  BY DEF Send
<1>3. /\ disp[v].left \subseteq Deliveries /\ faults \in 0..MaxFaults /\ faults \in Nat
      /\ group \in SUBSET Deliveries /\ group \in SUBSET disp[v].left /\ group # {}
  BY <1>1, SenderTypes, OutboxConstants DEF TypeOK
<1>4. group \subseteq Emails \/ group \subseteq Telegrams
  BY <1>2, <1>3 DEF NextGroup, Deliveries
<1>5. \A d \in Deliveries : Copies(d) \in Nat
  BY <1>1, DigestsOf
<1>6. CASE Accept(group) /\ Answered(v, group, "sent") /\ UNCHANGED faults
  <2>1. /\ digests' \subseteq SUBSET Emails /\ told' \in [Telegrams -> Nat]
        /\ \A d \in Deliveries \ group : Copies(d)' = Copies(d)
        /\ \A d \in group : Copies(d)' > 0 /\ Copies(d)' <= Copies(d) + 1 /\ Copies(d)' >= Copies(d)
    BY <1>1, <1>2, <1>3, <1>4, <1>6, Accepted
  <2>2. \A d \in group : Copies(d)' <= Copies(d) + (faults' - faults) + 1
    BY <1>3, <1>5, <1>6, <2>1
  <2>3. faults' \in 0..MaxFaults /\ faults' >= faults
    BY <1>3, <1>6
  <2> QED
    BY <1>1, <1>6, <1>3, <2>1, <2>2, <2>3, AnswerStep
<1>7. CASE /\ \E outcome \in {"rejected", "transient"} : Answered(v, group, outcome)
           /\ UNCHANGED <<told, digests, faults>>
  <2>1. PICK outcome \in {"rejected", "transient"} : Answered(v, group, outcome)
    BY <1>7
  <2>2. \A d \in Deliveries : Copies(d)' = Copies(d)
    BY <1>7 DEF Copies
  <2>3. \A d \in group : Copies(d)' >= Copies(d) /\ Copies(d)' <= Copies(d) + (faults' - faults) + 0
    BY <1>3, <1>5, <1>7, <2>2
  <2>4. digests' \subseteq SUBSET Emails /\ told' \in [Telegrams -> Nat]
        /\ faults' \in 0..MaxFaults /\ faults' >= faults
    BY <1>1, <1>3, <1>7 DEF TypeOK
  <2> QED
    BY <1>1, <1>3, <2>1, <2>2, <2>3, <2>4, AnswerStep
<1>8. CASE /\ faults < MaxFaults /\ faults' = faults + 1
           /\ Accept(group) /\ Answered(v, group, "transient")
  <2>1. /\ digests' \subseteq SUBSET Emails /\ told' \in [Telegrams -> Nat]
        /\ \A d \in Deliveries \ group : Copies(d)' = Copies(d)
        /\ \A d \in group : Copies(d)' <= Copies(d) + 1 /\ Copies(d)' >= Copies(d)
    BY <1>1, <1>2, <1>3, <1>4, <1>8, Accepted
  <2>2. \A d \in group : Copies(d)' <= Copies(d) + (faults' - faults) + 0
    <3>1. faults' - faults = 1
      BY <1>3, <1>8
    <3> QED
      BY <1>3, <1>5, <2>1, <3>1
  <2>3. faults' \in 0..MaxFaults /\ faults' >= faults
    BY <1>1, <1>3, <1>8, Bounds
  <2> QED
    BY <1>1, <1>8, <1>3, <2>1, <2>2, <2>3, AnswerStep
<1> QED
  BY <1>2, <1>6, <1>7, <1>8

LEMMA ClaimStep ==
  ASSUME IInv, NEW v \in Dispatchers, Claim(v)
  PROVE  IInv'
<1> DEFINE due == {d \in Deliveries : Claimable(row[d])}
           claimed == (due \cap Telegrams) \cup Top(DigestLimit, due \cap Emails)
           fit == {d \in claimed : d \in live /\ Wanted(d)}
<1>1. /\ TypeOK /\ disp[v].left = {} /\ disp[v].group = {}
      /\ UNCHANGED <<wants, suppressed, live, planner, told, digests, plans, faults, overran>>
  BY DEF IInv, Shapes, Claim
<1>2. /\ row' = [d \in Deliveries |-> IF d \in claimed THEN MarkClaimed(row[d])
                                  ELSE IF d \in due THEN Ended(row[d], "cancelled") ELSE row[d]]
      /\ disp' = [disp EXCEPT ![v] = [Idle EXCEPT !.pc = "working", !.left = claimed, !.fit = fit]]
  BY DEF Claim
<1>3. claimed \subseteq due /\ due \subseteq Deliveries /\ fit \subseteq Deliveries
  BY DEF Top
<1>4. \A d \in due : Claimable(row[d])
  OBVIOUS
<1> HIDE DEF due, claimed, fit
<1>5. /\ row' \in [Deliveries -> Row]
      /\ \A d \in claimed : row'[d].status = "sending" /\ row'[d].lock = "fresh"
      /\ \A d \in due \ claimed : row'[d].status = "cancelled"
      /\ \A d \in Deliveries \ due : row'[d] = row[d]
  <2>1. \A d \in Deliveries : row[d] \in Row
    BY <1>1 DEF TypeOK
  <2>2. \A d \in Deliveries : /\ Ended(row[d], "cancelled") \in Row
                              /\ d \in claimed => MarkClaimed(row[d]) \in Row
    BY <1>3, <1>4, <2>1, RowTypes
  <2>3. \A d \in Deliveries : /\ Ended(row[d], "cancelled").status = "cancelled"
                              /\ MarkClaimed(row[d]).status = "sending" /\ MarkClaimed(row[d]).lock = "fresh"
    BY <2>1, EndedStatus
  <2>4. row' \in [Deliveries -> Row]
    BY <1>2, <2>1, <2>2
  <2>5. \A d \in claimed : row'[d] = MarkClaimed(row[d])
    BY <1>2, <1>3
  <2>6. \A d \in due \ claimed : row'[d] = Ended(row[d], "cancelled")
    BY <1>2, <1>3
  <2>7. \A d \in Deliveries \ due : row'[d] = row[d]
    BY <1>2, <1>3
  <2> QED
    BY <1>3, <2>3, <2>4, <2>5, <2>6, <2>7
<1>6. /\ disp' \in [Dispatchers -> Sender]
      /\ \A u \in Dispatchers \ {v} : disp'[u] = disp[u]
      /\ disp'[v].pc = "working" /\ disp'[v].left = claimed /\ disp'[v].group = {}
      /\ disp'[v].outcome = "none"
  <2>1. [Idle EXCEPT !.pc = "working", !.left = claimed, !.fit = fit] \in Sender
    BY <1>3 DEF Idle, Sender
  <2>2. LET s == [Idle EXCEPT !.pc = "working", !.left = claimed, !.fit = fit]
        IN  s.pc = "working" /\ s.left = claimed /\ s.group = {} /\ s.outcome = "none"
    BY DEF Idle
  <2> QED
    BY <1>1, <1>2, <2>1, <2>2 DEF TypeOK
<1>7. TypeOK'
  BY <1>1, <1>5, <1>6 DEF TypeOK
<1>8. Shapes'
  BY <1>6 DEF IInv, Shapes
<1>9. \A d \in Deliveries : Copies(d)' = Copies(d) /\ Copies(d) \in Nat
  BY <1>1, DigestsOf DEF Copies
<1>10. Delivered'
  <2>1. \A d \in Deliveries : row'[d].status = "sent" => Copies(d)' > 0
    BY <1>3, <1>5, <1>9 DEF IInv, Delivered
  <2>2. \A u \in Dispatchers : disp'[u].outcome = "sent" => \A d \in disp'[u].group : Copies(d)' > 0
    <3>1. \A u \in Dispatchers : disp[u].group \subseteq Deliveries
      BY <1>1, SenderTypes
    <3> QED
      BY <1>6, <1>9, <3>1 DEF IInv, Delivered
  <2> QED
    BY <2>1, <2>2 DEF Delivered
<1>11. ASSUME ~overran
       PROVE  Exclusive'
  <2>1. Exclusive
    BY <1>11 DEF IInv
  <2>2. \A u \in Dispatchers \ {v} : Held(u)' = Held(u)
    BY <1>6 DEF Held
  <2>3. Held(v)' = claimed /\ Held(v) = {}
    BY <1>1, <1>6 DEF Held
  <2>4. \A d \in due : Unheld(d) /\ Unsettled(row[d])
    BY <1>4, <2>1 DEF Exclusive, HeldRows, HeldRow, Unheld, Claimable, Queued, Unsettled
  <2>5. OneHolder'
    <3>1. \A u \in Dispatchers \ {v} : claimed \cap Held(u) = {}
      BY <1>3, <2>4 DEF Unheld
    <3> QED
      BY <2>1, <2>2, <2>3, <3>1 DEF Exclusive, OneHolder
  <2>6. HeldRows'
    <3> SUFFICES ASSUME NEW u \in Dispatchers, NEW d \in Held(u)' PROVE HeldRow(row'[d])
      BY DEF HeldRows, HeldRow
    <3>1. CASE u = v
      BY <1>5, <2>3, <3>1 DEF HeldRow
    <3>2. CASE u # v
      <4>1. d \in Held(u) /\ d \in Deliveries /\ d \notin due
        BY <1>1, <2>2, <2>4, <3>2, SenderTypes DEF Unheld
      <4> QED
        BY <1>5, <2>1, <4>1 DEF Exclusive, HeldRows
    <3> QED
      BY <3>1, <3>2
  <2>7. \A d \in Deliveries \ due : Unheld(d)' <=> Unheld(d)
    BY <1>3, <2>2, <2>3 DEF Unheld
  <2>8. AddsAreNew'
    <3>1. \A d \in planner.adds : d \in Deliveries /\ d \notin due
      BY <1>1, <1>4, <2>1 DEF TypeOK, Exclusive, AddsAreNew, Claimable, Queued
    <3>2. \A d \in Deliveries : row'[d].status = "none" => d \notin due
      BY <1>5
    <3> QED
      BY <1>1, <1>5, <1>9, <2>1, <2>7, <3>1, <3>2 DEF Exclusive, AddsAreNew
  <2>9. Paid'
    <3> SUFFICES ASSUME NEW d \in Deliveries
                 PROVE  Copies(d)' <= faults' + (IF Spent(d)' THEN 1 ELSE 0)
      BY DEF Paid
    <3>1. Copies(d) <= faults + (IF Spent(d) THEN 1 ELSE 0)
      BY <2>1 DEF Exclusive, Paid
    <3>2. faults \in Nat /\ faults' = faults
      BY <1>1, OutboxConstants DEF TypeOK
    <3>3. CASE d \in due
      <4>1. ~Spent(d)
        BY <2>4, <3>3 DEF Spent
      <4> QED
        BY <1>9, <3>1, <3>2, <4>1
    <3>4. CASE d \notin due
      <4>1. \A u \in Dispatchers : (d \in disp'[u].group /\ disp'[u].outcome = "sent")
                                   <=> (d \in disp[u].group /\ disp[u].outcome = "sent")
        BY <1>1, <1>6
      <4>2. Spent(d)' <=> Spent(d)
        BY <1>5, <2>7, <3>4, <4>1 DEF Spent, Unsettled
      <4> QED
        BY <1>9, <3>1, <3>2, <4>2
    <3> QED
      BY <3>3, <3>4
  <2> QED
    BY <2>5, <2>6, <2>8, <2>9 DEF Exclusive
<1> QED
  BY <1>1, <1>7, <1>8, <1>10, <1>11 DEF IInv

\* The process dies: what it held is nobody's, and the fault pays for a copy in flight.
LEMMA CrashStep ==
  ASSUME IInv, NEW v \in Dispatchers, Crash(v)
  PROVE  IInv'
<1>1. /\ TypeOK /\ faults < MaxFaults /\ faults' = faults + 1 /\ disp' = [disp EXCEPT ![v] = Idle]
      /\ UNCHANGED <<row, wants, suppressed, live, planner, told, digests, plans, overran>>
  BY DEF IInv, Crash
<1>2. /\ disp' \in [Dispatchers -> Sender]
      /\ \A u \in Dispatchers \ {v} : disp'[u] = disp[u]
      /\ disp'[v] = Idle
  BY <1>1, SenderTypes DEF TypeOK
<1>3. faults \in Nat /\ faults' \in 0..MaxFaults
  BY <1>1, Bounds, OutboxConstants DEF TypeOK
<1>4. TypeOK'
  BY <1>1, <1>2, <1>3 DEF TypeOK
<1>5. Shapes'
  BY <1>2 DEF IInv, Shapes, Idle
<1>6. \A d \in Deliveries : Copies(d)' = Copies(d) /\ Copies(d) \in Nat
  BY <1>1, DigestsOf DEF Copies
<1>7. Delivered'
  <2>1. \A d \in Deliveries : row'[d].status = "sent" => Copies(d)' > 0
    BY <1>1, <1>6 DEF IInv, Delivered
  <2>2. \A u \in Dispatchers : disp'[u].outcome = "sent" => \A d \in disp'[u].group : Copies(d)' > 0
    <3>1. \A u \in Dispatchers : disp[u].group \subseteq Deliveries
      BY <1>1, SenderTypes
    <3> QED
      BY <1>2, <1>6, <3>1 DEF IInv, Delivered, Idle
  <2> QED
    BY <2>1, <2>2 DEF Delivered
<1>8. ASSUME ~overran
      PROVE  Exclusive'
  <2>1. Exclusive /\ Held(v)' \subseteq Held(v)
    BY <1>2, <1>8 DEF IInv, Held, Idle
  <2>2. OneHolder' /\ \A u \in Dispatchers : Held(u)' \subseteq Held(u)
    BY <1>1, <1>2, <2>1, Others DEF Exclusive
  <2>3. HeldRows'
    BY <1>1, <2>1, <2>2 DEF Exclusive, HeldRows
  <2>4. AddsAreNew'
    <3>1. \A d \in planner.adds : d \in Deliveries
      BY <1>1 DEF TypeOK
    <3>2. \A d \in Deliveries : Unheld(d) => Unheld(d)'
      BY <2>2 DEF Unheld
    <3> QED
      BY <1>1, <1>6, <2>1, <3>1, <3>2 DEF Exclusive, AddsAreNew
  <2>5. Paid'
    <3> SUFFICES ASSUME NEW d \in Deliveries
                 PROVE  Copies(d)' <= faults' + (IF Spent(d)' THEN 1 ELSE 0)
      BY DEF Paid
    <3>1. Copies(d) <= faults + (IF Spent(d) THEN 1 ELSE 0)
      BY <2>1 DEF Exclusive, Paid
    <3>2. Copies(d) <= faults + 1
      BY <1>3, <1>6, <3>1
    <3> QED
      BY <1>1, <1>3, <1>6, <3>2
  <2> QED
    BY <2>2, <2>3, <2>4, <2>5 DEF Exclusive
<1> QED
  BY <1>1, <1>4, <1>5, <1>7, <1>8 DEF IInv

\* The rows after the record of a result.
LEMMA RecordRows ==
  ASSUME TypeOK, Shapes, NEW v \in Dispatchers, Record(v)
  PROVE  /\ row' \in [Deliveries -> Row]
         /\ \A d \in disp[v].group :
              \/ row'[d] = row[d] /\ row[d].status = "gone"
              \/ row'[d].status \in {"sent", "rejected", "cancelled", "failed"}
         /\ disp[v].outcome = "sent" => \A d \in disp[v].group : ~Unsettled(row'[d])
         /\ disp[v].outcome # "sent" => \A d \in disp[v].group : row'[d].status # "sent"
         /\ \A d \in Deliveries \ disp[v].group :
              row'[d] = row[d] \/ (Unsettled(row[d]) /\ row'[d].status = "cancelled")
<1> DEFINE group == disp[v].group
           outcome == disp[v].outcome
           rows == [d \in Deliveries |-> IF d \in group THEN Recorded(outcome, group, row[d]) ELSE row[d]]
<1>1. /\ outcome \in {"sent", "transient", "rejected", "ineligible"} /\ group \subseteq Deliveries
      /\ \A d \in Deliveries : row[d] \in Row
  <2>1. disp[v].pc = "answered"
    BY DEF Record
  <2>2. disp[v] \in Sender
    BY DEF TypeOK
  <2>3. outcome # "none"
    BY <2>1 DEF Shapes
  <2> QED
    BY <2>2, <2>3 DEF Sender, TypeOK
<1>2. row' = rows \/ row' = WithoutEmail(rows)
  BY DEF Record
<1> HIDE DEF outcome, group
<1>3. \A d \in Deliveries :
        /\ Recorded(outcome, group, row[d]) \in Row
        /\ row[d].status = "gone" => Recorded(outcome, group, row[d]) = row[d]
        /\ row[d].status # "gone" =>
             /\ Recorded(outcome, group, row[d]).status \in {"sent", "rejected", "cancelled", "failed"}
             /\ (Recorded(outcome, group, row[d]).status = "sent") <=> (outcome = "sent")
             /\ outcome = "sent" => ~Unsettled(Recorded(outcome, group, row[d]))
  BY <1>1, RecordedRow
<1>4. rows \in [Deliveries -> Row]
  BY <1>1, <1>3
<1>5. \A d \in group : rows[d] = Recorded(outcome, group, row[d])
  BY <1>1
<1>6. \A d \in Deliveries \ group : rows[d] = row[d]
  OBVIOUS
<1> HIDE DEF rows
<1>7. /\ row' \in [Deliveries -> Row]
      /\ \A d \in Deliveries : row'[d] = rows[d] \/ (Unsettled(rows[d]) /\ row'[d].status = "cancelled")
  BY <1>2, <1>4, WithoutEmailRows
<1>8. \A d \in group :
        \/ row'[d] = row[d] /\ row[d].status = "gone"
        \/ row'[d].status \in {"sent", "rejected", "cancelled", "failed"}
  <2> SUFFICES ASSUME NEW d \in group
               PROVE  \/ row'[d] = row[d] /\ row[d].status = "gone"
                      \/ row'[d].status \in {"sent", "rejected", "cancelled", "failed"}
    OBVIOUS
  <2>1. CASE row[d].status = "gone"
    BY <1>1, <1>3, <1>5, <1>7, <2>1 DEF Unsettled
  <2>2. CASE row[d].status # "gone"
    BY <1>1, <1>3, <1>5, <1>7, <2>2
  <2> QED
    BY <2>1, <2>2
<1>9. outcome = "sent" => \A d \in group : ~Unsettled(row'[d])
  <2> SUFFICES ASSUME outcome = "sent", NEW d \in group PROVE ~Unsettled(row'[d])
    OBVIOUS
  <2>1. ~Unsettled(rows[d])
    <3>1. CASE row[d].status = "gone"
      BY <1>1, <1>3, <1>5, <3>1 DEF Unsettled
    <3>2. CASE row[d].status # "gone"
      BY <1>1, <1>3, <1>5, <3>2
    <3> QED
      BY <3>1, <3>2
  <2> QED
    BY <1>1, <1>7, <2>1
<1>10. outcome # "sent" => \A d \in group : row'[d].status # "sent"
  <2> SUFFICES ASSUME outcome # "sent", NEW d \in group PROVE row'[d].status # "sent"
    OBVIOUS
  <2>1. rows[d].status # "sent"
    <3>1. CASE row[d].status = "gone"
      BY <1>1, <1>3, <1>5, <3>1
    <3>2. CASE row[d].status # "gone"
      BY <1>1, <1>3, <1>5, <3>2
    <3> QED
      BY <3>1, <3>2
  <2> QED
    BY <1>1, <1>7, <2>1
<1>11. \A d \in Deliveries \ group : row'[d] = row[d] \/ (Unsettled(row[d]) /\ row'[d].status = "cancelled")
  BY <1>6, <1>7
<1> QED
  BY <1>7, <1>8, <1>9, <1>10, <1>11 DEF group, outcome

LEMMA RecordStep ==
  ASSUME IInv, NEW v \in Dispatchers, Record(v)
  PROVE  IInv'
<1>1. /\ TypeOK /\ Shapes /\ disp[v].pc = "answered"
      /\ UNCHANGED <<live, planner, told, digests, plans, faults, overran>>
  BY DEF IInv, Record
<1>2. /\ row' \in [Deliveries -> Row]
      /\ \A d \in disp[v].group :
           \/ row'[d] = row[d] /\ row[d].status = "gone"
           \/ row'[d].status \in {"sent", "rejected", "cancelled", "failed"}
      /\ disp[v].outcome = "sent" => \A d \in disp[v].group : ~Unsettled(row'[d])
      /\ disp[v].outcome # "sent" => \A d \in disp[v].group : row'[d].status # "sent"
      /\ \A d \in Deliveries \ disp[v].group :
           row'[d] = row[d] \/ (Unsettled(row[d]) /\ row'[d].status = "cancelled")
  BY <1>1, RecordRows
<1>3. /\ disp' \in [Dispatchers -> Sender]
      /\ \A u \in Dispatchers \ {v} : disp'[u] = disp[u]
      /\ disp'[v].pc # "answered" /\ (disp'[v].pc = "idle" => disp'[v].left = {})
      /\ disp'[v].left = disp[v].left /\ disp'[v].group = {} /\ disp'[v].outcome = "none"
  <2>1. disp[v] \in Sender /\ Idle \in Sender /\ disp[v].left \subseteq Deliveries
    BY <1>1, SenderTypes
  <2>2. CASE disp[v].left = {}
    <3>1. disp' = [disp EXCEPT ![v] = Idle]
      BY <2>2 DEF Record
    <3> QED
      BY <1>1, <2>1, <2>2, <3>1 DEF TypeOK, Idle
  <2>3. CASE disp[v].left # {}
    <3> DEFINE s == [disp[v] EXCEPT !.pc = "working", !.fit = disp[v].fit \cap disp[v].left,
                                    !.group = {}, !.outcome = "none"]
    <3>1. disp' = [disp EXCEPT ![v] = s]
      BY <2>3 DEF Record
    <3>2. s \in Sender
      BY <2>1 DEF Sender
    <3>3. s.pc = "working" /\ s.left = disp[v].left /\ s.group = {} /\ s.outcome = "none"
      BY <2>1 DEF Sender
    <3> HIDE DEF s
    <3> QED
      BY <1>1, <3>1, <3>2, <3>3 DEF TypeOK
  <2> QED
    BY <2>2, <2>3
<1>4. wants' \in [telegram : BOOLEAN, email : BOOLEAN]
  <2>1. wants' = wants \/ wants' = [wants EXCEPT !.email = FALSE]
    BY DEF Record
  <2>2. FALSE \in BOOLEAN
    OBVIOUS
  <2> QED
    BY <1>1, <2>1, <2>2 DEF TypeOK
<1>5. suppressed' \in BOOLEAN
  BY DEF Record
<1>6. TypeOK'
  BY <1>1, <1>2, <1>3, <1>4, <1>5 DEF TypeOK
<1>7. Shapes'
  BY <1>1, <1>3 DEF Shapes
<1>8. \A d \in Deliveries : Copies(d)' = Copies(d) /\ Copies(d) \in Nat
  BY <1>1, DigestsOf DEF Copies
<1>9. \A u \in Dispatchers : disp[u].group \subseteq Deliveries /\ Held(u) \subseteq Deliveries
  BY <1>1, SenderTypes
<1>10. Delivered'
  <2>1. ASSUME NEW d \in Deliveries, row'[d].status = "sent"
        PROVE  Copies(d)' > 0
    <3>1. CASE d \in disp[v].group /\ disp[v].outcome = "sent"
      BY <1>8, <3>1 DEF IInv, Delivered
    <3>2. CASE d \in disp[v].group /\ disp[v].outcome # "sent"
      BY <1>2, <2>1, <3>2
    <3>3. CASE d \notin disp[v].group
      <4>1. row'[d] = row[d]
        BY <1>2, <2>1, <3>3
      <4> QED
        BY <1>8, <2>1, <4>1 DEF IInv, Delivered
    <3> QED
      BY <3>1, <3>2, <3>3
  <2>2. \A u \in Dispatchers : disp'[u].outcome = "sent" => \A d \in disp'[u].group : Copies(d)' > 0
    BY <1>3, <1>8, <1>9 DEF IInv, Delivered
  <2> QED
    BY <2>1, <2>2 DEF Delivered
<1>11. ASSUME ~overran
       PROVE  Exclusive'
  <2>1. Exclusive /\ Held(v)' \subseteq Held(v)
    BY <1>3, <1>11 DEF IInv, Held
  <2>2. /\ OneHolder' /\ \A u \in Dispatchers : Held(u)' \subseteq Held(u)
        /\ \A d \in Held(v) : \A u \in Dispatchers \ {v} :
             d \notin Held(u)' /\ d \notin disp'[u].group /\ d \notin disp[u].group
    BY <1>1, <1>3, <2>1, Others DEF Exclusive
  <2>3. \A d \in disp[v].group : d \in Held(v) /\ ~Unheld(d) /\ Unheld(d)'
    <3>1. \A d \in disp[v].group : d \in Held(v) /\ d \notin Held(v)'
      BY <1>1, <1>3 DEF Shapes, Held
    <3> QED
      BY <2>2, <3>1 DEF Unheld
  <2>4. \A d \in Deliveries \ disp[v].group : Unheld(d)' <=> Unheld(d)
    <3>1. \A u \in Dispatchers \ {v} : Held(u)' = Held(u)
      BY <1>3 DEF Held
    <3>2. \A d \in Deliveries \ disp[v].group : d \in Held(v)' <=> d \in Held(v)
      BY <1>3 DEF Held
    <3> QED
      BY <3>1, <3>2 DEF Unheld
  <2>5. HeldRows'
    <3> SUFFICES ASSUME NEW u \in Dispatchers, NEW d \in Held(u)' PROVE HeldRow(row'[d])
      BY DEF HeldRows, HeldRow
    <3>1. d \in Held(u) /\ d \in Deliveries /\ d \notin disp[v].group
      BY <1>9, <2>2, <2>3 DEF Unheld
    <3>2. HeldRow(row[d])
      BY <2>1, <3>1 DEF Exclusive, HeldRows
    <3> QED
      BY <1>2, <3>1, <3>2 DEF HeldRow
  <2>6. AddsAreNew'
    <3>1. \A d \in planner.adds : /\ d \in Deliveries /\ d \notin disp[v].group
                                  /\ row[d].status \in {"none", "gone"} /\ Unheld(d) /\ Copies(d) = 0
      BY <1>1, <2>1, <2>3 DEF TypeOK, Exclusive, AddsAreNew
    <3>2. \A d \in planner.adds : row'[d] = row[d] /\ Unheld(d)'
      BY <1>2, <2>4, <3>1 DEF Unsettled
    <3>3. \A d \in Deliveries : row'[d].status = "none" => row[d].status = "none"
      BY <1>2
    <3> QED
      BY <1>1, <1>8, <2>1, <3>1, <3>2, <3>3 DEF Exclusive, AddsAreNew
  <2>7. Paid'
    <3> SUFFICES ASSUME NEW d \in Deliveries
                 PROVE  Copies(d)' <= faults' + (IF Spent(d)' THEN 1 ELSE 0)
      BY DEF Paid
    <3>1. Copies(d) <= faults + (IF Spent(d) THEN 1 ELSE 0)
      BY <2>1 DEF Exclusive, Paid
    <3>2. faults \in Nat /\ faults' = faults
      BY <1>1, OutboxConstants DEF TypeOK
    <3>3. Spent(d) => Spent(d)'
      <4>1. CASE d \in disp[v].group /\ disp[v].outcome = "sent"
        <5>1. Unheld(d)' /\ ~Unsettled(row'[d])
          BY <1>2, <2>3, <4>1
        <5> QED
          BY <5>1 DEF Spent, Unsettled
      <4>2. CASE d \in disp[v].group /\ disp[v].outcome # "sent"
        <5>1. \A u \in Dispatchers \ {v} : d \notin disp[u].group
          BY <2>2, <2>3, <4>2
        <5> QED
          BY <2>3, <4>2, <5>1 DEF Spent
      <4>3. CASE d \notin disp[v].group /\ Unheld(d)
        BY <1>2, <2>4, <4>3 DEF Spent, Unsettled
      <4>4. CASE d \notin disp[v].group /\ ~Unheld(d)
        <5>1. ~Unheld(d)'
          BY <2>4, <4>4
        <5>2. \A u \in Dispatchers : d \in disp[u].group /\ disp[u].outcome = "sent" =>
                d \in disp'[u].group /\ disp'[u].outcome = "sent"
          BY <1>3, <4>4
        <5> QED
          BY <4>4, <5>1, <5>2 DEF Spent
      <4> QED
        BY <4>1, <4>2, <4>3, <4>4
    <3> QED
      BY <1>8, <3>1, <3>2, <3>3
  <2> QED
    BY <2>2, <2>5, <2>6, <2>7 DEF Exclusive
<1> QED
  BY <1>1, <1>6, <1>7, <1>10, <1>11 DEF IInv

-----------------------------------------------------------------------------
(* Theorems *)

LEMMA StepIInv == IInv /\ [Next]_vars => IInv'
<1> SUFFICES ASSUME IInv, [Next]_vars PROVE IInv'
  OBVIOUS
<1>1. ASSUME NEW v \in Dispatchers, Dispatch(v) \/ Crash(v)
      PROVE  IInv'
  BY <1>1, ClaimStep, RejectStep, SendStep, RecordStep, CrashStep DEF Dispatch
<1>2. ASSUME NEW d \in Deliveries, Withdraw(d) \/ ComesDue(d)
      PROVE  IInv'
  BY <1>2, WithdrawStep, ComesDueStep
<1>3. CASE UNCHANGED vars
  <2>1. UNCHANGED <<row, wants, suppressed, live, planner, disp, told, digests, plans, faults, overran>>
    BY <1>3 DEF vars
  <2>2. TypeOK
    BY DEF IInv
  <2>3. \A d \in Deliveries : Tame(d)
    BY <2>1 DEF Tame
  <2>4. ~overran => NewTo(planner')
    BY <2>1, AddsStay
  <2> QED
    BY <2>1, <2>2, <2>3, <2>4, RowStep DEF TypeOK
<1> QED
  BY <1>1, <1>2, <1>3, PlanStep, FlushStep, SwitchEmailStep, EmailOffStep, SwitchTelegramStep,
     LeaseExpiresStep DEF Next

\* The strengthening of the properties of the outbox holds throughout.
THEOREM Invariance == Spec => []IInv
<1>1. Init => IInv
  BY InitIInv
<1>2. IInv /\ [Next]_vars => IInv'
  BY StepIInv
<1> QED
  BY <1>1, <1>2, PTL DEF Spec

\* Every variable of the outbox keeps the shape the code gives it.
THEOREM TypeCorrect == Spec => []TypeOK
<1>1. IInv => TypeOK
  BY DEF IInv
<1> QED
  BY <1>1, Invariance, PTL

\* _claim_due(): while leases outlast the work done under them, two dispatchers never work
\* on one delivery.
THEOREM HeldOnce == Spec => []HeldByOne
<1>1. IInv => HeldByOne
  BY DEF IInv, Exclusive, OneHolder, HeldByOne
<1> QED
  BY <1>1, Invariance, PTL

\* dispatch_due(): each further copy of a message is paid for by a crash or a lost answer.
THEOREM CopiesPaid == Spec => []CopiesPaidFor
<1>1. IInv => CopiesPaidFor
  <2> SUFFICES ASSUME IInv, ~overran, NEW d \in Deliveries
               PROVE  Copies(d) <= 1 + faults
    BY DEF CopiesPaidFor
  <2>1. Copies(d) <= faults + (IF Spent(d) THEN 1 ELSE 0)
    BY DEF IInv, Exclusive, Paid
  <2>2. Copies(d) \in Nat
    BY DigestsOf DEF IInv
  <2>3. faults \in Nat
    BY OutboxConstants DEF IInv, TypeOK
  <2> QED
    BY <2>1, <2>2, <2>3
<1> QED
  BY <1>1, Invariance, PTL

\* _record_result(): what is recorded as sent was delivered, even if leases run out.
THEOREM SentDelivered == Spec => []SentWasDelivered
<1>1. IInv => SentWasDelivered
  BY DEF IInv, Delivered, SentWasDelivered
<1> QED
  BY <1>1, Invariance, PTL

LEMMA SentStays ==
  ASSUME IInv, ~overran, [Next]_vars, NEW d \in Deliveries, row[d].status = "sent"
  PROVE  ~Unsettled(row'[d])
<1>1. TypeOK /\ Shapes /\ row \in [Deliveries -> Row]
  BY DEF IInv, TypeOK
<1>2. Unheld(d) /\ d \notin planner.adds
  BY DEF IInv, Exclusive, HeldRows, HeldRow, AddsAreNew, Unheld
<1>3. CASE row' = row
  BY <1>3 DEF Unsettled
<1>4. ASSUME NEW v \in Dispatchers, Claim(v)
      PROVE  ~Unsettled(row'[d])
  <2>1. ~Claimable(row[d])
    BY DEF Claimable, Queued
  <2>2. row'[d] = row[d]
    BY <1>4, <2>1 DEF Claim, Top
  <2> QED
    BY <2>2 DEF Unsettled
<1>5. ASSUME NEW v \in Dispatchers, Record(v)
      PROVE  ~Unsettled(row'[d])
  <2>1. d \notin disp[v].group
    BY <1>2 DEF Unheld, Held
  <2>2. row'[d] = row[d] \/ row'[d].status = "cancelled"
    BY <1>1, <1>5, <2>1, RecordRows
  <2> QED
    BY <2>2 DEF Unsettled
<1>6. CASE Flush
  <2>1. PICK due \in BOOLEAN : row' = Planned(planner, due, row)
    BY <1>6 DEF Flush
  <2>2. LET r == Planned(planner, due, row)[d] IN
        \/ d \in planner.adds /\ r.status = "pending"
        \/ r.status = "cancelled"
        \/ Queued(row[d]) /\ r.status = row[d].status
        \/ r = row[d]
    BY <1>1, PlannedRows
  <2> QED
    BY <1>2, <2>1, <2>2 DEF Unsettled, Queued
<1>7. CASE SwitchEmail
  <2>1. \/ row[d].status = "none" /\ row'[d].status = "pending"
        \/ row'[d].status = "cancelled"
        \/ Queued(row[d]) /\ row'[d].status = row[d].status
        \/ row'[d] = row[d]
    BY <1>1, <1>7, SwitchEmailRows
  <2> QED
    BY <2>1 DEF Unsettled, Queued
<1>8. CASE EmailOff
  <2>1. row'[d] = row[d] \/ row'[d].status = "cancelled"
    BY <1>1, <1>8, WithoutEmailRows DEF EmailOff
  <2> QED
    BY <2>1 DEF Unsettled
<1>9. ASSUME NEW e \in Deliveries, Withdraw(e)
      PROVE  ~Unsettled(row'[d])
  <2>1. row' = row \/ row' = [row EXCEPT ![e] = Ended(row[e], "gone")]
    BY <1>9 DEF Withdraw
  <2>2. row[e] \in Row
    BY <1>1
  <2>3. Ended(row[e], "gone").status = "gone"
    BY <2>2, EndedStatus
  <2>4. row'[d] = row[d] \/ row'[d].status = "gone"
    BY <1>1, <2>1, <2>3
  <2> QED
    BY <2>4 DEF Unsettled
<1>10. ASSUME NEW e \in Deliveries, ComesDue(e)
       PROVE  ~Unsettled(row'[d])
  <2>1. Queued(row[e])
    BY <1>10 DEF ComesDue
  <2>2. d \notin Mates(e)
    BY <2>1 DEF Mates, Queued
  <2>3. row'[d] = row[d]
    BY <1>10, <2>2 DEF ComesDue
  <2> QED
    BY <2>3 DEF Unsettled
<1>11. CASE LeaseExpires
  <2>1. PICK S : row' = [e \in Deliveries |-> IF e \in S THEN [row[e] EXCEPT !.lock = "expired"] ELSE row[e]]
    BY <1>11 DEF LeaseExpires
  <2>2. [row[d] EXCEPT !.lock = "expired"].status = row[d].status
    BY <1>1, EndedStatus
  <2>3. row'[d].status = row[d].status
    BY <2>1, <2>2
  <2> QED
    BY <2>3 DEF Unsettled
<1>12. ASSUME NEW v \in Dispatchers, Reject(v) \/ Send(v) \/ Crash(v)
       PROVE  row' = row
  BY <1>12 DEF Reject, Send, Crash
<1>13. ASSUME NEW S \in SUBSET Deliveries, Plan(S)
       PROVE  row' = row
  BY <1>13 DEF Plan
<1>14. SwitchTelegram \/ UNCHANGED vars => row' = row
  BY DEF SwitchTelegram, vars
<1> QED
  BY <1>3, <1>4, <1>5, <1>6, <1>7, <1>8, <1>9, <1>10, <1>11, <1>12, <1>13, <1>14 DEF Next, Dispatch

\* _claim_due(), plan_match(): what was recorded as sent never enters the queue again.
THEOREM SentFinal == Spec => SentIsFinal
<1>1. IInv /\ [Next]_vars =>
        [~overran => \A d \in Deliveries : row[d].status = "sent" => ~Unsettled(row'[d])]_vars
  BY SentStays
<1> QED
  BY <1>1, Invariance, PTL DEF Spec, SentIsFinal

=============================================================================
