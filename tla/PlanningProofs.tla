----------------------------- MODULE PlanningProofs -----------------------------
(***************************************************************************)
(* Proofs about the two models of notifications/planning.py.                *)
(*                                                                         *)
(* DeliverySchedule, for any number of alerts, days of any length and users *)
(* with any settings: the times that the window and the daily cap choose.   *)
(*                                                                         *)
(* ApplicationReminders, for any number of requests and dates: a request    *)
(* that no other overlapped has read the application as it is, so that the  *)
(* reminders it writes for what it has in memory are those of the row it    *)
(* leaves.                                                                  *)
(***************************************************************************)
EXTENDS DeliverySchedule, ApplicationReminders, FiniteSetTheorems, NaturalsInduction, TLAPS

-----------------------------------------------------------------------------
(* Days and hours *)

LEMMA MoreTimes ==
  ASSUME NEW a \in Nat, NEW b \in Nat, NEW H \in Nat, a > b
  PROVE  a * H >= b * H + H /\ a * H \in Nat /\ b * H \in Nat
<1>1. PICK k \in Nat : a = b + 1 + k
  <2>1. a - b - 1 \in Nat
    OBVIOUS
  <2> QED
    BY <2>1
<1>2. a * H = b * H + H + k * H
  BY <1>1
<1>3. k * H \in Nat /\ b * H \in Nat /\ a * H \in Nat
  OBVIOUS
<1> QED
  BY <1>2, <1>3

\* A time is a day and an hour.
LEMMA ClockRead ==
  ASSUME NEW t \in Nat
  PROVE  Day(t) \in Nat /\ Hour(t) \in Clock /\ t = At(Day(t), Hour(t))
BY ScheduleConstants DEF Day, Hour, At, Clock

\* A later day is later, whatever the hour.
LEMMA ClockOrder ==
  ASSUME NEW d \in Nat, NEW e \in Nat, NEW h \in Clock, NEW g \in Clock
  PROVE  /\ At(d, h) \in Nat /\ At(d + 1, h) = At(d, h) + Hours
         /\ d < e => At(d, h) < At(e, g)
         /\ At(d, h) <= At(d, g) <=> h <= g
<1> USE ScheduleConstants
<1>1. Hours \in Nat /\ h \in 0..(Hours - 1) /\ g \in 0..(Hours - 1)
  BY DEF Clock
<1>2. d * Hours \in Nat /\ e * Hours \in Nat /\ (d + 1) * Hours = d * Hours + Hours
  BY <1>1
<1>3. ASSUME d < e
      PROVE  At(d, h) < At(e, g)
  <2>1. e * Hours >= d * Hours + Hours
    BY <1>1, <1>3, MoreTimes
  <2> QED
    BY <1>1, <1>2, <2>1 DEF At
<1>4. At(d, h) \in Nat /\ At(d + 1, h) = At(d, h) + Hours
  BY <1>1, <1>2 DEF At
<1>5. At(d, h) <= At(d, g) <=> h <= g
  BY <1>1, <1>2 DEF At
<1> QED
  BY <1>3, <1>4, <1>5

\* ... and they are the only ones.
LEMMA ClockSet ==
  ASSUME NEW d \in Nat, NEW h \in Clock
  PROVE  At(d, h) \in Nat /\ Day(At(d, h)) = d /\ Hour(At(d, h)) = h
<1> DEFINE t == At(d, h)
<1> USE ScheduleConstants
<1>1. t \in Nat
  BY ClockOrder
<1> HIDE DEF t
<1>2. Day(t) \in Nat /\ Hour(t) \in Clock /\ t = At(Day(t), Hour(t))
  BY <1>1, ClockRead
<1>3. At(Day(t), Hour(t)) = At(d, h)
  BY <1>2 DEF t
<1>4. Day(t) = d
  <2>1. ~(Day(t) < d) /\ ~(d < Day(t))
    BY <1>1, <1>2, <1>3, ClockOrder
  <2> QED
    BY <1>2, <2>1
<1>5. Hour(t) = h
  <2>1. Hour(t) <= h /\ h <= Hour(t)
    BY <1>2, <1>3, <1>4, ClockOrder
  <2> QED
    BY <1>2, <2>1 DEF Clock
<1> QED
  BY <1>1, <1>4, <1>5 DEF t

\* Times are ordered by day, then by hour.
LEMMA TimeOrder ==
  ASSUME NEW t \in Nat, NEW u \in Nat
  PROVE  t <= u <=> Day(t) < Day(u) \/ (Day(t) = Day(u) /\ Hour(t) <= Hour(u))
<1>1. /\ Day(t) \in Nat /\ Hour(t) \in Clock /\ t = At(Day(t), Hour(t))
      /\ Day(u) \in Nat /\ Hour(u) \in Clock /\ u = At(Day(u), Hour(u))
  BY ClockRead
<1>2. CASE Day(t) = Day(u)
  BY <1>1, <1>2, ClockOrder
<1>3. CASE Day(t) < Day(u)
  <2>1. t < u
    BY <1>1, <1>3, ClockOrder
  <2> QED
    BY <1>3, <2>1
<1>4. CASE Day(u) < Day(t)
  <2>1. u < t
    BY <1>1, <1>4, ClockOrder
  <2> QED
    BY <1>1, <1>4, <2>1
<1> QED
  BY <1>1, <1>2, <1>3, <1>4

\* The same hour some days later.
LEMMA DaysLater ==
  ASSUME NEW t \in Nat, NEW k \in Nat
  PROVE  t + k * Hours \in Nat /\ Day(t + k * Hours) = Day(t) + k /\ Hour(t + k * Hours) = Hour(t)
<1>1. Day(t) \in Nat /\ Hour(t) \in Clock /\ t = At(Day(t), Hour(t))
  BY ClockRead
<1>2. t + k * Hours = At(Day(t) + k, Hour(t))
  BY <1>1, ScheduleConstants DEF At, Clock
<1> QED
  BY <1>1, <1>2, ClockSet

\* The earliest of some times or days.
LEMMA EarliestIs ==
  ASSUME NEW S \in SUBSET Nat, S # {}
  PROVE  Min(S) \in S /\ \A t \in S : Min(S) <= t
<1>1. PICK t \in S : \A u \in S : <<u, t>> \notin OpToRel(<, Nat)
  BY NatLessThanWellFounded, WFMin, Zenon
<1>2. \A u \in S : ~(u < t)
  BY <1>1, Zenon DEF OpToRel
<1>3. \A u \in S : t <= u
  BY <1>2
<1> QED
  BY <1>3 DEF Min

-----------------------------------------------------------------------------
(* apply_delivery_window() *)

LEMMA UserTypes ==
  ASSUME user \in Users
  PROVE  /\ user.start \in Clock \cup {None} /\ user.end \in Clock /\ user.weekend \in BOOLEAN
         /\ user.preferred \in Clock /\ user.cap \in Nat \ {0}
         /\ None \notin Clock /\ Hours \in Nat \ {0} /\ Clock \subseteq Nat
         /\ user.end \in Nat /\ user.start \in Nat
<1>1. user \in User
  BY ScheduleConstants
<1> QED
  BY <1>1, ScheduleConstants DEF User, None, Clock

\* After a paused weekend comes the same hour of a Monday.
LEMMA WeekendOver ==
  ASSUME user \in Users, NEW t \in Nat
  PROVE  /\ AfterWeekend(t) \in Nat /\ AfterWeekend(t) >= t
         /\ Hour(AfterWeekend(t)) = Hour(t)
         /\ ~Weekend(AfterWeekend(t))
         /\ ~Weekend(t) => AfterWeekend(t) = t
<1>1. CASE ~Weekend(t)
  BY <1>1 DEF AfterWeekend
<1>2. CASE Weekend(t)
  <2> DEFINE D == Day(t)
             k == 7 - (D % 7)
  <2>1. D \in Nat
    BY ClockRead
  <2> HIDE DEF D
  <2>2. k \in Nat /\ (D + k) % 7 = 0
    BY <2>1
  <2>3. AfterWeekend(t) = t + k * Hours
    BY <1>2 DEF AfterWeekend, Weekday, D
  <2> HIDE DEF k
  <2>4. /\ t + k * Hours \in Nat /\ Day(t + k * Hours) = D + k
        /\ Hour(t + k * Hours) = Hour(t)
    BY <2>2, DaysLater DEF D
  <2>5. Weekday(AfterWeekend(t)) = 0
    BY <2>2, <2>3, <2>4 DEF Weekday
  <2>6. t + k * Hours >= t
    <3>1. k * Hours \in Nat
      BY <2>2, ScheduleConstants
    <3> QED
      BY <3>1
  <2> QED
    BY <1>2, <2>3, <2>4, <2>5, <2>6 DEF Weekend
<1> QED
  BY <1>1, <1>2

\* Quiet hours are a matter of the hour alone.
LEMMA QuietByHour ==
  ASSUME NEW t, NEW u, Hour(t) = Hour(u)
  PROVE  Quiet(t) <=> Quiet(u)
BY DEF Quiet

\* The end of quiet hours is ahead, all hours until then are quiet, and it is not.
LEMMA QuietOver ==
  ASSUME user \in Users, NEW t \in Nat, Quiet(t)
  PROVE  /\ AfterQuiet(t) \in Nat /\ AfterQuiet(t) > t
         /\ Hour(AfterQuiet(t)) = user.end
         /\ AfterQuiet(t) <= t + 2 * Hours
         /\ \A u \in Nat : t <= u /\ u < AfterQuiet(t) => Quiet(u)
         /\ ~AlwaysQuiet => ~Quiet(AfterQuiet(t))
<1> DEFINE next == user.start >= user.end /\ Hour(t) >= user.start
           D == IF next THEN Day(t) + 1 ELSE Day(t)
           w == AfterQuiet(t)
<1>1. /\ user.start \in Nat /\ user.start # None /\ user.end \in Clock /\ user.end \in Nat
      /\ Day(t) \in Nat /\ Hour(t) \in Nat /\ t = At(Day(t), Hour(t))
  BY UserTypes, ClockRead DEF Quiet
<1>2. D \in Nat /\ w = At(D, user.end)
  <2>1. w = At(Day(t) + (IF next THEN 1 ELSE 0), user.end)
    BY DEF AfterQuiet
  <2>2. Day(t) + (IF next THEN 1 ELSE 0) = D
    BY <1>1
  <2>3. D \in Nat
    BY <1>1
  <2> QED
    BY <2>1, <2>2, <2>3
<1> HIDE DEF w
<1>3. w \in Nat /\ Day(w) = D /\ Hour(w) = user.end
  BY <1>1, <1>2, ClockSet
<1>4. ~next => Hour(t) < user.end
  BY <1>1 DEF Quiet
<1>5. w > t
  <2>1. ~(w <= t)
    BY <1>1, <1>3, <1>4, TimeOrder
  <2> QED
    BY <1>3, <2>1
<1>6. w <= t + 2 * Hours
  <2>1. Day(t + 2 * Hours) = Day(t) + 2 /\ t + 2 * Hours \in Nat
    BY DaysLater
  <2> QED
    BY <1>1, <1>3, <2>1, TimeOrder
<1>7. ASSUME NEW u \in Nat, t <= u, u < w
      PROVE  Quiet(u)
  <2>1. Day(u) \in Nat /\ Hour(u) \in Nat
    BY ClockRead, UserTypes
  <2>2. Day(t) < Day(u) \/ (Day(t) = Day(u) /\ Hour(t) <= Hour(u))
    BY <1>7, TimeOrder
  <2>3. ~(w <= u)
    BY <1>3, <1>7
  <2>4. ~(Day(w) < Day(u)) /\ ~(Day(w) = Day(u) /\ user.end <= Hour(u))
    BY <1>3, <2>3, TimeOrder
  <2>5. CASE next
    <3>1. Day(u) = Day(t) \/ Day(u) = Day(t) + 1
      BY <1>1, <1>3, <2>1, <2>2, <2>4, <2>5
    <3>2. Hour(u) >= user.start \/ Hour(u) < user.end
      BY <1>1, <1>3, <2>1, <2>2, <2>4, <2>5, <3>1
    <3> QED
      BY <1>1, <2>5, <3>2 DEF Quiet
  <2>6. CASE ~next
    <3>1. Day(u) = Day(t) /\ Hour(t) <= Hour(u) /\ Hour(u) < user.end
      BY <1>1, <1>3, <2>1, <2>2, <2>4, <2>6
    <3> QED
      BY <1>1, <2>1, <2>6, <3>1 DEF Quiet
  <2> QED
    BY <2>5, <2>6
<1>8. ASSUME ~AlwaysQuiet
      PROVE  ~Quiet(w)
  BY <1>1, <1>3, <1>8 DEF Quiet, AlwaysQuiet
<1> QED
  BY <1>3, <1>5, <1>6, <1>7, <1>8 DEF w

\* Two settings of the window that do not depend on each other: leaving quiet hours may lead into
\* a paused weekend, which keeps the hour.
LEMMA WindowValid ==
  ASSUME user \in Users, NEW t \in Nat
  PROVE  /\ Window(t) \in Nat /\ Window(t) >= t
         /\ ~AlwaysQuiet => Valid(Window(t))
         /\ Valid(t) => Window(t) = t
<1> DEFINE m == AfterWeekend(t)
           w == AfterQuiet(m)
<1>1. m \in Nat /\ m >= t /\ ~Weekend(m) /\ (~Weekend(t) => m = t)
  BY WeekendOver
<1>2. Window(t) = IF Quiet(m) THEN AfterWeekend(w) ELSE m
  BY DEF Window
<1> HIDE DEF m
<1>3. CASE ~Quiet(m)
  BY <1>1, <1>2, <1>3 DEF Valid
<1>4. CASE Quiet(m)
  <2>1. w \in Nat /\ w > m /\ (~AlwaysQuiet => ~Quiet(w))
    BY <1>1, <1>4, QuietOver
  <2> HIDE DEF w
  <2>2. /\ AfterWeekend(w) \in Nat /\ AfterWeekend(w) >= w /\ ~Weekend(AfterWeekend(w))
        /\ Hour(AfterWeekend(w)) = Hour(w)
    BY <2>1, WeekendOver
  <2>3. Quiet(AfterWeekend(w)) <=> Quiet(w)
    BY <2>2, QuietByHour
  <2> QED
    BY <1>1, <1>2, <1>4, <2>1, <2>2, <2>3 DEF Valid
<1> QED
  BY <1>3, <1>4

\* Without paused weekends the window is the earliest time that is not quiet.
LEMMA WindowEarliest ==
  ASSUME user \in Users, NEW t \in Nat, ~user.weekend, ~AlwaysQuiet
  PROVE  /\ Window(t) <= t + 8 * Hours
         /\ \A u \in Nat : t <= u /\ u < Window(t) => ~Valid(u)
<1>1. ~Weekend(t) /\ AfterWeekend(t) = t /\ Hours \in Nat
  BY UserTypes DEF Weekend, AfterWeekend
<1>2. CASE ~Quiet(t)
  BY <1>1, <1>2 DEF Window
<1>3. CASE Quiet(t)
  <2> DEFINE w == AfterQuiet(t)
  <2>1. w \in Nat /\ w <= t + 2 * Hours /\ \A u \in Nat : t <= u /\ u < w => Quiet(u)
    BY <1>3, QuietOver
  <2>2. Window(t) = w
    BY <1>1, <1>3 DEF Window, AfterWeekend, Weekend
  <2> HIDE DEF w
  <2> QED
    BY <1>1, <2>1, <2>2 DEF Valid
<1> QED
  BY <1>2, <1>3

LEMMA DigestAhead ==
  ASSUME user \in Users, NEW t \in Nat
  PROVE  DigestTime(t) \in Nat /\ DigestTime(t) >= t
<1>1. user.preferred \in Clock /\ Day(t) \in Nat /\ Hour(t) \in Clock /\ t = At(Day(t), Hour(t))
  BY UserTypes, ClockRead
<1>2. At(Day(t), user.preferred) \in Nat
  BY <1>1, ClockOrder
<1>3. At(Day(t) + 1, user.preferred) \in Nat /\ At(Day(t) + 1, user.preferred) > t
  <2>1. Day(t) + 1 \in Nat /\ Day(t) < Day(t) + 1
    BY <1>1
  <2> QED
    BY <1>1, <2>1, ClockOrder
<1> QED
  BY <1>2, <1>3 DEF DigestTime

-----------------------------------------------------------------------------
(* _apply_telegram_daily_cap() *)

\* Whether the preferred hour is valid repeats with the week.
LEMMA PreferredEveryWeek ==
  ASSUME user \in Users, PreferredIsValid, NEW d \in Nat
  PROVE  Valid(At(d, user.preferred))
<1> DEFINE e == FirstDay + ((d + 6 * FirstDay) % 7)
           p == user.preferred
<1>1. e \in FirstDay..(FirstDay + 6) /\ e \in Nat /\ e % 7 = d % 7
  BY ScheduleConstants
<1> HIDE DEF e
<1>2. p \in Clock
  BY UserTypes
<1>3. Valid(At(e, p))
  BY <1>1 DEF PreferredIsValid
<1>4. Day(At(e, p)) = e /\ Hour(At(e, p)) = p /\ Day(At(d, p)) = d /\ Hour(At(d, p)) = p
  BY <1>1, <1>2, ClockSet
<1>5. Weekend(At(d, p)) <=> Weekend(At(e, p))
  BY <1>1, <1>4 DEF Weekend, Weekday
<1>6. Quiet(At(d, p)) <=> Quiet(At(e, p))
  BY <1>4, QuietByHour
<1> QED
  BY <1>3, <1>5, <1>6 DEF Valid

LEMMA CountedFinite ==
  ASSUME NEW d
  PROVE  IsFiniteSet(Counted(d)) /\ Cardinality(Counted(d)) \in Nat
<1>1. Counted(d) \in SUBSET Alerts
  BY DEF Counted
<1>2. IsFiniteSet(Counted(d))
  BY <1>1, ScheduleConstants, FS_Subset
<1> QED
  BY <1>2, FS_CardinalityType

\* Of more days than there are alerts one has none, and so room.
LEMMA RoomSomewhere ==
  ASSUME ScheduleTypeOK, NEW t \in Nat
  PROVE  \E d \in Horizon(t) : HasRoom(d)
<1> SUFFICES ASSUME \A d \in Horizon(t) : ~HasRoom(d)
             PROVE  FALSE
  OBVIOUS
<1>1. Cardinality(Alerts) \in Nat /\ IsFiniteSet(Alerts) /\ Day(t) \in Nat /\ user.cap \in Nat \ {0}
  BY ScheduleConstants, FS_CardinalityType, ClockRead, UserTypes DEF ScheduleTypeOK
<1>2. IsFiniteSet(Horizon(t)) /\ Cardinality(Horizon(t)) = Cardinality(Alerts) + 1
  <2>1. Day(t) + Cardinality(Alerts) \in Int /\ Day(t) \in Int
    BY <1>1
  <2> QED
    BY <1>1, <2>1, FS_Interval DEF Horizon
<1>3. \A d \in Horizon(t) : \E a \in Alerts : a \in Counted(d)
  <2> SUFFICES ASSUME NEW d \in Horizon(t)
               PROVE  \E a \in Alerts : a \in Counted(d)
    OBVIOUS
  <2>1. ~(Cardinality(Counted(d)) < user.cap)
    BY DEF HasRoom
  <2>2. Counted(d) # {}
    BY <1>1, <2>1, FS_EmptySet
  <2> QED
    BY <2>2 DEF Counted
<1> DEFINE f == [d \in Horizon(t) |-> CHOOSE a \in Alerts : a \in Counted(d)]
<1>4. f \in [Horizon(t) -> Alerts] /\ \A d \in Horizon(t) : f[d] \in Counted(d)
  BY <1>3
<1> HIDE DEF f
<1>5. PICK d \in Horizon(t), e \in Horizon(t) : d # e /\ f[d] = f[e]
  BY <1>1, <1>2, <1>4, FS_PigeonHole
<1>6. Day(alert[f[d]].at) = d /\ Day(alert[f[e]].at) = e
  BY <1>4 DEF Counted
<1> QED
  BY <1>5, <1>6

\* An alert is planned for a day that has room, if the window does not move it from there.
LEMMA CappedAhead ==
  ASSUME ScheduleTypeOK, NEW t \in Nat
  PROVE  /\ Capped(t) \in Nat /\ Capped(t) >= t
         /\ PreferredIsValid => HasRoom(Day(Capped(t)))
<1> DEFINE S == {d \in Horizon(t) : HasRoom(d)}
           day == Min(S)
<1>1. /\ user \in Users /\ user.preferred \in Clock
      /\ Day(t) \in Nat /\ Hour(t) \in Clock /\ t = At(Day(t), Hour(t))
  BY UserTypes, ClockRead DEF ScheduleTypeOK
<1>2. Cardinality(Alerts) \in Nat
  BY ScheduleConstants, FS_CardinalityType
<1>3. S \in SUBSET Nat /\ S # {}
  BY <1>1, <1>2, RoomSomewhere DEF Horizon
<1>4. day \in S
  BY <1>3, EarliestIs
<1>5. day \in Nat /\ day >= Day(t) /\ HasRoom(day)
  BY <1>1, <1>2, <1>4 DEF Horizon
<1>6. Capped(t) = IF day = Day(t) THEN t ELSE Window(At(day, user.preferred))
  BY DEF Capped
<1> HIDE DEF day
<1>7. CASE day = Day(t)
  BY <1>5, <1>6, <1>7
<1>8. CASE day > Day(t)
  <2> DEFINE u == At(day, user.preferred)
  <2>1. u \in Nat /\ u > t /\ Day(u) = day
    BY <1>1, <1>5, <1>8, ClockOrder, ClockSet
  <2>2. PreferredIsValid => Valid(u)
    BY <1>1, <1>5, PreferredEveryWeek
  <2>3. Window(u) \in Nat /\ Window(u) >= u /\ (Valid(u) => Window(u) = u)
    BY <1>1, <2>1, WindowValid
  <2> QED
    BY <1>5, <1>6, <1>8, <2>1, <2>2, <2>3
<1> QED
  BY <1>1, <1>5, <1>7, <1>8

-----------------------------------------------------------------------------
(* ScheduleInvariance *)

CapOnAllDays == \A d \in Nat : Cardinality(Counted(d)) <= user.cap

ScheduleInv == ScheduleTypeOK /\ WindowIsKept /\ (PreferredIsValid => CapOnAllDays)

\* An alert that is counted for a day it was not counted for before finds room there.
LEMMA CapStays ==
  ASSUME ScheduleTypeOK, UNCHANGED user, NEW a \in Alerts, \A b \in Alerts \ {a} : alert'[b] = alert[b],
         \A d \in Nat : a \in Counted(d)' => HasRoom(d) \/ a \in Counted(d),
         CapOnAllDays
  PROVE  CapOnAllDays'
<1> SUFFICES ASSUME NEW d \in Nat
             PROVE  Cardinality(Counted(d)') <= user.cap
  BY DEF CapOnAllDays
<1>1. /\ IsFiniteSet(Counted(d)) /\ Cardinality(Counted(d)) \in Nat
      /\ Cardinality(Counted(d)) <= user.cap /\ user.cap \in Nat
  BY CountedFinite, UserTypes DEF CapOnAllDays, ScheduleTypeOK
<1>2. Counted(d)' \subseteq Counted(d) \cup {a}
  BY DEF Counted
<1>3. CASE a \in Counted(d)' /\ a \notin Counted(d)
  <2>1. Cardinality(Counted(d)) < user.cap
    BY <1>3 DEF HasRoom
  <2>2. /\ IsFiniteSet(Counted(d) \cup {a})
        /\ Cardinality(Counted(d) \cup {a}) = Cardinality(Counted(d)) + 1
    BY <1>1, <1>3, FS_AddElement
  <2>3. Cardinality(Counted(d)') <= Cardinality(Counted(d) \cup {a}) /\ IsFiniteSet(Counted(d)')
    BY <1>2, <2>2, FS_Subset
  <2>4. Cardinality(Counted(d)') \in Nat
    BY <2>3, FS_CardinalityType
  <2> QED
    BY <1>1, <2>1, <2>2, <2>3, <2>4
<1>4. CASE ~(a \in Counted(d)' /\ a \notin Counted(d))
  <2>1. Counted(d)' \in SUBSET Counted(d)
    BY <1>2, <1>4
  <2>2. Cardinality(Counted(d)') <= Cardinality(Counted(d)) /\ IsFiniteSet(Counted(d)')
    BY <1>1, <2>1, FS_Subset
  <2>3. Cardinality(Counted(d)') \in Nat
    BY <2>2, FS_CardinalityType
  <2> QED
    BY <1>1, <2>2, <2>3
<1> QED
  BY <1>3, <1>4

\* A step that writes one row: what is to be said of the row.
LEMMA RowStep ==
  ASSUME ScheduleInv, UNCHANGED <<user, now>>, NEW a \in Alerts, NEW row \in Alert,
         alert' = [alert EXCEPT ![a] = row],
         row.status = "pending" => row.at >= now,
         row.status = "pending" /\ row.kind # "telegram" /\ ~AlwaysQuiet => Valid(row.at),
         PreferredIsValid /\ row.kind = "telegram" /\ row.status \in {"pending", "sent"}
           => HasRoom(Day(row.at)) \/ a \in Counted(Day(row.at))
  PROVE  ScheduleInv'
<1>1. ScheduleTypeOK
  BY DEF ScheduleInv
<1>2. alert' \in [Alerts -> Alert] /\ alert'[a] = row /\ \A b \in Alerts \ {a} : alert'[b] = alert[b]
  BY <1>1 DEF ScheduleTypeOK
<1>3. ScheduleTypeOK'
  BY <1>1, <1>2 DEF ScheduleTypeOK
<1>4. /\ AlwaysQuiet' <=> AlwaysQuiet
      /\ PreferredIsValid' <=> PreferredIsValid
      /\ \A t : Valid(t)' <=> Valid(t)
  BY DEF AlwaysQuiet, PreferredIsValid, Valid, Weekend, Quiet
<1>5. WindowIsKept'
  BY <1>2, <1>4 DEF ScheduleInv, WindowIsKept
<1>6. ASSUME PreferredIsValid'
      PROVE  CapOnAllDays'
  <2>1. \A d \in Nat : a \in Counted(d)' => HasRoom(d) \/ a \in Counted(d)
    BY <1>2, <1>4, <1>6 DEF Counted
  <2> QED
    BY <1>1, <1>2, <1>4, <1>6, <2>1, CapStays DEF ScheduleInv
<1> QED
  BY <1>3, <1>5, <1>6 DEF ScheduleInv

LEMMA PlanMatchStep ==
  ASSUME ScheduleInv, NEW a \in Alerts, PlanMatch(a)
  PROVE  ScheduleInv'
<1>1. PICK kind \in {"telegram", "email"} :
        /\ alert' = [alert EXCEPT ![a] =
             [kind |-> kind, status |-> "pending",
              at |-> IF kind = "telegram" THEN Capped(now) ELSE Window(DigestTime(now))]]
        /\ UNCHANGED <<user, now>>
  BY DEF PlanMatch
<1>2. ScheduleTypeOK /\ user \in Users /\ now \in Nat
  BY DEF ScheduleInv, ScheduleTypeOK
<1>3. CASE kind = "telegram"
  <2> DEFINE row == [kind |-> "telegram", status |-> "pending", at |-> Capped(now)]
  <2>1. alert' = [alert EXCEPT ![a] = row]
    BY <1>1, <1>3
  <2>2. /\ Capped(now) \in Nat /\ Capped(now) >= now
        /\ PreferredIsValid => HasRoom(Day(Capped(now)))
    BY <1>2, CappedAhead
  <2>3. row \in Alert /\ row.kind = "telegram" /\ row.at = Capped(now)
    BY <2>2 DEF Alert
  <2> HIDE DEF row
  <2> QED
    BY <1>1, <2>1, <2>2, <2>3, RowStep
<1>4. CASE kind = "email"
  <2> DEFINE row == [kind |-> "email", status |-> "pending", at |-> Window(DigestTime(now))]
  <2>1. alert' = [alert EXCEPT ![a] = row]
    BY <1>1, <1>4
  <2>2. DigestTime(now) \in Nat /\ DigestTime(now) >= now
    BY <1>2, DigestAhead
  <2>3. /\ Window(DigestTime(now)) \in Nat /\ Window(DigestTime(now)) >= now
        /\ ~AlwaysQuiet => Valid(Window(DigestTime(now)))
    BY <1>2, <2>2, WindowValid
  <2>4. row \in Alert /\ row.kind = "email" /\ row.at = Window(DigestTime(now))
    BY <2>3 DEF Alert
  <2> HIDE DEF row
  <2> QED
    BY <1>1, <2>1, <2>3, <2>4, RowStep
<1> QED
  BY <1>3, <1>4

LEMMA PlanReminderStep ==
  ASSUME ScheduleInv, NEW a \in Alerts, PlanReminder(a)
  PROVE  ScheduleInv'
<1> DEFINE row == [kind |-> "reminder", status |-> "pending", at |-> Window(now)]
<1>1. alert' = [alert EXCEPT ![a] = row] /\ UNCHANGED <<user, now>>
  BY DEF PlanReminder
<1>2. user \in Users /\ now \in Nat
  BY DEF ScheduleInv, ScheduleTypeOK
<1>3. Window(now) \in Nat /\ Window(now) >= now /\ (~AlwaysQuiet => Valid(Window(now)))
  BY <1>2, WindowValid
<1>4. row \in Alert /\ row.kind = "reminder" /\ row.at = Window(now)
  BY <1>3 DEF Alert
<1> HIDE DEF row
<1> QED
  BY <1>1, <1>3, <1>4, RowStep

\* What is sent is sent on the day it counts for: it was due, and nothing due is passed over.
LEMMA SendStep ==
  ASSUME ScheduleInv, NEW a \in Alerts, Send(a)
  PROVE  ScheduleInv'
<1> DEFINE row == [alert[a] EXCEPT !.status = "sent", !.at = now]
<1>1. ScheduleTypeOK /\ alert[a] \in Alert /\ now \in Nat
  BY DEF ScheduleInv, ScheduleTypeOK
<1>2. alert' = [alert EXCEPT ![a] = row] /\ UNCHANGED <<user, now>>
  BY <1>1 DEF Send, ScheduleTypeOK
<1>3. row \in Alert /\ row.status = "sent" /\ row.at = now /\ row.kind = alert[a].kind
  BY <1>1 DEF Alert
<1> HIDE DEF row
<1>4. alert[a].status = "pending" /\ alert[a].at = now
  <2>1. alert[a].status = "pending" /\ alert[a].at <= now
    BY DEF Send, DueNow
  <2>2. alert[a].at >= now /\ alert[a].at \in Nat
    BY <1>1, <2>1 DEF ScheduleTypeOK, Alert
  <2> QED
    BY <1>1, <2>1, <2>2
<1>5. row.kind = "telegram" => a \in Counted(Day(row.at))
  BY <1>3, <1>4 DEF Counted
<1> QED
  BY <1>2, <1>3, <1>5, RowStep

LEMMA CancelStep ==
  ASSUME ScheduleInv, NEW a \in Alerts, Cancel(a)
  PROVE  ScheduleInv'
<1> DEFINE row == [alert[a] EXCEPT !.status = "cancelled"]
<1>1. alert[a] \in Alert
  BY DEF ScheduleInv, ScheduleTypeOK
<1>2. alert' = [alert EXCEPT ![a] = row] /\ UNCHANGED <<user, now>>
  BY DEF Cancel, ScheduleInv, ScheduleTypeOK
<1>3. row \in Alert /\ row.status = "cancelled"
  BY <1>1 DEF Alert
<1> HIDE DEF row
<1> QED
  BY <1>2, <1>3, RowStep

LEMMA PassStep ==
  ASSUME ScheduleInv, Pass
  PROVE  ScheduleInv'
<1>1. now' = now + 1 /\ UNCHANGED <<user, alert>> /\ \A a \in Alerts : ~DueNow(a)
  BY DEF Pass
<1>2. ScheduleTypeOK
  BY DEF ScheduleInv
<1>3. \A a \in Alerts : alert[a].status = "pending" => alert[a].at >= now + 1
  BY <1>1, <1>2 DEF ScheduleTypeOK, DueNow, Alert
<1>4. ScheduleTypeOK'
  BY <1>1, <1>2, <1>3 DEF ScheduleTypeOK
<1> QED
  BY <1>1, <1>4 DEF ScheduleInv, WindowIsKept, PreferredIsValid, CapOnAllDays, Counted, HasRoom, AlwaysQuiet,
     Valid, Weekend, Quiet

LEMMA InitScheduleInv == ScheduleInit => ScheduleInv
<1> SUFFICES ASSUME ScheduleInit PROVE ScheduleInv
  OBVIOUS
<1>1. NoAlert \in Alert /\ NoAlert.status = "none"
  BY DEF NoAlert, Alert
<1>2. now \in Nat
  BY ScheduleConstants DEF ScheduleInit, At
<1>3. ScheduleTypeOK /\ WindowIsKept
  BY <1>1, <1>2 DEF ScheduleInit, ScheduleTypeOK, WindowIsKept
<1>4. CapOnAllDays
  <2>1. \A d : Counted(d) = {}
    BY <1>1 DEF ScheduleInit, Counted
  <2> QED
    BY <1>3, <2>1, FS_EmptySet, UserTypes DEF ScheduleTypeOK, CapOnAllDays
<1> QED
  BY <1>3, <1>4 DEF ScheduleInv

-----------------------------------------------------------------------------
(* Theorems *)

\* The strengthening of WindowIsKept and CapIsKept holds throughout.
THEOREM ScheduleInvariance == ScheduleSpec => []ScheduleInv
<1>1. ScheduleInv /\ [ScheduleNext]_scheduleVars => ScheduleInv'
  <2> SUFFICES ASSUME ScheduleInv, [ScheduleNext]_scheduleVars PROVE ScheduleInv'
    OBVIOUS
  <2>1. CASE UNCHANGED scheduleVars
    BY <2>1 DEF scheduleVars, ScheduleInv, ScheduleTypeOK, WindowIsKept, PreferredIsValid, CapOnAllDays, Counted, HasRoom,
       AlwaysQuiet, Valid, Weekend, Quiet
  <2> QED
    BY <2>1, PlanMatchStep, PlanReminderStep, SendStep, CancelStep, PassStep DEF ScheduleNext
<1> QED
  BY InitScheduleInv, <1>1, PTL DEF ScheduleSpec

\* Rows keep their types, and nothing is planned for the past.
THEOREM ScheduleTypeCorrect == ScheduleSpec => []ScheduleTypeOK
<1>1. ScheduleInv => ScheduleTypeOK
  BY DEF ScheduleInv
<1> QED
  BY <1>1, ScheduleInvariance, PTL

\* apply_delivery_window(): whatever the settings and the length of the day, no digest and no
\* reminder is planned for quiet hours or a paused weekend.
THEOREM WindowKept == ScheduleSpec => []WindowIsKept
<1>1. ScheduleInv => WindowIsKept
  BY DEF ScheduleInv
<1> QED
  BY <1>1, ScheduleInvariance, PTL

\* apply_delivery_window(): nothing is put off for longer than the quiet hours last.
THEOREM WindowNext == ScheduleSpec => []WindowIsNext
<1>1. ScheduleTypeOK => WindowIsNext
  <2> SUFFICES ASSUME ScheduleTypeOK, ~user.weekend, ~AlwaysQuiet
               PROVE  Window(now) = Min({t \in TimesAhead : Valid(t)})
    BY DEF WindowIsNext
  <2> DEFINE S == {t \in TimesAhead : Valid(t)}
             w == Window(now)
  <2>1. user \in Users /\ now \in Nat
    BY DEF ScheduleTypeOK
  <2>2. w \in Nat /\ w >= now /\ Valid(w)
    BY <2>1, WindowValid
  <2>3. w <= now + 8 * Hours /\ \A u \in Nat : now <= u /\ u < w => ~Valid(u)
    BY <2>1, WindowEarliest
  <2>4. Hours \in Nat
    BY ScheduleConstants
  <2> HIDE DEF w
  <2>5. w \in S /\ S \in SUBSET Nat
    BY <2>1, <2>2, <2>3, <2>4 DEF TimesAhead
  <2>6. \A u \in S : w <= u
    <3> SUFFICES ASSUME NEW u \in S PROVE w <= u
      OBVIOUS
    <3>1. u \in Nat /\ now <= u /\ Valid(u)
      BY <2>1, <2>4 DEF TimesAhead
    <3> QED
      BY <2>2, <2>3, <3>1
  <2> DEFINE m == Min(S)
  <2>7. m \in S /\ \A u \in S : m <= u
    BY <2>5, EarliestIs
  <2> HIDE DEF S, m
  <2>8. m <= w /\ w <= m /\ m \in Nat
    BY <2>5, <2>6, <2>7
  <2>9. m = w
    BY <2>2, <2>8
  <2> QED
    BY <2>9 DEF S, w, m
<1> QED
  BY <1>1, ScheduleTypeCorrect, PTL

\* _apply_telegram_daily_cap(): on no day are there more alerts than the user wants, if the
\* window does not move those that overflow.
THEOREM CapKept == ScheduleSpec => []CapIsKept
<1>1. ScheduleInv => CapIsKept
  <2> SUFFICES ASSUME ScheduleInv, PreferredIsValid, NEW d \in FirstDay..(LastPlanned + 7)
               PROVE  Cardinality(Counted(d)) <= user.cap
    BY DEF CapIsKept
  <2>1. d \in Nat
    BY ScheduleConstants
  <2> QED
    BY <2>1 DEF ScheduleInv, CapOnAllDays
<1> QED
  BY <1>1, ScheduleInvariance, PTL

-----------------------------------------------------------------------------
(* ApplicationReminders *)

Taken(rs) == {i \in Ids : rs[i].state # "none"}
Used == Taken(reminders)
Opened == {r \in Requests : req[r].op # "none"}

\* Each request may still write two reminders.
RoomLeft == IsFiniteSet(Opened) /\ Cardinality(Used) + 2 * Cardinality(Opened) <= 2 * asked

\* An id that names no reminder names no delivery either.
Unplanned == \A i \in Ids : reminders[i].state = "none" => deliveries[i] = "none"

\* What a change has read of the application is what the row is, unless another came between.
ReadIsCurrent ==
  \A r \in Requests :
    req[r].op = "update" /\ ~req[r].gone => app.on /\ (req[r].stale \/ req[r].was = app)

ReminderInv == TypeOK /\ RoomLeft /\ Unplanned /\ ReadIsCurrent /\ UnsentIsCurrent /\ NothingForgotten

-----------------------------------------------------------------------------
(* New reminders *)

Schedule == [kind : Kinds, due : Days]
Fresh(s) == [kind |-> s.kind, due |-> s.due, state |-> "unsent"]

\* Two ids suffice for the schedules of an application.
LEMMA TwoSchedules ==
  ASSUME NEW a \in App
  PROVE  /\ Schedules(a) \subseteq Schedule
         /\ \E x, y : Schedules(a) \subseteq {x, y}
<1> USE ReminderConstants
<1>1. a.follow \in Dates \cup {Never} /\ a.updated \in 0..LastDay /\ a.stage \in Stages
  BY DEF App
<1>2. a.follow # Never => a.follow \in Days
  <2>1. \A d \in 1..LastDay : d \in Days
    BY DEF Days
  <2> QED
    BY <1>1, <2>1
<1>3. a.updated + SavedAfter \in Days /\ a.updated + PreparingAfter \in Days
  BY <1>1 DEF Days
<1>4. Schedules(a) \subseteq Schedule
  BY <1>2, <1>3 DEF Schedules, Schedule, Kinds
<1> DEFINE x == [kind |-> "follow_up", due |-> a.follow]
           y == IF a.stage = "saved" THEN [kind |-> "saved", due |-> a.updated + SavedAfter]
                ELSE [kind |-> "preparing", due |-> a.updated + PreparingAfter]
<1>5. Schedules(a) \subseteq {x, y}
  BY DEF Schedules
<1> HIDE DEF x, y
<1> QED
  BY <1>4, <1>5

Free(rs) == {i \in Ids : rs[i].state = "none"}

\* The reminders rs with those for S at the ids that p gives them.
Placed(rs, S, p) ==
  [i \in Ids |-> IF i \notin {p[s] : s \in S} THEN rs[i] ELSE Fresh(CHOOSE s \in S : p[s] = i)]

\* With(): each schedule gets an id of its own that was free, and at most two ids change.
LEMMA WithWrites ==
  ASSUME NEW rs \in [Ids -> Reminder], NEW S \in SUBSET Schedule, NEW W, W = With(rs, S),
         \E x, y : S \subseteq {x, y},
         \E i, k \in Ids : i # k /\ rs[i].state = "none" /\ rs[k].state = "none"
  PROVE  /\ W \in [Ids -> Reminder]
         /\ \A f \in Ids : W[f] = rs[f] \/ (rs[f].state = "none" /\ \E s \in S : W[f] = Fresh(s))
         /\ \A s \in S : \E f \in Ids : rs[f].state = "none" /\ W[f] = Fresh(s)
         /\ \A f, g \in Ids :
              rs[f].state = "none" /\ rs[g].state = "none" /\ W[f].state = "unsent" /\ W[f] = W[g] => f = g
         /\ \E a, b \in Ids : \A f \in Ids \ {a, b} : W[f] = rs[f]
<1>0. PICK x, y : S \subseteq {x, y}
  OBVIOUS
<1>a. PICK i \in Ids, k \in Ids : i # k /\ rs[i].state = "none" /\ rs[k].state = "none"
  OBVIOUS
<1> DEFINE p == CHOOSE f \in [S -> Free(rs)] : \A s, t \in S : f[s] = f[t] => s = t
<1>1. p \in [S -> Free(rs)] /\ (\A s, t \in S : p[s] = p[t] => s = t) /\ W = Placed(rs, S, p)
  <2>1. \E f \in [S -> Free(rs)] : \A s, t \in S : f[s] = f[t] => s = t
    <3> DEFINE g == [s \in S |-> IF s = x THEN i ELSE k]
    <3>1. g \in [S -> Free(rs)] /\ \A s, t \in S : g[s] = g[t] => s = t
      BY <1>0, <1>a DEF Free
    <3> HIDE DEF g
    <3> QED
      BY <3>1
  <2>2. p \in [S -> Free(rs)] /\ \A s, t \in S : p[s] = p[t] => s = t
    BY <2>1
  <2>3. W = Placed(rs, S, p)
    BY DEF With, Fresh, Placed, Free
  <2> QED
    BY <2>2, <2>3
<1> HIDE DEF p
<1>2. \A s \in S : Fresh(s) \in Reminder /\ Fresh(s).state = "unsent"
  BY DEF Schedule, Reminder, Fresh
<1>3. \A s \in S : p[s] \in Free(rs) /\ W[p[s]] = Fresh(s)
  <2> SUFFICES ASSUME NEW s \in S PROVE p[s] \in Free(rs) /\ W[p[s]] = Fresh(s)
    OBVIOUS
  <2>1. (CHOOSE t \in S : p[t] = p[s]) = s
    BY <1>1
  <2> QED
    BY <1>1, <2>1 DEF Placed, Free
<1>4. \A f \in Ids : (f \notin {p[s] : s \in S} => W[f] = rs[f]) 
  BY <1>1 DEF Placed
<1>5. \A f \in Ids : \/ W[f] = rs[f]
                     \/ rs[f].state = "none" /\ \E s \in S : W[f] = Fresh(s)
  BY <1>3, <1>4 DEF Free
<1>6. W \in [Ids -> Reminder]
  <2>1. W = [f \in Ids |-> W[f]]
    BY <1>1 DEF Placed
  <2>2. \A f \in Ids : W[f] \in Reminder
    BY <1>2, <1>5
  <2> QED
    BY <2>1, <2>2
<1>7. ASSUME NEW f \in Ids, NEW g \in Ids, rs[f].state = "none", rs[g].state = "none", W[f] = W[g],
             W[f].state = "unsent"
      PROVE  f = g
  <2>1. PICK s \in S : f = p[s]
    BY <1>4, <1>7
  <2>2. PICK t \in S : g = p[t]
    BY <1>4, <1>7
  <2>3. Fresh(s) = Fresh(t)
    BY <1>3, <1>7, <2>1, <2>2
  <2>4. s = t
    BY <2>3 DEF Fresh, Schedule
  <2> QED
    BY <2>1, <2>2, <2>4
<1>8. \E a, b \in Ids : \A f \in Ids \ {a, b} : W[f] = rs[f]
  <2> DEFINE a == IF x \in S THEN p[x] ELSE i
             b == IF y \in S THEN p[y] ELSE i
  <2>1. a \in Ids /\ b \in Ids
    BY <1>3, <1>a DEF Free
  <2>2. \A f \in Ids \ {a, b} : f \notin {p[s] : s \in S}
    BY <1>0
  <2> HIDE DEF a, b
  <2> QED
    BY <1>4, <2>1, <2>2
<1>9. \A s \in S : \E f \in Ids : rs[f].state = "none" /\ W[f] = Fresh(s)
  BY <1>3 DEF Free
<1> QED
  BY <1>5, <1>6, <1>7, <1>8, <1>9

\* An element more.
LEMMA OneMore ==
  ASSUME NEW T, IsFiniteSet(T), NEW x
  PROVE  /\ IsFiniteSet(T \cup {x}) /\ Cardinality(T \cup {x}) \in Nat
         /\ Cardinality(T \cup {x}) <= Cardinality(T) + 1
<1>1. IsFiniteSet(T \cup {x})
  BY FS_AddElement
<1>2. Cardinality(T \cup {x}) \in Nat /\ Cardinality(T) \in Nat
  BY <1>1, FS_CardinalityType
<1>3. Cardinality(T \cup {x}) = IF x \in T THEN Cardinality(T) ELSE Cardinality(T) + 1
  BY FS_AddElement
<1> QED
  BY <1>1, <1>2, <1>3

LEMMA TakenFinite ==
  ASSUME NEW rs
  PROVE  IsFiniteSet(Taken(rs)) /\ Cardinality(Taken(rs)) \in Nat
<1>1. IsFiniteSet(Ids)
  BY ReminderConstants, FS_Interval DEF Ids
<1>2. Taken(rs) \in SUBSET Ids
  BY DEF Taken
<1>3. IsFiniteSet(Taken(rs))
  BY <1>1, <1>2, FS_Subset
<1> QED
  BY <1>3, FS_CardinalityType

\* An open request finds two free ids.
LEMMA RoomForTwo ==
  ASSUME ReminderInv, NEW r \in Requests, req[r].op # "none"
  PROVE  \E i, k \in Ids : i # k /\ reminders[i].state = "none" /\ reminders[k].state = "none"
<1> USE ReminderConstants
<1>1. IsFiniteSet(Ids) /\ Cardinality(Ids) = 2 * MaxRequests
  BY FS_Interval DEF Ids
<1>2. Cardinality(Opened) \in Nat /\ Cardinality(Opened) # 0
  <2>1. IsFiniteSet(Opened) /\ Opened # {}
    BY DEF ReminderInv, RoomLeft, Opened
  <2> QED
    BY <2>1, FS_CardinalityType, FS_EmptySet
<1>3. asked <= MaxRequests /\ asked \in Nat
  BY DEF ReminderInv, TypeOK
<1> DEFINE free == Ids \ Used
<1>4. IsFiniteSet(free) /\ Cardinality(free) >= 2 /\ Cardinality(free) \in Nat
  <2>1. Ids \cap Used = Used
    BY DEF Used, Taken
  <2>a. Cardinality(Used) \in Nat
    BY TakenFinite DEF Used
  <2>2. IsFiniteSet(free) /\ Cardinality(free) = Cardinality(Ids) - Cardinality(Ids \cap Used)
    BY <1>1, FS_Difference
  <2>3. Cardinality(Used) + 2 * Cardinality(Opened) <= 2 * asked
    BY DEF ReminderInv, RoomLeft
  <2>4. Cardinality(free) = 2 * MaxRequests - Cardinality(Used)
    BY <1>1, <2>1, <2>2
  <2> HIDE DEF free
  <2>5. Cardinality(free) >= 2 /\ Cardinality(free) \in Nat
    BY <1>2, <1>3, <2>a, <2>3, <2>4
  <2> QED
    BY <2>2, <2>5
<1>5. PICK i \in free : TRUE
  BY <1>4, FS_EmptySet
<1>6. IsFiniteSet(free \ {i}) /\ Cardinality(free \ {i}) = Cardinality(free) - 1
  BY <1>4, <1>5, FS_RemoveElement
<1>7. PICK k \in free \ {i} : TRUE
  BY <1>4, <1>6, FS_EmptySet
<1> QED
  BY <1>5, <1>7 DEF Used, Taken

\* Of the reminders that were sent, and of no others, R keeps what they are; of the rest what is
\* left are new reminders, one of each schedule of S.
Renewed(R, S) ==
  /\ R \in [Ids -> Reminder]
  /\ \A i \in Ids : \/ R[i].state = "deleted"
                    \/ R[i].state = "none" /\ deliveries[i] = "none"
                    \/ R[i].state = "sent" /\ R[i] = reminders[i]
                    \/ \E s \in S : R[i] = Fresh(s)
  /\ \A s \in S : \E i \in Ids : R[i] = Fresh(s)
  /\ \A i, k \in Ids : /\ R[i].state \in {"unsent", "sent"} /\ R[k].state \in {"unsent", "sent"}
                       /\ R[i].kind = R[k].kind /\ R[i].due = R[k].due
                       => i = k
  /\ Cardinality(Taken(R)) <= Cardinality(Used) + 2

\* Synced() throws away what was not sent and finds room for the rest.
LEMMA SyncedWrites ==
  ASSUME ReminderInv, NEW r \in Requests, req[r].op # "none", NEW a \in App, ~Clashes(a),
         NEW R, R = Synced(a)
  PROVE  Renewed(R, Schedules(a))
<1> DEFINE rs == [i \in Ids |-> IF i \in Unsent THEN Thrown(i) ELSE reminders[i]]
           S == Schedules(a)
<1> USE ReminderConstants
<1>1. /\ reminders \in [Ids -> Reminder]
      /\ \A i, k \in There : Key(i) = Key(k) => i = k
      /\ \A i \in Ids : reminders[i].state = "none" => deliveries[i] = "none"
  BY DEF ReminderInv, TypeOK, Unplanned
<1>2. NoReminder \in Reminder /\ NoReminder.state = "none"
  BY DEF NoReminder, Reminder, Kinds, Days
<1>3. \A i \in Ids : /\ rs[i] \in Reminder
                     /\ rs[i].state # "unsent"
                     /\ rs[i].state = "none" => deliveries[i] = "none"
                     /\ rs[i].state # "none" => reminders[i].state # "none"
                     /\ rs[i].state = "sent" => rs[i] = reminders[i]
  <2> SUFFICES ASSUME NEW i \in Ids
               PROVE  /\ rs[i] \in Reminder
                      /\ rs[i].state # "unsent"
                      /\ rs[i].state = "none" => deliveries[i] = "none"
                      /\ rs[i].state # "none" => reminders[i].state # "none"
                      /\ rs[i].state = "sent" => rs[i] = reminders[i]
    OBVIOUS
  <2>1. CASE i \in Unsent
    <3>1. rs[i] = IF deliveries[i] = "none" THEN NoReminder ELSE [reminders[i] EXCEPT !.state = "deleted"]
      BY <2>1 DEF Thrown
    <3>2. [reminders[i] EXCEPT !.state = "deleted"] \in Reminder
          /\ [reminders[i] EXCEPT !.state = "deleted"].state = "deleted"
      BY <1>1 DEF Reminder
    <3> QED
      BY <1>1, <1>2, <2>1, <3>1, <3>2 DEF Unsent
  <2>2. CASE i \notin Unsent
    BY <1>1, <2>2 DEF Unsent
  <2> QED
    BY <2>1, <2>2
<1>4. PICK i \in Ids, k \in Ids : i # k /\ rs[i].state = "none" /\ rs[k].state = "none"
  BY <1>3, RoomForTwo
<1>5. S \in SUBSET Schedule /\ \E x, y : S \subseteq {x, y}
  BY TwoSchedules
<1>6. rs \in [Ids -> Reminder]
  BY <1>3
<1>7. R = With(rs, S)
  BY DEF Synced
<1> HIDE DEF rs, S
<1>8. /\ R \in [Ids -> Reminder]
      /\ \A f \in Ids : R[f] = rs[f] \/ (rs[f].state = "none" /\ \E s \in S : R[f] = Fresh(s))
      /\ \A s \in S : \E f \in Ids : rs[f].state = "none" /\ R[f] = Fresh(s)
      /\ \A f, g \in Ids : rs[f].state = "none" /\ R[f] = R[g]
                           /\ R[f].state = "unsent" /\ rs[g].state = "none" => f = g
      /\ \E x, y \in Ids : \A f \in Ids \ {x, y} : R[f] = rs[f]
  BY <1>4, <1>5, <1>6, <1>7, WithWrites
<1>9. \A f \in Ids : \/ R[f].state = "deleted"
                     \/ R[f].state = "none" /\ deliveries[f] = "none"
                     \/ R[f].state = "sent" /\ R[f] = reminders[f]
                     \/ \E s \in S : R[f] = Fresh(s)
  BY <1>3, <1>8 DEF Reminder
<1>10. ASSUME NEW f \in Ids, NEW g \in Ids,
              R[f].state \in {"unsent", "sent"}, R[g].state \in {"unsent", "sent"},
              R[f].kind = R[g].kind, R[f].due = R[g].due
       PROVE  f = g
  <2>1. \A s \in S : s \in Schedule /\ Fresh(s).state = "unsent" /\ Fresh(s).kind = s.kind /\ Fresh(s).due = s.due
                    /\ s = [kind |-> s.kind, due |-> s.due]
    BY <1>5 DEF Fresh, Schedule
  <2>2. \A e \in Ids : R[e].state = "sent" => e \in There \ Unsent /\ R[e] = reminders[e]
    BY <1>9, <2>1 DEF There, Unsent
  <2>3. \A e \in Ids : R[e].state = "unsent" => rs[e].state = "none" /\ \E s \in S : R[e] = Fresh(s)
    BY <1>3, <1>8
  <2>4. \A e \in There \ Unsent : Key(e) \notin S
    BY DEF Clashes, S
  <2>5. CASE R[f].state = "sent" /\ R[g].state = "sent"
    <3>1. f \in There /\ g \in There /\ Key(f) = Key(g)
      BY <1>10, <2>2, <2>5 DEF Key
    <3> QED
      BY <1>1, <3>1
  <2>6. ASSUME NEW d \in Ids, NEW e \in Ids, R[d].state = "sent", R[e].state = "unsent",
               R[d].kind = R[e].kind, R[d].due = R[e].due
        PROVE  FALSE
    <3>1. PICK s \in S : R[e] = Fresh(s)
      BY <2>3, <2>6
    <3>2. Key(d) = s
      BY <2>1, <2>2, <2>6, <3>1 DEF Key
    <3> QED
      BY <2>2, <2>4, <2>6, <3>2
  <2>7. CASE R[f].state = "unsent" /\ R[g].state = "unsent"
    <3>1. R[f] = R[g]
      BY <1>10, <2>1, <2>3, <2>7
    <3> QED
      BY <1>8, <2>3, <2>7, <3>1
  <2> QED
    BY <1>10, <2>5, <2>6, <2>7
<1>11. Cardinality(Taken(R)) <= Cardinality(Used) + 2
  <2>1. PICK x \in Ids, y \in Ids : \A f \in Ids \ {x, y} : R[f] = rs[f]
    BY <1>8
  <2> DEFINE new == Taken(R)
  <2>2. new \subseteq (Used \cup {x}) \cup {y}
    BY <1>3, <2>1 DEF Used, Taken
  <2>3. IsFiniteSet(Used) /\ Cardinality(Used) \in Nat
    BY TakenFinite DEF Used
  <2>4. /\ IsFiniteSet(Used \cup {x}) /\ Cardinality(Used \cup {x}) \in Nat
        /\ Cardinality(Used \cup {x}) <= Cardinality(Used) + 1
    BY <2>3, OneMore
  <2> DEFINE more == Used \cup {x}
  <2> HIDE DEF new, more
  <2>5. /\ IsFiniteSet(more \cup {y}) /\ Cardinality(more \cup {y}) \in Nat
        /\ Cardinality(more \cup {y}) <= Cardinality(more) + 1
    BY <2>4, OneMore DEF more
  <2>6. Cardinality(new) <= Cardinality(more \cup {y}) /\ Cardinality(new) \in Nat
    <3>1. new \in SUBSET (more \cup {y})
      BY <2>2 DEF more
    <3>2. IsFiniteSet(new) /\ Cardinality(new) <= Cardinality(more \cup {y})
      BY <2>5, <3>1, FS_Subset
    <3> QED
      BY <3>2, FS_CardinalityType
  <2>7. Cardinality(new) <= Cardinality(Used) + 2
    BY <2>3, <2>4, <2>5, <2>6 DEF more
  <2> QED
    BY <2>7 DEF new
<1> QED
  BY <1>8, <1>9, <1>10, <1>11 DEF S, Renewed

-----------------------------------------------------------------------------
(* The steps of requests *)

LEMMA RowTypes ==
  /\ NoApp \in App /\ NoRequest \in Request /\ NoReminder \in Reminder
  /\ NoRequest.op = "none" /\ NoReminder.state = "none" /\ ~NoApp.on
<1> USE ReminderConstants
<1>1. NoApp \in App /\ ~NoApp.on
  BY DEF NoApp, App, Stages, Never
<1>2. NoReminder \in Reminder /\ NoReminder.state = "none"
  BY DEF NoReminder, Reminder, Kinds, Days
<1> QED
  BY <1>1, <1>2 DEF NoRequest, Request

\* What a request writes is what it has in memory, unless another came between.
LEMMA RowWritten ==
  ASSUME ReminderInv, NEW r \in Requests, req[r].op # "none", ~Lost(req[r]), NEW c \in Asked
  PROVE  /\ Seen(req[r], c) \in App
         /\ Written(req[r], c) \in App
         /\ Written(req[r], c).on
         /\ ~req[r].stale => Written(req[r], c) = Seen(req[r], c)
<1> USE ReminderConstants
<1> DEFINE q == req[r]
<1>1. q \in Request /\ app \in App /\ today \in 0..LastDay /\ c.stage \in Stages
      /\ c.follow \in Dates \cup {Never}
  BY DEF ReminderInv, TypeOK, Asked
<1>2. q.was \in App /\ q.op \in {"create", "update"}
  BY <1>1 DEF Request
<1>3. (IF Touched(q, c) THEN today ELSE q.was.updated) \in 0..LastDay
  BY <1>1, <1>2 DEF App
<1>4. Seen(q, c) \in App /\ Seen(q, c).on
  BY <1>1, <1>3 DEF Seen, App
<1>5. CASE q.op = "create"
  BY <1>4, <1>5 DEF Written
<1>6. CASE q.op = "update"
  <2>1. /\ Written(q, c) = [on |-> app.on, synced |-> TRUE,
                           stage |-> IF c.stage # q.was.stage THEN c.stage ELSE app.stage,
                           follow |-> IF c.follow # q.was.follow THEN c.follow ELSE app.follow,
                           updated |-> IF Touched(q, c) THEN today ELSE app.updated]
    BY <1>1, <1>6 DEF Written, App
  <2>2. app.on /\ (q.stale \/ q.was = app)
    BY <1>6 DEF ReminderInv, ReadIsCurrent, Lost
  <2>3. Written(q, c) \in App /\ Written(q, c).on
    BY <1>1, <2>1, <2>2 DEF App
  <2>4. ASSUME ~q.stale
        PROVE  Written(q, c) = Seen(q, c)
    BY <2>1, <2>2, <2>4 DEF Seen
  <2> QED
    BY <1>4, <2>3, <2>4
<1> QED
  BY <1>2, <1>5, <1>6

LEMMA CommitStep ==
  ASSUME ReminderInv, NEW r \in Requests, Commit(r)
  PROVE  ReminderInv'
<1> DEFINE q == req[r]
<1>1. PICK c \in Asked : /\ ~Clashes(Seen(q, c))
                        /\ app' = Written(q, c)
                        /\ reminders' = Synced(Seen(q, c))
  BY DEF Commit
<1>2. /\ q.op # "none" /\ ~Lost(q) /\ raced' = (raced \/ q.stale)
      /\ req' = [o \in Requests |-> IF o = r THEN NoRequest
                                    ELSE [req[o] EXCEPT !.stale = req[o].op = "update"]]
      /\ UNCHANGED <<deliveries, today, asked, conflict>>
  BY DEF Commit
<1>3. TypeOK /\ RoomLeft
  BY DEF ReminderInv
<1>4. app' \in App /\ app'.on /\ (~q.stale => app' = Seen(q, c)) /\ Seen(q, c) \in App
  BY <1>1, <1>2, RowWritten
<1> DEFINE S == Schedules(Seen(q, c))
<1>5. Renewed(reminders', S)
  BY <1>1, <1>2, <1>4, SyncedWrites
<1>6. \A s \in S : s \in Schedule /\ Fresh(s).state = "unsent" /\ s = [kind |-> Fresh(s).kind, due |-> Fresh(s).due]
  BY <1>4, TwoSchedules DEF Schedule, Fresh
<1> HIDE DEF S
<1>7. req' \in [Requests -> Request] /\ req'[r].op = "none"
      /\ \A o \in Requests \ {r} : /\ req'[o].op = req[o].op
                                  /\ req'[o].stale = (req[o].op = "update")
  <2>1. \A o \in Requests : [req[o] EXCEPT !.stale = (req[o].op = "update")] \in Request
                           /\ [req[o] EXCEPT !.stale = (req[o].op = "update")].op = req[o].op
                           /\ [req[o] EXCEPT !.stale = (req[o].op = "update")].stale = (req[o].op = "update")
    BY <1>3 DEF TypeOK, Request
  <2> QED
    BY <1>2, <2>1, RowTypes
<1>8. TypeOK'
  <2>1. raced' \in BOOLEAN
    BY <1>2, <1>3 DEF TypeOK, Request
  <2>2. (\A i, k \in There : Key(i) = Key(k) => i = k)'
    <3> SUFFICES ASSUME NEW i \in There', NEW k \in There', Key(i)' = Key(k)'
                 PROVE  i = k
      OBVIOUS
    <3>1. reminders'[i].kind = reminders'[k].kind /\ reminders'[i].due = reminders'[k].due
      BY DEF Key
    <3> QED
      BY <1>5, <3>1 DEF There, Renewed
  <2> QED
    BY <1>2, <1>3, <1>4, <1>5, <1>7, <2>1, <2>2 DEF TypeOK, Renewed
<1>9. RoomLeft'
  <2>1. Opened' = Opened \ {r} /\ r \in Opened
    BY <1>2, <1>7 DEF Opened
  <2>2. IsFiniteSet(Opened') /\ Cardinality(Opened') = Cardinality(Opened) - 1
    BY <1>3, <2>1, FS_RemoveElement DEF RoomLeft
  <2>3. Cardinality(Used') <= Cardinality(Used) + 2
    BY <1>5 DEF Used, Renewed
  <2>4. /\ Cardinality(Used) \in Nat /\ Cardinality(Used') \in Nat /\ Cardinality(Opened) \in Nat
        /\ asked \in Nat /\ asked' = asked
    <3>1. Cardinality(Used') \in Nat /\ Cardinality(Used) \in Nat
      BY TakenFinite DEF Used
    <3> QED
      BY <1>2, <1>3, <3>1, FS_CardinalityType DEF RoomLeft, TypeOK
  <2> QED
    BY <1>3, <2>2, <2>3, <2>4 DEF RoomLeft
<1>10. Unplanned'
  BY <1>2, <1>5, <1>6 DEF Unplanned, Renewed
<1>11. ReadIsCurrent'
  BY <1>4, <1>7 DEF ReadIsCurrent
<1>12. ASSUME ~raced'
       PROVE  UnsentIsCurrent' /\ NothingForgotten'
  <2>1. app' = Seen(q, c) /\ Schedules(app') = S
    BY <1>2, <1>4, <1>12 DEF S
  <2>2. \A i \in Unsent' : \E s \in S : reminders'[i] = Fresh(s)
    BY <1>5 DEF Unsent, Renewed
  <2>3. UnsentIsCurrent'
    BY <1>4, <1>6, <2>1, <2>2 DEF UnsentIsCurrent, Key
  <2>4. NothingForgotten'
    <3>1. \A s \in S : \E i \in There' : Key(i)' = s
      BY <1>5, <1>6 DEF There, Key, Renewed
    <3> QED
      BY <2>1, <3>1 DEF NothingForgotten
  <2> QED
    BY <2>3, <2>4
<1> QED
  BY <1>8, <1>9, <1>10, <1>11, <1>12 DEF ReminderInv, UnsentIsCurrent, NothingForgotten

\* A request that opens reads the row as it is, and takes the room of two reminders.
LEMMA OpenStep ==
  ASSUME ReminderInv, NEW r \in Requests, Create(r) \/ Update(r)
  PROVE  ReminderInv'
<1>1. PICK op \in {"create", "update"} : Open(r, op) /\ (op = "update" => app.on)
  BY DEF Create, Update
<1> DEFINE q == [NoRequest EXCEPT !.op = op, !.was = app]
<1>2. /\ req[r].op = "none" /\ asked < MaxRequests /\ asked' = asked + 1
      /\ req' = [req EXCEPT ![r] = q]
      /\ UNCHANGED <<app, reminders, deliveries, today, conflict, raced>>
  BY <1>1 DEF Open
<1>3. TypeOK
  BY DEF ReminderInv
<1>4. q \in Request /\ q.op = op /\ q.was = app
  BY <1>3, RowTypes DEF TypeOK, Request
<1> HIDE DEF q
<1>5. req' \in [Requests -> Request] /\ req'[r] = q /\ \A o \in Requests \ {r} : req'[o] = req[o]
  BY <1>2, <1>3, <1>4 DEF TypeOK
<1>6. TypeOK'
  BY <1>2, <1>3, <1>5, ReminderConstants DEF TypeOK, There, Key
<1>7. RoomLeft'
  <2>1. Opened' = Opened \cup {r} /\ r \notin Opened
    BY <1>2, <1>4, <1>5 DEF Opened
  <2>2. IsFiniteSet(Opened') /\ Cardinality(Opened') = Cardinality(Opened) + 1
    BY <2>1, FS_AddElement DEF ReminderInv, RoomLeft
  <2>3. Used' = Used
    BY <1>2 DEF Used, Taken
  <2>4. Cardinality(Used) \in Nat /\ Cardinality(Opened) \in Nat /\ asked \in Nat
    BY <1>3, TakenFinite, FS_CardinalityType DEF Used, TypeOK, ReminderInv, RoomLeft
  <2> QED
    BY <1>2, <2>2, <2>3, <2>4 DEF ReminderInv, RoomLeft
<1>8. ReadIsCurrent'
  BY <1>1, <1>2, <1>4, <1>5 DEF ReminderInv, ReadIsCurrent
<1> QED
  BY <1>2, <1>6, <1>7, <1>8 DEF ReminderInv, Unplanned, UnsentIsCurrent, NothingForgotten, Unsent, There, Key

\* A request that ends without a trace.
LEMMA RefuseStep ==
  ASSUME ReminderInv, NEW r \in Requests, Refuse(r)
  PROVE  ReminderInv'
<1>1. /\ req' = [req EXCEPT ![r] = NoRequest]
      /\ conflict' = (conflict \/ ~Lost(req[r]))
      /\ UNCHANGED <<app, reminders, deliveries, today, asked, raced>>
  BY DEF Refuse
<1>2. TypeOK
  BY DEF ReminderInv
<1>3. req' \in [Requests -> Request] /\ req'[r] = NoRequest /\ \A o \in Requests \ {r} : req'[o] = req[o]
  BY <1>1, <1>2, RowTypes DEF TypeOK
<1>4. conflict' \in BOOLEAN
  BY <1>1
<1>5. TypeOK'
  BY <1>1, <1>2, <1>3, <1>4 DEF TypeOK, There, Key
<1>6. RoomLeft'
  <2>1. Opened' \in SUBSET Opened
    BY <1>3, RowTypes DEF Opened
  <2>2. IsFiniteSet(Opened') /\ Cardinality(Opened') <= Cardinality(Opened)
    BY <2>1, FS_Subset DEF ReminderInv, RoomLeft
  <2>3. Used' = Used
    BY <1>1 DEF Used, Taken
  <2>4. /\ Cardinality(Used) \in Nat /\ Cardinality(Opened) \in Nat /\ asked \in Nat
        /\ Cardinality(Opened') \in Nat
    BY <1>2, <2>2, TakenFinite, FS_CardinalityType DEF Used, TypeOK, ReminderInv, RoomLeft
  <2> QED
    BY <1>1, <2>2, <2>3, <2>4 DEF ReminderInv, RoomLeft
<1>7. ReadIsCurrent'
  BY <1>1, <1>3, RowTypes DEF ReminderInv, ReadIsCurrent
<1> QED
  BY <1>1, <1>5, <1>6, <1>7 DEF ReminderInv, Unplanned, UnsentIsCurrent, NothingForgotten, Unsent, There, Key

\* A bookmark has no reminders to be forgotten.
LEMMA BookmarkStep ==
  ASSUME ReminderInv, Bookmark
  PROVE  ReminderInv'
<1>1. PICK stage \in Stages : app' = [NoApp EXCEPT !.on = TRUE, !.stage = stage, !.updated = today]
  BY DEF Bookmark
<1>2. ~app.on /\ UNCHANGED <<reminders, deliveries, today, req, asked, conflict, raced>>
  BY DEF Bookmark
<1>3. TypeOK
  BY DEF ReminderInv
<1>4. app' \in App /\ ~app'.synced
  BY <1>1, <1>3, RowTypes DEF TypeOK, App, NoApp
<1>5. TypeOK'
  BY <1>2, <1>3, <1>4 DEF TypeOK, There, Key
<1>6. ReadIsCurrent'
  BY <1>2 DEF ReminderInv, ReadIsCurrent
<1>7. raced \/ Unsent = {}
  BY <1>2 DEF ReminderInv, UnsentIsCurrent
<1>8. UnsentIsCurrent'
  BY <1>2, <1>7 DEF UnsentIsCurrent, Unsent
<1>9. NothingForgotten'
  BY <1>4 DEF NothingForgotten
<1> QED
  BY <1>2, <1>5, <1>6, <1>8, <1>9 DEF ReminderInv, RoomLeft, Opened, Used, Taken, Unplanned

\* delete_application(): no reminder of it is left, and open changes of it will find it gone.
LEMMA DeleteStep ==
  ASSUME ReminderInv, Delete
  PROVE  ReminderInv'
<1>1. /\ app' = NoApp /\ raced' = FALSE /\ UNCHANGED <<today, asked, conflict>>
      /\ reminders' = [i \in Ids |-> IF Underway(i) THEN [reminders[i] EXCEPT !.state = "deleted"]
                                     ELSE NoReminder]
      /\ deliveries' = [i \in Ids |-> IF Underway(i) THEN deliveries[i] ELSE "none"]
      /\ req' = [r \in Requests |-> IF req[r].op = "update"
                                    THEN [NoRequest EXCEPT !.op = "update", !.gone = TRUE] ELSE req[r]]
  BY DEF Delete
<1>2. TypeOK /\ Unplanned
  BY DEF ReminderInv
<1>3. \A i \in Ids : /\ reminders'[i] \in Reminder
                     /\ reminders'[i].state \in {"none", "deleted"}
                     /\ reminders'[i].state = "none" => deliveries'[i] = "none"
                     /\ reminders[i].state = "none" => reminders'[i].state = "none"
  <2> SUFFICES ASSUME NEW i \in Ids
               PROVE  /\ reminders'[i] \in Reminder
                      /\ reminders'[i].state \in {"none", "deleted"}
                      /\ reminders'[i].state = "none" => deliveries'[i] = "none"
                      /\ reminders[i].state = "none" => reminders'[i].state = "none"
    OBVIOUS
  <2>1. CASE Underway(i)
    <3>1. [reminders[i] EXCEPT !.state = "deleted"] \in Reminder
          /\ [reminders[i] EXCEPT !.state = "deleted"].state = "deleted"
      BY <1>2 DEF TypeOK, Reminder
    <3>2. reminders[i].state # "none"
      BY <1>2, <2>1 DEF Unplanned, Underway
    <3> QED
      BY <1>1, <2>1, <3>1, <3>2
  <2>2. CASE ~Underway(i)
    BY <1>1, <2>2, RowTypes
  <2> QED
    BY <2>1, <2>2
<1>4. reminders' \in [Ids -> Reminder] /\ deliveries' \in [Ids -> Delivery]
  <2>1. reminders' \in [Ids -> Reminder]
    BY <1>1, <1>3
  <2>2. deliveries' \in [Ids -> Delivery]
    BY <1>1, <1>2 DEF TypeOK, Delivery
  <2> QED
    BY <2>1, <2>2
<1>5. There' = {} /\ Unsent' = {}
  BY <1>3 DEF There, Unsent
<1> DEFINE g == [NoRequest EXCEPT !.op = "update", !.gone = TRUE]
<1>6. g \in Request /\ g.op = "update" /\ g.gone
  BY RowTypes DEF Request
<1>7. req' \in [Requests -> Request] /\ \A r \in Requests : req'[r].op = req[r].op
                                    /\ (req'[r].op = "update" => req'[r].gone)
  BY <1>1, <1>2, <1>6 DEF TypeOK
<1>8. TypeOK'
  BY <1>1, <1>2, <1>4, <1>5, <1>7, RowTypes DEF TypeOK
<1>9. RoomLeft'
  <2>1. Opened' = Opened
    BY <1>7 DEF Opened
  <2>2. Used' \in SUBSET Used
    BY <1>3 DEF Used, Taken
  <2>3. Cardinality(Used') <= Cardinality(Used)
    BY <2>2, TakenFinite, FS_Subset DEF Used
  <2>4. /\ Cardinality(Used) \in Nat /\ Cardinality(Used') \in Nat
        /\ Cardinality(Opened) \in Nat /\ asked \in Nat
    BY <1>2, TakenFinite, FS_CardinalityType DEF Used, TypeOK, ReminderInv, RoomLeft
  <2> QED
    BY <1>1, <2>1, <2>3, <2>4 DEF ReminderInv, RoomLeft
<1>10. Unplanned' /\ ReadIsCurrent'
  BY <1>3, <1>7 DEF Unplanned, ReadIsCurrent
<1>11. UnsentIsCurrent' /\ NothingForgotten'
  BY <1>1, <1>5, RowTypes DEF UnsentIsCurrent, NothingForgotten
<1> QED
  BY <1>8, <1>9, <1>10, <1>11 DEF ReminderInv

-----------------------------------------------------------------------------
(* Planner, dispatcher and time *)

\* What only moves deliveries of reminders, and perhaps marks one reminder sent, changes nothing
\* else that is said of them.
LEMMA DeliveryStep ==
  ASSUME ReminderInv, UNCHANGED <<app, today, req, asked, conflict, raced>>,
         deliveries' \in [Ids -> Delivery],
         \A i \in Ids : deliveries'[i] # deliveries[i] => reminders[i].state # "none",
         reminders' \in [Ids -> Reminder],
         \A i \in Ids : \/ reminders'[i] = reminders[i]
                       \/ /\ reminders[i].state = "unsent" /\ reminders'[i].state = "sent"
                          /\ reminders'[i].kind = reminders[i].kind /\ reminders'[i].due = reminders[i].due
  PROVE  ReminderInv'
<1>1. There' = There /\ Unsent' \subseteq Unsent /\ Used' = Used /\ Opened' = Opened
  BY DEF There, Unsent, Used, Taken, Opened
<1>2. \A i \in Ids : Key(i)' = Key(i)
  BY DEF Key
<1>3. TypeOK'
  BY <1>1, <1>2 DEF ReminderInv, TypeOK, There
<1>4. RoomLeft' /\ ReadIsCurrent'
  BY <1>1 DEF ReminderInv, RoomLeft, ReadIsCurrent
<1>5. Unplanned'
  BY DEF ReminderInv, Unplanned
<1>6. UnsentIsCurrent'
  BY <1>1, <1>2 DEF ReminderInv, UnsentIsCurrent, Unsent
<1>7. NothingForgotten'
  BY <1>1, <1>2 DEF ReminderInv, NothingForgotten, There
<1> QED
  BY <1>3, <1>4, <1>5, <1>6, <1>7 DEF ReminderInv

LEMMA PlanStep ==
  ASSUME ReminderInv, Plan
  PROVE  ReminderInv'
<1>1. deliveries' = [i \in Ids |-> IF i \in Due THEN "pending" ELSE deliveries[i]]
      /\ UNCHANGED <<app, reminders, today, req, asked, conflict, raced>>
  BY DEF Plan
<1>2. deliveries' \in [Ids -> Delivery]
  BY <1>1 DEF ReminderInv, TypeOK, Delivery
<1>3. \A i \in Ids : deliveries'[i] # deliveries[i] => reminders[i].state # "none"
  BY <1>1 DEF Due, Unsent
<1> QED
  BY <1>1, <1>2, <1>3, DeliveryStep DEF ReminderInv, TypeOK

LEMMA DispatchStep ==
  ASSUME ReminderInv, NEW i \in Ids, Claim(i) \/ Sent(i) \/ Cancelled(i)
  PROVE  ReminderInv'
<1>1. /\ UNCHANGED <<app, today, req, asked, conflict, raced>>
      /\ deliveries[i] # "none" /\ \E to \in Delivery : deliveries' = [deliveries EXCEPT ![i] = to]
  BY DEF Claim, Sent, Cancelled, Deliver, Delivery
<1>2. TypeOK
  BY DEF ReminderInv
<1>3. deliveries' \in [Ids -> Delivery] /\ \A k \in Ids : deliveries'[k] # deliveries[k] => k = i
  BY <1>1, <1>2 DEF TypeOK
<1>4. \A k \in Ids : deliveries'[k] # deliveries[k] => reminders[k].state # "none"
  BY <1>1, <1>3 DEF ReminderInv, Unplanned
<1>5. CASE Claim(i) \/ Cancelled(i)
  <2>1. reminders' = reminders
    BY <1>5 DEF Claim, Cancelled
  <2> QED
    BY <1>1, <1>2, <1>3, <1>4, <2>1, DeliveryStep DEF TypeOK
<1>6. CASE Sent(i)
  <2> DEFINE new == [reminders[i] EXCEPT !.state = IF @ = "unsent" THEN "sent" ELSE @]
  <2>1. reminders' = [reminders EXCEPT ![i] = new]
    BY <1>2, <1>6 DEF Sent, TypeOK
  <2>2. /\ new \in Reminder
        /\ \/ new = reminders[i]
           \/ /\ reminders[i].state = "unsent" /\ new.state = "sent"
              /\ new.kind = reminders[i].kind /\ new.due = reminders[i].due
    BY <1>2 DEF TypeOK, Reminder
  <2> HIDE DEF new
  <2>3. reminders' \in [Ids -> Reminder]
    BY <1>2, <2>1, <2>2 DEF TypeOK
  <2>4. \A k \in Ids : \/ reminders'[k] = reminders[k]
                      \/ /\ reminders[k].state = "unsent" /\ reminders'[k].state = "sent"
                         /\ reminders'[k].kind = reminders[k].kind /\ reminders'[k].due = reminders[k].due
    BY <1>2, <2>1, <2>2 DEF TypeOK
  <2> QED
    BY <1>1, <1>3, <1>4, <2>3, <2>4, DeliveryStep
<1> QED
  BY <1>5, <1>6

LEMMA QuietStep == ReminderInv /\ (NextDay \/ UNCHANGED vars) => ReminderInv'
<1> SUFFICES ASSUME ReminderInv, NextDay \/ UNCHANGED vars PROVE ReminderInv'
  OBVIOUS
<1>1. UNCHANGED <<app, reminders, deliveries, req, asked, conflict, raced>> /\ today' \in 0..LastDay
  BY ReminderConstants DEF NextDay, vars, ReminderInv, TypeOK
<1> QED
  BY <1>1 DEF ReminderInv, TypeOK, RoomLeft, Unplanned, ReadIsCurrent, UnsentIsCurrent, NothingForgotten,
              There, Unsent, Key, Opened, Used, Taken

-----------------------------------------------------------------------------
(* Theorems *)

LEMMA InitReminderInv == Init => ReminderInv
<1> USE ReminderConstants
<1> SUFFICES ASSUME Init PROVE ReminderInv
  OBVIOUS
<1>1. There = {} /\ Unsent = {} /\ Opened = {} /\ Used = {}
  BY RowTypes DEF Init, There, Unsent, Opened, Used, Taken
<1>2. TypeOK
  <2>1. /\ reminders \in [Ids -> Reminder] /\ req \in [Requests -> Request]
        /\ deliveries \in [Ids -> Delivery] /\ app \in App
    BY RowTypes DEF Init, Delivery
  <2>2. conflict \in BOOLEAN /\ raced \in BOOLEAN
    BY DEF Init
  <2> QED
    BY <1>1, <2>1, <2>2 DEF Init, TypeOK
<1>3. RoomLeft
  BY <1>1, FS_EmptySet DEF Init, RoomLeft
<1>4. Unplanned /\ ReadIsCurrent /\ UnsentIsCurrent /\ NothingForgotten
  BY <1>1, RowTypes DEF Init, Unplanned, ReadIsCurrent, UnsentIsCurrent, NothingForgotten
<1> QED
  BY <1>2, <1>3, <1>4 DEF ReminderInv

\* The strengthening of UnsentIsCurrent and NothingForgotten holds throughout.
THEOREM ReminderInvariance == Spec => []ReminderInv
<1>1. ReminderInv /\ [Next]_vars => ReminderInv'
  BY OpenStep, CommitStep, RefuseStep, BookmarkStep, DeleteStep, PlanStep, DispatchStep, QuietStep
     DEF Next
<1> QED
  BY InitReminderInv, <1>1, PTL DEF Spec

\* The variables keep their types, and no two reminders of an application have one key.
THEOREM ReminderTypeCorrect == Spec => []TypeOK
<1>1. ReminderInv => TypeOK
  BY DEF ReminderInv
<1> QED
  BY <1>1, ReminderInvariance, PTL

\* _sync_reminders(): however many requests and deliveries are under way, a reminder that is yet
\* to be sent is one of the application as it is, unless two changes of it overlapped.
THEOREM RemindersCurrent == Spec => []UnsentIsCurrent
<1>1. ReminderInv => UnsentIsCurrent
  BY DEF ReminderInv
<1> QED
  BY <1>1, ReminderInvariance, PTL

\* ... and no date of an application whose reminders have been written is without its own.
THEOREM RemindersComplete == Spec => []NothingForgotten
<1>1. ReminderInv => NothingForgotten
  BY DEF ReminderInv
<1> QED
  BY <1>1, ReminderInvariance, PTL
=============================================================================
