--------------------------- MODULE DeliverySchedule ---------------------------
(***************************************************************************)
(* When a notification is to be sent                                        *)
(* (src/backend/api/notifications/planning.py): at once, in a digest at the *)
(* hour the user prefers, after quiet hours and paused weekends, or, when a *)
(* day has had as many Telegram alerts as the user wants, on a later day.   *)
(*                                                                         *)
(* A time is a number of local hours since a Monday at midnight, of which a *)
(* day has Hours; the change to and from summer time is left out.  The      *)
(* settings of the user are chosen at the start and stay.                   *)
(***************************************************************************)
EXTENDS Integers, FiniteSets, FiniteSetsExt

CONSTANTS
  Alerts,     \* notifications of one user
  Hours,      \* hours in a day
  FirstDay,   \* the day the model starts at
  LastPlanned,    \* bound: the last day on which anything is planned
  Users       \* settings users may have

Clock == 0..(Hours - 1)
None == Hours   \* no quiet hours
User == [start : Clock \cup {None}, end : Clock, weekend : BOOLEAN, preferred : Clock,
         cap : Nat \ {0}]

ASSUME ScheduleConstants ==
  /\ IsFiniteSet(Alerts)
  /\ Hours \in Nat \ {0} /\ FirstDay \in Nat /\ LastPlanned \in Nat /\ Users \subseteq User

VARIABLES
  user,   \* User: the settings of the profile
  now,
  alert   \* [Alerts -> Alert]: rows of notification_deliveries

scheduleVars == <<user, now, alert>>

-----------------------------------------------------------------------------

\* "telegram" and "email" tell a new match, "reminder" is any other alert.
Alert == [kind : {"telegram", "email", "reminder"}, status : {"none", "pending", "sent", "cancelled"},
          at : Nat]
NoAlert == [kind |-> "telegram", status |-> "none", at |-> 0]

Day(t) == t \div Hours
Hour(t) == t % Hours
At(day, hour) == day * Hours + hour
Weekday(t) == Day(t) % 7

ScheduleInit ==
  /\ user \in Users
  /\ now = At(FirstDay, 0)
  /\ alert = [a \in Alerts |-> NoAlert]

-----------------------------------------------------------------------------
(* apply_delivery_window() *)

Weekend(t) == user.weekend /\ Weekday(t) >= 5
\* The same hour of Monday.
AfterWeekend(t) == IF Weekend(t) THEN t + (7 - Weekday(t)) * Hours ELSE t

Quiet(t) ==
  /\ user.start # None
  /\ IF user.start < user.end THEN user.start <= Hour(t) /\ Hour(t) < user.end
     ELSE Hour(t) >= user.start \/ Hour(t) < user.end
\* Mutant: quiet hours end on the day they begin.
AfterQuietToday(t) == At(Day(t), user.end)
AfterQuiet(t) ==
  At(Day(t) + (IF user.start >= user.end /\ Hour(t) >= user.start THEN 1 ELSE 0), user.end)

\* Mutant: the end of quiet hours may be on a paused weekend.
WindowOnce(t) ==
  LET monday == AfterWeekend(t)
  IN IF Quiet(monday) THEN AfterQuiet(monday) ELSE monday

Window(t) ==
  LET monday == AfterWeekend(t)
  IN IF Quiet(monday) THEN AfterWeekend(AfterQuiet(monday)) ELSE monday

\* next_email_digest_time()
DigestTime(t) ==
  IF At(Day(t), user.preferred) < t THEN At(Day(t) + 1, user.preferred) ELSE At(Day(t), user.preferred)

-----------------------------------------------------------------------------
(* _apply_telegram_daily_cap() *)

\* What counts against a day, a row that is planned anew included.
Counted(day) ==
  {a \in Alerts : /\ alert[a].kind = "telegram" /\ alert[a].status \in {"pending", "sent"}
                  /\ Day(alert[a].at) = day}

\* Mutant: one more than the user wants.
RoomForOneMore(day) == Cardinality(Counted(day)) <= user.cap
HasRoom(day) == Cardinality(Counted(day)) < user.cap

\* The days that are looked at: one of them has room.
Horizon(t) == Day(t)..(Day(t) + Cardinality(Alerts))
Capped(t) ==
  LET day == Min({d \in Horizon(t) : HasRoom(d)})
  IN IF day = Day(t) THEN t ELSE Window(At(day, user.preferred))

-----------------------------------------------------------------------------

\* plan_match() and the other planners; a rescan plans what is not sent yet anew.
PlanMatch(a) ==
  \E kind \in {"telegram", "email"} :
    /\ alert[a].status \in {"none", "pending"}
    /\ alert[a].status = "pending" => kind = alert[a].kind
    /\ alert' = [alert EXCEPT ![a] =
         [kind |-> kind, status |-> "pending",
          at |-> IF kind = "telegram" THEN Capped(now) ELSE Window(DigestTime(now))]]
    /\ UNCHANGED <<user, now>>
PlanReminder(a) ==
  /\ alert[a].status = "none"
  /\ alert' = [alert EXCEPT ![a] = [kind |-> "reminder", status |-> "pending", at |-> Window(now)]]
  /\ UNCHANGED <<user, now>>

DueNow(a) == alert[a].status = "pending" /\ alert[a].at <= now

\* The dispatcher sends what is due, or finds that the match has been dismissed.
Send(a) ==
  /\ DueNow(a)
  /\ alert' = [alert EXCEPT ![a].status = "sent", ![a].at = now]
  /\ UNCHANGED <<user, now>>
Cancel(a) ==
  /\ alert[a].status = "pending"
  /\ alert' = [alert EXCEPT ![a].status = "cancelled"]
  /\ UNCHANGED <<user, now>>

\* The worker is up: what is due is sent within the hour.
Pass ==
  /\ now < At(LastPlanned, Hours - 1) /\ ~\E a \in Alerts : DueNow(a)
  /\ now' = now + 1
  /\ UNCHANGED <<user, alert>>

ScheduleNext == Pass \/ \E a \in Alerts : PlanMatch(a) \/ PlanReminder(a) \/ Send(a) \/ Cancel(a)

ScheduleSpec == ScheduleInit /\ [][ScheduleNext]_scheduleVars

-----------------------------------------------------------------------------
(* Properties *)

TimesAhead == now..(now + 8 * Hours)
Valid(t) == ~Weekend(t) /\ ~Quiet(t)
\* Quiet hours that begin when they end are taken to last all day.
AlwaysQuiet == user.start = user.end

\* The variables have their types, and nothing is planned for the past.
ScheduleTypeOK ==
  /\ user \in Users /\ now \in Nat /\ alert \in [Alerts -> Alert]
  /\ \A a \in Alerts : alert[a].status = "pending" => alert[a].at >= now

\* A digest or a reminder never falls into quiet hours or a paused weekend
\* (notifications/planning.py:79).
WindowIsKept ==
  \A a \in Alerts :
    alert[a].kind \in {"email", "reminder"} /\ alert[a].status = "pending" /\ ~AlwaysQuiet
      => Valid(alert[a].at)

\* Without a paused weekend the window is the first time that is not quiet, even when
\* the quiet hours go over midnight (notifications/planning.py:79).
WindowIsNext ==
  ~user.weekend /\ ~AlwaysQuiet
    => Window(now) = Min({t \in TimesAhead : Valid(t)})

\* The hour that overflowing alerts go to is one the window leaves where it is.
PreferredIsValid == \A d \in FirstDay..(FirstDay + 6) : Valid(At(d, user.preferred))

\* No day has more Telegram alerts of new matches than the user wants, when the window does
\* not move those that overflow (notifications/planning.py:197).
CapIsKept ==
  PreferredIsValid => \A d \in FirstDay..(LastPlanned + 7) : Cardinality(Counted(d)) <= user.cap

\* ... whether it does or not: "Keep overflow alerts queued for the earliest local day with
\* remaining capacity" (notifications/planning.py:202).
CapIsAlwaysKept == \A d \in FirstDay..(LastPlanned + 7) : Cardinality(Counted(d)) <= user.cap

=============================================================================
