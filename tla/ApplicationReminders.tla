------------------------- MODULE ApplicationReminders -------------------------
(***************************************************************************)
(* The reminders of a tracked application                                   *)
(* (src/backend/api/routes/applications.py, routes/discovery.py and         *)
(* notifications/planning.py): every change of an application throws its    *)
(* unsent reminders away and writes new ones; the planner makes a delivery  *)
(* of each reminder that is due; the dispatcher marks it sent.              *)
(*                                                                         *)
(* Two requests of a user may overlap: each reads the application, and each *)
(* writes the columns it changes and the reminders of the application as it *)
(* sees it.  A unique key of kind and date refuses a reminder that exists.  *)
(*                                                                         *)
(* Time is counted in days.  Of the three dates a user sets (deadline,      *)
(* follow-up, interview) one stands for all.  One user, one posting.        *)
(***************************************************************************)
EXTENDS Integers, FiniteSets

CONSTANTS
  Requests,      \* requests that may be open at once
  Dates,         \* what follow_up_at may be set to
  SavedAfter,    \* days until the user is reminded of a saved posting
  PreparingAfter,\* ... and of an application that is being prepared
  LastDay,       \* bound: the last day
  MaxRequests    \* bound: requests that write reminders

ASSUME ReminderConstants ==
  /\ Dates \subseteq 1..LastDay /\ LastDay \in Nat /\ MaxRequests \in Nat
  /\ SavedAfter \in Nat /\ PreparingAfter \in Nat

VARIABLES
  app,        \* App: the row of applications
  reminders,  \* [Ids -> Reminder]: reminder_events, and what was of them
  deliveries, \* [Ids -> Delivery]: the notification of a reminder
  today,
  req,        \* [Requests -> Request]
  asked,      \* requests so far
  conflict,   \* has the unique key refused a change of an application?
  raced       \* has a request written over another that came between its read and its write?

vars == <<app, reminders, deliveries, today, req, asked, conflict, raced>>

-----------------------------------------------------------------------------

Stages == {"saved", "preparing", "applied"}
Kinds == {"follow_up", "saved", "preparing"}
Never == 0

\* synced: have the reminders been written since the row was made?
App == [on : BOOLEAN, stage : Stages, follow : Dates \cup {Never}, updated : 0..LastDay,
        synced : BOOLEAN]
NoApp == [on |-> FALSE, stage |-> "saved", follow |-> Never, updated |-> 0, synced |-> FALSE]

\* The ids of reminders that are deleted before they are planned, or with their application,
\* are used again: nothing names them any more.
Ids == 1..(2 * MaxRequests)
Days == 0..(LastDay + SavedAfter + PreparingAfter)
Reminder == [kind : Kinds, due : Days, state : {"none", "unsent", "sent", "deleted"}]
NoReminder == [kind |-> "saved", due |-> 0, state |-> "none"]
Delivery == {"none", "pending", "sending", "sent", "cancelled"}

\* What a request has read, and whether the row was written or deleted since.
Request == [op : {"none", "create", "update"}, was : App, stale : BOOLEAN, gone : BOOLEAN]
NoRequest == [op |-> "none", was |-> NoApp, stale |-> FALSE, gone |-> FALSE]

Init ==
  /\ app = NoApp
  /\ reminders = [i \in Ids |-> NoReminder]
  /\ deliveries = [i \in Ids |-> "none"]
  /\ today = 0
  /\ req = [r \in Requests |-> NoRequest] /\ asked = 0
  /\ conflict = FALSE /\ raced = FALSE

There == {i \in Ids : reminders[i].state \in {"unsent", "sent"}}
Unsent == {i \in Ids : reminders[i].state = "unsent"}

-----------------------------------------------------------------------------
(* _sync_reminders() *)

\* What is to be reminded of, as kinds and days.
Schedules(a) ==
  (IF a.follow # Never THEN {[kind |-> "follow_up", due |-> a.follow]} ELSE {})
  \cup (IF a.stage = "saved" THEN {[kind |-> "saved", due |-> a.updated + SavedAfter]} ELSE {})
  \cup (IF a.stage = "preparing"
        THEN {[kind |-> "preparing", due |-> a.updated + PreparingAfter]} ELSE {})

Key(i) == [kind |-> reminders[i].kind, due |-> reminders[i].due]

\* A reminder that was sent stays, and with it its key.
Clashes(a) == \E i \in There \ Unsent : Key(i) \in Schedules(a)

Thrown(i) == IF deliveries[i] = "none" THEN NoReminder ELSE [reminders[i] EXCEPT !.state = "deleted"]

\* The reminders rs with a new one for each schedule of S.
With(rs, S) ==
  LET free == {i \in Ids : rs[i].state = "none"}
      place == CHOOSE f \in [S -> free] : \A s, t \in S : f[s] = f[t] => s = t
  IN [i \in Ids |-> IF i \notin {place[s] : s \in S} THEN rs[i]
                    ELSE LET s == CHOOSE s \in S : place[s] = i
                         IN [kind |-> s.kind, due |-> s.due, state |-> "unsent"]]

\* Mutant: only what is not there yet is written, nothing is deleted.
SyncedBeside(a) == With(reminders, Schedules(a) \ {Key(i) : i \in There})

\* Mutant: the date is not looked at, only the kind.
SyncedByKind(a) ==
  With([i \in Ids |-> IF i \in Unsent /\ ~\E s \in Schedules(a) : s.kind = reminders[i].kind
                      THEN Thrown(i) ELSE reminders[i]],
       {s \in Schedules(a) : ~\E i \in There : reminders[i].kind = s.kind})

\* Every unsent reminder of the application is deleted, and all are written anew.
Synced(a) == With([i \in Ids |-> IF i \in Unsent THEN Thrown(i) ELSE reminders[i]], Schedules(a))

-----------------------------------------------------------------------------
(* The requests *)

Open(r, op) ==
  /\ req[r].op = "none" /\ asked < MaxRequests
  /\ asked' = asked + 1
  /\ req' = [req EXCEPT ![r] = [NoRequest EXCEPT !.op = op, !.was = app]]
  /\ UNCHANGED <<app, reminders, deliveries, today, conflict, raced>>

\* create_application(): one application for a posting.  update_application()
Create(r) == ~app.on /\ Open(r, "create")
Update(r) == app.on /\ Open(r, "update")

\* The application that a request asks for.
Asked == [stage : Stages, follow : Dates \cup {Never}]
Touched(q, c) == q.op = "create" \/ c.stage # q.was.stage \/ c.follow # q.was.follow

\* The application as the request has it in memory when it writes the reminders ...
Seen(q, c) ==
  [on |-> TRUE, stage |-> c.stage, follow |-> c.follow, synced |-> TRUE,
   updated |-> IF Touched(q, c) THEN today ELSE q.was.updated]

\* ... and the row, of which it writes the columns that it changed.
Written(q, c) ==
  IF q.op = "create" THEN Seen(q, c)
  ELSE [app EXCEPT !.stage = IF c.stage # q.was.stage THEN c.stage ELSE @,
                   !.follow = IF c.follow # q.was.follow THEN c.follow ELSE @,
                   !.updated = IF Touched(q, c) THEN today ELSE @,
                   !.synced = TRUE]

\* A row that is gone, or that another request has made by now, ends the request.
Lost(q) == q.gone \/ (q.op = "create" /\ app.on)

Commit(r) ==
  LET q == req[r] IN
  /\ q.op # "none" /\ ~Lost(q)
  /\ \E c \in Asked :
       /\ ~Clashes(Seen(q, c))
       /\ app' = Written(q, c)
       /\ reminders' = Synced(Seen(q, c))
  /\ raced' = (raced \/ q.stale)
  /\ req' = [o \in Requests |-> IF o = r THEN NoRequest
                                ELSE [req[o] EXCEPT !.stale = req[o].op = "update"]]
  /\ UNCHANGED <<deliveries, today, asked, conflict>>

\* The database refuses the request as a whole.
Refuse(r) ==
  LET q == req[r] IN
  /\ q.op # "none" /\ (Lost(q) \/ \E c \in Asked : Clashes(Seen(q, c)))
  /\ conflict' = (conflict \/ ~Lost(q))
  /\ req' = [req EXCEPT ![r] = NoRequest]
  /\ UNCHANGED <<app, reminders, deliveries, today, asked, raced>>

\* A bookmark, or a row of an imported file: an application without reminders.
Bookmark ==
  /\ ~app.on
  /\ \E stage \in Stages :
       app' = [NoApp EXCEPT !.on = TRUE, !.stage = stage, !.updated = today]
  /\ UNCHANGED <<reminders, deliveries, today, req, asked, conflict, raced>>

\* delete_application(): the reminders go with it, the notifications planned do not.
Underway(i) == deliveries[i] \in {"pending", "sending"}
Delete ==
  /\ app.on /\ app' = NoApp
  /\ reminders' = [i \in Ids |-> IF Underway(i) THEN [reminders[i] EXCEPT !.state = "deleted"]
                                 ELSE NoReminder]
  /\ deliveries' = [i \in Ids |-> IF Underway(i) THEN deliveries[i] ELSE "none"]
  /\ req' = [r \in Requests |-> IF req[r].op = "update" THEN [NoRequest EXCEPT !.op = "update", !.gone = TRUE]
                            ELSE req[r]]
  /\ raced' = FALSE
  /\ UNCHANGED <<today, asked, conflict>>

-----------------------------------------------------------------------------
(* Planner, dispatcher and time *)

\* Mutant: only what comes due today is looked at.
DueToday == {i \in Unsent : reminders[i].due = today /\ deliveries[i] = "none"}

\* plan_events(): the key of a delivery holds the id of its reminder.
Due == {i \in Unsent : reminders[i].due <= today /\ deliveries[i] = "none"}
Plan ==
  /\ Due # {}
  /\ deliveries' = [i \in Ids |-> IF i \in Due THEN "pending" ELSE deliveries[i]]
  /\ UNCHANGED <<app, reminders, today, req, asked, conflict, raced>>

Deliver(i, from, to) == deliveries[i] = from /\ deliveries' = [deliveries EXCEPT ![i] = to]

Claim(i) ==
  /\ Deliver(i, "pending", "sending")
  /\ UNCHANGED <<app, reminders, today, req, asked, conflict, raced>>

\* _record_result(): the reminder is sent too, if it is still there.
Sent(i) ==
  /\ Deliver(i, "sending", "sent")
  /\ reminders' = [reminders EXCEPT ![i].state = IF @ = "unsent" THEN "sent" ELSE @]
  /\ UNCHANGED <<app, today, req, asked, conflict, raced>>
Cancelled(i) ==
  /\ Deliver(i, "sending", "cancelled")
  /\ UNCHANGED <<app, reminders, today, req, asked, conflict, raced>>

\* Requests are short: none lasts over night.
NextDay ==
  /\ today < LastDay /\ today' = today + 1
  /\ \A r \in Requests : req[r].op = "none"
  /\ UNCHANGED <<app, reminders, deliveries, req, asked, conflict, raced>>

Next ==
  \/ \E r \in Requests : Create(r) \/ Update(r) \/ Commit(r) \/ Refuse(r)
  \/ Bookmark \/ Delete \/ Plan \/ NextDay
  \/ \E i \in Ids : Claim(i) \/ Sent(i) \/ Cancelled(i)

Spec == Init /\ [][Next]_vars

\* Requests end, days pass, and the worker plans and sends.
FairSpec ==
  /\ Spec /\ WF_vars(Plan) /\ WF_vars(NextDay)
  /\ WF_vars(\E r \in Requests : Commit(r) \/ Refuse(r))
  /\ WF_vars(\E i \in Ids : Claim(i)) /\ WF_vars(\E i \in Ids : Sent(i) \/ Cancelled(i))

-----------------------------------------------------------------------------
(* Properties *)

\* The variables have their types, and no two reminders have one key.
TypeOK ==
  /\ app \in App /\ reminders \in [Ids -> Reminder] /\ deliveries \in [Ids -> Delivery]
  /\ today \in 0..LastDay /\ req \in [Requests -> Request] /\ asked \in 0..MaxRequests
  /\ conflict \in BOOLEAN /\ raced \in BOOLEAN
  /\ \A i, k \in There : Key(i) = Key(k) => i = k

\* A reminder that is yet to be sent is one of the application as it is now, unless two
\* changes of the application overlapped (routes/applications.py:69).
UnsentIsCurrent == raced \/ \A i \in Unsent : app.on /\ Key(i) \in Schedules(app)

\* Every date of an application whose reminders have been written has its reminder, sent or
\* to be sent, with the same exception.
NothingForgotten ==
  app.on /\ app.synced /\ ~raced => \A s \in Schedules(app) : \E i \in There : Key(i) = s

\* A reminder whose day has come is sent, given up or thrown away.
DueIsTold ==
  []<>(\A i \in Unsent : reminders[i].due <= today => deliveries[i] = "cancelled")

\* tests/test_applications.py:55: the same change of an application again is fine.
ChangesPass == ~conflict

\* planning.py:325: "Materialize due reminders ... into the same idempotent delivery queue".
Told == {i \in Ids : deliveries[i] = "sent"}
ToldOnce == \A i, k \in Told : Key(i) = Key(k) => i = k
=============================================================================
