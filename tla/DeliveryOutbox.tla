--------------------------- MODULE DeliveryOutbox ---------------------------
(***************************************************************************)
(* The notification outbox of one profile: the rows of                      *)
(* notification_deliveries, the planner that writes them                    *)
(* (src/backend/api/notifications/planning.py), the dispatchers that send   *)
(* them (notifications/dispatcher.py), the user who changes his mind        *)
(* meanwhile (notifications/email_preferences.py, routes/), and the two     *)
(* providers, of which only Resend knows an idempotency key.                *)
(*                                                                         *)
(* A delivery stands for a match and a channel.  The claim locks the rows;  *)
(* the dispatcher then works on the objects it loaded, without a            *)
(* transaction, and records each result on the rows as they are by then.    *)
(* The planner reads rows and writes them at its next flush.                *)
(*                                                                         *)
(* Time is abstract: a row is due or not yet due, its lease is fresh or     *)
(* has run out.                                                             *)
(***************************************************************************)
EXTENDS Integers, FiniteSets

CONSTANTS
  Telegrams,    \* deliveries by Telegram, one message each
  Emails,       \* deliveries by email, sent as one digest
  Dispatchers,  \* callers of dispatch_due(): workers and the internal endpoint
  Rank,         \* [Emails -> Nat]: _digest_rank(), higher first
  DigestLimit,  \* email_digest_job_limit of the profile
  MaxAttempts,  \* max_attempts of the dispatcher
  RejectLimit,  \* rejected rows after which the address is suppressed: 3 in the code
  MaxFaults,    \* bound: crashes, and answers of a provider that are lost
  MaxPlans,     \* bound: planner passes and changes of the user's mind
  MaxRows       \* bound: rows of the outbox

Deliveries == Telegrams \cup Emails

ASSUME OutboxConstants ==
  /\ Telegrams \cap Emails = {}
  /\ IsFiniteSet(Deliveries)
  /\ Rank \in [Emails -> Nat]
  /\ \A d, e \in Emails : Rank[d] = Rank[e] => d = e
  /\ DigestLimit \in Nat \ {0} /\ MaxAttempts \in Nat \ {0}
  /\ RejectLimit \in Nat \ {0}
  /\ MaxFaults \in Nat /\ MaxPlans \in Nat /\ MaxRows \in Nat

VARIABLES
  row,        \* [Deliveries -> Row]: the table notification_deliveries
  wants,      \* [telegram, email]: does the profile take alerts on the channel?
  suppressed, \* is its address in email_suppressions?
  live,       \* deliveries whose match is MATCHED and whose job is ACTIVE
  planner,    \* what the planner has decided and not yet flushed
  disp,       \* [Dispatchers -> Sender]: what each dispatcher holds
  told,       \* [Telegrams -> Nat]: messages Telegram has delivered
  digests,    \* SUBSET SUBSET Emails: the digests Resend has delivered, by key
  plans,      \* planner passes and user changes so far
  faults,     \* crashes and lost answers so far
  overran     \* has a lease run out under a dispatcher that still held the row?

vars == <<row, wants, suppressed, live, planner, disp, told, digests, plans, faults, overran>>

-----------------------------------------------------------------------------
(* Rows *)

\* "gone" is a row that was deleted with its match, "rejected" a cancelled one whose
\* last_error says that Resend rejected it.
Row == [status   : {"none", "pending", "sending", "sent", "failed", "cancelled",
                    "rejected", "gone"},
        attempts : 0..MaxAttempts,
        due      : BOOLEAN,                        \* next_attempt_at <= now
        batch    : SUBSET Emails,                  \* the digest whose retry it waits for
        lock     : {"null", "fresh", "expired"}]   \* locked_at against the lease, if sending
NoRow == [status |-> "none", attempts |-> 0, due |-> FALSE, batch |-> {}, lock |-> "null"]

Queued(r) == r.status \in {"pending", "failed"}
Unsettled(r) == r.status \in {"pending", "failed", "sending"}

\* Mutants: the test of the lease left out; a row that is being sent never claimed again.
ClaimableWhileSending(r) ==
  /\ r.attempts < MaxAttempts
  /\ (Queued(r) /\ r.due) \/ r.status = "sending"
ClaimableOnce(r) == r.attempts < MaxAttempts /\ Queued(r) /\ r.due

\* The clause `due` of _claim_due() and its bound on attempts.
Claimable(r) ==
  /\ r.attempts < MaxAttempts
  /\ \/ Queued(r) /\ r.due
     \/ r.status = "sending" /\ r.lock = "expired"

MarkClaimed(r) ==
  [r EXCEPT !.status = "sending", !.lock = "fresh", !.batch = {}, !.attempts = @ + 1]
Ended(r, status) ==
  [r EXCEPT !.status = status, !.due = FALSE, !.batch = {}, !.lock = "null"]
Retried(r, group) == [Ended(r, "failed") EXCEPT !.batch = group \cap Emails]

\* Mutants: the success of an attempt not recorded; a refusal taken for a success.
RecordedWithoutSuccess(outcome, group, r) ==
  IF r.status = "gone" \/ outcome = "sent" THEN r
  ELSE CASE outcome = "rejected" -> Ended(r, "rejected")
         [] outcome = "ineligible" -> Ended(r, "cancelled")
         [] outcome = "transient" ->
              IF r.attempts >= MaxAttempts THEN Ended(r, "cancelled") ELSE Retried(r, group)
RecordedRefusal(outcome, group, r) ==
  IF r.status = "gone" THEN r
  ELSE IF outcome = "transient" THEN Retried(r, group)
  ELSE Ended(r, "sent")

\* The branches of _record_result(): none of them looks at the status, the lease or
\* the owner of the row.
Recorded(outcome, group, r) ==
  IF r.status = "gone" THEN r
  ELSE CASE outcome = "sent" -> Ended(r, "sent")
         [] outcome = "rejected" -> Ended(r, "rejected")
         [] outcome = "ineligible" -> Ended(r, "cancelled")
         [] outcome = "transient" ->
              IF r.attempts >= MaxAttempts THEN Ended(r, "cancelled") ELSE Retried(r, group)

\* Does _destinations() name the channel of d?
Wanted(d) == IF d \in Emails THEN wants.email /\ ~suppressed ELSE wants.telegram

-----------------------------------------------------------------------------
(* Dispatchers *)

\* left are the claimed deliveries not yet handled, fit those of them that
\* _is_sendable() will find sendable: it reads the profile, the match and the job
\* as they were loaded by the claim.
Sender == [pc : {"idle", "working", "answered"}, left : SUBSET Deliveries,
           fit : SUBSET Deliveries, group : SUBSET Deliveries,
           outcome : {"none", "sent", "transient", "rejected", "ineligible"}]
Idle == [pc |-> "idle", left |-> {}, fit |-> {}, group |-> {}, outcome |-> "none"]
Held(v) == disp[v].left \cup disp[v].group

NoPlan == [adds |-> {}, cancels |-> {}, moves |-> {}]

Init ==
  /\ row = [d \in Deliveries |-> NoRow]
  /\ wants = [telegram |-> TRUE, email |-> TRUE]
  /\ suppressed = FALSE
  /\ live = Deliveries
  /\ planner = NoPlan
  /\ disp = [v \in Dispatchers |-> Idle]
  /\ told = [d \in Telegrams |-> 0]
  /\ digests = {}
  /\ plans = 0 /\ faults = 0
  /\ overran = FALSE

\* The first n of S by rank.
Top(n, S) == {d \in S : Cardinality({e \in S : Rank[e] > Rank[d]}) < n}

\* _claim_due() and _claim_email_digests(), one transaction: all due Telegram
\* deliveries (the limit of 100 is not reached), and of the due emails the best
\* DigestLimit; the other due emails are cancelled.
Claim(v) ==
  LET due == {d \in Deliveries : Claimable(row[d])}
      chosen == Top(DigestLimit, due \cap Emails)
      claimed == (due \cap Telegrams) \cup chosen IN
  /\ disp[v].pc = "idle"
  /\ due # {}
  /\ row' = [d \in Deliveries |->
               IF d \in claimed THEN MarkClaimed(row[d])
               ELSE IF d \in due THEN Ended(row[d], "cancelled")
               ELSE row[d]]
  /\ disp' = [disp EXCEPT ![v] =
       [Idle EXCEPT !.pc = "working", !.left = claimed,
                    !.fit = {d \in claimed : d \in live /\ Wanted(d)}]]
  /\ UNCHANGED <<wants, suppressed, live, planner, told, digests, plans, faults, overran>>

\* _group(): single messages first, then the digest of all claimed emails.
NextGroup(v, group) ==
  \/ \E d \in disp[v].left \cap Telegrams : group = {d}
  \/ disp[v].left \cap Telegrams = {} /\ group = disp[v].left

Answered(v, group, outcome) ==
  disp' = [disp EXCEPT ![v].pc = "answered", ![v].left = @ \ group,
                       ![v].group = group, ![v].outcome = outcome]

\* A group with a member that is not sendable is not sent at all.
Reject(v) ==
  /\ disp[v].pc = "working"
  /\ \E group \in (SUBSET disp[v].left) \ {{}} :
       /\ NextGroup(v, group)
       /\ ~(group \subseteq disp[v].fit)
       /\ Answered(v, group, "ineligible")
  /\ UNCHANGED <<row, wants, suppressed, live, planner, told, digests, plans, faults, overran>>

\* The provider accepts the message, under its idempotency key if it is Resend:
\* the key of a digest is the set of its deliveries.
Accept(group) ==
  IF group \subseteq Emails
  THEN digests' = digests \cup {group} /\ UNCHANGED told
  ELSE /\ told' = [d \in Telegrams |-> IF d \in group THEN told[d] + 1 ELSE told[d]]
       /\ UNCHANGED digests

\* provider.send(): accepted and answered; refused for good; refused for now; or
\* accepted with the answer lost, which the adapter reports as a transient failure.
Send(v) ==
  /\ disp[v].pc = "working"
  /\ \E group \in (SUBSET disp[v].left) \ {{}} :
       /\ NextGroup(v, group)
       /\ group \subseteq disp[v].fit
       /\ \/ Accept(group) /\ Answered(v, group, "sent") /\ UNCHANGED faults
          \/ /\ \E outcome \in {"rejected", "transient"} : Answered(v, group, outcome)
             /\ UNCHANGED <<told, digests, faults>>
          \/ /\ faults < MaxFaults /\ faults' = faults + 1
             /\ Accept(group) /\ Answered(v, group, "transient")
  /\ UNCHANGED <<row, wants, suppressed, live, planner, plans, overran>>

\* cancel_email_deliveries(): one UPDATE, which also takes rows a dispatcher holds.
WithoutEmail(rows) ==
  [d \in Deliveries |-> IF d \in Emails /\ Unsettled(rows[d])
                        THEN Ended(rows[d], "cancelled") ELSE rows[d]]

\* _record_result(), with suppress_email() when the rejected rows have become too many.
Record(v) ==
  LET group == disp[v].group
      rows == [d \in Deliveries |->
                 IF d \in group THEN Recorded(disp[v].outcome, group, row[d]) ELSE row[d]]
      rejected == {e \in Emails : rows[e].status = "rejected"}
      suppress == /\ disp[v].outcome = "rejected" /\ group \subseteq Emails
                  /\ Cardinality(rejected) >= RejectLimit
      next == [disp[v] EXCEPT !.pc = "working", !.fit = @ \cap disp[v].left,
                              !.group = {}, !.outcome = "none"]
  IN
  /\ disp[v].pc = "answered"
  /\ row' = IF suppress THEN WithoutEmail(rows) ELSE rows
  /\ wants' = IF suppress THEN [wants EXCEPT !.email = FALSE] ELSE wants
  /\ suppressed' = (suppressed \/ suppress)
  /\ disp' = [disp EXCEPT ![v] = IF disp[v].left = {} THEN Idle ELSE next]
  /\ UNCHANGED <<live, planner, told, digests, plans, faults, overran>>

\* The process dies, or a transaction of _record_result() fails and the exception
\* leaves dispatch_due(): what the dispatcher held stays locked.
Crash(v) ==
  /\ disp[v].pc # "idle"
  /\ faults < MaxFaults
  /\ faults' = faults + 1
  /\ disp' = [disp EXCEPT ![v] = Idle]
  /\ UNCHANGED <<row, wants, suppressed, live, planner, told, digests, plans, overran>>

-----------------------------------------------------------------------------
(* The planner and the user *)

\* What plan_match() decides about the rows of S when the profile takes the channels
\* of the deliveries in on: a row for each of those unless there is one, and a
\* queued row is scheduled anew; the queued rows of other channels are cancelled.
\* It asks neither whether the match was dismissed nor whether the job is active.
PlanFor(S, on, rows) ==
  [adds    |-> {d \in S \cap on : rows[d].status = "none"},
   cancels |-> {d \in S \ on : Queued(rows[d])},
   moves   |-> {d \in S \cap on : Queued(rows[d])}]

\* Those writes.  due is whether they are to be sent at once.
Planned(plan, due, rows) ==
  [d \in Deliveries |->
     IF d \in plan.adds THEN [NoRow EXCEPT !.status = "pending", !.due = due]
     ELSE IF d \in plan.cancels THEN Ended(rows[d], "cancelled")
     ELSE IF d \in plan.moves /\ Queued(rows[d])
          THEN [rows[d] EXCEPT !.due = due, !.batch = {}]
     ELSE rows[d]]

WithinBound(rows, adds) ==
  Cardinality({d \in Deliveries : rows[d].status # "none"} \cup adds) <= MaxRows

\* A matching pass reads the rows of some matches and plans them.
Plan(S) ==
  /\ plans < MaxPlans
  /\ planner = NoPlan
  /\ planner' = PlanFor(S, {d \in Deliveries : Wanted(d)}, row)
  /\ planner' # NoPlan
  /\ WithinBound(row, planner'.adds)
  /\ plans' = plans + 1
  /\ UNCHANGED <<row, wants, suppressed, live, disp, told, digests, faults, overran>>

\* The flush of its writes, over what the rows are by then.  The advisory lock on the
\* delivery key is held from before the read, so that a row to add is still missing.
Flush ==
  /\ planner # NoPlan
  /\ \E due \in BOOLEAN : row' = Planned(planner, due, row)
  /\ planner' = NoPlan
  /\ UNCHANGED <<wants, suppressed, live, disp, told, digests, plans, faults, overran>>

\* update_me(): the email channel is switched, and backfill_profile() plans every
\* match of the profile anew in the same transaction.
SwitchEmail ==
  /\ plans < MaxPlans
  /\ planner = NoPlan
  /\ ~(suppressed /\ ~wants.email)
  /\ wants' = [wants EXCEPT !.email = ~@]
  /\ LET rows == IF wants.email THEN WithoutEmail(row) ELSE row
         on == {d \in Deliveries : IF d \in Emails THEN ~wants.email ELSE wants.telegram}
     IN  \E S \in SUBSET Deliveries, due \in BOOLEAN :
           /\ {d \in Deliveries : row[d].status # "none"} \subseteq S
           /\ WithinBound(rows, PlanFor(S, on, rows).adds)
           /\ row' = Planned(PlanFor(S, on, rows), due, rows)
  /\ plans' = plans + 1
  /\ UNCHANGED <<suppressed, live, planner, disp, told, digests, faults, overran>>

\* unsubscribe_profile(), and suppress_email() from the webhook of Resend.
EmailOff ==
  /\ plans < MaxPlans
  /\ wants.email
  /\ wants' = [wants EXCEPT !.email = FALSE]
  /\ suppressed' \in {suppressed, TRUE}
  /\ row' = WithoutEmail(row)
  /\ plans' = plans + 1
  /\ UNCHANGED <<live, planner, disp, told, digests, faults, overran>>

\* /pause and /resume of the Telegram webhook: no row is touched.
SwitchTelegram ==
  /\ plans < MaxPlans
  /\ wants' = [wants EXCEPT !.telegram = ~@]
  /\ plans' = plans + 1
  /\ UNCHANGED <<row, suppressed, live, planner, disp, told, digests, faults, overran>>

\* The user applies or dismisses (update_match()), or the job expires: no delivery
\* is touched.  Or a matching pass deletes the match, and the row goes with it.
Withdraw(d) ==
  /\ plans < MaxPlans
  /\ d \in live
  /\ live' = live \ {d}
  /\ row' \in {row, [row EXCEPT ![d] = Ended(@, "gone")]}
  /\ plans' = plans + 1
  /\ UNCHANGED <<wants, suppressed, planner, disp, told, digests, faults, overran>>

-----------------------------------------------------------------------------
(* Time *)

\* What comes due when d does: a Telegram delivery alone, emails that wait for the
\* digest time together, and so those whose digest failed together, after their backoff.
Mates(d) ==
  IF d \in Telegrams THEN {d}
  ELSE {e \in Emails : /\ Queued(row[e]) /\ ~row[e].due
                       /\ row[e].batch = row[d].batch
                       /\ row[d].batch # {} => row[e].attempts = row[d].attempts}

ComesDue(d) ==
  /\ Queued(row[d]) /\ ~row[d].due
  /\ row' = [e \in Deliveries |->
       IF e \in Mates(d) THEN [row[e] EXCEPT !.due = TRUE] ELSE row[e]]
  /\ UNCHANGED <<wants, suppressed, live, planner, disp, told, digests, plans, faults, overran>>

\* lease_seconds have passed since a claim: its rows, which share one locked_at, can be
\* claimed again.  They are in the hands of a dispatcher that is late, or are left over
\* from one that crashed.
LeaseExpires ==
  LET fresh == {d \in Deliveries : row[d].lock = "fresh"}
      expire(S) == /\ S # {}
                   /\ row' = [d \in Deliveries |->
                        IF d \in S THEN [row[d] EXCEPT !.lock = "expired"] ELSE row[d]]
  IN
  /\ \/ /\ \E v \in Dispatchers : expire(fresh \cap Held(v))
        /\ overran' = TRUE
     \/ /\ expire(fresh \ UNION {Held(v) : v \in Dispatchers})
        /\ UNCHANGED overran
  /\ UNCHANGED <<wants, suppressed, live, planner, disp, told, digests, plans, faults>>

Dispatch(v) == Claim(v) \/ Reject(v) \/ Send(v) \/ Record(v)

Next ==
  \/ \E v \in Dispatchers : Dispatch(v) \/ Crash(v)
  \/ \E S \in SUBSET Deliveries : Plan(S)
  \/ Flush
  \/ SwitchEmail
  \/ EmailOff
  \/ SwitchTelegram
  \/ \E d \in Deliveries : Withdraw(d) \/ ComesDue(d)
  \/ LeaseExpires

Spec == Init /\ [][Next]_vars

\* dispatch_due() is called again and again by some process, time passes, and a flush
\* follows its read.  Nobody is obliged to plan, to change his mind or to fail.
Fairness ==
  /\ WF_vars(\E v \in Dispatchers : Dispatch(v))
  /\ WF_vars(LeaseExpires \/ \E d \in Deliveries : ComesDue(d))
  /\ WF_vars(Flush)
FairSpec == Spec /\ Fairness

-----------------------------------------------------------------------------
(* Properties *)

\* Every variable keeps the shape the code gives it.
TypeOK ==
  /\ row \in [Deliveries -> Row]
  /\ wants \in [telegram : BOOLEAN, email : BOOLEAN]
  /\ suppressed \in BOOLEAN
  /\ live \subseteq Deliveries
  /\ planner \in [adds : SUBSET Deliveries, cancels : SUBSET Deliveries,
                  moves : SUBSET Deliveries]
  /\ disp \in [Dispatchers -> Sender]
  /\ told \in [Telegrams -> Nat]
  /\ digests \subseteq SUBSET Emails
  /\ plans \in 0..MaxPlans /\ faults \in 0..MaxFaults
  /\ overran \in BOOLEAN

\* How many messages have brought d to the user.
Copies(d) == IF d \in Emails THEN Cardinality({g \in digests : d \in g}) ELSE told[d]

\* While leases outlast the work done under them, no two dispatchers are at work on
\* the same delivery, whatever the planner, the user and lost rows do to it meanwhile.
HeldByOne ==
  ~overran => \A u, v \in Dispatchers : u # v => Held(u) \cap Held(v) = {}

\* README.md:170: a message is repeated only when a failure fell between its
\* acceptance and the record of it: each further copy is paid for by a crash or by an
\* answer that was lost.
CopiesPaidFor == ~overran => \A d \in Deliveries : Copies(d) <= 1 + faults

\* A row that says sent was delivered: no late record of another attempt, no digest
\* that was cut down and no rejected group marks a delivery the user never got.
SentWasDelivered == \A d \in Deliveries : row[d].status = "sent" => Copies(d) > 0

\* A delivery that was recorded as sent never enters the queue again.
SentIsFinal ==
  [][~overran => \A d \in Deliveries : row[d].status = "sent" => ~Unsettled(row'[d])]_vars

\* The one way to stay unsettled for ever: a failure took the dispatcher away in the
\* last attempt, which no claim selects again.
Stranded(d) == row[d].status = "sending" /\ row[d].attempts = MaxAttempts /\ faults > 0

\* Whenever the planner and the user come to rest the outbox drains: every delivery is
\* sent or given up, through retries, crashes, expired leases and late records, unless
\* it is stranded.
OutboxDrains ==
  []<>(\A d \in Deliveries : Unsettled(row[d]) => Stranded(d))

\* notifications/dispatcher.py:162: "Freeze each due user's top-N rows so retries
\* resend the same curated digest": without late dispatchers and withdrawn matches, no
\* posting comes in two different digests.
RetriesResendTheDigest ==
  ~overran /\ live = Deliveries => \A g, h \in digests : g \cap h # {} => g = h

\* notifications/dispatcher.py:59 records "Match is no longer eligible for
\* notification" only on deliveries that are not.
OnlyIneligibleDropped ==
  \A v \in Dispatchers :
    disp[v].outcome = "ineligible" => disp[v].group \cap disp[v].fit = {}
=============================================================================
