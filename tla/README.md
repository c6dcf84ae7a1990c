# Sprintern: a TLA+ model

Sprintern collects internship postings from curated GitHub repositories, matches them with the
filters of its users, and alerts them by Telegram and in a daily email digest. Its backend
(`src/backend/api`) is a FastAPI application, one or more workers and a scheduler, which
share nothing but a PostgreSQL database. This directory holds TLA+ models of the parts of that
backend where order, failure and concurrency decide what the user sees, the TLC runs that check
them, and the TLAPS proofs about them.

Paths below are relative to `src/backend/api` unless they start with `src/`.

## 1. The system

    sources --> ingestion --> jobs, job_sources --> matching --> matches --> planner --> deliveries --> dispatcher --> user
                    ^                                   ^                       ^                          ^
                    |                                   |                  applications                    |
    scheduler --> background_jobs (queue) --> worker ---+-------------------(reminders)--------------------+
        ^           ^                                   ^
        |           |                                   |
    source_configurations <-- admin routes         profile, filter and watchlist routes --> refresh marker
                                                   (three columns of profiles)

Three kinds of process run at once: API servers, workers and the scheduler. All communicate by
rows of the database; every step that matters is a short transaction. Some transactions lock the
row they change (`FOR UPDATE SKIP LOCKED`, advisory locks) and others read a row, decide in
memory and write at commit the columns that differ from what they read. Those of the second sort are
where orders nobody tested are possible, and the models split each of them at that point.

| Component | State | Operations | Hard behaviour | What makes it correct | Module |
|---|---|---|---|---|---|
| Durable job queue `jobs/queue.py` | `background_jobs`: status, attempts, `available_at`, lease | `enqueue`, `claim`, `succeed`, `fail` | leases that run out, settlements that check the owner without a lock, crashes, backoff, purge | one worker per job, settled for good, never stuck, bounded runs | `BackgroundQueue` |
| Worker loop `worker/runtime.py` | the job in hand | claim, handle, settle; `handle_profile_refresh` | errors in the error path, a long handler | goes on after database errors | `BackgroundQueue`, `ProfileRefresh` |
| Profile refresh marker `matching/service.py` | `match_refresh_requested_at`, `_seen_since`, `_locked_at` | enqueue, claim, complete | edits during a pass, coalesced requests, blind writes | no edit is lost, one pass at a time | `ProfileRefresh` |
| Matching `matching/` | `matches` | `match_profile`, `match_fingerprints` | passes of different reach, rules of exceptions | matches agree with the rules in the end, decisions stay | `MatchRules`, `MatchFeed` |
| Filters, watchlist, list of matches `routes/` | `filters`, `company_watchlists` | create, change, delete, follow; pages of a list | the reach of the rematch each asks for | a looser filter loses nothing, pages tile the list | `MatchFeed` |
| Planner `notifications/planning.py` | `notification_deliveries`, events | `plan_match`, `plan_events`, windows, daily cap | concurrent passes, rows in a dispatcher's hands, quiet hours over midnight | one row per match and channel, valid hours, the cap | `DeliveryOutbox`, `DeliverySchedule` |
| Dispatcher `notifications/dispatcher.py` | lease and attempts of each delivery | claim, group, send, record | crash between send and record, lost answers, digest selection | at least once, few copies, nothing marked sent that was not | `DeliveryOutbox` |
| Email preferences, webhooks | suppressions, channel flags | unsubscribe, suppress, bounce | arrive while rows are being sent | the queue stays clean | `DeliveryOutbox` |
| Ingestion `ingestion/service.py` | `source_states`, `ingestion_runs`, alerts | poll a source | crash with a run open, a lock that lives on a connection | cursor never ahead of what was applied, alerts current | `SourceIngestion` |
| Adapter `ingestion/adapters/github.py`, `http.py`, `normalization.py` | one file | request, parse, normalise, count | rejected rows, inherited cells, tables in two languages | every row accounted for, the right company and term | `SourceFile` |
| Persistence, lifecycle `ingestion/persistence.py`, `lifecycle.py` | `jobs`, `job_sources` | upsert, mark missing, expire, reopen, repost | two sources for one posting, shrunk or empty snapshots | a posting is active exactly while a source lists it | `PostingLifecycle` |
| Scheduler `scheduler/runtime.py`, `status.py` | singleton advisory lock, `scheduler_runtimes` | start, heartbeat, stop | overlapping instances, lost lock | one scheduler at a time, a true status | `SchedulerLease` |
| Source administration `routes/admin_sources.py`, `scheduler/source_registry.py` | `source_configurations`, jobs of the scheduler | create, update, preview, enable, delete; sync | a configuration changed while it is previewed, fallback to a file | nothing unvalidated is polled, nothing polled twice, sync converges | `SourceRegistry` |
| Applications `routes/applications.py` | `applications`, `reminder_events` | create, change, delete, bookmark | overlapping changes, a reminder planned or sent while it is rewritten | reminders agree with the application, none forgotten | `ApplicationReminders` |

The remaining components (rate limiting, Telegram linking, discovery and analytics routes, authentication,
other adapters, schemas, migrations, the web client) are listed in `PROJECT.json` with
the reason they are left out, and in section 6.

## 2. The modules

| Module | Models | Extends / instantiates |
|---|---|---|
| `JobContract` | the promise of the queue to whoever enqueues | |
| `BackgroundQueue` | `jobs/queue.py`, the loop of `worker/runtime.py`, the purge of `retention.py` | implements `JobContract` |
| `ProfileRefresh` | the refresh marker, the routes that set it, the worker that serves it | |
| `MatchRules` | `matching/matcher.py`, `matching/classifier.py`, the checks of `schemas/filter.py` | |
| `MatchFeed` | the matches of one user: edits, passes, decisions, pages | extends `MatchRules` |
| `DeliveryOutbox` | the deliveries of one profile: planner, dispatchers, user, providers | |
| `DeliverySchedule` | when a notification is to be sent | |
| `ApplicationReminders` | one application with its reminders and their deliveries | |
| `SourceRegistry` | which sources are polled | |
| `SchedulerLease` | which instance of the scheduler polls them | |
| `SourceIngestion` | one source from poll to poll: runs, cursor, alerts | |
| `SourceFile` | one poll: how a file becomes jobs | |
| `PostingLifecycle` | one posting from its first listing to the purge | |

Each but `JobContract` and `MatchRules` has a module `...MC` with its constants for TLC, and there are eight modules
`...Proofs`, three of which are about two models each (section 5). The modules meet
where the code meets: what a pass of `ProfileRefresh` does is one step of `MatchFeed`, a run of
`BackgroundQueue` is the handler that `ProfileRefresh` splits into steps, `SourceIngestion` has for a
step what `SourceFile` makes of a file and what `PostingLifecycle` makes of its jobs.

### BackgroundQueue

`row[j]` is the row of `background_jobs` with idempotency key `j`. `status` has two values more than
the column: `absent` (never inserted) and `purged`. The columns with times are ages relative to
the present, so that the model needs no clock: `wait` is `available_at - now`, `lockAge`
is `now - locked_at`, `doneAge` is `now - finished_at`. `pc`, `job`, `ran` and `seen` are a worker's
place in `run_worker`, the job object it holds, how long ago it claimed that job and the `attempts`
that `fail()` loaded.

| Action | Code |
|---|---|
| `Enqueue` | `INSERT ... ON CONFLICT DO NOTHING` |
| `Claim` | `claim()`, earliest `available_at` first; one transaction under `FOR UPDATE SKIP LOCKED` |
| `HandlerEnds` | `handle()` returns or raises |
| `SucceedRead`, `SucceedWrite` | `succeed()`: the `SELECT` and the comparison of `lease_owner`, then the `UPDATE` by primary key at commit |
| `FailRead`, `FailWrite` | `fail()` likewise; it is called from the `except` clause, so that what it raises ends the process |
| `DatabaseError`, `Crash`, `Restart` | a statement is refused; the process is killed between two steps; the platform starts another |
| `Purge` | `purge_completed_background_jobs` |
| `Tick` | time |

The code neither renews a lease nor interrupts a handler when it runs out. Whether leases are
respected is therefore a condition on the workload: `limit`, chosen once from `HoldLimits`, bounds the
time from a claim to its settlement, and `Timely` is `limit <= Lease`. The properties that need
it say so. `TypeOK`, `Reclaimable` and `NoEarlyDeath` hold without it.

### ProfileRefresh

`marker` holds the three columns of the profile. Requests are numbered in order of time, and the number
stands for `requested_at` and for the start of the seven-day window of a "recent" request.
`api[r]` is the transaction of the route that makes edit `r` (what it read, until it commits) and then
the edit itself until a committed pass has taken it into account (`Owed`). A worker claims the
marker (`Claim`), reads the rules of the profile (`ReadRules`), commits matches and the dispatch job in one
transaction (`CommitPass`), and completes in two steps (`CompleteRead`, `CompleteWrite`),
because `complete_profile_refresh` reads without a lock. `Edit` and `EditCommit` are split for
the same reason. `raced` remembers that a transaction has written over a row which had changed since it read it;
`overran` that a lease ran out under a worker still at work.

### MatchRules and MatchFeed

`MatchRules` has no state. A text is the set of phrases it holds, so that `Says(text, phrase)` is
`_matches_phrase()` with the aliases of `ROLE_ALIASES`, `Classify` is `classify_internship()`, and `Matches`
is `match_filter()` conjunct for conjunct: active, exclusions, remote, radius, roles or categories, places, terms,
mode. `Follows` is the part of `_match_job()` about followed companies. `Creatable` and `Updatable` are the
validators of `FilterCreate` and `FilterUpdate`.

| Action of `MatchFeed` | Code |
|---|---|
| `CreateFilter`, `UpdateFilter`, `DeleteFilter` | `routes/filters.py`; an update replaces the kinds of exclusions it sends, and the unique key refuses one that was there before |
| `Follow`, `Unfollow` | `routes/watchlists.py` |
| `List`, `Retire`, `Week` | what ingestion does to a posting, and the week after which a new filter does not look back at it |
| `RefreshProfile`, `MatchChanged`, `MatchEverything` | `match_profile()` for the pending request, `match_fingerprints()` for the postings that ingestion queued, `match_all()` |
| `UpdateMatch` | `update_match()` |

The numbered pages of `GET /matches` are the operators `Listed`, `Fetched`, `Shown` and `HasMore`; `Listed` is the
`ORDER BY`, in which the place of a match (`Place`) is the number of visible ones before it. `back` remembers
the matches whose decision was taken back since they were last matched: nothing asks for a pass then.

### DeliveryOutbox

`row[d]` is the delivery of one match on one channel; `disp[v]` the objects a caller of
`dispatch_due()` has in hand after its claim; `planner` what a matching pass has decided but not
flushed; `told` and `digests` what reached the user. `Claim` is one transaction with the selection
of the digest (the best `DigestLimit` due emails are claimed, the other due emails cancelled). `Reject`,
`Send` and `Record` are `_is_sendable()`, `provider.send()` and `_record_result()` for one group: a
Telegram message alone, or the digest of all claimed emails. `Record` reads and writes in one step, and does
not look at the status, lease or owner of the rows, as in the code. `Plan` and `Flush` are the two halves of
`plan_match()`; `SwitchEmail`, `EmailOff`, `SwitchTelegram` and `Withdraw` are what
the user and the provider's webhook may do meanwhile. The providers are external: Resend
drops a message whose idempotency key it knows, and the key is made of the deliveries in the group;
Telegram has no such key.

### DeliverySchedule

A time is a number of local hours since a Monday; `Hours` is the length of a day. `Window` is
`apply_delivery_window()` with its second look at the weekend, `DigestTime` is `next_email_digest_time()`,
and `Capped` is `_apply_telegram_daily_cap()`, which counts what is pending or sent on a day. `PlanMatch` may plan
a pending alert anew, as every rescan does; `Send` and `Cancel` are the dispatcher's; `Pass` is an hour.

### ApplicationReminders

`app` is the row of one application, `reminders` the rows of `reminder_events`, `deliveries` what became of each.
A request reads the application (`Create`, `Update`) and commits (`Commit`) with `_sync_reminders()` over what
it has read, or is refused (`Refuse`) because the row is gone or the unique key of kind and date is taken.
`Bookmark` makes an application without reminders, `Delete` deletes it. `Plan` is the part of `plan_events()`
about reminders, and `Claim`, `Sent` and `Cancelled` are the dispatcher's; a reminder is sent when its delivery
is, if it is still there. `raced` says that two changes of one application overlapped.

### SourceRegistry

`table` is `source_configurations`. A configuration is a key (owner, repository and path) and the rest of the
settings; two keys may differ in case only and then `Fold` to one. `req[a]` is what a request of an administrator
has loaded, `Commit` writes the columns that differ from it over what the row is by then. A preview is such a request, too, and may last as long as GitHub takes.
`Sync` is `sources:sync` (`load_runtime_source_config()` with seeding, validation and the fallback to
`sources.toml`, then `reconcile_source_jobs()`); `Launch` and `Takeover` are an instance of the scheduler that reads
the sources before it waits for the lock, and schedules them when it has it. `passed` holds what has
passed a preview, `raced` the rows on which requests overlapped.

### SchedulerLease

`proc[i]` is the place of one run of `run_scheduler()`: `StartUp`, `Acquire` or `GiveUp`, `Register` (`start()` and
`resume()`), `Beat`, `Pause` and `Stop` (the signal, `pause()` and `stop()`), `Release`. `lock` is whose connection
holds the advisory lock; `Crash` leaves it until the database takes `Notice`, `Break` frees it under a living
instance, which never looks. `WriteFails` is a database error of `start()` or `stop()`. `registered`, `stopped` and `age` are the
row of `scheduler_runtimes`, `Healthy` what `scheduler_status()` makes of it.

### SourceIngestion

One source. `state` is its row of `source_states`, `alert[c]` the unresolved row of `parser_alerts` of category `c`,
`content` the version of the file that the postings were last made from.

| Action | Code |
|---|---|
| `Begin`, `Skip`, `SkipEnds` | `run()`: the advisory lock, the cursor, `_record_skipped()` |
| `Fetch` | `fetch()`: unchanged, the file, no answer or no table |
| `Start` | `_record_start()` |
| `Unchanged` | `_record_unchanged_success()`, which writes only if `NeedsTouch` |
| `Read`, `Apply` | the transaction of `_run_locked()`: what it loads, and at commit the postings, the cursor and the alerts at once |
| `Fails`, `RecordFailure` | a transaction is rolled back; `_record_failure()` |
| `End` | `pg_advisory_unlock()` |
| `Dies`, `LoseLock` | the process dies and leaves its run RUNNING; the connection that holds the lock breaks and the run goes on |
| `PlanNotices` | `_plan_system_events()` |
| `Edit`, `Tick` | the maintainers change the file; time |

`trouble` is what the polls found wrong, kept apart from the rows of alerts; `broken` says that a run lost its lock.

### SourceFile

One poll. A file is a sequence of tables of Markdown or HTML, and a row is what the parser makes of its cells:
whether it has as many as the header, the company or the sign for the company above, title, link, and what
two texts say of the term. `Mapped`, `Misfit`, `ReadRows`, `ReadTable`, `ReadTables` and `Parse` are `_map_row()` and the
loops of `_parse_tables()` and `_parse_html_tables()`; a company cell of nothing but decoration is `None`, which neither names a
company nor is handed down. `Term` is `_infer_term()`, `Run` is `normalize_job()` with the counters of
`_run_locked()`. The loops are recursive functions of the number of rows, tables or records read. `Answer`, `Unchanged`, `Refused` and `Transient` are the answers of GitHub and the retries of
`get_response()`.

### PostingLifecycle

One posting, that is one company, title, location and term, which each source lists under one external
id or does not list. `job[j]` are the rows of `jobs` that exist for it, in the order of their creation;
`rec[s][j]` is the row of `job_sources` by which source `s` attaches to job `j` (its occurrences are
ordered as the jobs are). `txn[s]` is the open transaction of a snapshot of `s`.

| Action | Code |
|---|---|
| `UpdateExisting` | the snapshot lists the posting and `s` has a record of it: `_update_existing()` |
| `AddOccurrence` | it has none, or the job expired and the record is old: lock, canonical lookup, new record or new job |
| `MarkMissing` | a complete snapshot does not list it: `apply_complete_snapshot()` |
| `Commit`, `Abort` | `session.commit()`, or a rollback |
| `Purge` | `purge_expired_jobs()`, of the jobs no user has kept |
| `Tick` | a day passes |

The session has `autoflush=False` (`database.py`), so a snapshot reads first, works on objects in memory
and writes at commit, and it writes the *columns that differ from what it read*, over what the row is
by then. `txn[s]` therefore holds for each column the set of its new value, empty for a column
that is not written. This is where two sources of one posting meet: they exclude each other
only by the advisory lock of a first creation. `missed[s][j]` counts the snapshots of `s` that lack the
posting since one last listed it as an occurrence of `j`, independently of the code's own counters, and `gone` the days
since a job expired; properties compare the code's columns with them.

## 3. The runs

| Run | Configuration | Shows |
|---|---|---|
| `queue` | 2 jobs, 2 workers, lease 1, `MaxAttempts` 2, 1 fault | exclusion, bounded runs, no early death, refinement of `JobContract`, liveness |
| `refresh` | 2 workers, 2 edits, 2 faults | no edit lost, a withdrawn request has its dispatch job, liveness |
| `outbox` | 1 Telegram and 2 email deliveries of which any 2 exist (`MaxRows`), 2 dispatchers, 1 fault, digest of 1 | exclusion, copies, nothing marked sent that was not, drain |
| `schedule` | 3 alerts (symmetric), days of 4 hours, a Thursday and a Friday, 32 users | delivery window and daily cap |
| `reminders` | 2 requests in all, both may be open, 4 days, 2 dates | reminders agree with the application, none forgotten, all dealt with |
| `reminder_conflict` | the same | *violation*: a sent reminder blocks further changes |
| `feed` | 2 jobs of 2 and 1 texts, 1 filter of 6 rules, 1 company to follow | matches are right when settled, decisions stay, looser is wider, pages tile |
| `registry` | 2 keys that differ in case, 2 settings, 2 open requests, 3 in all, 1 database error | previewed before enabled, no file twice, convergence |
| `lease` | 3 instances, `StaleAfter` 1, 1 broken connection, 1 database error | one scheduler, hand-over, deaths are seen |
| `ingestion` | 2 runners, 2 versions, alert after 2 failures, 1 fault | one run, cursor, alerts, freshness, liveness |
| `poll` | one table of up to 3 rows of 11 sorts, or two of up to one row | counts, companies, terms |
| `lifecycle` | 2 sources, 2 jobs, 2 days, stale and expired after 2 and 3 misses (as in the code), repost and retention after 2 days | expiry is earned, no double creation, the listed comes back, the dropped is closed and dated |

**Bounds and why they are enough.**

* *Queue.* Two workers and two jobs are the least for competition over a row and over the order of
  rows. `Lease` = 1 with `HoldLimits` = {1, 2} gives handlers that keep their lease and
  handlers that overrun it by one tick, which is enough for a second worker to claim under the first.
  `MaxAttempts` = 2 has a first failure that requeues and a last one that kills.
  One fault interrupts any step, including the last attempt. `Retention` = 1 lets the purge
  fall under a late settlement.
  Ages saturate one tick above the last value the code compares with.
* *Refresh.* Two edits give every order of a recent and a full request, with the second before,
  during or after the pass for the first; two faults let a pass fail and its retry fail too.
* *Outbox.* One Telegram message and two emails are the least for a digest with a choice and a group
  of more than one. `MaxPlans` = 2 bounds planner passes and changes of the user's mind together,
  so that one can undo or overtake another. `RejectLimit` is 2 (3 in the code), so that two
  emails reach it. `MaxAttempts` = 2 as above.
* *Schedule.* Four hours a day have room for quiet hours within a day, over midnight and all day
  long (which the code takes quiet hours to be that end when they begin), and for a preferred hour inside and outside
  of them. Thursday and Friday are the days before a paused weekend; with caps of one and
  two, three alerts overflow over Friday into the weekend.
* *Reminders.* Two requests overlap or follow each other, over days in which each reminder comes due before,
  between and after them; `SavedAfter` 2 and `PreparingAfter` 1 stand for 7 and 3 days.
* *Feed.* Six rules, the inactive one included, give every direction of a change: wider, narrower, other
  places, exclusions added or dropped, a radius with and without a center. The postings are one that matches
  plainly, the same one turned ambiguous, and one that is remote, of no place, of two categories and found
  through an alias. Two are the least for pages to meet.
* *Registry.* Three requests are a creation, a preview and whatever spoils it, or the three of another row; the
  `Spec` of a longer scenario is `SourceUnvalidated.cfg`. The one database error may meet any synchronisation,
  or the start of the next instance.
* *Lease.* Three instances are one at work, one that waits, and one that takes over from the second
  while the first still ends.
* *Ingestion.* Two versions are the least for a cursor to be behind or ahead. Two failures raise the alert of
  repeated failures. One row of an alert stands for all later ones (`MaxAlerts` = 1); `AlertStorm.cfg`
  has two. `TouchAfter` = `StaleAfter` = 1 is the narrowest case: the code has 6 and 24 hours.
* *Poll.* A row of every fate above, between and below rows of every other fate, in both languages, under a
  heading that names a term or not; two tables for what one hands to the next. `MaxErrors` = 4 is not
  reached (see the finding about it).
* *Lifecycle.* Two sources are the least that can disagree. Two days and thresholds of two days (30
  and 180 in the code) let a job expire early or late in its record's age, be purged, be joined by a new
  occurrence, and be followed by a second job; `ReopenAge` is 1 as in the code. `Others` = 1 row
  of another posting makes a snapshot credible or shrunk. `MaxJobs` and `MaxDays` bound jobs and days, not
  snapshots, of which there is no bound.

`CHECK_DEADLOCK FALSE` is set where the system may come to rest: users stop editing and the planner has nothing
to do (`refresh`, `outbox`, `schedule`), all instances have ended (`lease`), or the poll is over
(`poll`). The queue never stops, because time passes, nor do the sources of `lifecycle`, the polls of `ingestion`, the
edits of `feed` and `reminders`, and the scheduler of `registry`.

**Fairness.** A worker that can take a step of its loop takes it (`WF` of `Work`): `run_worker` polls for ever
and is restarted by the platform. Time passes (`WF` of `Tick`, `LeaseExpires`, `ComesDue`, `NextDay`). Some
caller of `dispatch_due()` goes on calling it, which is weaker than fairness of each. A flush follows
its read, requests end. The scheduler's interval jobs are run (`WF` of `Sync`, of `Beat`, of `Plan`), a living
instance goes on with its next step, and the database notices connections that are gone. Nobody is obliged
to enqueue, edit, plan, launch, signal, crash, fail or purge. Strong fairness is used where something
intermittent has to succeed again and again: in `SourceIngestion` a runner gets the lock (`Begin`) and GitHub
answers (`Answered`), both of which may be missed at any one time; in `PostingLifecycle` each source again and again
delivers a *changed* file, of which some are applied. That last one is a condition on the world rather than on
the code. A file that never changes again is answered with 304 and changes nothing, so that a
posting attached to an expired job, or a shrunk file, stays as it is until the next change.

**Simplifications.** In the queue, keys hold a time bucket or a fresh uuid, so a key whose row was purged is not
enqueued again; all rows have the default `max_attempts`. In the outbox there is one profile with
one recipient, the dispatcher's limit of 100 rows is not reached, one matching pass plans at a
time (they hold an advisory lock on the delivery key), a provider that is not configured is left out, and rows left over
by a crash expire together. `ProfileRefresh` models one profile; those of different profiles
have nothing in common but the worker's time. In `MatchFeed` a pass is one step, because `ProfileRefresh` and
`BackgroundQueue` say what overlaps do to it; a posting that is older than a week does not become young again. In
`DeliverySchedule` settings stay, and the change to and from summer time is left out. In
`ApplicationReminders` one of the three dates a user sets stands for all, and no request lasts over night. In
`SourceRegistry` the audit log is left out, and a preview passes or fails as GitHub pleases. In
`SourceIngestion` retries and parsing are one step, which `SourceFile` models. In `PostingLifecycle` ages are whole days, rounded down, and
transactions are short against a day; the fields of a posting are the one bit `edited`; the other rows of
a source are a number; a source lists the posting under one external id; snapshots of one source
exclude each other (the advisory lock of `ingestion/service.py`). A second row of one file with the same identity
is therefore not modelled; a finding says what the missing flush does to it.

## 4. What the violations say

One run, `reminder_conflict`, expects a violation. `ChangesPass` is what `src/backend/tests/test_applications.py` does: it changes an
application several times. Once a reminder has been *sent*, `_sync_reminders()` keeps it, writes every
schedule again under the same key of kind and date, and the unique key refuses the change as a whole.

Further configurations are kept beside the runs because they show a finding as a counterexample (`tlc -config X.cfg M`). Each
compares the code with a sentence of its own comments or documents, which the finding in `PROJECT.json` quotes.

| Configuration of module | Refuted | What TLC shows |
|---|---|---|
| `QueueExit.cfg`, `BackgroundQueueMC` | `DatabaseErrorsEndNoWorker` | `fail()` runs inside the `except` clause, so that an error there leaves `run_worker`. The lease returns the job; the process is the platform's to restart. |
| `ProfileRefreshRace.cfg`, `ProfileRefreshMC` | `FullPassIsKept` | `enqueue_profile_refresh()` reads and writes without a lock. A deletion and the creation of a filter that both read an empty marker can leave a marker for a recent pass only, and matches the user's rules no longer justify stay until another edit. |
| `DigestRetry.cfg`, `DeliveryOutboxMC` | `RetriesResendTheDigest` | After a transient failure the rows are due again on their own account: rows that came due meanwhile join the selection, and the retried digest is another message with another key. |
| `DigestDropped.cfg`, `DeliveryOutboxMC` | `OnlyIneligibleDropped` | `_is_sendable()` asks `all()` members, and an email digest is one group: a match that was dismissed takes the others with it for good. |
| `CapExceeded.cfg`, `DeliveryScheduleMC` | `CapIsAlwaysKept` | The day with room is chosen before the window moves the alert to another day: what overflows on a Friday and on a paused Saturday meets on Monday. |
| `AlertStorm.cfg`, `SourceIngestionMC` | `OneNoticePerIncident` | A poll resolves the alerts of its source before it raises them again as new rows, of which administrators are told again. |
| `SourceUnvalidated.cfg`, `SourceRegistryMC` | `NothingUnvalidated` | An update commits while a preview waits for GitHub; the preview then marks as validated what nobody has previewed. |
| `PostingReopened.cfg`, `PostingLifecycleMC` | `ReopeningIsMarked` | `apply_complete_snapshot()` dates the expiry of a job anew at each snapshot that still lacks the posting, so that a job that stayed expired for days counts as reopened only if the source did not change in the last of them. The retention sweep is postponed in the same way. |
| `PostingShownTwice.cfg`, `PostingLifecycleMC` | `ShownOnce` | The canonical lookup looks at `first_seen_at`, not at the status: an active job older than 30 days is not found by a second source, which creates another. |

Five more definitions state what a document says and the code does not do, without a configuration: `Singleton` of
`SchedulerLease` (the lock connection may break), `ToldOnce` of `ApplicationReminders` (a change of an application deletes a
reminder whose delivery goes out all the same), `ParsedInFull` of `SourceFile` (a misfit ends a Markdown table),
`RejectionIsTold` of `SourceFile` (the count of rejected rows stops at a limit; `MaxErrors = 0` shows it with two rows), and
`RadiusHasCenter` of `MatchFeed`. Named under `INVARIANTS` of the module's configuration each fails. The other findings
are read off the definitions that translate the code, and name them.

## 5. What is proved

Eight modules of proofs. All theorems hold for every value of the constants that satisfies the
module's assumption, in particular for any number of actors, rows, tables and postings and any fault budget, and were proved
after TLC had found no counterexample. None of the invariants that matter is inductive; each proof module names
the parts of its strengthening, has one step per action and, under it, one per conjunct that the
action can disturb. Every invariant and every action property of a passing run is stated by a theorem.

| Module | Theorem | States | Run |
|---|---|---|---|
| `BackgroundQueueProofs` | `LeaseExcludes` | `ExclusiveRun` | `queue` |
| | `RunsAreBounded` | `RunsPaidFor` | `queue` |
| | `DeathIsEarned` | `NoEarlyDeath` | `queue` |
| | `KeepsContract` | `ImplementsContract` | `queue` |
| | `NoRowIsStuck`, `SettledForGood`, `HolderSettles`, `TypeCorrect` | `Reclaimable`, `SettledIsFinal`, `OnlyTheHolderSettles`, `TypeOK` | proved only |
| `ProfileRefreshProofs` | `NoEditLost` | `NoEditIsLost` | `refresh` |
| | `ClearedWhenDispatched` | `WithdrawnIsDispatched` | `refresh` |
| | `OnePass`, `TypeCorrect` | `OnePassAtATime`, `TypeOK` | proved only |
| `MatchFeedProofs` | `MatchesRight` | `MatchesAreRight` | `feed` |
| | `DecisionsKept` | `DecisionsStay` | `feed` |
| | `LooserKeeps` | `LooserMatchesMore` | `feed` |
| | `PagesRight` | `PagesTile` | `feed` |
| | `ListRight` | `ListedOnce` | proved only |
| `DeliveryOutboxProofs` | `HeldOnce` | `HeldByOne` | `outbox` |
| | `CopiesPaid` | `CopiesPaidFor` | `outbox` |
| | `SentDelivered` | `SentWasDelivered` | `outbox` |
| | `SentFinal`, `TypeCorrect` | `SentIsFinal`, `TypeOK` | proved only |
| `SourceIngestionProofs` | `OneRun` | `OneRunAtATime` | `ingestion` |
| | `CursorRight` | `CursorIsApplied` | `ingestion` |
| | `AlertsRight` | `AlertsAreCurrent` | `ingestion` |
| | `FreshnessRight` | `FreshWhilePolled` | `ingestion` |
| | `TypeCorrect` | `TypeOK` | proved only |
| `SchedulerProofs` | `EnabledRight` | `EnabledWasPreviewed` | `registry` |
| | `FilesOnce` | `NoFileTwice` | `registry` |
| | `Singular` | `OneScheduler` | `lease` |
| | `StoppedMeansStopped` | `StoppedIsTrue` | proved only |
| | `TypeCorrect`, `LeaseTypeCorrect` | `TypeOK`, `LeaseTypeOK` | proved only |
| `PlanningProofs` | `WindowKept` | `WindowIsKept` | `schedule` |
| | `WindowNext` | `WindowIsNext` | `schedule` |
| | `CapKept` | `CapIsKept` | `schedule` |
| | `RemindersCurrent` | `UnsentIsCurrent` | `reminders` |
| | `RemindersComplete` | `NothingForgotten` | `reminders` |
| | `ScheduleTypeCorrect`, `ReminderTypeCorrect` | `ScheduleTypeOK`, `TypeOK` | proved only |
| `PostingProofs` | `CreatedOnce` | `NoSecondCreation` | `lifecycle` |
| | `ExpiredInTime` | `ExpiryIsEarned` | `lifecycle` |
| | `RowsCounted` | `RowsAreCounted` | `poll` |
| | `CompanyRight` | `CompanyIsAbove` | `poll` |
| | `TermRight` | `TermIsSaid` | `poll` |
| | `TypeCorrect` | `TypeOK` | proved only |

`SchedulerProofs` is about `SchedulerLease` and `SourceRegistry`, `PlanningProofs` about `DeliverySchedule` and
`ApplicationReminders`, `PostingProofs` about `PostingLifecycle` and `SourceFile`. Each model also has the theorem that its
inductive invariant always holds: `Invariance`, and `LeaseInvariance`, `ScheduleInvariance`, `ReminderInvariance` and
`FileInvariance` for the first model of the pair, or the second.

**The queue.** `ExclusiveRun` alone does not exclude a worker that is busy with a job
whose row looks expired, nor a settled row in a worker's hands. `IInv` adds

* `NewRows`: a row that is absent has never been locked or run;
* `HoldersHold`: within the lease, a busy worker holds the *running* row of its job, it is the
  owner, and the lock is exactly as old as its claim (`lockAge = ran`). As `ran <= limit <= Lease`, the row
  fails the expiry test of `claim()`. This is the heart of the argument, and it fails as soon as the
  expiry test is off by one or a settlement forgets the owner;
* `SeenIsOld`: what `fail()` loaded is at most what the row has, and equal to it within the lease;
* `RunToSpare`: a row nobody holds has used at most `MaxAttempts - 1` runs, plus one for each fault,
  so that the next claim stays within `RunsPaidFor`.

`KeepsContract` maps `Claim` to `Start`, the two writes and the steps by which a worker leaves a job to `Stop`,
`Enqueue` to `Submit` and `Purge` to `Forget`.

**The marker.** The code recognises by the value of `requested_at` alone whether the row still asks for what a
worker claimed. The invariant says why that is enough:

* `Numbered`: a claimed request is one an edit has committed, so that the commit of an open edit always
  writes a value no worker has claimed. From then on every worker at work fails the comparison;
* `Knowing`: as long as the comparison succeeds, the pass a worker has claimed is wide enough for every owed edit,
  has seen all of them when it is about to commit, and leaves none when it is committed. The withdrawal of the
  request therefore takes nothing away. `WidenedKeeps` is the fact about coalescing it rests on: what asks for
  an edit goes on asking for it when a later edit widens the request;
* `Dispatched` and `Locked`: a pass that may withdraw its request has its dispatch job; while no lease runs
  out early, a busy worker is the one the row is locked by.

Both `NoEditIsLost` and `WithdrawnIsDispatched` are conditional on `~raced`. The condition is needed:
`ProfileRefreshRace.cfg` shows what is lost without it.

**The matches.** `MatchesAreRight` speaks of moments at which nothing is left to be matched. `Covered` says what
holds at the others: the match of a posting is right, or the posting is queued, or the pending request does not
skip it. An edit that makes matches wrong always asks for a pass over everything, except the creation of a
filter, which can only add matches; `SkipIsOld` says that what its pass skips is older than a week, so that
coalesced requests (`Requested` intersects) never skip too much. `LooserMatchesMore` rests on
`LooserIsWider`, a lemma about `Matches` alone, and on `Shapes`, that filters made by the API have categories and no roles.

**The list and its pages.** `PagesTile` names two sizes of a page; `Tiling` proves it for all. It is the
arithmetic of offsets: page `p` shows what lies between the cuts `(p - 1) * limit` and `p * limit` (`Cuts`), the extra match that
is fetched says whether there is another page, and pieces between cuts that follow each other give the list again when they are joined
(`Joined`). That no match is shown twice or left out needs more: `ListedOnce` rests on an order without ties
(`BeforeOrders`), so that different postings have different places (`PlacesDiffer`) and every place from 1 to the number of
visible matches is taken. `Listable` says that there are finitely many and that each has a company.

**The outbox.** While no lease runs out under a dispatcher (`~overran`), `OneHolder` is kept because of
`HeldRows`: a row in somebody's hands is being sent under a fresh lease, or was cancelled or lost meanwhile,
and `Claim` selects neither. `AddsAreNew` keeps a flush from reviving a held row. `Paid` counts: a delivery has at
most one copy more than there were faults, and only if its latest attempt succeeded (`Spent`), in which case
no further attempt begins. `Delivered` is what makes `SentWasDelivered` hold without the condition: success is only
recorded for a message that was accepted, also when the record is late.

**Ingestion.** Until a connection breaks, `Holding` says that whoever is past the lock has it, so that
what the transaction of a batch has loaded is what the rows are when it commits (`ReadIsCurrent`). Then
the columns it does not write need no writing, and each commit keeps the cursor equal to the version of the
postings and the open alerts equal to the troubles of the polls. `FreshWhilePolled` does not need the lock: a poll that
writes nothing leaves a success younger than `TouchAfter`, and from then on its age grows as the time without a poll does (`Young`).

**The registry.** `Current`: a request that was not overtaken has loaded the row as it is. `AllChecked`: on rows
where none was, what is enabled *or validated* passed a preview with the settings it has now, as
an update takes both away. `Polled`: whatever the scheduler polls or has loaded was valid when it was
loaded, because an invalid table is replaced by the one source of the file.

**The scheduler.** `HoldsOrBroken`: an instance past the lock has it or lost its connection. A crash keeps
that, because the database frees a lock only of an instance that is gone.

**The window and the cap.** `WindowIsKept` and `WindowIsNext` hold for days of any number of hours and any settings.
`WindowValid` says that the hour `Window` returns is allowed, also when the end of the quiet hours falls on a paused weekend and
the second look is needed; `WindowEarliest` that without paused weekends each hour it passes over is quiet. For the cap the invariant is stronger than the property: no day *whatever* has more alerts than the user
wants (`CapOnAllDays`). The property looks at the days the run can reach. A planned alert counts for a day with room
or for the one it was on (`CapStays`), which holds if the window leaves the chosen hour alone (`PreferredIsValid`); without
this condition `CapExceeded.cfg` is a counterexample.

**The reminders.** `ReadIsCurrent`: what a change has read of an application is what the row is, unless another
change came between. `RoomLeft` counts the rows that requests may still write, so that there is always a free id, and
`Unplanned` keeps a fresh row from inheriting a delivery. Then what `_sync_reminders()` leaves unsent, and what it
writes, are together the schedules of the new row: nothing outdated (`UnsentIsCurrent`), nothing missing (`NothingForgotten`).

**The posting.** A transaction reads, works in memory, and writes columns at commit over rows that may have changed.
`OneCreator` is what the advisory lock gives: who is to create a job has the lock, and since no one else can create one there is
still none to join (`Canonical = {}`) when it commits. `Tallied`: a record is active exactly while few snapshots missed it,
and counts no more of them than came. It is kept because the record of a source is written by its own snapshots alone, which
exclude each other: `OwnWrites` says that the columns an open transaction is to write make it true of the row *as it is by then*.
`Earned` is the part about others: a transaction that is to expire a job saw that each other source has missed it for long,
which stays so until it commits if nothing else was committed meanwhile (`~stale`). That is the exception `ExpiryIsEarned`
makes. `Attached` and `Known` say that records and writes are of jobs that exist, `Idle` that a closed transaction holds nothing.

**The file.** Loops over rows and tables are recursive functions. The library's induction theorems take the
statement as a parameter, which the installed provers cannot instantiate, so `PostingProofs` and `MatchFeedProofs` prove induction over a *set* of numbers
once (`Induction`, from the least number outside the set) and `LoopEnds` for loops; each loop is an instance for the set of the
numbers of steps after which its invariant holds. `Accounted` is the invariant of the parser: after the rows `Done`, the records and the
errors stand for each of them once, in order, and what the parser will hand to a row that says "as above" is the company of
the last row above it, in its table, that names one. `Given` is the invariant of the counters: jobs, duplicates and
rejections add up to the records given so far. `TermRight` rests on a lemma about `Term` alone: the text that
settles it names one season, and none before it names any.

Only model-checked:

* liveness (`EveryJobSettles`, `EveryEditIsMatched`, `OutboxDrains`, `DueIsTold`, `SyncConverges`, `HandedOver`, `DeathIsSeen`,
  `SourceCatchesUp`, `ListedComesBack`, `DroppedExpires`), which is out of the prover's reach, as is `ENABLED`. Each is
  a property of a passing run under the fairness of section 3.

The type invariants of `DeliverySchedule`, `ApplicationReminders` and `PostingLifecycle` belong to no run and are theorems.

## 6. What is not modelled

* **Rate limiting** (`rate_limiting.py`): each check is one method under one lock, or one script of Redis. Nothing interleaves;
  what remains is arithmetic on times.
* **Telegram linking** (`notifications/telegram_linking.py`): the token is signed and stateless, and a unique column decides between two chats.
* **Other adapters** (Greenhouse, Lever): reached through the internal route only; each maps one JSON answer. RemoteOK is disabled.
* **Discovery, jobs, internal and analytics routes**: reads, and CRUD in single statements; the bookmark is in `ApplicationReminders`.
* **Import, export, contacts, documents, goals** of `routes/applications.py`: rows of one user that nothing else reads.
* **Alerts of changed postings** (`plan_events()`, but for reminders and system events), notification overrides of a filter, the preview
  of a filter: data that decide *whether* a delivery is planned, which `DeliveryOutbox` leaves open.
* **Texts**: rendering of messages, parsing of cells and links, phrases of scores; `SourceFile` and `MatchRules` start from what the
  parser makes of a text.
* **Waiting between HTTP retries**, authentication (Supabase is external), the application shell, migrations, scripts and the web client.
* **Account deletion** is in `ProfileRefresh` as far as the database goes; that the login identity is deleted first, in another system, is not.

## 7. Where to go on

1. The alerts of changed postings (`plan_events()`) as a further planner of `DeliveryOutbox`.
2. An abstract specification of what a user is told (each match at least once on each channel, with few copies) that
   `DeliveryOutbox` implements, as `BackgroundQueue` does `JobContract`, and one of a matching pass for `ProfileRefresh`.
3. The other orders of the list of matches (`newest`, `deadline`, `relevance`), whose ties are broken by an id as well.
