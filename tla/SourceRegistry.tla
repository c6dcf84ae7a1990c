---------------------------- MODULE SourceRegistry ----------------------------
(***************************************************************************)
(* Which sources are polled (src/backend/api/routes/admin_sources.py,       *)
(* scheduler/source_registry.py and scheduler/runtime.py): administrators   *)
(* create, preview, enable, change and delete source configurations; the    *)
(* scheduler reads the table now and then and polls what is enabled in it.  *)
(*                                                                         *)
(* A request loads the row, works on the object, a preview even while it    *)
(* waits for GitHub, and writes the columns that differ from what it loaded *)
(* at commit.  Nothing locks the row, so that two requests may overlap.     *)
(*                                                                         *)
(* A configuration is a key (owner, repository and path, written as one)    *)
(* and the rest of the settings (branch, term).  Keys that differ in case   *)
(* only fold to one.  The audit log is left out.                            *)
(***************************************************************************)
EXTENDS Integers, FiniteSets

CONSTANTS
  Keys,         \* source keys
  Fold,         \* Fold[k]: the key in lower case
  Settings,     \* what else a configuration says
  Seed,         \* the configuration in sources.toml
  Requests,     \* requests of administrators that may be open at once
  MaxRequests,  \* bound: requests ever made
  MaxFaults     \* bound: database errors of the scheduler

Config == [key : Keys, set : Settings]

ASSUME RegistryConstants ==
  /\ Keys # {} /\ Settings # {} /\ Seed \in Config /\ DOMAIN Fold = Keys
  /\ MaxRequests \in Nat /\ MaxFaults \in Nat

VARIABLES
  table,   \* [Ids -> Row]: source_configurations
  req,     \* [Requests -> Request]
  jobs,    \* SUBSET Config: what the scheduler polls
  loaded,  \* {what the next instance of the scheduler has read}, while it waits for the lock
  asked,   \* requests so far
  faults,  \* database errors so far
  passed,  \* [Ids -> SUBSET Config]: configurations of a row that passed a preview
  raced    \* the rows that a request has changed between another's read and commit

requests == <<req, asked>>
vars == <<table, requests, jobs, loaded, faults, passed, raced>>

-----------------------------------------------------------------------------

\* A row needs a request to insert it; a seed but the first needs one to delete the last row.
Ids == 1..(1 + MaxRequests)
Row == [status : {"none", "row", "deleted"}, conf : Config,
        enabled : BOOLEAN, validated : BOOLEAN]   \* validated: is there a last_validated_at?
NoRow == [status |-> "none", conf |-> Seed, enabled |-> FALSE, validated |-> FALSE]

Rows == {i \in Ids : table[i].status = "row"}
Unused == {i \in Ids : table[i].status = "none"}
First(S) == CHOOSE i \in S : \A k \in S : i <= k

\* What a request has loaded, and what it is to write.
Request == [op : {"none", "create", "update", "enable", "disable", "delete", "preview"},
            id : Ids, was : Row, new : Config, stale : BOOLEAN]
NoRequest == [op |-> "none", id |-> 1, was |-> NoRow, new |-> Seed, stale |-> FALSE]

Init ==
  /\ table = [i \in Ids |-> NoRow]
  /\ req = [a \in Requests |-> NoRequest]
  /\ jobs = {} /\ loaded = {}
  /\ asked = 0 /\ faults = 0
  /\ passed = [i \in Ids |-> {}] /\ raced = {}

-----------------------------------------------------------------------------
(* A request reads *)

KeyIsTaken(k, i) == \E j \in Rows \ {i} : table[j].conf.key = k

Open(a, op, i, new) ==
  /\ req[a].op = "none" /\ asked < MaxRequests
  /\ asked' = asked + 1
  /\ req' = [req EXCEPT ![a] =
       [op |-> op, id |-> i, was |-> table[i], new |-> new, stale |-> FALSE]]
  /\ UNCHANGED <<table, jobs, loaded, faults, passed, raced>>

\* create_admin_source(), whose row is not there before the commit.
Create(a) == \E c \in Config : ~KeyIsTaken(c.key, 0) /\ Open(a, "create", NoRequest.id, c)

\* update_admin_source()
Update(a, i) == \E c \in Config : ~KeyIsTaken(c.key, i) /\ Open(a, "update", i, c)

\* change_source_state(): only what was validated is enabled.
Enable(a, i) == table[i].validated /\ Open(a, "enable", i, table[i].conf)
Disable(a, i) == Open(a, "disable", i, table[i].conf)

\* delete_admin_source(), preview_admin_source()
Delete(a, i) == Open(a, "delete", i, table[i].conf)
Preview(a, i) == Open(a, "preview", i, table[i].conf)

-----------------------------------------------------------------------------
(* A request commits *)

\* The value of a column after an UPDATE that names it only if it changed.
Column(was, new, now) == IF new = was THEN now ELSE new

\* Mutant: an update leaves the validation alone.
UpdatedStillValid(a) ==
  LET r == req[a]  now == table[r.id] IN
  [now EXCEPT !.conf = [key |-> Column(r.was.conf.key, r.new.key, now.conf.key),
                        set |-> Column(r.was.conf.set, r.new.set, now.conf.set)],
              !.enabled = Column(r.was.enabled, FALSE, @)]

\* An update invalidates the source and disables it.
Updated(a) ==
  LET r == req[a]  now == table[r.id] IN
  [now EXCEPT !.conf = [key |-> Column(r.was.conf.key, r.new.key, now.conf.key),
                        set |-> Column(r.was.conf.set, r.new.set, now.conf.set)],
              !.enabled = Column(r.was.enabled, FALSE, @),
              !.validated = Column(r.was.validated, FALSE, @)]

\* The row a request writes; a preview that passes always writes a new time.
Result(a, pass) ==
  LET r == req[a]  now == table[r.id] IN
  CASE r.op = "create"  -> [NoRow EXCEPT !.status = "row", !.conf = r.new]
    [] r.op = "update"  -> Updated(a)
    [] r.op = "enable"  -> [now EXCEPT !.enabled = Column(r.was.enabled, TRUE, @)]
    [] r.op = "disable" -> [now EXCEPT !.enabled = Column(r.was.enabled, FALSE, @)]
    [] r.op = "delete"  -> [NoRow EXCEPT !.status = "deleted"]
    [] r.op = "preview" ->
         [now EXCEPT !.validated = IF pass THEN TRUE ELSE Column(r.was.validated, FALSE, @)]

\* The row of a request is there no more.
Gone(a) == req[a].op # "create" /\ table[req[a].id].status # "row"

\* The commit fails: the row is gone, or another row has its key by then.
Refused(a, row) ==
  Gone(a) \/ (row.status = "row" /\ KeyIsTaken(row.conf.key, IF req[a].op = "create" THEN 0 ELSE req[a].id))

\* The request ends; those that have read the row it has written are overtaken.
Closed(a, i) ==
  [b \in Requests |-> IF b = a THEN NoRequest
                      ELSE [req[b] EXCEPT !.stale = @ \/ (req[b].op \notin {"none", "create"} /\ req[b].id = i)]]

\* What validated configurations a row has after a commit.
Passed(a, i, pass) ==
  [passed EXCEPT ![i] = IF req[a].op = "preview" /\ pass THEN @ \cup {req[a].was.conf} ELSE @]

Commit(a) ==
  LET i == IF req[a].op = "create" THEN First(Unused) ELSE req[a].id IN
  \E pass \in BOOLEAN :
    LET row == Result(a, pass) IN
    /\ req[a].op # "none" /\ (pass => req[a].op = "preview")
    /\ ~Refused(a, row)
    /\ table' = [table EXCEPT ![i] = row]
    /\ passed' = Passed(a, i, pass)
    /\ raced' = IF req[a].stale THEN raced \cup {i} ELSE raced
    /\ req' = Closed(a, i)
    /\ UNCHANGED <<asked, jobs, loaded, faults>>

\* The database refuses the commit, or GitHub does not answer the preview.
Fail(a) ==
  /\ req[a].op # "none"
  /\ req[a].op = "preview" \/ Refused(a, Result(a, FALSE))
  /\ req' = [req EXCEPT ![a] = NoRequest]
  /\ UNCHANGED <<table, asked, jobs, loaded, faults, passed, raced>>

-----------------------------------------------------------------------------
(* The scheduler *)

\* seed_source_configurations(): the file is written to an empty table.
Seeded ==
  IF Rows # {} THEN table
  ELSE [table EXCEPT ![First(Unused)] = [NoRow EXCEPT !.status = "row", !.enabled = TRUE]]

Enabled(t) == {t[i].conf : i \in {k \in Ids : t[k].status = "row" /\ t[k].enabled}}

\* validate_enabled_sources(): two enabled keys that fold to one are an error, and the
\* error leads to the file.
Valid(C) == \A c, d \in C : Fold[c.key] = Fold[d.key] => c = d
\* Mutant: nobody compares the keys.
RuntimeUnchecked(t) == Enabled(t)
Runtime(t) == IF Valid(Enabled(t)) THEN Enabled(t) ELSE {Seed}

\* load_runtime_source_config(): from the table, or from the file after a database error.
Load(failed) ==
  /\ failed => faults < MaxFaults
  /\ faults' = faults + (IF failed THEN 1 ELSE 0)
  /\ table' = IF failed THEN table ELSE Seeded
  /\ passed' = [i \in Ids |-> IF table'[i] # table[i] THEN {Seed} ELSE passed[i]]
LoadedConfig(failed) == IF failed THEN {Seed} ELSE Runtime(Seeded)

\* Mutant: a job of the same name is kept as it is.
KeptByName(want) == {j \in jobs : \E c \in want : c.key = j.key}

\* reconcile_source_jobs(): a job is named by its key, and kept if its source is the same.
Kept(want) == {j \in jobs : j \in want}
Reconciled(want) == Kept(want) \cup {c \in want : ~\E j \in Kept(want) : j.key = c.key}

Sync ==
  \E failed \in BOOLEAN :
    /\ Load(failed)
    /\ jobs' = Reconciled(LoadedConfig(failed))
    /\ UNCHANGED <<requests, loaded, raced>>

\* run_scheduler() reads the sources before it waits for the lock; when it has the lock it
\* schedules what it read then.
Launch ==
  /\ loaded = {}
  /\ \E failed \in BOOLEAN : Load(failed) /\ loaded' = {LoadedConfig(failed)}
  /\ UNCHANGED <<requests, jobs, raced>>
Takeover ==
  /\ jobs' \in loaded /\ loaded' = {}
  /\ UNCHANGED <<table, requests, faults, passed, raced>>

-----------------------------------------------------------------------------

Ask(a) ==
  \/ Create(a)
  \/ \E i \in Rows : Update(a, i) \/ Enable(a, i) \/ Disable(a, i) \/ Delete(a, i) \/ Preview(a, i)
Next ==
  \/ \E a \in Requests : Ask(a) \/ Commit(a) \/ Fail(a)
  \/ Sync \/ Launch \/ Takeover

\* sources:sync is an interval job of the scheduler.
Spec == Init /\ [][Next]_vars
FairSpec == Spec /\ WF_vars(Sync)

-----------------------------------------------------------------------------
(* Properties *)

\* The variables have their types, and the unique key of source_configurations holds.
TypeOK ==
  /\ table \in [Ids -> Row] /\ req \in [Requests -> Request] /\ asked \in 0..MaxRequests
  /\ jobs \subseteq Config /\ \A C \in loaded : C \subseteq Config
  /\ faults \in 0..MaxFaults
  /\ passed \in [Ids -> SUBSET Config] /\ raced \subseteq Ids
  /\ \A i, k \in Rows : table[i].conf.key = table[k].conf.key => i = k

Previewed(i) == table[i].enabled => table[i].conf \in passed[i]

\* What is enabled has passed a preview as it is now, or came from the file, unless two
\* requests on the row overlapped (routes/admin_sources.py:225).
EnabledWasPreviewed == \A i \in Rows \ raced : Previewed(i)

\* routes/admin_sources.py:227: "Preview and validate this source before enabling it".
NothingUnvalidated == \A i \in Rows : Previewed(i)

\* Two jobs never poll one file under names that differ in case only (scheduler/config.py:41).
NoFileTwice == Valid(jobs)

\* In the end the scheduler polls what the table enables, whatever it had loaded before it
\* waited for the lock and whatever errors it met (scheduler/runtime.py:87).
SyncConverges == <>[](jobs = Runtime(table))

=============================================================================
