--------------------------- MODULE ProfileRefresh ---------------------------
(***************************************************************************)
(* The rematch marker of a profile (src/backend/api/matching/service.py):   *)
(* three columns by which the API, whose role may not touch the job queue,  *)
(* asks a worker to match the profile again after an edit of its filters or *)
(* watchlists.                                                              *)
(*                                                                         *)
(* claim_profile_refresh() locks the row.  enqueue_profile_refresh() and    *)
(* complete_profile_refresh() do not: they read the row, decide in memory   *)
(* and write the columns they changed at commit, over whatever the row has  *)
(* become by then.  Read and commit are two steps here.                     *)
(*                                                                         *)
(* One profile is modelled; those of different profiles share nothing.      *)
(* A request is known by its number, and the numbers stand for              *)
(* requested_at and, for the requests that ask for the last seven days      *)
(* only, for seen_since: a smaller number is an earlier time.               *)
(***************************************************************************)
EXTENDS Integers, FiniteSets

CONSTANTS
  Workers,      \* worker processes
  NoOne,        \* match_refresh_locked_at IS NULL
  MaxRequests,  \* bound: edits of filters and watchlists
  MaxFaults     \* bound: crashes, failed passes and failed statements

ASSUME RefreshConstants ==
  /\ NoOne \notin Workers
  /\ MaxRequests \in Nat /\ MaxFaults \in Nat

Null == 0                       \* requested_at or seen_since IS NULL
Requests == 1..MaxRequests
Stamp == Requests \cup {Null}

VARIABLES
  marker,   \* [requested, since, lock]: the three columns of the row
  expired,  \* is the lock older than worker_lease_seconds?
  deleted,  \* has the profile been deleted?
  last,     \* the number of the latest request
  api,      \* [Requests -> Request]: the transaction of each edit, then the edit itself
            \* until a committed pass has taken it into account
  worker,   \* [Workers -> Pass]: what each worker does about the marker
  alerts,   \* requests for which a dispatch job has been enqueued
  raced,    \* has a transaction written over a row that had changed since it read it?
  overran,  \* has a lease run out under a worker that was still at work?
  faults    \* faults so far

vars == <<marker, expired, deleted, last, api, worker, alerts, raced, overran, faults>>

Marker == [requested : Stamp, since : Stamp, lock : Workers \cup {NoOne}]
NoMarker == [requested |-> Null, since |-> Null, lock |-> NoOne]

Request == [pc : {"none", "open", "owed"}, kind : {"recent", "full"},
            requested : Stamp, since : Stamp]
NoRequest == [pc |-> "none", kind |-> "full", requested |-> Null, since |-> Null]

Pass == [pc : {"idle", "claimed", "matching", "matched", "completing"},
         requested : Stamp, since : Stamp, saw : SUBSET Requests, done : BOOLEAN]
NoPass == [pc |-> "idle", requested |-> Null, since |-> Null, saw |-> {}, done |-> FALSE]

Init ==
  /\ marker = NoMarker
  /\ expired = FALSE /\ deleted = FALSE
  /\ last = 0
  /\ api = [r \in Requests |-> NoRequest]
  /\ worker = [w \in Workers |-> NoPass]
  /\ alerts = {}
  /\ raced = FALSE /\ overran = FALSE
  /\ faults = 0

\* A pass over the postings seen since s serves request r.
Covers(s, r) == s = Null \/ (api[r].kind = "recent" /\ s <= r)

Owed == {r \in Requests : api[r].pc = "owed"}

Busy(w) == worker[w].pc # "idle"

\* Has the row the columns that a transaction read?
Unchanged(read) == marker.requested = read.requested /\ marker.since = read.since

-----------------------------------------------------------------------------
(* The API *)

\* Mutant: a full pass that was asked for is forgotten when a recent one is.
Narrowed(requested, since, r, kind) ==
  LET asked == IF kind = "recent" THEN r ELSE Null IN
  IF requested = Null \/ since = Null THEN asked
  ELSE IF asked = Null THEN Null
  ELSE IF since < asked THEN since ELSE asked

\* What enqueue_profile_refresh() makes of the seen_since it read.
Widened(requested, since, r, kind) ==
  LET asked == IF kind = "recent" THEN r ELSE Null IN
  IF requested = Null THEN asked
  ELSE IF asked = Null \/ since = Null THEN Null
  ELSE IF since < asked THEN since ELSE asked

\* A route edits a filter or a watchlist and calls enqueue_profile_refresh(),
\* which reads the profile: creating a filter asks for the last seven days,
\* every other edit for a full pass.
Edit(kind) ==
  LET r == last + 1 IN
  /\ ~deleted
  /\ last < MaxRequests
  /\ last' = r
  /\ api' = [api EXCEPT ![r] = [pc |-> "open", kind |-> kind,
                                requested |-> marker.requested, since |-> marker.since]]
  /\ UNCHANGED <<marker, expired, deleted, worker, alerts, raced, overran, faults>>

\* session.commit() of the route: the edit and the columns that differ from what
\* was read become visible at once.
EditCommit(r) ==
  LET read == api[r]
      since == Widened(read.requested, read.since, r, read.kind) IN
  /\ read.pc = "open"
  /\ ~deleted
  /\ api' = [api EXCEPT ![r] = [NoRequest EXCEPT !.pc = "owed", !.kind = read.kind]]
  /\ marker' = [marker EXCEPT !.requested = r,
                              !.since = IF since # read.since THEN since ELSE @]
  /\ raced' = (raced \/ ~Unchanged(read))
  /\ UNCHANGED <<expired, deleted, last, worker, alerts, overran, faults>>

\* delete_me(): the row goes, and its filters, watchlists and matches with it.
DeleteProfile ==
  /\ ~deleted
  /\ deleted' = TRUE
  /\ marker' = NoMarker
  /\ api' = [r \in Requests |-> NoRequest]
  /\ expired' = FALSE
  /\ UNCHANGED <<last, worker, alerts, raced, overran, faults>>

-----------------------------------------------------------------------------
(* The worker *)

\* Mutant: the test of the age of the lock left out.
ClaimableOnce == marker.requested # Null /\ marker.lock = NoOne

\* The WHERE clause of claim_profile_refresh().
Claimable == marker.requested # Null /\ (marker.lock = NoOne \/ expired)

\* claim_profile_refresh(): one transaction under FOR UPDATE SKIP LOCKED.
Claim(w) ==
  /\ worker[w].pc = "idle"
  /\ Claimable
  /\ marker' = [marker EXCEPT !.lock = w]
  /\ expired' = FALSE
  /\ worker' = [worker EXCEPT ![w] =
       [NoPass EXCEPT !.pc = "claimed", !.requested = marker.requested,
                      !.since = marker.since]]
  /\ UNCHANGED <<deleted, last, api, alerts, raced, overran, faults>>

\* match_profile() reads the rules of the profile: the edits committed by now are
\* the ones its pass takes into account.
ReadRules(w) ==
  /\ worker[w].pc = "claimed"
  /\ worker' = [worker EXCEPT ![w].pc = "matching", ![w].since = Null,
       ![w].saw = {r \in Owed : Covers(worker[w].since, r)}]
  /\ UNCHANGED <<marker, expired, deleted, last, api, alerts, raced, overran, faults>>

\* The commit of handle_profile_refresh(): the matches and the dispatch job, which
\* has the profile and requested_at for its key.
CommitPass(w) ==
  /\ worker[w].pc = "matching"
  /\ worker' = [worker EXCEPT ![w].pc = "matched", ![w].saw = {}]
  /\ api' = [r \in Requests |-> IF r \in worker[w].saw THEN NoRequest ELSE api[r]]
  /\ alerts' = alerts \cup {worker[w].requested}
  /\ UNCHANGED <<marker, expired, deleted, last, raced, overran, faults>>

\* Mutant: the request is withdrawn whichever it is.
AnyRequest(w) == TRUE

\* Does the row still ask for the request that w claimed?
SameRequest(w) == marker.requested = worker[w].requested

\* complete_profile_refresh() reads the row: nothing more happens when it is gone
\* or locked by a later claim.
CompleteRead(w) ==
  /\ worker[w].pc = "matched"
  /\ \/ /\ deleted \/ marker.lock # w
        /\ worker' = [worker EXCEPT ![w] = NoPass]
     \/ /\ ~deleted /\ marker.lock = w
        /\ worker' = [worker EXCEPT ![w] =
             IF SameRequest(w)
             THEN [@ EXCEPT !.pc = "completing", !.requested = marker.requested,
                            !.since = marker.since, !.done = TRUE]
             ELSE [NoPass EXCEPT !.pc = "completing"]]
  /\ UNCHANGED <<marker, expired, deleted, last, api, alerts, raced, overran, faults>>

\* Its commit unlocks the row, and clears the request when the row it read asked
\* for no other.  Columns that were NULL already are not written.
CompleteWrite(w) ==
  LET read == worker[w] IN
  /\ read.pc = "completing"
  /\ worker' = [worker EXCEPT ![w] = NoPass]
  /\ IF deleted THEN UNCHANGED <<marker, expired, raced>>
     ELSE /\ marker' = [requested |-> IF read.done THEN Null ELSE marker.requested,
                        since |-> IF read.done /\ read.since # Null
                                  THEN Null ELSE marker.since,
                        lock |-> NoOne]
          /\ expired' = FALSE
          /\ raced' = (raced \/ (read.done /\ ~Unchanged(read)))
  /\ UNCHANGED <<deleted, last, api, alerts, overran, faults>>

\* A crash, or an exception of the pass or of the completion: run_worker leaves
\* the lease in place, and the transaction is rolled back.
Abandon(w) ==
  /\ faults < MaxFaults
  /\ faults' = faults + 1
  /\ Busy(w)
  /\ worker' = [worker EXCEPT ![w] = NoPass]
  /\ UNCHANGED <<marker, expired, deleted, last, api, alerts, raced, overran>>

\* worker_lease_seconds have passed since the claim.
LeaseExpires ==
  /\ marker.lock # NoOne
  /\ ~expired
  /\ expired' = TRUE
  /\ overran' = (overran \/ Busy(marker.lock))
  /\ UNCHANGED <<marker, deleted, last, api, worker, alerts, raced, faults>>

Work(w) == Claim(w) \/ ReadRules(w) \/ CommitPass(w) \/ CompleteRead(w) \/ CompleteWrite(w)

Next ==
  \/ \E kind \in {"recent", "full"} : Edit(kind)
  \/ \E r \in Requests : EditCommit(r)
  \/ DeleteProfile
  \/ \E w \in Workers : Work(w) \/ Abandon(w)
  \/ LeaseExpires

Spec == Init /\ [][Next]_vars

\* Workers poll for ever and time passes.  Nobody is obliged to edit, to commit an
\* edit, to delete a profile or to fail.
Fairness == (\A w \in Workers : WF_vars(Work(w))) /\ WF_vars(LeaseExpires)
FairSpec == Spec /\ Fairness

-----------------------------------------------------------------------------
(* Properties *)

\* Every variable keeps the shape the code gives it.
TypeOK ==
  /\ marker \in Marker
  /\ expired \in BOOLEAN /\ deleted \in BOOLEAN
  /\ last \in 0..MaxRequests
  /\ api \in [Requests -> Request]
  /\ worker \in [Workers -> Pass]
  /\ alerts \subseteq Requests
  /\ raced \in BOOLEAN /\ overran \in BOOLEAN
  /\ faults \in 0..MaxFaults

\* An edit that no pass has taken into account is still asked for by the marker,
\* over a range of postings wide enough for it.
StillAsked(r) == marker.requested # Null /\ Covers(marker.since, r)

\* As long as no transaction writes over a row that changed since it read it, no
\* crash, retry, late completion or coalescing of requests loses an edit or
\* narrows the pass it needs.
NoEditIsLost == ~raced => \A r \in Owed : StillAsked(r)

\* A pass that runs late, under a lock another worker has taken, never withdraws
\* the request the other worker is at work on; and no worker ever unlocks a row
\* while another is at work under its own lock: as long as no lease runs out
\* early, one worker at a time rematches the profile.
OnePassAtATime == ~overran => \A v, w \in Workers : Busy(v) /\ Busy(w) => v = w

\* A request is withdrawn only when its own pass and the dispatch job of that pass
\* are committed: the deliveries a refresh planned do not wait for the next one.
WithdrawnIsDispatched ==
  [][~raced' /\ ~deleted' /\ marker.requested # Null /\ marker'.requested = Null =>
       marker.requested \in alerts]_vars

\* Every edit is taken into account in the end, through crashes, expired leases
\* and edits made while a pass runs.
EveryEditIsMatched == \A r \in Requests : r \in Owed ~> (r \notin Owed \/ raced)

\* matching/service.py:54: "A deletion or broad filter edit needs a full pass to
\* remove any matches that are no longer justified by the user's rules."
FullPassIsKept == \A r \in Owed : api[r].kind = "full" => StillAsked(r)
=============================================================================
