------------------------------ MODULE MatchFeed ------------------------------
(***************************************************************************)
(* The matches of one user (src/backend/api/matching/service.py): the user  *)
(* makes, changes and deletes filters (routes/filters.py), follows          *)
(* companies (routes/watchlists.py), and applies to or dismisses what       *)
(* matches (routes/matches.py) while ingestion adds, changes and retires    *)
(* postings.  The worker matches anew what has changed.                     *)
(*                                                                         *)
(* A pass is one step: what may go wrong when an edit overlaps it is        *)
(* ProfileRefresh's matter, and that it comes about BackgroundQueue's.      *)
(***************************************************************************)
EXTENDS MatchRules, FiniteSetsExt, SequencesExt

CONSTANTS
  Jobs,       \* rows of jobs, numbered
  Postings,   \* [Jobs -> set of postings]: what they may say
  FilterIds,
  Rules,      \* filters users may ask for
  Followed,   \* watchlists users may make
  Rank,       \* [company -> Nat]: their alphabetical order
  Decisions,  \* what a user may make of a match
  Sent        \* kinds of exclusions that an update may send

ASSUME FeedConstants ==
  /\ Jobs \subseteq Nat /\ IsFiniteSet(Jobs)
  /\ Decisions \subseteq {"matched", "applied", "dismissed"}
  /\ Rules \subseteq Filter /\ Followed \subseteq Watchlist
  /\ \A j \in Jobs : Postings[j] \subseteq Posting /\ \A p \in Postings[j] : Rank[p.company] \in Nat

VARIABLES
  jobs,      \* [Jobs -> Row]
  old,       \* jobs first seen more than a week ago
  filters,   \* [FilterIds -> Rules or none]
  watched,   \* watchlists
  refresh,   \* the marker of the profile
  changed,   \* jobs that ingestion queued for matching
  match,     \* [Jobs -> Match]: rows of matches
  back       \* jobs whose decision the user took back after they were last matched

vars == <<jobs, old, filters, watched, refresh, changed, match, back>>

-----------------------------------------------------------------------------
(* Rows *)

NoJob == [status |-> "none"]
Row == {NoJob} \cup [status : {"active", "expired"}, posting : Posting]
NoFilter == [active |-> FALSE]
NoMatch == [status |-> "none", reasons |-> {}]

\* Reasons are the filters and watchlists that match.
NoRefresh == [asked |-> FALSE, skip |-> {}]
Active == {j \in Jobs : jobs[j].status = "active"}
Present == {f \in FilterIds : filters[f] # NoFilter}

Reasons(j) ==
  IF Classify(jobs[j].posting) # "confirmed" THEN {}
  ELSE {f \in Present : Matches(jobs[j].posting, filters[f])}
         \cup {w \in watched : Follows(jobs[j].posting, w)}

Init ==
  /\ jobs = [j \in Jobs |-> NoJob] /\ old = {}
  /\ filters = [f \in FilterIds |-> NoFilter] /\ watched = {}
  /\ refresh = NoRefresh /\ changed = {}
  /\ match = [j \in Jobs |-> NoMatch] /\ back = {}

-----------------------------------------------------------------------------
(* Edits.  A request skips the jobs that are older than a week, or none. *)

\* Mutant: the last request replaces the one before it.
Latest(skip) == [asked |-> TRUE, skip |-> skip]

\* enqueue_profile_refresh(): the wider request counts.
Requested(skip) ==
  [asked |-> TRUE, skip |-> IF refresh.asked THEN refresh.skip \cap skip ELSE skip]

CreateFilter(f, rule) ==
  /\ filters[f] = NoFilter /\ Creatable(rule)
  /\ filters' = [filters EXCEPT ![f] = rule]
  /\ refresh' = Requested(old)
  /\ UNCHANGED <<jobs, old, watched, changed, match, back>>

\* _replace_exclusions(): the kinds that are sent are written anew, before the old rows are
\* deleted, so that one that stays is there twice and the unique key refuses the update.
OfKinds(excluded, kinds) == {x \in excluded : x[1] \in kinds}
Twice(f, rule, kinds) == OfKinds(filters[f].excluded, kinds) \cap OfKinds(rule.excluded, kinds) # {}

UpdateFilter(f, rule, kinds) ==
  LET kept == OfKinds(filters[f].excluded, {"keyword", "company", "location"} \ kinds)
      new == [rule EXCEPT !.excluded = kept \cup OfKinds(@, kinds)]
  IN /\ f \in Present
     /\ Updatable(filters[f], new) /\ ~Twice(f, rule, kinds)
     /\ filters' = [filters EXCEPT ![f] = new]
     /\ refresh' = Requested({})
     /\ UNCHANGED <<jobs, old, watched, changed, match, back>>

DeleteFilter(f) ==
  /\ f \in Present
  /\ filters' = [filters EXCEPT ![f] = NoFilter]
  /\ refresh' = Requested({})
  /\ UNCHANGED <<jobs, old, watched, changed, match, back>>

\* A company is followed once; an update changes all but the company.
Follow(w) ==
  /\ watched' = {x \in watched : x.company # w.company} \cup {w}
  /\ refresh' = Requested({})
  /\ UNCHANGED <<jobs, old, filters, changed, match, back>>
Unfollow(w) ==
  /\ w \in watched
  /\ watched' = watched \ {w}
  /\ refresh' = Requested({})
  /\ UNCHANGED <<jobs, old, filters, changed, match, back>>

-----------------------------------------------------------------------------
(* Ingestion *)

\* A new posting, one that has changed or one that is back is queued for matching.
List(j, posting) ==
  /\ jobs[j] # [status |-> "active", posting |-> posting]
  /\ jobs' = [jobs EXCEPT ![j] = [status |-> "active", posting |-> posting]]
  /\ changed' = changed \cup {j}
  /\ UNCHANGED <<old, filters, watched, refresh, match, back>>
Retire(j) ==
  /\ j \in Active
  /\ jobs' = [jobs EXCEPT ![j].status = "expired"]
  /\ UNCHANGED <<old, filters, watched, refresh, changed, match, back>>
Week(j) ==
  /\ j \in Active \ old
  /\ old' = old \cup {j}
  /\ UNCHANGED <<jobs, filters, watched, refresh, changed, match, back>>

-----------------------------------------------------------------------------
(* Matching *)

\* Mutant: what no longer matches is deleted, whatever the user made of it.
Dropped(row) == NoMatch
Unmatched(row) == IF row.status = "matched" THEN NoMatch ELSE row

\* _match_job()
Matched(j) ==
  IF Reasons(j) = {} THEN Unmatched(match[j])
  ELSE [status |-> IF match[j].status = "none" THEN "matched" ELSE match[j].status,
        reasons |-> Reasons(j)]
MatchAll(them) ==
  /\ match' = [j \in Jobs |-> IF j \in them THEN Matched(j) ELSE match[j]]
  /\ back' = back \ them

\* match_all()
MatchEverything ==
  /\ MatchAll(Active)
  /\ UNCHANGED <<jobs, old, filters, watched, refresh, changed>>

\* match_profile()
RefreshProfile ==
  /\ refresh.asked
  /\ MatchAll(Active \ refresh.skip)
  /\ refresh' = NoRefresh
  /\ UNCHANGED <<jobs, old, filters, watched, changed>>

\* match_fingerprints()
MatchChanged ==
  /\ changed # {}
  /\ MatchAll(Active \cap changed)
  /\ changed' = {}
  /\ UNCHANGED <<jobs, old, filters, watched, refresh>>

\* update_match()
UpdateMatch(j, status) ==
  /\ match[j].status # "none"
  /\ match' = [match EXCEPT ![j].status = status]
  /\ back' = IF status = "matched" THEN back \cup {j} ELSE back
  /\ UNCHANGED <<jobs, old, filters, watched, refresh, changed>>

Edit ==
  \/ \E f \in FilterIds, rule \in Rules :
       \/ CreateFilter(f, rule)
       \/ \E kinds \in Sent : UpdateFilter(f, rule, kinds)
  \/ \E f \in FilterIds : DeleteFilter(f)
  \/ \E w \in Followed : Follow(w) \/ Unfollow(w)
Ingest == \E j \in Jobs : Retire(j) \/ Week(j) \/ \E posting \in Postings[j] : List(j, posting)
Next ==
  \/ Edit \/ Ingest \/ MatchEverything \/ RefreshProfile \/ MatchChanged
  \/ \E j \in Jobs, status \in Decisions : UpdateMatch(j, status)

Spec == Init /\ [][Next]_vars

-----------------------------------------------------------------------------
(* list_matches(), a page at a time, and read_matches() *)

Visible ==
  {j \in Jobs : /\ match[j].status # "none"
                /\ jobs[j].status = "active" \/ match[j].status = "applied"
                /\ jobs[j].posting.term # Retired}

\* Ordered by company, the newest row first among equals.
Before(i, j) ==
  LET a == Rank[jobs[i].posting.company]
      b == Rank[jobs[j].posting.company]
  IN a < b \/ (a = b /\ i > j)
Place(j) == Cardinality({i \in Visible : Before(i, j)}) + 1
Listed == [n \in 1..Cardinality(Visible) |-> CHOOSE j \in Visible : Place(j) = n]

\* Mutant: a page starts where the one before it ends.
Overlapping(page, limit) ==
  SubSeq(Listed, Max({1, (page - 1) * limit}), Min({(page - 1) * limit + limit + 1, Len(Listed)}))

\* One row more than is shown tells whether there is more.
Fetched(page, limit) ==
  SubSeq(Listed, (page - 1) * limit + 1, Min({page * limit + 1, Len(Listed)}))
Shown(page, limit) == SubSeq(Fetched(page, limit), 1, Min({limit, Len(Fetched(page, limit))}))
HasMore(page, limit) == Len(Fetched(page, limit)) > limit

-----------------------------------------------------------------------------
(* Properties *)

Settled == ~refresh.asked /\ changed = {}

\* When nothing is left to be matched, the user has exactly the matches that the filters and
\* followed companies of now account for, with those reasons; but a filter that is made looks
\* back for a week, and a decision that is taken back leaves the match as it was
\* (matching/service.py:170, routes/filters.py:135).
MatchesAreRight ==
  Settled =>
    \A j \in Active \ back :
      /\ match[j].status = "matched" => Reasons(j) # {}
      /\ j \notin old => IF Reasons(j) = {} THEN match[j].status # "matched"
                         ELSE match[j].status # "none" /\ match[j].reasons = Reasons(j)

\* What the user applied to or dismissed is never deleted, and so never comes back as new
\* (matching/service.py:230).
DecisionsStay ==
  [][\A j \in Jobs : match[j].status \in {"applied", "dismissed"} => match'[j].status # "none"]_vars

\* A filter that asks for less.
Looser(f, g) ==
  /\ g.active
  /\ g.categories = {"all"} \/ ("all" \notin g.categories /\ f.categories \subseteq g.categories)
  /\ g.roles = f.roles
  /\ g.locations \subseteq Anywhere \/ (f.locations \ Anywhere # {} /\ f.locations \subseteq g.locations)
  /\ g.terms = {} \/ (f.terms # {} /\ f.terms \subseteq g.terms)
  /\ g.mode \in {"any", f.mode}
  /\ g.remote_only => f.remote_only
  /\ g.radius = 0 \/ (f.radius # 0 /\ f.radius <= g.radius /\ f.center = g.center)
  /\ g.excluded \subseteq f.excluded

\* A filter that is changed to ask for less matches all that it matched before
\* (matching/matcher.py:125).
LooserMatchesMore ==
  [][\A f \in Present :
       filters'[f] # NoFilter /\ Looser(filters[f], filters'[f])
         => \A j \in Active :
              Matches(jobs[j].posting, filters[f]) => Matches(jobs[j].posting, filters'[f])]_vars

\* Page after page, until there is no more, the list is shown once and whole
\* (repositories/matches.py:178, routes/matches.py:64).
PagesTile ==
  \A limit \in 1..2 :
    LET pages == {p \in 1..(Cardinality(Jobs) + 1) :
                    \A q \in 1..(p - 1) : HasMore(q, limit)}
    IN FlattenSeq([p \in 1..Max(pages) |-> Shown(p, limit)]) = Listed

\* "radius filters require a recognized center location" (schemas/filter.py:113).
RadiusHasCenter == \A f \in Present : filters[f].radius # 0 => filters[f].center
=============================================================================
