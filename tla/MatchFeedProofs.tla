---------------------------- MODULE MatchFeedProofs ----------------------------
(***************************************************************************)
(* Proofs about MatchFeed, for any filters, companies and postings.         *)
(*                                                                         *)
(* MatchesAreRight speaks of moments at which nothing is left to match.     *)
(* Covered says what holds at the others: a posting whose match may be      *)
(* wrong is queued, or is one the pending pass will look at.                *)
(*                                                                         *)
(* The pages cut the list at multiples of their size, and the parts of a    *)
(* list make the list; the list itself has each match at one place, because *)
(* the order of the matches has no ties.                                    *)
(***************************************************************************)
EXTENDS MatchFeed, FiniteSetTheorems, SequenceTheorems, WellFoundedInduction, TLAPS

\* The match of a posting is what the rules account for, as far as MatchesAreRight asks.
Right(j) ==
  /\ match[j].status = "matched" => Reasons(j) # {}
  /\ j \notin old => IF Reasons(j) = {} THEN match[j].status # "matched"
                     ELSE match[j].status # "none" /\ match[j].reasons = Reasons(j)

\* The pending pass will look at a posting.
Awaited(j) == j \in changed \/ (refresh.asked /\ j \notin refresh.skip)

Covered == \A j \in Active \ back : Awaited(j) \/ Right(j)

\* A pass leaves out nothing that is younger than a week.
SkipIsOld == refresh.asked => refresh.skip \subseteq old

Statuses == {"none", "matched", "applied", "dismissed"}
Match == [status : Statuses, reasons : SUBSET (FilterIds \cup Followed)]

\* The shapes of the rows, and what the API guarantees of a filter: it has no roles, which are
\* those of filters from before the taxonomy, and it has categories.
Shapes ==
  /\ jobs \in [Jobs -> Row]
  /\ filters \in [FilterIds -> Filter \cup {NoFilter}]
  /\ \A f \in Present : filters[f].roles = {} /\ Chosen(filters[f].categories)
  /\ watched \subseteq Followed
  /\ match \in [Jobs -> Match]
  /\ refresh \in [asked : BOOLEAN, skip : SUBSET Jobs] /\ old \subseteq Jobs

IInv == Shapes /\ SkipIsOld /\ Covered

-----------------------------------------------------------------------------
(* Lemmas *)

\* NoFilter is no filter: it has no name for its terms.
LEMMA NoFilterIsNone == NoFilter \notin Filter
<1>1. \A f \in Filter : DOMAIN f = {"active", "categories", "roles", "locations", "terms", "mode",
                                    "remote_only", "radius", "center", "excluded"}
  BY DEF Filter
<1>2. DOMAIN NoFilter = {"active"}
  BY DEF NoFilter
<1> QED
  BY <1>1, <1>2

\* What the rules account for is made of the user's filters and watchlists.
LEMMA ReasonsAreRules ==
  ASSUME watched \subseteq Followed, NEW j
  PROVE  Reasons(j) \subseteq FilterIds \cup Followed
BY DEF Reasons, Present

\* A matching pass gives each posting it looks at what it should have.
LEMMA MatchedIsRight ==
  ASSUME Shapes, NEW j \in Jobs
  PROVE  /\ Matched(j) \in Match
         /\ Matched(j).status = "matched" => Reasons(j) # {}
         /\ IF Reasons(j) = {} THEN Matched(j).status # "matched"
            ELSE Matched(j).status # "none" /\ Matched(j).reasons = Reasons(j)
<1>1. Reasons(j) \subseteq FilterIds \cup Followed
  BY ReasonsAreRules DEF Shapes
<1>2. match[j] \in Match
  BY DEF Shapes
<1>3. CASE Reasons(j) = {}
  <2>1. Matched(j) = IF match[j].status = "matched" THEN NoMatch ELSE match[j]
    BY <1>3 DEF Matched, Unmatched
  <2>2. NoMatch \in Match /\ NoMatch.status = "none"
    BY DEF NoMatch, Match, Statuses
  <2> QED
    BY <1>2, <1>3, <2>1, <2>2
<1>4. CASE Reasons(j) # {}
  <2>1. Matched(j) = [status |-> IF match[j].status = "none" THEN "matched" ELSE match[j].status,
                      reasons |-> Reasons(j)]
    BY <1>4 DEF Matched
  <2> QED
    BY <1>1, <1>2, <1>4, <2>1 DEF Match, Statuses
<1> QED
  BY <1>3, <1>4

\* The initial state satisfies the invariant: nothing is there.
LEMMA InitIInv == Init => IInv
<1> SUFFICES ASSUME Init PROVE IInv
  OBVIOUS
<1>1. Active = {} /\ Present = {}
  BY DEF Init, Active, Present, NoJob
<1>2. Shapes
  BY <1>1 DEF Init, Shapes, Row, Match, Statuses, NoMatch, NoRefresh
<1> QED
  BY <1>1, <1>2 DEF Init, IInv, SkipIsOld, Covered, NoRefresh

-----------------------------------------------------------------------------
(* Steps *)

\* An edit that asks for a pass over everything leaves every posting awaited.
LEMMA AskedForAll ==
  ASSUME Shapes, refresh' = Requested({})
  PROVE  refresh'.asked /\ refresh'.skip = {} /\ refresh' \in [asked : BOOLEAN, skip : SUBSET Jobs]
BY DEF Requested, Shapes

\* What a request for a pass without some postings makes of the marker.
LEMMA AskedForSome ==
  ASSUME Shapes, NEW S, S \subseteq Jobs, refresh' = Requested(S)
  PROVE  /\ refresh'.asked /\ refresh'.skip \subseteq S
         /\ refresh.asked => refresh'.skip \subseteq refresh.skip
         /\ refresh' \in [asked : BOOLEAN, skip : SUBSET Jobs]
BY DEF Requested, Shapes

\* The filters that there are after one has been written.
LEMMA FiltersWritten ==
  ASSUME Shapes, NEW f \in FilterIds, NEW new \in Filter,
         filters' = [filters EXCEPT ![f] = new],
         new.roles = {}, Chosen(new.categories)
  PROVE  /\ filters' \in [FilterIds -> Filter \cup {NoFilter}]
         /\ \A g \in Present' : filters'[g].roles = {} /\ Chosen(filters'[g].categories)
<1>1. \A g \in FilterIds \ {f} : filters'[g] = filters[g]
  BY DEF Shapes
<1>2. filters'[f] = new
  BY DEF Shapes
<1>3. \A g \in Present' \ {f} : g \in Present
  BY <1>1 DEF Present
<1> QED
  BY <1>1, <1>2, <1>3 DEF Shapes, Present

\* A new filter takes nothing away: it may miss postings older than a week, which the pass it
\* asks for leaves out.
LEMMA CreateStep ==
  ASSUME IInv, NEW f \in FilterIds, NEW rule \in Rules, CreateFilter(f, rule)
  PROVE  IInv'
<1> USE DEF IInv
<1>1. rule \in Filter /\ rule.roles = {} /\ Chosen(rule.categories)
  BY FeedConstants DEF CreateFilter, Creatable
<1>2. filters' = [filters EXCEPT ![f] = rule] /\ filters[f] = NoFilter /\ refresh' = Requested(old)
  BY DEF CreateFilter
<1>u. UNCHANGED <<jobs, old, watched, changed, match, back>>
  BY DEF CreateFilter
<1>3. Shapes' /\ SkipIsOld'
  <2>1. old \subseteq Jobs
    BY DEF Shapes
  <2>2. refresh'.skip \subseteq old /\ refresh' \in [asked : BOOLEAN, skip : SUBSET Jobs]
    BY <2>1, <1>2, AskedForSome
  <2>3. /\ filters' \in [FilterIds -> Filter \cup {NoFilter}]
        /\ \A g \in Present' : filters'[g].roles = {} /\ Chosen(filters'[g].categories)
    BY <1>1, <1>2, FiltersWritten
  <2> QED
    BY <1>u, <2>2, <2>3 DEF Shapes, SkipIsOld
<1>4. ASSUME NEW j \in Active' \ back'
      PROVE  Awaited(j)' \/ Right(j)'
  <2>1. j \in Active \ back /\ j \in Jobs
    BY <1>u DEF Active
  <2>2. CASE Awaited(j)
    <3>1. old \subseteq Jobs
      BY DEF Shapes
    <3>2. refresh'.asked /\ (refresh.asked => refresh'.skip \subseteq refresh.skip)
      BY <3>1, <1>2, AskedForSome
    <3> QED
      BY <2>2, <3>2, <1>u DEF Awaited
  <2>3. CASE Right(j)
    <3>1. old \subseteq Jobs
      BY DEF Shapes
    <3>2. refresh'.asked /\ refresh'.skip \subseteq old
      BY <3>1, <1>2, AskedForSome
    <3>3. CASE j \notin old
      BY <3>2, <3>3 DEF Awaited
    <3>4. CASE j \in old
      <4>1. Present \subseteq Present' /\ \A g \in Present : filters'[g] = filters[g]
        BY <1>2, <1>1, NoFilterIsNone DEF Present, Shapes
      <4>2. Reasons(j) \subseteq Reasons(j)'
        BY <4>1, <1>u DEF Reasons
      <4> QED
        BY <3>4, <4>2, <2>3, <1>u DEF Right
    <3> QED
      BY <3>3, <3>4
  <2> QED
    BY <2>1, <2>2, <2>3 DEF Covered
<1> QED
  BY <1>3, <1>4 DEF Covered

\* The other edits ask for a pass over everything.
LEMMA WideStep ==
  ASSUME IInv, refresh' = Requested({}), UNCHANGED <<jobs, old, changed, match, back>>,
         filters' \in [FilterIds -> Filter \cup {NoFilter}],
         \A g \in Present' : filters'[g].roles = {} /\ Chosen(filters'[g].categories),
         watched' \subseteq Followed
  PROVE  IInv'
<1>1. Shapes
  BY DEF IInv
<1>2. refresh'.asked /\ refresh'.skip = {} /\ refresh' \in [asked : BOOLEAN, skip : SUBSET Jobs]
  BY <1>1, AskedForAll
<1>3. Shapes' /\ SkipIsOld'
  BY <1>1, <1>2 DEF Shapes, SkipIsOld
<1>4. Covered'
  BY <1>2 DEF Covered, Awaited
<1> QED
  BY <1>3, <1>4 DEF IInv

LEMMA UpdateStep ==
  ASSUME IInv, NEW f \in FilterIds, NEW rule \in Rules, NEW kinds \in Sent,
         UpdateFilter(f, rule, kinds)
  PROVE  IInv'
<1> DEFINE kept == OfKinds(filters[f].excluded, {"keyword", "company", "location"} \ kinds)
           new == [rule EXCEPT !.excluded = kept \cup OfKinds(@, kinds)]
<1>1. /\ f \in Present /\ Updatable(filters[f], new)
      /\ filters' = [filters EXCEPT ![f] = new] /\ refresh' = Requested({})
      /\ UNCHANGED <<jobs, old, watched, changed, match, back>>
  BY DEF UpdateFilter
<1>2. Shapes
  BY DEF IInv
<1>3. filters[f] \in Filter /\ rule \in Filter
  BY <1>1, <1>2, FeedConstants DEF Shapes, Present
<1>4. new \in Filter
  <2>1. kept \cup OfKinds(rule.excluded, kinds) \subseteq {"keyword", "company", "location"} \X STRING
    BY <1>3 DEF OfKinds, Filter
  <2> QED
    BY <2>1, <1>3 DEF Filter
<1>5. new.roles = filters[f].roles
  BY <1>1 DEF Updatable
<1>6. new.categories = filters[f].categories \/ Chosen(new.categories)
  BY <1>1 DEF Updatable
<1>7. new.roles = {} /\ Chosen(new.categories)
  <2>1. filters[f].roles = {} /\ Chosen(filters[f].categories)
    BY <1>1, <1>2 DEF Shapes
  <2> QED
    BY <1>5, <1>6, <2>1
<1>8. /\ filters' \in [FilterIds -> Filter \cup {NoFilter}]
      /\ \A g \in Present' : filters'[g].roles = {} /\ Chosen(filters'[g].categories)
  <2> HIDE DEF new
  <2> QED
    BY <1>1, <1>2, <1>4, <1>7, FiltersWritten
<1>9. watched' \subseteq Followed
  BY <1>1, <1>2 DEF Shapes
<1> QED
  BY <1>1, <1>8, <1>9, WideStep

LEMMA DeleteStep ==
  ASSUME IInv, NEW f \in FilterIds, DeleteFilter(f)
  PROVE  IInv'
<1>1. Shapes
  BY DEF IInv
<1>2. \A g \in Present' : g \in Present /\ filters'[g] = filters[g]
  BY <1>1 DEF DeleteFilter, Present, Shapes
<1>3. /\ filters' \in [FilterIds -> Filter \cup {NoFilter}]
      /\ \A g \in Present' : filters'[g].roles = {} /\ Chosen(filters'[g].categories)
  BY <1>1, <1>2 DEF DeleteFilter, Shapes
<1>4. watched' \subseteq Followed
  BY <1>1 DEF DeleteFilter, Shapes
<1> QED
  BY <1>3, <1>4, WideStep DEF DeleteFilter

LEMMA WatchStep ==
  ASSUME IInv, NEW w \in Followed, Follow(w) \/ Unfollow(w)
  PROVE  IInv'
<1>1. Shapes
  BY DEF IInv
<1>2. filters' = filters /\ refresh' = Requested({}) /\ UNCHANGED <<jobs, old, changed, match, back>>
  BY DEF Follow, Unfollow
<1>3. watched' \subseteq Followed
  BY <1>1 DEF Follow, Unfollow, Shapes
<1>4. /\ filters' \in [FilterIds -> Filter \cup {NoFilter}]
      /\ \A g \in Present' : filters'[g].roles = {} /\ Chosen(filters'[g].categories)
  BY <1>1, <1>2 DEF Shapes, Present
<1> QED
  BY <1>2, <1>3, <1>4, WideStep

\* A posting that ingestion writes is awaited; the rules account for the others as before.
LEMMA IngestStep ==
  ASSUME IInv, NEW j \in Jobs,
         Retire(j) \/ Week(j) \/ \E posting \in Postings[j] : List(j, posting)
  PROVE  IInv'
<1>1. Shapes
  BY DEF IInv
<1>2. UNCHANGED <<filters, watched, refresh, match, back>>
  BY DEF Retire, Week, List
<1>3. jobs' \in [Jobs -> Row]
  <2>1. CASE Retire(j)
    <3>1. jobs[j] \in [status : {"active", "expired"}, posting : Posting]
      BY <1>1, <2>1 DEF Retire, Active, Shapes, Row, NoJob
    <3>2. jobs' = [jobs EXCEPT ![j].status = "expired"]
      BY <2>1 DEF Retire
    <3>3. [jobs[j] EXCEPT !.status = "expired"] \in Row
      BY <3>1 DEF Row
    <3> QED
      BY <1>1, <3>2, <3>3 DEF Shapes
  <2>2. CASE Week(j)
    BY <1>1, <2>2 DEF Week, Shapes
  <2>3. ASSUME NEW posting \in Postings[j], List(j, posting)
        PROVE  jobs' \in [Jobs -> Row]
    <3>1. posting \in Posting
      BY FeedConstants
    <3> QED
      BY <1>1, <2>3, <3>1 DEF List, Shapes, Row
  <2> QED
    BY <2>1, <2>2, <2>3 DEF Retire, Week, List
<1>4. old \subseteq old' /\ old' \subseteq Jobs
  BY <1>1 DEF Retire, Week, List, Shapes
<1>5. Shapes' /\ SkipIsOld'
  BY <1>1, <1>2, <1>3, <1>4 DEF Shapes, SkipIsOld, IInv, Present
<1>6. ASSUME NEW k \in Active' \ back'
      PROVE  Awaited(k)' \/ Right(k)'
  <2>1. CASE k \in changed'
    BY <2>1 DEF Awaited
  <2>2. CASE k \notin changed'
    <3>1. k \in Jobs /\ k \notin back /\ k \notin changed
      BY <1>2, <2>2 DEF Active, Retire, Week, List
    <3>2. jobs'[k] = jobs[k]
      <4>1. CASE Retire(j)
        <5>1. jobs'[j].status = "expired"
          <6>1. jobs[j] \in [status : {"active", "expired"}, posting : Posting]
            BY <1>1, <4>1 DEF Retire, Active, Shapes, Row, NoJob
          <6> QED
            BY <1>1, <4>1, <6>1 DEF Retire, Shapes
        <5>2. k # j
          BY <5>1 DEF Active
        <5> QED
          BY <1>1, <3>1, <4>1, <5>2 DEF Retire, Shapes
      <4>2. CASE Week(j)
        BY <4>2 DEF Week
      <4>3. ASSUME NEW posting \in Postings[j], List(j, posting)
            PROVE  jobs'[k] = jobs[k]
        BY <1>1, <2>2, <3>1, <4>3 DEF List, Shapes
      <4> QED
        BY <4>1, <4>2, <4>3
    <3>3. k \in Active
      BY <3>1, <3>2 DEF Active
    <3>4. Awaited(k) \/ Right(k)
      BY <3>1, <3>3 DEF IInv, Covered
    <3>5. Reasons(k)' = Reasons(k)
      BY <1>2, <3>2 DEF Reasons, Present
    <3> QED
      BY <1>2, <1>4, <2>2, <3>1, <3>4, <3>5 DEF Awaited, Right
  <2> QED
    BY <2>1, <2>2
<1> QED
  BY <1>5, <1>6 DEF IInv, Covered

\* A pass leaves right what it looks at, and the rest as it was.
LEMMA PassStep ==
  ASSUME IInv, NEW them, them \subseteq Active, MatchAll(them),
         UNCHANGED <<jobs, old, filters, watched>>,
         refresh' \in {refresh, NoRefresh}, changed' \subseteq changed,
         \A j \in Active \ them : Awaited(j) => Awaited(j)'
  PROVE  IInv'
<1>1. Shapes
  BY DEF IInv
<1>2. match' = [j \in Jobs |-> IF j \in them THEN Matched(j) ELSE match[j]] /\ back' = back \ them
  BY DEF MatchAll
<1>3. \A j \in Jobs : Matched(j) \in Match
  BY <1>1, MatchedIsRight
<1>4. Shapes' /\ SkipIsOld'
  <2>1. match' \in [Jobs -> Match]
    BY <1>1, <1>2, <1>3 DEF Shapes
  <2>2. refresh' \in [asked : BOOLEAN, skip : SUBSET Jobs]
    <3>1. NoRefresh \in [asked : BOOLEAN, skip : SUBSET Jobs]
      BY DEF NoRefresh
    <3> QED
      BY <1>1, <3>1 DEF Shapes
  <2>3. Shapes'
    BY <1>1, <2>1, <2>2 DEF Shapes, Present
  <2>4. SkipIsOld'
    <3>1. CASE refresh' = refresh
      BY <3>1 DEF IInv, SkipIsOld
    <3>2. CASE refresh' = NoRefresh
      BY <3>2 DEF NoRefresh, SkipIsOld
    <3> QED
      BY <3>1, <3>2
  <2> QED
    BY <2>3, <2>4
<1>5. ASSUME NEW j \in Active' \ back'
      PROVE  Awaited(j)' \/ Right(j)'
  <2>1. j \in Active /\ j \in Jobs /\ Reasons(j)' = Reasons(j)
    BY DEF Active, Reasons, Present
  <2>2. CASE j \in them
    <3>1. match'[j] = Matched(j)
      BY <1>2, <2>1, <2>2
    <3> QED
      BY <1>1, <2>1, <3>1, MatchedIsRight DEF Right
  <2>3. CASE j \notin them
    <3>1. match'[j] = match[j] /\ j \notin back
      BY <1>2, <2>1, <2>3
    <3>2. Awaited(j) \/ Right(j)
      BY <2>1, <3>1 DEF IInv, Covered
    <3>3. Right(j) => Right(j)'
      BY <2>1, <3>1 DEF Right
    <3> QED
      BY <2>1, <2>3, <3>2, <3>3
  <2> QED
    BY <2>2, <2>3
<1> QED
  BY <1>4, <1>5 DEF IInv, Covered

LEMMA EverythingStep ==
  ASSUME IInv, MatchEverything
  PROVE  IInv'
<1>1. Active \subseteq Active
  OBVIOUS
<1>2. MatchAll(Active) /\ UNCHANGED <<jobs, old, filters, watched, refresh, changed>>
  BY DEF MatchEverything
<1>3. \A j \in Active \ Active : Awaited(j) => Awaited(j)'
  OBVIOUS
<1> QED
  BY <1>1, <1>2, <1>3, PassStep

LEMMA RefreshStep ==
  ASSUME IInv, RefreshProfile
  PROVE  IInv'
<1> DEFINE them == Active \ refresh.skip
<1>1. /\ refresh.asked /\ MatchAll(them) /\ refresh' = NoRefresh
      /\ UNCHANGED <<jobs, old, filters, watched, changed>>
  BY DEF RefreshProfile
<1>2. \A j \in Active \ them : Awaited(j) => Awaited(j)'
  BY <1>1 DEF Awaited
<1> HIDE DEF them
<1>3. them \subseteq Active
  BY DEF them
<1> QED
  BY <1>1, <1>2, <1>3, PassStep

LEMMA ChangedStep ==
  ASSUME IInv, MatchChanged
  PROVE  IInv'
<1> DEFINE them == Active \cap changed
<1>1. /\ MatchAll(them) /\ changed' = {}
      /\ UNCHANGED <<jobs, old, filters, watched, refresh>>
  BY DEF MatchChanged
<1>2. \A j \in Active \ them : Awaited(j) => Awaited(j)'
  BY <1>1 DEF Awaited
<1> HIDE DEF them
<1>3. them \subseteq Active
  BY DEF them
<1> QED
  BY <1>1, <1>2, <1>3, PassStep

\* The user decides on a match, or takes the decision back, which only back knows of.
LEMMA DecideStep ==
  ASSUME IInv, NEW j \in Jobs, NEW status \in Decisions, UpdateMatch(j, status)
  PROVE  IInv'
<1>1. Shapes
  BY DEF IInv
<1>2. /\ match[j].status # "none" /\ match' = [match EXCEPT ![j].status = status]
      /\ back' = IF status = "matched" THEN back \cup {j} ELSE back
      /\ UNCHANGED <<jobs, old, filters, watched, refresh, changed>>
  BY DEF UpdateMatch
<1>3. status \in Statuses \ {"none"}
  BY FeedConstants DEF Statuses
<1>4. match[j] \in Match /\ match'[j] = [match[j] EXCEPT !.status = status]
  BY <1>1, <1>2 DEF Shapes
<1>5. Shapes' /\ SkipIsOld'
  <2>1. [match[j] EXCEPT !.status = status] \in Match
    BY <1>3, <1>4 DEF Match
  <2>2. match' \in [Jobs -> Match]
    BY <1>1, <1>2, <2>1 DEF Shapes
  <2>3. Shapes'
    BY <1>1, <1>2, <2>2 DEF Shapes, Present
  <2>4. SkipIsOld'
    BY <1>2 DEF IInv, SkipIsOld
  <2> QED
    BY <2>3, <2>4
<1>6. ASSUME NEW k \in Active' \ back'
      PROVE  Awaited(k)' \/ Right(k)'
  <2>1. k \in Active \ back /\ k \in Jobs /\ Reasons(k)' = Reasons(k)
    BY <1>2 DEF Active, Reasons, Present
  <2>2. Awaited(k) => Awaited(k)'
    BY <1>2 DEF Awaited
  <2>3. Right(k) => Right(k)'
    <3>1. CASE k = j
      <4>1. status # "matched"
        BY <1>2, <3>1
      <4>2. match'[k].status = status /\ match'[k].reasons = match[k].reasons
        BY <1>4, <3>1 DEF Match
      <4> QED
        BY <1>2, <1>3, <2>1, <3>1, <4>1, <4>2 DEF Right
    <3>2. CASE k # j
      <4>1. match'[k] = match[k]
        BY <1>1, <1>2, <2>1, <3>2 DEF Shapes
      <4> QED
        BY <1>2, <2>1, <4>1 DEF Right
    <3> QED
      BY <3>1, <3>2
  <2> QED
    BY <2>1, <2>2, <2>3 DEF IInv, Covered
<1> QED
  BY <1>5, <1>6 DEF IInv, Covered

\* Every step of Next, and stuttering, keeps the invariant.
LEMMA Step == IInv /\ [Next]_vars => IInv'
<1> SUFFICES ASSUME IInv, [Next]_vars PROVE IInv'
  OBVIOUS
<1>1. CASE Edit
  BY <1>1, CreateStep, UpdateStep, DeleteStep, WatchStep DEF Edit
<1>2. CASE Ingest
  BY <1>2, IngestStep DEF Ingest
<1>3. CASE RefreshProfile
  BY <1>3, RefreshStep
<1>4. CASE MatchChanged
  BY <1>4, ChangedStep
<1>5. ASSUME NEW j \in Jobs, NEW status \in Decisions, UpdateMatch(j, status)
      PROVE  IInv'
  BY <1>5, DecideStep
<1>6. CASE MatchEverything
  BY <1>6, EverythingStep
<1>7. CASE UNCHANGED vars
  <2>1. Shapes' /\ SkipIsOld'
    BY <1>7 DEF IInv, Shapes, SkipIsOld, Present, vars
  <2>2. Covered'
    BY <1>7 DEF IInv, Covered, Awaited, Right, Reasons, Present, Active, vars
  <2> QED
    BY <2>1, <2>2 DEF IInv
<1> QED
  BY <1>1, <1>2, <1>3, <1>4, <1>5, <1>6, <1>7 DEF Next

-----------------------------------------------------------------------------
(* Numbers *)

LEMMA LeastOf ==
  ASSUME NEW S \in SUBSET Nat, S # {}
  PROVE  Min(S) \in S /\ \A n \in S : Min(S) <= n
<1>1. PICK t \in S : \A u \in S : <<u, t>> \notin OpToRel(<, Nat)
  BY NatLessThanWellFounded, WFMin, Zenon
<1>2. \A u \in S : ~(u < t)
  BY <1>1, Zenon DEF OpToRel
<1>3. \A u \in S : t <= u
  BY <1>2
<1> QED
  BY <1>3 DEF Min

LEMMA GreatestOf ==
  ASSUME NEW n \in Nat, NEW S \in SUBSET (1..n), S # {}
  PROVE  Max(S) \in S /\ \A m \in S : Max(S) >= m
<1> DEFINE T == {k \in Nat : n - k \in S}
<1>1. T \in SUBSET Nat /\ T # {}
  <2>1. PICK x \in S : TRUE
    OBVIOUS
  <2>2. n - x \in Nat /\ n - (n - x) = x
    BY <2>1
  <2> QED
    BY <2>1, <2>2
<1>2. \A m \in S : m \in Nat /\ n - m \in T
  OBVIOUS
<1>3. \A k \in T : k \in Nat /\ n - k \in S
  OBVIOUS
<1> HIDE DEF T
<1>4. PICK t \in T : \A k \in T : t <= k
  BY <1>1, LeastOf
<1>5. PICK x \in S : \A m \in S : x >= m
  <2>1. n - t \in S /\ t \in Nat
    BY <1>3
  <2>2. \A m \in S : m \in Nat /\ t <= n - m
    BY <1>2, <1>4
  <2>3. \A m \in S : n - t >= m
    BY <2>1, <2>2
  <2> QED
    BY <2>1, <2>3
<1> QED
  BY <1>5 DEF Max

\* What holds at 0 and is kept by each step holds at the end.
LEMMA Induction ==
  ASSUME NEW n \in Nat, NEW P, 0 \in P, \A k \in 1..n : k - 1 \in P => k \in P
  PROVE  \A k \in 0..n : k \in P
<1> DEFINE T == {k \in 0..n : k \notin P}
<1>1. SUFFICES ASSUME T # {}
               PROVE  FALSE
  OBVIOUS
<1>2. T \in SUBSET Nat
  OBVIOUS
<1>3. Min(T) \in T /\ \A k \in T : Min(T) <= k
  BY <1>1, <1>2, LeastOf
<1>4. PICK m \in T : \A k \in T : m <= k
  BY <1>3
<1>5. m \in 1..n
  BY <1>4
<1>6. m - 1 \in P
  BY <1>4, <1>5
<1> QED
  BY <1>4, <1>5, <1>6

-----------------------------------------------------------------------------
(* Pages *)

\* Where a list is cut in m parts, and the parts.
Cuts(s, m, c) ==
  /\ c \in [0..m -> 0..Len(s)] /\ c[0] = 0 /\ c[m] = Len(s)
  /\ \A i \in 1..m : c[i - 1] <= c[i]
Parts(s, m, c) == [i \in 1..m |-> SubSeq(s, c[i - 1] + 1, c[i])]

\* The parts of a list make the list when put together again.
LEMMA Joined ==
  ASSUME NEW T, NEW s \in Seq(T), NEW m \in Nat \ {0}, NEW c, Cuts(s, m, c)
  PROVE  FlattenSeq(Parts(s, m, c)) = s
<1> DEFINE parts == Parts(s, m, c)
<1> USE DEF Cuts, Parts
<1> DEFINE upto == [i \in 1..m |-> SubSeq(s, 1, c[i])]
           Is(flatten) == flatten = [i \in 1..m |-> IF i = 1 THEN parts[i] ELSE flatten[i - 1] \o parts[i]]
           e == CHOOSE flatten : Is(flatten)
<1>1. Len(parts) = m /\ Len(s) \in Nat /\ m \in 1..m
  OBVIOUS
<1>2. FlattenSeq(parts) = e[m]
  BY <1>1 DEF FlattenSeq
<1>3. \A i \in 1..m : i - 1 \in 0..m /\ c[i - 1] \in 0..Len(s) /\ c[i] \in 0..Len(s) /\ c[i - 1] <= c[i]
  OBVIOUS
<1>4. ASSUME NEW i \in 1..m
      PROVE  SubSeq(s, 1, c[i - 1]) \o parts[i] = SubSeq(s, 1, c[i])
  <2>1. 1 \in 1..(Len(s) + 1) /\ c[i - 1] \in (1 - 1)..Len(s) /\ c[i] \in c[i - 1]..Len(s)
    BY <1>1, <1>3
  <2>2. SubSeq(s, 1, c[i - 1]) \o SubSeq(s, c[i - 1] + 1, c[i]) = SubSeq(s, 1, c[i])
    BY <2>1, ConcatAdjacentSubSeq
  <2> QED
    BY <2>2
<1>5. parts[1] = SubSeq(s, 1, c[1])
  BY <1>1
<1>6. Is(upto)
  <2>1. \A i \in 1..m : i # 1 => i - 1 \in 1..m
    OBVIOUS
  <2>2. \A i \in 1..m : upto[i] = IF i = 1 THEN parts[i] ELSE upto[i - 1] \o parts[i]
    BY <1>4, <1>5, <2>1
  <2> HIDE DEF upto
  <2>3. DOMAIN upto = 1..m /\ upto = [i \in 1..m |-> upto[i]]
    BY DEF upto
  <2> QED
    BY <2>2, <2>3
<1>7. Is(e)
  BY <1>6
<1> HIDE DEF e
<1>8. \A k \in 0..m : k # 0 => e[k] = upto[k]
  <2> DEFINE P == {k \in 0..m : k # 0 => e[k] = upto[k]}
  <2>1. 0 \in P
    OBVIOUS
  <2>2. \A k \in 1..m : k - 1 \in P => k \in P
    <3> SUFFICES ASSUME NEW k \in 1..m, k - 1 \in P
                 PROVE  k \in P
      OBVIOUS
    <3>1. e[k] = IF k = 1 THEN parts[k] ELSE e[k - 1] \o parts[k]
      BY <1>7
    <3>2. upto[k] = IF k = 1 THEN parts[k] ELSE upto[k - 1] \o parts[k]
      BY <1>6
    <3>3. k # 1 => e[k - 1] = upto[k - 1]
      OBVIOUS
    <3> HIDE DEF upto
    <3>4. e[k] = upto[k]
      BY <3>1, <3>2, <3>3
    <3>5. k \in 0..m
      OBVIOUS
    <3> QED
      BY <3>4, <3>5
  <2>3. \A k \in 0..m : k \in P
    <3> HIDE DEF P
    <3> QED
      BY <2>1, <2>2, Induction
  <2> QED
    BY <2>3
<1>9. e[m] = upto[m]
  <2>1. m \in 0..m /\ m # 0
    OBVIOUS
  <2> HIDE DEF upto
  <2> QED
    BY <1>8, <2>1
<1>10. e[m] = SubSeq(s, 1, Len(s))
  BY <1>1, <1>9
<1> QED
  BY <1>2, <1>10, SubSeqFull

\* The pages of a list of n postings end after n of them, and where each begins the one
\* before it has ended.
LEMMA PageIs ==
  ASSUME NEW T, Listed \in Seq(T), NEW limit \in Nat \ {0}, NEW p \in Nat \ {0},
         (p - 1) * limit <= Len(Listed)
  PROVE  /\ HasMore(p, limit) <=> Len(Listed) > p * limit
         /\ Shown(p, limit) = SubSeq(Listed, (p - 1) * limit + 1, Min({p * limit, Len(Listed)}))
<1> DEFINE n == Len(Listed)
           a == (p - 1) * limit
           b == p * limit
           next == Min({b + 1, n})
           f == SubSeq(Listed, a + 1, next)
           rows == Min({limit, Len(f)})
           last == Min({b, n})
<1>1. a \in Nat /\ b \in Nat /\ n \in Nat /\ b = a + limit /\ a <= n
  OBVIOUS
<1>2. \A x \in Nat, y \in Nat : Min({x, y}) = IF x <= y THEN x ELSE y
  <2> SUFFICES ASSUME NEW x \in Nat, NEW y \in Nat
               PROVE  Min({x, y}) = IF x <= y THEN x ELSE y
    OBVIOUS
  <2>1. Min({x, y}) \in {x, y} /\ Min({x, y}) <= x /\ Min({x, y}) <= y
    BY LeastOf
  <2> QED
    BY <2>1
<1>3. Fetched(p, limit) = f
  BY DEF Fetched
<1>4. Shown(p, limit) = SubSeq(f, 1, rows)
  BY <1>3 DEF Shown
<1>5. HasMore(p, limit) <=> Len(f) > limit
  BY <1>3 DEF HasMore
<1> HIDE DEF n, a, b
<1>6. /\ next = IF b + 1 <= n THEN b + 1 ELSE n
      /\ last = IF b <= n THEN b ELSE n
  BY <1>1, <1>2
<1> HIDE DEF next, last
<1>7. next \in a..n /\ next \in Nat
  BY <1>1, <1>6
<1>8. f \in Seq(T) /\ Len(f) = next - a /\ \A k \in 1..(next - a) : f[k] = Listed[a + k]
  BY <1>1, <1>7 DEF n
<1> HIDE DEF f
<1>9. rows = IF limit <= Len(f) THEN limit ELSE Len(f)
  BY <1>2
<1> HIDE DEF rows
<1>10. Len(f) > limit <=> n > b
  BY <1>1, <1>6, <1>8
<1>11. rows = last - a /\ last \in a..n /\ rows \in 0..Len(f)
  BY <1>1, <1>6, <1>7, <1>8, <1>9
<1>12. SubSeq(f, 1, rows) = SubSeq(Listed, a + 1, last)
  <2>1. SubSeq(f, 1, rows) = [k \in 1..rows |-> f[k]]
    BY <1>8, <1>11
  <2>2. SubSeq(Listed, a + 1, last) = [k \in 1..rows |-> Listed[a + k]]
    BY <1>1, <1>11 DEF n
  <2>3. \A k \in 1..rows : f[k] = Listed[a + k]
    BY <1>8, <1>11
  <2> QED
    BY <2>1, <2>2, <2>3
<1> QED
  BY <1>4, <1>5, <1>10, <1>12 DEF n, a, b, last

LEMMA ListedIs ==
  /\ Listed \in Seq({Listed[n] : n \in 1..Len(Listed)}) /\ Len(Listed) \in Nat
  /\ Cardinality(Jobs) \in Nat /\ Len(Listed) <= Cardinality(Jobs)
<1>1. IsFiniteSet(Jobs) /\ Visible \in SUBSET Jobs
  BY FeedConstants DEF Visible
<1>2. /\ IsFiniteSet(Visible) /\ Cardinality(Visible) \in Nat /\ Cardinality(Jobs) \in Nat
      /\ Cardinality(Visible) <= Cardinality(Jobs)
  BY <1>1, FS_Subset, FS_CardinalityType
<1>3. Listed \in [1..Cardinality(Visible) -> {Listed[n] : n \in 1..Cardinality(Visible)}]
  BY DEF Listed
<1>4. Len(Listed) = Cardinality(Visible)
  BY <1>2, <1>3
<1> QED
  BY <1>2, <1>3, <1>4

\* Whatever the size of a page, the pages up to the first that has no more make the list.
LEMMA Tiling ==
  ASSUME NEW limit \in Nat \ {0}
  PROVE  LET pages == {p \in 1..(Cardinality(Jobs) + 1) : \A q \in 1..(p - 1) : HasMore(q, limit)}
         IN  FlattenSeq([p \in 1..Max(pages) |-> Shown(p, limit)]) = Listed
<1> DEFINE pages == {p \in 1..(Cardinality(Jobs) + 1) : \A q \in 1..(p - 1) : HasMore(q, limit)}
           m == Max(pages)
           n == Len(Listed)
           T == {Listed[k] : k \in 1..n}
           cut(i) == Min({i * limit, n})
           c == [i \in 0..m |-> cut(i)]
           parts == [p \in 1..m |-> Shown(p, limit)]
<1>1. Listed \in Seq(T) /\ n \in Nat /\ Cardinality(Jobs) \in Nat /\ n <= Cardinality(Jobs)
  BY ListedIs
<1> HIDE DEF n, T
<1>2. m \in pages /\ \A p \in pages : m >= p
  <2>1. 1 \in pages /\ pages \in SUBSET (1..(Cardinality(Jobs) + 1))
    BY <1>1
  <2>2. Cardinality(Jobs) + 1 \in Nat
    BY <1>1
  <2> HIDE DEF pages
  <2> QED
    BY <2>1, <2>2, GreatestOf
<1>3. /\ m \in 1..(Cardinality(Jobs) + 1) /\ \A q \in 1..(m - 1) : HasMore(q, limit)
      /\ m = Cardinality(Jobs) + 1 \/ \E q \in 1..m : ~HasMore(q, limit)
  <2>1. m \in 1..(Cardinality(Jobs) + 1) /\ \A q \in 1..(m - 1) : HasMore(q, limit)
    BY <1>2
  <2>2. ASSUME m # Cardinality(Jobs) + 1, \A q \in 1..m : HasMore(q, limit)
        PROVE  FALSE
    <3>1. m + 1 \in 1..(Cardinality(Jobs) + 1) /\ (m + 1) - 1 = m
      BY <1>1, <2>1, <2>2
    <3>2. m + 1 \in pages
      BY <2>2, <3>1
    <3> HIDE DEF m, pages
    <3> QED
      BY <1>2, <2>1, <3>2
  <2> QED
    BY <2>1, <2>2
<1> HIDE DEF m, pages
<1>4. m \in Nat \ {0}
  BY <1>1, <1>3
<1>5. \A q \in 0..m : q < m => q * limit <= n
  <2> DEFINE P == {q \in 0..m : q < m => q * limit <= n}
  <2>1. 0 \in P
    BY <1>1, <1>4
  <2>2. ASSUME NEW q \in 1..m, q - 1 \in P
        PROVE  q \in P
    <3>1. q \in Nat \ {0} /\ q \in 0..m /\ (q - 1) * limit <= n /\ q * limit \in Nat
      BY <1>4, <2>2
    <3>2. CASE q < m
      <4>1. HasMore(q, limit)
        BY <1>3, <1>4, <3>2
      <4>2. n > q * limit
        BY <1>1, <3>1, <4>1, PageIs DEF n
      <4> QED
        BY <1>1, <3>1, <4>2
    <3> QED
      BY <3>1, <3>2
  <2>3. \A k \in 0..m : k \in P
    <3>1. \A k \in 1..m : k - 1 \in P => k \in P
      BY <2>2
    <3> HIDE DEF P
    <3> QED
      BY <1>4, <2>1, <3>1, Induction
  <2> QED
    BY <2>3
<1>6. \A p \in 1..m : p \in Nat \ {0} /\ p - 1 \in 0..m /\ (p - 1) * limit <= n
  <2> SUFFICES ASSUME NEW p \in 1..m
               PROVE  p \in Nat \ {0} /\ p - 1 \in 0..m /\ (p - 1) * limit <= n
    OBVIOUS
  <2>1. p \in Nat \ {0} /\ p - 1 \in 0..m /\ p - 1 < m
    BY <1>4
  <2> QED
    BY <1>5, <2>1
<1>7. n <= m * limit
  <2>1. CASE m = Cardinality(Jobs) + 1
    <3>1. m * limit >= m
      BY <1>4
    <3> QED
      BY <1>1, <1>4, <2>1, <3>1
  <2>2. CASE \E q \in 1..m : ~HasMore(q, limit)
    <3>1. PICK q \in 1..m : ~HasMore(q, limit)
      BY <2>2
    <3>2. q = m
      BY <1>3, <1>4, <3>1
    <3>3. ~(n > m * limit)
      BY <1>1, <1>6, <3>1, <3>2, PageIs DEF n
    <3>4. m * limit \in Nat
      BY <1>4
    <3> QED
      BY <1>1, <3>3, <3>4
  <2> QED
    BY <1>3, <2>1, <2>2
<1>8. \A i \in 0..m : /\ i * limit \in Nat /\ cut(i) \in 0..n
                      /\ cut(i) = IF i < m THEN i * limit ELSE n
  <2> SUFFICES ASSUME NEW i \in 0..m
               PROVE  /\ i * limit \in Nat /\ cut(i) \in 0..n
                      /\ cut(i) = IF i < m THEN i * limit ELSE n
    OBVIOUS
  <2>1. i * limit \in Nat
    OBVIOUS
  <2>2. cut(i) \in {i * limit, n} /\ cut(i) <= i * limit /\ cut(i) <= n
    BY <1>1, <2>1, LeastOf
  <2>3. i < m => i * limit <= n
    BY <1>5
  <2>4. ~(i < m) => i = m
    BY <1>4
  <2> HIDE DEF cut
  <2> QED
    BY <1>1, <1>7, <2>1, <2>2, <2>3, <2>4
<1> HIDE DEF cut
<1>9. c \in [0..m -> 0..n] /\ c[0] = 0 /\ c[m] = n
  <2>1. 0 \in 0..m /\ 0 < m /\ 0 * limit = 0 /\ m \in 0..m /\ ~(m < m)
    BY <1>4
  <2> QED
    BY <1>8, <2>1
<1>10. \A i \in 1..m : c[i - 1] <= c[i]
  <2> SUFFICES ASSUME NEW i \in 1..m
               PROVE  c[i - 1] <= c[i]
    OBVIOUS
  <2>1. i \in 0..m /\ i - 1 \in 0..m /\ i - 1 < m /\ (i - 1) * limit <= i * limit
    BY <1>4
  <2>2. c[i - 1] = (i - 1) * limit
    BY <1>8, <2>1
  <2>3. c[i] = IF i < m THEN i * limit ELSE n
    BY <1>8, <2>1
  <2> QED
    BY <1>6, <2>1, <2>2, <2>3
<1>11. \A p \in 1..m : Shown(p, limit) = SubSeq(Listed, c[p - 1] + 1, c[p])
  <2> SUFFICES ASSUME NEW p \in 1..m
               PROVE  Shown(p, limit) = SubSeq(Listed, c[p - 1] + 1, c[p])
    OBVIOUS
  <2>1. p \in Nat \ {0} /\ (p - 1) * limit <= n
    BY <1>6
  <2>2. Shown(p, limit) = SubSeq(Listed, (p - 1) * limit + 1, Min({p * limit, n}))
    BY <1>1, <2>1, PageIs DEF n
  <2>3. p \in 0..m /\ p - 1 \in 0..m /\ p - 1 < m
    BY <1>4
  <2>4. c[p - 1] = (p - 1) * limit /\ c[p] = Min({p * limit, n})
    BY <1>8, <2>3 DEF cut
  <2> QED
    BY <2>2, <2>4
<1> HIDE DEF c
<1>12. parts = [i \in 1..m |-> SubSeq(Listed, c[i - 1] + 1, c[i])]
  BY <1>11
<1> HIDE DEF parts
<1>13. FlattenSeq(parts) = Listed
  <2>1. c \in [0..m -> 0..Len(Listed)] /\ c[0] = 0 /\ c[m] = Len(Listed)
    BY <1>9 DEF n
  <2>2. Cuts(Listed, m, c)
    BY <1>10, <2>1 DEF Cuts
  <2>3. FlattenSeq(Parts(Listed, m, c)) = Listed
    BY <1>1, <1>4, <2>2, Joined
  <2> QED
    BY <1>12, <2>3 DEF Parts
<1> QED
  BY <1>13 DEF parts, m, pages

-----------------------------------------------------------------------------
(* The list *)

\* Whoever has a match has a posting, and it is one that there may be.
Listable ==
  \A j \in Jobs : /\ jobs[j].status # "none" => jobs[j].posting \in Postings[j]
                  /\ match[j].status # "none" => jobs[j].status # "none"

\* The list has an order: no two places are equal.
LEMMA BeforeOrders ==
  ASSUME Listable
  PROVE  /\ \A i \in Visible : ~Before(i, i)
         /\ \A i, j, k \in Visible : Before(i, j) /\ Before(j, k) => Before(i, k)
         /\ \A i, j \in Visible : i = j \/ Before(i, j) \/ Before(j, i)
<1> DEFINE rank(j) == Rank[jobs[j].posting.company]
<1>1. \A j \in Visible : j \in Nat /\ rank(j) \in Nat
  <2> SUFFICES ASSUME NEW j \in Visible
               PROVE  j \in Nat /\ rank(j) \in Nat
    OBVIOUS
  <2>1. j \in Jobs /\ match[j].status # "none"
    BY DEF Visible
  <2>2. jobs[j].posting \in Postings[j]
    BY <2>1 DEF Listable
  <2> QED
    BY <2>1, <2>2, FeedConstants
<1>2. \A i, j : Before(i, j) <=> rank(i) < rank(j) \/ (rank(i) = rank(j) /\ i > j)
  BY DEF Before
<1> HIDE DEF rank
<1>3. \A i \in Visible : ~Before(i, i)
  BY <1>1, <1>2
<1>4. \A i, j, k \in Visible : Before(i, j) /\ Before(j, k) => Before(i, k)
  BY <1>1, <1>2
<1>5. \A i, j \in Visible : i = j \/ Before(i, j) \/ Before(j, i)
  BY <1>1, <1>2
<1> QED
  BY <1>3, <1>4, <1>5

LEMMA VisibleFinite == IsFiniteSet(Visible) /\ Cardinality(Visible) \in Nat
<1>1. IsFiniteSet(Jobs) /\ Visible \in SUBSET Jobs
  BY FeedConstants DEF Visible
<1> QED
  BY <1>1, FS_Subset, FS_CardinalityType

LEMMA PlacesDiffer ==
  ASSUME Listable
  PROVE  /\ \A j \in Visible : Place(j) \in 1..Cardinality(Visible)
         /\ \A i, j \in Visible : Place(i) = Place(j) => i = j
<1> DEFINE above(j) == {i \in Visible : Before(i, j)}
<1>1. \A j \in Visible : IsFiniteSet(above(j)) /\ Cardinality(above(j)) \in Nat
  BY VisibleFinite, FS_Subset, FS_CardinalityType
<1>2. \A j : Place(j) = Cardinality(above(j)) + 1
  BY DEF Place
<1>3. ASSUME NEW j \in Visible
      PROVE  Place(j) \in 1..Cardinality(Visible)
  <2>1. above(j) \in SUBSET (Visible \ {j})
    BY BeforeOrders
  <2>2. IsFiniteSet(Visible \ {j}) /\ Cardinality(Visible \ {j}) = Cardinality(Visible) - 1
    BY VisibleFinite, FS_RemoveElement
  <2>3. Cardinality(above(j)) <= Cardinality(Visible) - 1
    BY <2>1, <2>2, FS_Subset
  <2> QED
    BY <1>1, <1>2, <2>3, VisibleFinite
<1>4. ASSUME NEW i \in Visible, NEW j \in Visible, Before(i, j)
      PROVE  Place(i) < Place(j)
  <2>1. above(i) \cup {i} \in SUBSET above(j) /\ i \notin above(i)
    BY <1>4, BeforeOrders
  <2>2. Cardinality(above(i) \cup {i}) = Cardinality(above(i)) + 1
    BY <1>1, <2>1, FS_AddElement
  <2>3. Cardinality(above(i) \cup {i}) <= Cardinality(above(j))
    BY <1>1, <2>1, FS_Subset
  <2> HIDE DEF above
  <2> QED
    BY <1>1, <1>2, <2>2, <2>3
<1>5. \A i, j \in Visible : Place(i) = Place(j) => i = j
  <2> SUFFICES ASSUME NEW i \in Visible, NEW j \in Visible, Place(i) = Place(j), i # j
               PROVE  FALSE
    OBVIOUS
  <2>1. Place(i) \in Nat /\ Place(j) \in Nat
    BY <1>3, VisibleFinite
  <2>2. Place(i) < Place(j) \/ Place(j) < Place(i)
    BY <1>4, BeforeOrders
  <2> QED
    BY <2>1, <2>2
<1> QED
  BY <1>3, <1>5

\* The list has each of the visible postings at one place.
ListedOnce ==
  \A j \in Visible :
    \E n \in 1..Len(Listed) : /\ Listed[n] = j
                              /\ \A m \in 1..Len(Listed) : Listed[m] = j => m = n

LEMMA EachOnce ==
  ASSUME Listable
  PROVE  ListedOnce
<1> DEFINE n == Cardinality(Visible)
           place == [j \in Visible |-> Place(j)]
           I == {Place(j) : j \in Visible}
<1>1. n \in Nat /\ IsFiniteSet(Visible)
  BY VisibleFinite
<1>2. Len(Listed) = n /\ \A k \in 1..n : Listed[k] = CHOOSE j \in Visible : Place(j) = k
  BY <1>1 DEF Listed
<1>3. /\ \A j \in Visible : Place(j) \in 1..n
      /\ \A i, j \in Visible : Place(i) = Place(j) => i = j
  BY PlacesDiffer
<1>4. place \in Bijection(Visible, I)
  <2>1. place \in [Visible -> I]
    OBVIOUS
  <2>2. IsInjective(place)
    BY <1>3 DEF IsInjective
  <2>3. \A t \in I : \E s \in Visible : place[s] = t
    OBVIOUS
  <2> HIDE DEF place, I
  <2> QED
    BY <2>1, <2>2, <2>3 DEF Bijection, Injection, Surjection
<1>5. IsFiniteSet(I) /\ Cardinality(I) = n
  <2>1. ExistsBijection(Visible, I)
    BY <1>4 DEF ExistsBijection
  <2> QED
    BY <1>1, <2>1, FS_Bijection
<1>6. I = 1..n
  <2>1. I \in SUBSET (1..n) /\ IsFiniteSet(1..n) /\ Cardinality(1..n) = n
    BY <1>1, <1>3, FS_Interval
  <2> QED
    BY <1>5, <2>1, FS_Subset
<1>7. \A k \in 1..n : Listed[k] \in Visible /\ Place(Listed[k]) = k
  <2> SUFFICES ASSUME NEW k \in 1..n
               PROVE  Listed[k] \in Visible /\ Place(Listed[k]) = k
    OBVIOUS
  <2>1. \E j \in Visible : Place(j) = k
    BY <1>6
  <2> QED
    BY <1>2, <2>1
<1>8. ASSUME NEW j \in Visible
      PROVE  \E k \in 1..n : Listed[k] = j /\ \A m \in 1..n : Listed[m] = j => m = k
  <2>1. Place(j) \in 1..n
    BY <1>3
  <2>2. Listed[Place(j)] = j
    BY <1>3, <1>7, <2>1
  <2>3. \A m \in 1..n : Listed[m] = j => m = Place(j)
    BY <1>7
  <2> QED
    BY <2>1, <2>2, <2>3
<1> QED
  BY <1>2, <1>8 DEF ListedOnce

LEMMA ListableStep ==
  ASSUME Shapes, Listable, [Next]_vars
  PROVE  Listable'
<1>1. ASSUME NEW j \in Jobs
      PROVE  /\ jobs[j].status # "none" => jobs[j].posting \in Postings[j]
             /\ match[j].status # "none" => jobs[j].status # "none"
  BY DEF Listable
<1>2. ASSUME UNCHANGED <<jobs, match>>
      PROVE  Listable'
  BY <1>1, <1>2 DEF Listable
<1>3. ASSUME NEW them, them \subseteq Active, MatchAll(them), UNCHANGED jobs
      PROVE  Listable'
  <2> SUFFICES ASSUME NEW j \in Jobs, match'[j].status # "none"
               PROVE  jobs[j].status # "none"
    BY <1>1, <1>3 DEF Listable
  <2>1. CASE j \in them
    BY <1>3, <2>1 DEF Active
  <2>2. CASE j \notin them
    <3>1. match'[j] = match[j]
      BY <1>3, <2>2 DEF MatchAll
    <3> QED
      BY <1>1, <3>1
  <2> QED
    BY <2>1, <2>2
<1>4. CASE Edit
  BY <1>2, <1>4 DEF Edit, CreateFilter, UpdateFilter, DeleteFilter, Follow, Unfollow
<1>5. ASSUME NEW j \in Jobs, Retire(j) \/ Week(j) \/ \E posting \in Postings[j] : List(j, posting)
      PROVE  Listable'
  <2>1. CASE Week(j)
    BY <1>2, <2>1 DEF Week
  <2>2. CASE Retire(j)
    <3>1. /\ match' = match /\ \A k \in Jobs : k # j => jobs'[k] = jobs[k]
          /\ jobs[j].status = "active" /\ jobs'[j] = [jobs[j] EXCEPT !.status = "expired"]
      BY <2>2 DEF Retire, Active, Shapes
    <3>2. jobs[j] \in [status : {"active", "expired"}, posting : Posting]
      BY <3>1 DEF Shapes, Row, NoJob
    <3>3. jobs'[j].status = "expired" /\ jobs'[j].posting = jobs[j].posting
      BY <3>1, <3>2
    <3> QED
      BY <1>1, <3>1, <3>3 DEF Listable
  <2>3. ASSUME NEW posting \in Postings[j], List(j, posting)
        PROVE  Listable'
    <3>1. /\ match' = match /\ \A k \in Jobs : k # j => jobs'[k] = jobs[k]
          /\ jobs'[j] = [status |-> "active", posting |-> posting]
      BY <2>3 DEF List, Shapes
    <3>2. jobs'[j].status = "active" /\ jobs'[j].posting = posting
      BY <3>1
    <3> QED
      BY <1>1, <3>1, <3>2 DEF Listable
  <2> QED
    BY <1>5, <2>1, <2>2, <2>3
<1>6. CASE MatchEverything
  BY <1>3, <1>6 DEF MatchEverything
<1>7. CASE RefreshProfile
  BY <1>3, <1>7 DEF RefreshProfile
<1>8. CASE MatchChanged
  BY <1>3, <1>8 DEF MatchChanged
<1>9. ASSUME NEW j \in Jobs, NEW status \in Decisions, UpdateMatch(j, status)
      PROVE  Listable'
  <2>1. /\ jobs' = jobs /\ match[j].status # "none" /\ \A k \in Jobs : k # j => match'[k] = match[k]
    BY <1>9 DEF UpdateMatch, Shapes
  <2> QED
    BY <1>1, <2>1 DEF Listable
<1>10. CASE UNCHANGED vars
  BY <1>2, <1>10 DEF vars
<1> QED
  BY <1>4, <1>5, <1>6, <1>7, <1>8, <1>9, <1>10 DEF Next, Ingest

-----------------------------------------------------------------------------
(* Theorems *)

\* The inductive invariant: a match that may be wrong is awaited by a pass.
THEOREM Invariance == Spec => []IInv
<1>1. Init => IInv
  BY InitIInv
<1>2. IInv /\ [Next]_vars => IInv'
  BY Step
<1> QED
  BY <1>1, <1>2, PTL DEF Spec

\* When nothing is left to be matched, the matches are those the rules account for
\* (matching/service.py:170), for any filters, companies and postings.
THEOREM MatchesRight == Spec => []MatchesAreRight
<1>1. IInv => MatchesAreRight
  BY DEF IInv, Covered, Awaited, Right, MatchesAreRight, Settled
<1> QED
  BY <1>1, Invariance, PTL

\* What the user applied to or dismissed is never deleted (matching/service.py:230).
THEOREM DecisionsKept == Spec => DecisionsStay
<1>1. ASSUME IInv, [Next]_vars, NEW j \in Jobs, match[j].status \in {"applied", "dismissed"}
      PROVE  match'[j].status # "none"
  <2>1. Shapes /\ match[j] \in Match
    BY <1>1 DEF IInv, Shapes
  <2>2. Matched(j).status # "none"
    BY <1>1, <2>1 DEF Matched, Unmatched
  <2>3. CASE UNCHANGED match
    BY <1>1, <2>3
  <2>4. ASSUME NEW them, MatchAll(them)
        PROVE  match'[j].status # "none"
    BY <1>1, <2>2, <2>4 DEF MatchAll
  <2>5. ASSUME NEW k \in Jobs, NEW status \in Decisions, UpdateMatch(k, status)
        PROVE  match'[j].status # "none"
    <3>1. status # "none"
      BY FeedConstants
    <3> QED
      BY <1>1, <2>1, <2>5, <3>1 DEF UpdateMatch, Shapes, Match
  <2> QED
    BY <1>1, <2>3, <2>4, <2>5
       DEF Next, Edit, Ingest, CreateFilter, UpdateFilter, DeleteFilter, Follow, Unfollow,
           List, Retire, Week, MatchEverything, RefreshProfile, MatchChanged, vars
<1>2. IInv /\ [Next]_vars =>
        [\A j \in Jobs : match[j].status \in {"applied", "dismissed"} => match'[j].status # "none"]_vars
  BY <1>1
<1> QED
  BY <1>2, Invariance, PTL DEF Spec, DecisionsStay

\* Of the filters the API allows, one that asks for less matches more.
LEMMA LooserIsWider ==
  ASSUME NEW f \in Filter, NEW g \in Filter, NEW p \in Posting, Looser(f, g),
         f.roles = {}, Chosen(f.categories), Matches(p, f)
  PROVE  Matches(p, g)
<1>1. ~Excluded(p, g)
  BY DEF Looser, Matches, Excluded
<1>2. g.active /\ (g.remote_only => p.mode = "remote") /\ (g.mode # "any" => p.mode = g.mode)
  BY DEF Looser, Matches
<1>3. Near(p, g)
  <2>1. g.radius = 0 \/ (f.radius # 0 /\ f.radius <= g.radius /\ f.center = g.center)
    BY DEF Looser
  <2>2. Near(p, f)
    BY DEF Matches
  <2>3. f.radius \in Nat /\ g.radius \in Nat /\ p.distance \in Int
    BY DEF Filter, Posting
  <2> QED
    BY <2>1, <2>2, <2>3 DEF Near
<1>4. OfRole(p, g)
  <2>1. f.categories # {} /\ ("all" \in f.categories => f.categories = {"all"}) /\ g.roles = {}
    BY DEF Chosen, Looser
  <2>2. CASE g.categories = {"all"}
    BY <2>1, <2>2 DEF OfRole
  <2>3. CASE "all" \notin g.categories /\ f.categories \subseteq g.categories
    <3>1. f.categories \cap CategoriesOf(p.title) # {}
      BY <2>1, <2>3 DEF Matches, OfRole
    <3> QED
      BY <2>3, <3>1 DEF OfRole
  <2> QED
    BY <2>2, <2>3 DEF Looser
<1>5. Located(p, g)
  BY DEF Looser, Matches, Located
<1>6. InTerm(p, g)
  BY DEF Looser, Matches, InTerm
<1> QED
  BY <1>1, <1>2, <1>3, <1>4, <1>5, <1>6 DEF Matches

\* A filter that is changed to ask for less matches all that it matched before, of any
\* posting and under any taxonomy (matching/matcher.py:125).
THEOREM LooserKeeps == Spec => LooserMatchesMore
<1>1. ASSUME IInv, IInv', NEW f \in Present, filters'[f] # NoFilter, Looser(filters[f], filters'[f]),
             NEW j \in Active, Matches(jobs[j].posting, filters[f])
      PROVE  Matches(jobs[j].posting, filters'[f])
  <2>1. Shapes /\ Shapes'
    BY <1>1 DEF IInv
  <2>2. filters[f] \in Filter /\ filters'[f] \in Filter
    BY <1>1, <2>1 DEF Shapes, Present
  <2>3. jobs[j].posting \in Posting
    BY <2>1 DEF Shapes, Active, Row, NoJob
  <2>4. filters[f].roles = {} /\ Chosen(filters[f].categories)
    BY <2>1 DEF Shapes
  <2> QED
    BY <1>1, <2>2, <2>3, <2>4, LooserIsWider
<1>2. IInv /\ [Next]_vars =>
        [\A f \in Present :
           filters'[f] # NoFilter /\ Looser(filters[f], filters'[f])
             => \A j \in Active :
                  Matches(jobs[j].posting, filters[f]) => Matches(jobs[j].posting, filters'[f])]_vars
  BY <1>1, Step
<1> QED
  BY <1>2, Invariance, PTL DEF Spec, LooserMatchesMore

\* The pages of the list are the list, whatever their size, and however many matches there are:
\* page p starts after (p - 1) * limit matches, and one is fetched more than is shown
\* (repositories/matches.py:178).
THEOREM PagesRight == Spec => []PagesTile
<1>1. PagesTile
  BY Tiling DEF PagesTile
<1> QED
  BY <1>1, PTL

\* The list that the pages make has each visible match once: the postings are ordered by the
\* company and, among equals, by their number, so that no two of them may change places from
\* one page to the next (repositories/matches.py:143).
THEOREM ListRight == Spec => []ListedOnce
<1>1. Init => Listable
  BY DEF Init, Listable, NoJob, NoMatch
<1>2. IInv /\ Listable /\ [Next]_vars => Listable'
  BY ListableStep DEF IInv
<1>3. Listable => ListedOnce
  BY EachOnce
<1> QED
  BY <1>1, <1>2, <1>3, Invariance, PTL DEF Spec
=============================================================================
