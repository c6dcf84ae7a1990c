------------------------------ MODULE MatchRules ------------------------------
(***************************************************************************)
(* Which postings a filter or a followed company is about                   *)
(* (src/backend/api/matching/matcher.py, matching/classifier.py) and what   *)
(* the API lets users ask for (schemas/filter.py).  A text is the set of    *)
(* the phrases it holds.                                                    *)
(***************************************************************************)
EXTENDS Integers, FiniteSets

CONSTANTS
  Aliases,     \* [phrase -> set of phrases]: ROLE_ALIASES
  Taxonomy,    \* [category -> set of phrases]: ROLE_CATEGORY_KEYWORDS
  Positive,    \* phrases that make a title an internship's
  Negative,    \* phrases that make it another's
  Enrolled,    \* phrases of a description that make it an internship
  Anywhere,    \* UNRESTRICTED_LOCATIONS
  AnyRole      \* UNRESTRICTED_ROLES

ASSUME RuleConstants == "all" \notin DOMAIN Taxonomy /\ "other" \notin DOMAIN Taxonomy

NoTerm == [season |-> "none", year |-> 0]
Retired == [season |-> "summer", year |-> 2026]
Unknown == -1   \* coordinates that are not known

\* A row of jobs; distance is the one to the center of a filter.
Posting == [title : SUBSET STRING, description : SUBSET STRING, company : STRING,
            location : SUBSET STRING, term : [season : STRING, year : Nat],
            mode : {"remote", "onsite", "hybrid", "unknown"}, distance : Int]

\* A row of filters with its exclusions; radius 0 is none.
Filter == [active : BOOLEAN, categories : SUBSET STRING, roles : SUBSET STRING,
           locations : SUBSET STRING, terms : SUBSET [season : STRING, year : Nat],
           mode : {"any", "remote", "onsite", "hybrid"}, remote_only : BOOLEAN, radius : Nat,
           center : BOOLEAN, excluded : SUBSET ({"keyword", "company", "location"} \X STRING)]

\* A row of company_watchlists.
Watchlist == [active : BOOLEAN, company : STRING, terms : SUBSET [season : STRING, year : Nat],
              locations : SUBSET STRING]

-----------------------------------------------------------------------------
(* classify_internship(), role_categories_for_title(), canonical_term() *)

Classify(job) ==
  LET yes == job.title \cap Positive # {}
      no == job.title \cap Negative # {}
  IN IF yes /\ no THEN "ambiguous"
     ELSE IF yes THEN "confirmed"
     ELSE IF no THEN "rejected"
     ELSE IF job.description \cap Enrolled # {} THEN "confirmed" ELSE "ambiguous"

Variants(phrase) == {phrase} \cup IF phrase \in DOMAIN Aliases THEN Aliases[phrase] ELSE {}
Says(text, phrase) == Variants(phrase) \cap text # {}

CategoriesOf(title) ==
  LET found == {c \in DOMAIN Taxonomy : \E phrase \in Taxonomy[c] : Says(title, phrase)}
  IN IF found = {} THEN {"other"} ELSE found

Canonical(term) ==
  [term EXCEPT !.season = IF @ = "spring" THEN "winter" ELSE IF @ = "autumn" THEN "fall" ELSE @]

-----------------------------------------------------------------------------
(* match_filter() *)

Target(job, kind) ==
  IF kind = "keyword" THEN job.title \cup job.description
  ELSE IF kind = "company" THEN {job.company} ELSE job.location
Excluded(job, f) == \E x \in f.excluded : Says(Target(job, x[1]), x[2])

Near(job, f) ==
  \/ f.radius = 0
  \/ job.mode = "remote"
  \/ f.center /\ job.distance # Unknown /\ job.distance <= f.radius

\* Mutant: a posting must be of every category that is asked for.
OfEach(job, f) == f.categories \subseteq CategoriesOf(job.title) \cup {"all"}

\* Filters from before the taxonomy have roles instead of categories.
OfRole(job, f) ==
  IF f.categories # {} /\ "all" \notin f.categories
  THEN f.categories \cap CategoriesOf(job.title) # {}
  ELSE f.roles \ AnyRole # {} => \E r \in f.roles \ AnyRole : Says(job.title, r)

Located(job, f) ==
  f.locations \ Anywhere # {} =>
    \E l \in f.locations \ Anywhere : Says(job.location, l) \/ (l = "remote" /\ job.mode = "remote")

InTerm(job, f) == f.terms # {} => \E t \in f.terms : Canonical(t) = Canonical(job.term)

Matches(job, f) ==
  /\ f.active
  /\ ~Excluded(job, f)
  /\ f.remote_only => job.mode = "remote"
  /\ Near(job, f)
  /\ OfRole(job, f)
  /\ Located(job, f)
  /\ InTerm(job, f)
  /\ f.mode # "any" => job.mode = f.mode

\* The part of _match_job() about followed companies, whose terms are compared as written.
Follows(job, w) ==
  /\ w.active /\ w.company = job.company
  /\ w.terms # {} => job.term \in w.terms
  /\ w.locations # {} => w.locations \cap job.location # {}

-----------------------------------------------------------------------------
(* FilterCreate, FilterUpdate *)

Offered(terms) == \A t \in terms : t.season \in {"summer", "fall", "winter"} /\ t # Retired
Chosen(categories) ==
  /\ categories # {} /\ Cardinality(categories) <= 5
  /\ "all" \in categories => categories = {"all"}

Creatable(f) == Chosen(f.categories) /\ Offered(f.terms) /\ f.roles = {} /\ (f.radius # 0 => f.center)

\* An update sends what it changes, so that a radius it leaves as it is comes without center.
Updatable(old, new) ==
  /\ new.categories # old.categories => Chosen(new.categories)
  /\ new.terms # old.terms => Offered(new.terms)
  /\ new.roles = old.roles
  /\ new.radius # old.radius /\ new.radius # 0 => new.center
=============================================================================
