----------------------------- MODULE MatchFeedMC -----------------------------
(* Instances of MatchFeed for TLC. *)
EXTENDS MatchFeed, TLC

CONSTANT f1

MCAliases == [backend |-> {"backend engineer"}]
MCTaxonomy == [software |-> {"software", "backend"}, data |-> {"data"}]

Summer == [season |-> "summer", year |-> 2027]
Job == [title |-> {"intern", "software"}, description |-> {}, company |-> "acme",
        location |-> {"toronto"}, term |-> Summer, mode |-> "onsite", distance |-> 0]

\* Of two categories by an alias, remote and of no place; for graduates, who study.
Remote == [Job EXCEPT !.title = {"intern", "backend engineer", "data"}, !.company = "globex",
                      !.location = {}, !.mode = "remote", !.distance = Unknown]
Graduate == [Job EXCEPT !.title = {"intern", "new grad", "data"}, !.description = {"currently enrolled"}]
MCPostings == <<{Job, Graduate}, {Remote}>>

Anything == [active |-> TRUE, categories |-> {"all"}, roles |-> {}, locations |-> {}, terms |-> {},
        mode |-> "any", remote_only |-> FALSE, radius |-> 0, center |-> FALSE, excluded |-> {}]
Data == [Anything EXCEPT !.categories = {"data"}]
Both == [Anything EXCEPT !.categories = {"data", "software"}]
MCRules ==
  {[Anything EXCEPT !.active = FALSE], Data, Both,
   [Both EXCEPT !.locations = {"toronto", "remote"}, !.excluded = {<<"company", "globex">>}],
   [Anything EXCEPT !.radius = 10, !.center = TRUE], [Anything EXCEPT !.radius = 10]}
MCRank == [acme |-> 1, globex |-> 2]
MCSent == {{}, {"company"}}
MCFollowed == {[active |-> TRUE, company |-> "globex", terms |-> {Summer}, locations |-> {}]}
=============================================================================
