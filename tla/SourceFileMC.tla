---------------------------- MODULE SourceFileMC ----------------------------
(* Instances of SourceFile for TLC. *)
EXTENDS SourceFile, TLC

Says(s, y) == [seasons |-> s, year |-> y, off |-> FALSE]
OffCycle == [Silent EXCEPT !.off = TRUE]

MCRegistered == <<Says({}, 2027), Says({"Summer"}, 2026)>>

Plain == [fit |-> TRUE, company |-> "acme", title |-> "named", link |-> "p1", column |-> Silent,
          says |-> Silent]

\* Rows of every fate, two of which have the same link.
MCRows ==
  {Plain, [Plain EXCEPT !.company = "globex", !.link = "p2", !.says = Says({"Winter"}, 2027)],
   [Plain EXCEPT !.company = Same, !.says = Says({"Fall"}, NoYear)],
   [Plain EXCEPT !.company = Same, !.link = "p3", !.column = Says({"Summer", "Fall"}, 2027)],
   [Plain EXCEPT !.company = Same, !.link = "closed"],
   [Plain EXCEPT !.company = "globex", !.link = "closed"],
   [Plain EXCEPT !.company = "initech", !.link = None],
   [Plain EXCEPT !.link = "p4", !.title = "blank"],
   [Plain EXCEPT !.link = "p5", !.title = "unseen", !.says = OffCycle],
   [Plain EXCEPT !.company = None, !.link = "closed"], [Plain EXCEPT !.fit = FALSE]}

MCHeadings == {Silent, Says({"Summer"}, 2027)}

MCTables(n) ==
  [html : BOOLEAN, columns : {TRUE}, heading : MCHeadings, rows : UNION {[1..k -> MCRows] : k \in 0..n}]
MCUnread == [html |-> FALSE, columns |-> FALSE, heading |-> Silent, rows |-> <<Plain>>]

\* One table of up to three rows, two of up to one, and files that are no use.
MCFiles ==
  {[text |-> TRUE, tables |-> <<t>>] : t \in MCTables(3)}
    \cup {[text |-> TRUE, tables |-> <<t, u>>] : t \in MCTables(1), u \in MCTables(1)}
    \cup {[text |-> TRUE, tables |-> <<MCUnread, t>>] : t \in MCTables(1)}
    \cup {NoFile, [text |-> TRUE, tables |-> <<MCUnread>>]}
=============================================================================
