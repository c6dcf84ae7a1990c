------------------------------ MODULE SourceFile ------------------------------
(***************************************************************************)
(* How a file of postings at GitHub becomes jobs: the request with its      *)
(* retries (src/backend/api/ingestion/http.py), the tables of the file      *)
(* (ingestion/adapters/github.py), and the normalisation and counting of    *)
(* their rows (ingestion/normalization.py, ingestion/service.py).           *)
(*                                                                         *)
(* Markdown and HTML are told apart, their text is not: a cell is what the  *)
(* parser makes of it.  What comes of the jobs is PostingLifecycle's        *)
(* matter, and what comes of the poll SourceIngestion's.                    *)
(***************************************************************************)
EXTENDS Integers, FiniteSets, Sequences, FiniteSetsExt

CONSTANTS
  Companies,    \* what a cell may name
  Pages,        \* what a cell may link to
  Files,        \* files that GitHub may have
  MaxAttempts,  \* max_attempts
  MaxErrors,    \* rejected rows whose message is kept: 25 in the code
  Registered    \* Evidence: what the name of the repository and its registered term say

VARIABLES
  place,    \* where the poll is
  attempt,  \* requests so far
  file,     \* what GitHub answered
  run       \* the counters of ingestion_runs and the jobs to persist

fileVars == <<place, attempt, file, run>>

-----------------------------------------------------------------------------
(* Cells *)

None == "none"      \* nothing but decoration, or no company above
Same == "same"      \* an arrow or an empty cell
Seasons == {"Winter", "Summer", "Fall"}
NoYear == 0

\* What a text says of the term: the seasons it names, by name or as a range of months.
Evidence == [seasons : SUBSET Seasons, year : Nat, off : BOOLEAN]
Silent == [seasons |-> {}, year |-> NoYear, off |-> FALSE]
NoTerm == [season |-> None, year |-> NoYear]
Retired == [season |-> "Summer", year |-> 2026]

\* fit: does the row have as many cells as the header?  title: "blank", or only control
\* characters ("unseen"), or a name.  link: a page, "closed" or none.
Titles == {"blank", "unseen", "named"}
Row == [fit : BOOLEAN, company : Companies \cup {None, Same}, title : Titles,
        link : Pages \cup {None, "closed"}, column : Evidence, says : Evidence]
Table == [html : BOOLEAN, columns : BOOLEAN, heading : Evidence, rows : Seq(Row)]
File == [text : BOOLEAN, tables : Seq(Table)]
NoFile == [text |-> FALSE, tables |-> <<>>]

ASSUME FileConstants ==
  /\ MaxAttempts \in Nat \ {0} /\ MaxErrors \in Nat
  /\ Registered \in [1..2 -> Evidence]
  /\ Files \subseteq File

-----------------------------------------------------------------------------
(* _infer_term() *)

\* Mutant: a heading goes before the title below it.
HeadingFirst(row, heading) == <<row.column, heading, row.says, Registered[1], Registered[2]>>
Candidates(row, heading) == <<row.column, row.says, heading, Registered[1], Registered[2]>>

Years(texts) == {i \in DOMAIN texts : texts[i].year # NoYear}
YearOf(texts, i) ==
  IF texts[i].year # NoYear \/ Years(texts) = {} THEN texts[i].year ELSE texts[Min(Years(texts))].year

\* The texts that settle the matter, be it that there is no one term.
Many(text) == Cardinality(text.seasons) > 1
Settling(texts) ==
  {i \in DOMAIN texts : \/ texts[i].off
                        \/ Many(texts[i])
                        \/ texts[i].seasons # {} /\ YearOf(texts, i) # NoYear}

Term(texts) ==
  IF Settling(texts) = {} THEN NoTerm
  ELSE LET i == Min(Settling(texts))
       IN IF texts[i].off \/ Many(texts[i]) THEN NoTerm
          ELSE [season |-> CHOOSE s \in texts[i].seasons : TRUE, year |-> YearOf(texts, i)]

-----------------------------------------------------------------------------
(* _parse_tables(), _parse_html_tables(), _map_row() *)

Company(above, row) == IF row.company = Same THEN above ELSE row.company

RawSourceJob == [table : Nat, row : Nat, company : Companies, title : Titles, id : Pages,
                 term : [season : Seasons \cup {None}, year : Nat]]
Parsed == [open : BOOLEAN, above : Companies \cup {None}, records : Seq(RawSourceJob),
           errors : 0..MaxErrors]
Start == [open |-> TRUE, above |-> None, records |-> <<>>, errors |-> 0]

\* A row that is rejected leaves the company to inherit as it was above it.
Rejected(acc) == [acc EXCEPT !.errors = Min({@ + 1, MaxErrors})]

Lacks(row) == row.link = None \/ row.title = "blank"
RawJob(row, company, heading, t, r) ==
  [table |-> t, row |-> r, company |-> company, title |-> row.title, id |-> row.link,
   term |-> Term(Candidates(row, heading))]

Mapped(acc, table, t, r) ==
  LET row == table.rows[r]
      company == Company(acc.above, row)
  IN IF company = None THEN Rejected(acc)
     ELSE IF row.link = "closed" THEN [acc EXCEPT !.above = company]
     ELSE IF Lacks(row) THEN Rejected(acc)
     ELSE [acc EXCEPT !.above = company,
                      !.records = Append(@, RawJob(row, company, table.heading, t, r))]

\* Mutant: a misfit in an HTML table is skipped without a word.
Passed(acc, table) == IF table.html THEN acc ELSE [acc EXCEPT !.open = FALSE]

\* A row with too many or too few cells ends a Markdown table.
Misfit(acc, table) == IF table.html THEN Rejected(acc) ELSE [acc EXCEPT !.open = FALSE]

ReadRow(acc, table, t, r) ==
  IF ~acc.open THEN acc
  ELSE IF table.rows[r].fit THEN Mapped(acc, table, t, r) ELSE Misfit(acc, table)
ReadRows(acc, table, t) ==
  LET read[r \in 0..Len(table.rows)] ==
        IF r = 0 THEN acc ELSE ReadRow(read[r - 1], table, t, r)
  IN  read[Len(table.rows)]

\* Mutant: a table goes on with the company of the table above.
ReadOn(acc, tables, t) ==
  IF tables[t].columns THEN ReadRows([acc EXCEPT !.open = TRUE], tables[t], t) ELSE acc

ReadTable(acc, tables, t) ==
  IF tables[t].columns THEN ReadRows([acc EXCEPT !.open = TRUE, !.above = None], tables[t], t) ELSE acc

ReadTables(acc, tables, html) ==
  LET read[t \in 0..Len(tables)] ==
        IF t = 0 THEN acc
        ELSE IF tables[t].html = html THEN ReadTable(read[t - 1], tables, t) ELSE read[t - 1]
  IN  read[Len(tables)]

\* First the Markdown tables, then those of HTML.
Parse(tables) == ReadTables(ReadTables(Start, tables, FALSE), tables, TRUE)

\* An HTML table of a header alone is not seen.
Seen(table) == table.columns /\ (table.html => table.rows # <<>>)
Supported(f) == f.text /\ \E t \in DOMAIN f.tables : Seen(f.tables[t])

-----------------------------------------------------------------------------
(* normalize_job() and the counters of _run_locked() *)

NoRun == [fetched |-> 0, jobs |-> <<>>, duplicates |-> 0, rejected |-> 0]

Unacceptable(record) == record.title = "unseen" \/ record.term = Retired

Counted(acc, record) ==
  IF Unacceptable(record) THEN [acc EXCEPT !.rejected = @ + 1]
  ELSE IF \E i \in DOMAIN acc.jobs : acc.jobs[i].id = record.id THEN [acc EXCEPT !.duplicates = @ + 1]
  ELSE [acc EXCEPT !.jobs = Append(@, record)]

Run(parsed) ==
  LET count[n \in 0..Len(parsed.records)] ==
        IF n = 0
        THEN [fetched |-> Len(parsed.records) + parsed.errors, jobs |-> <<>>, duplicates |-> 0,
              rejected |-> parsed.errors]
        ELSE Counted(count[n - 1], parsed.records[n])
  IN  count[Len(parsed.records)]

\* "At least half of fetched rows were rejected".
HighRejection == run.fetched > 0 /\ 2 * run.rejected >= run.fetched

-----------------------------------------------------------------------------
(* get_response() and fetch() *)

FileInit ==
  /\ place = "asking" /\ attempt = 1
  /\ file = NoFile /\ run = NoRun

Answer ==
  /\ place = "asking"
  /\ \E f \in Files :
       /\ file' = f
       /\ place' = IF Supported(f) THEN "read" ELSE "failed"
  /\ UNCHANGED <<attempt, run>>

Unchanged ==
  /\ place = "asking"
  /\ place' = "unchanged"
  /\ UNCHANGED <<attempt, file, run>>

Refused ==
  /\ place = "asking"
  /\ place' = "failed"
  /\ UNCHANGED <<attempt, file, run>>

\* A transient status, or no answer at all: asked again after a pause.
Transient ==
  /\ place = "asking"
  /\ IF attempt < MaxAttempts
     THEN /\ attempt' = attempt + 1
          /\ UNCHANGED place
     ELSE place' = "failed" /\ UNCHANGED attempt
  /\ UNCHANGED <<file, run>>

Read ==
  /\ place = "read"
  /\ place' = "done"
  /\ run' = Run(Parse(file.tables))
  /\ UNCHANGED <<attempt, file>>

FileNext == Answer \/ Unchanged \/ Refused \/ Transient \/ Read

FileSpec == FileInit /\ [][FileNext]_fileVars

-----------------------------------------------------------------------------
(* Properties *)

Tables == file.tables
Readable == {t \in DOMAIN Tables : Tables[t].columns}

\* The rows of a table up to the one that ends it.
Until(t) ==
  {r \in DOMAIN Tables[t].rows :
     Tables[t].html \/ \A i \in 1..r : Tables[t].rows[i].fit}
Rows == UNION {{<<t, r>> : r \in Until(t)} : t \in Readable}
RowAt(x) == Tables[x[1]].rows[x[2]]
\* A row that gives the rows below it their company.
Naming(x) ==
  /\ RowAt(x).fit /\ RowAt(x).company \notin {Same, None}
  /\ RowAt(x).link = "closed" \/ ~Lacks(RowAt(x))
Above(x) == {r \in 1..x[2] : Naming(<<x[1], r>>)}
Closed ==
  {x \in Rows : RowAt(x).fit /\ RowAt(x).link = "closed" /\ RowAt(x).company # None /\ Above(x) # {}}

\* As long as fewer rows are rejected than have their message kept, every row of a file is a
\* job, a duplicate, a closed posting or a rejected row, and the run counts it once
\* (ingestion/adapters/github.py:156, ingestion/service.py:62).
RowsAreCounted ==
  place = "done" /\ run.rejected < MaxErrors =>
    /\ run.fetched = Len(run.jobs) + run.duplicates + run.rejected
    /\ run.fetched + Cardinality(Closed) = Cardinality(Rows)

\* A job that takes its company from above takes it from its own table, and from the nearest
\* row that names one and was not rejected (ingestion/adapters/github.py:291).
CompanyIsAbove ==
  \A i \in DOMAIN run.jobs :
    LET job == run.jobs[i]
        above == Above(<<job.table, job.row>>)
    IN above # {} /\ job.company = RowAt(<<job.table, Max(above)>>).company

\* A job has a term only if a text says so and none that goes before it says otherwise: the
\* column, the title, the heading, the repository (ingestion/adapters/github.py:334).
TermIsSaid ==
  \A i \in DOMAIN run.jobs :
    LET job == run.jobs[i]
        row == RowAt(<<job.table, job.row>>)
        texts == <<row.column, row.says, Tables[job.table].heading, Registered[1], Registered[2]>>
    IN job.term # NoTerm =>
         \E k \in DOMAIN texts :
           /\ texts[k].seasons = {job.term.season} /\ ~texts[k].off
           /\ \A h \in 1..(k - 1) : texts[h].seasons = {} /\ ~texts[h].off

\* "A changed GitHub file is parsed in full" (ingestion/adapters/github.py:128).
ParsedInFull ==
  place = "done" =>
    \A t \in Readable : \A r \in DOMAIN Tables[t].rows : r \in Until(t)

\* "At least half of fetched rows were rejected" (ingestion/service.py:108): if so, it is told.
RejectionIsTold ==
  LET lost == Cardinality({x \in Rows : RowAt(x).link = None})
  IN place = "done" /\ lost > 0 /\ 2 * lost >= Cardinality(Rows) => HighRejection
=============================================================================
