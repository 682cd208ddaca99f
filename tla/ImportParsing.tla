--------------------------- MODULE ImportParsing ---------------------------
(***************************************************************************)
(* The parsers of project files (internal/imports/adapters.go) as          *)
(* operators.  A workbook keeps participations and classifications in      *)
(* sheets of their own, joined by import_key; a CSV file keeps them in the *)
(* project's line, one column per role and dimension.  Both must yield the *)
(* same drafts.  Cells are reduced to what the parsers decide on.          *)
(***************************************************************************)
EXTENDS Naturals, FiniteSets, Sequences

CONSTANTS
  Uploads,      \* the files to parse: [format |-> "xlsx", archive, sheets] with
                \* three sheets, or [format |-> "csv", header, rows]
  MaxProjects,  \* MaximumProjectRows
  MaxChildren,  \* MaximumParticipationRows and MaximumClassificationRows
  MaxItems,     \* MaximumArrayItems
  Unread        \* a file that is not parsed yet

Blank == [blank |-> TRUE]
ProjectLines == [key : STRING, flawed : BOOLEAN]
PersonLines == [key : STRING, role : STRING, person : STRING,
                id : {"none", "text", "number"}, flawed : BOOLEAN]
TermLines == [key : STRING, dimension : STRING, term : STRING, flawed : BOOLEAN]

ASSUME ParsingAssumption ==
  \A u \in Uploads : u.format = "xlsx" =>
    /\ u.Projects.rows \in Seq(ProjectLines \cup {Blank})
    /\ u.Participations.rows \in Seq(PersonLines \cup {Blank})
    /\ u.Classifications.rows \in Seq(TermLines \cup {Blank})

VARIABLES file, outcome

fileVars == <<file, outcome>>

\* The n-th of a set of places, and what a sequence has at these places, in its
\* order (what SelectSeq computes by recursion).
Nth(places, n) == CHOOSE i \in places : Cardinality({j \in places : j <= i}) = n
Pick(s, places) == [n \in 1..Cardinality(places) |-> s[Nth(places, n)]]

PeopleColumns == {"student", "advisor", "co_advisor", "committee_member"}
TermColumns == {"category", "platform", "domain", "topic", "technology"}
SheetNames == {"Projects", "Participations", "Classifications"}
Rejected == [ok |-> FALSE]
Accepted(value) == [ok |-> TRUE, value |-> value]
Keep(s) == Pick(s, {i \in DOMAIN s : s[i] # Blank})

\* Mutated form: the rows beyond the limit are dropped instead of refused.
WorkbookRows_Truncated(sheet, limit) ==
  LET kept == Keep(sheet.rows) IN
  IF sheet.header /\ \A i \in DOMAIN kept : ~kept[i].flawed
  THEN Accepted(SubSeq(kept, 1, IF Len(kept) > limit THEN limit ELSE Len(kept))) ELSE Rejected

\* workbookRows: exact headers, no formulas, oversized cells or values beyond
\* the known columns, blank rows skipped, at most limit rows left.
WorkbookRows(sheet, limit) ==
  LET kept == Keep(sheet.rows) IN
  IF sheet.header /\ Len(kept) <= limit /\ \A i \in DOMAIN kept : ~kept[i].flawed
  THEN Accepted(kept) ELSE Rejected

\* GetCellType of the Student ID cell in the sheet's data row i, for the i-th
\* row that is left after the blank rows were skipped.
NumericCell(sheet, i) == sheet.rows[i] # Blank /\ sheet.rows[i].id = "number"

Draft(key, participations, classifications) ==
  [key |-> key, participations |-> participations, classifications |-> classifications]

\* Rows of a child sheet that join a project, in sheet order.
Joined(children, key) == Pick(children, {i \in DOMAIN children : children[i].key = key})
Participation(row) == [role |-> row.role, person |-> row.person, id |-> row.id]
Classification(row) == [dimension |-> row.dimension, term |-> row.term]
PeopleOf(rows, key) ==
  LET mine == Joined(rows, key) IN [i \in DOMAIN mine |-> Participation(mine[i])]
TermsOf(rows, key) ==
  LET mine == Joined(rows, key) IN [i \in DOMAIN mine |-> Classification(mine[i])]

KnownKeys(children, keys) == \A i \in DOMAIN children : children[i].key \in keys

UniqueKeys(projects) ==
  \A i, j \in DOMAIN projects : projects[i].key = projects[j].key => i = j

\* parseXLSX
ParseXLSX(book) ==
  LET projects == WorkbookRows(book.Projects, MaxProjects)
      people == WorkbookRows(book.Participations, MaxChildren)
      terms == WorkbookRows(book.Classifications, MaxChildren) IN
  IF /\ book.archive
     /\ book.sheets = SheetNames
     /\ projects.ok /\ people.ok /\ terms.ok
     /\ Len(projects.value) > 0 /\ UniqueKeys(projects.value)
     /\ LET keys == {projects.value[i].key : i \in DOMAIN projects.value} IN
        KnownKeys(people.value, keys) /\ KnownKeys(terms.value, keys)
     /\ \A i \in DOMAIN people.value :
          people.value[i].id # "none" => ~NumericCell(book.Participations, i)
  THEN Accepted([i \in DOMAIN projects.value |->
         LET key == projects.value[i].key IN
         Draft(key, PeopleOf(people.value, key), TermsOf(terms.value, key))])
  ELSE Rejected

\* csvRecordDraft: the cells are read in the order of the roles and of the
\* dimensions.
CsvDraft(line) ==
  Draft(line.key,
        line.cells["student"] \o line.cells["advisor"] \o line.cells["co_advisor"]
          \o line.cells["committee_member"],
        line.cells["category"] \o line.cells["platform"] \o line.cells["domain"]
          \o line.cells["topic"] \o line.cells["technology"])

\* parseCSV
ParseCSV(lines) ==
  LET kept == Keep(lines.rows) IN
  IF /\ lines.header
     /\ Len(kept) \in 1..MaxProjects
     /\ \A i \in DOMAIN kept :
          /\ ~kept[i].flawed
          /\ \A column \in PeopleColumns \cup TermColumns : Len(kept[i].cells[column]) <= MaxItems
     /\ UniqueKeys(kept)
  THEN Accepted([i \in DOMAIN kept |-> CsvDraft(kept[i])]) ELSE Rejected

Parse(upload) == IF upload.format = "xlsx" THEN ParseXLSX(upload) ELSE ParseCSV(upload)

FileInit == file \in Uploads /\ outcome = Unread

ParseUpload ==
  /\ outcome = Unread
  /\ outcome' = Parse(file)
  /\ UNCHANGED file

FileNext == ParseUpload
FileSpec == FileInit /\ [][FileNext]_fileVars

----------------------------------------------------------------------------
\* The line of a project that says the same as its workbook rows.
InRole(people, role) == Pick(people, {i \in DOMAIN people : people[i].role = role})
OfDimension(terms, d) == Pick(terms, {i \in DOMAIN terms : terms[i].dimension = d})
AsLine(row, people, terms) ==
  [key |-> row.key, flawed |-> row.flawed,
   cells |-> [column \in PeopleColumns \cup TermColumns |->
     IF column \in PeopleColumns THEN InRole(PeopleOf(people, row.key), column)
     ELSE OfDimension(TermsOf(terms, row.key), column)]]
AsCsv(book) ==
  LET projects == Keep(book.Projects.rows)
      people == Keep(book.Participations.rows)
      terms == Keep(book.Classifications.rows) IN
  [format |-> "csv", header |-> TRUE,
   rows |-> [i \in DOMAIN projects |-> AsLine(projects[i], people, terms)]]

\* The parsers agree: a workbook that is accepted yields, project by project
\* and role by role, the drafts of the CSV file that says the same.  Positions
\* of people and terms are assigned within their role or dimension, so this is
\* all the rest of the import can tell apart.
SameDraft(a, b) ==
  /\ a.key = b.key
  /\ \A role \in PeopleColumns : InRole(a.participations, role) = InRole(b.participations, role)
  /\ \A d \in TermColumns : OfDimension(a.classifications, d) = OfDimension(b.classifications, d)
FormatsAgree ==
  outcome # Unread /\ outcome.ok /\ file.format = "xlsx" =>
    LET csv == Parse(AsCsv(file)) IN
    csv.ok => /\ Len(csv.value) = Len(outcome.value)
              /\ \A i \in DOMAIN csv.value : SameDraft(csv.value[i], outcome.value[i])

\* Nothing is dropped in silence: every row of an accepted workbook that is not
\* blank is in exactly one draft, and nothing else is.
Count(sheet) == Len(Keep(sheet.rows))
Total(lists) == Cardinality(UNION {{i} \X DOMAIN lists[i] : i \in DOMAIN lists})
EveryRowIsKept ==
  outcome # Unread /\ outcome.ok /\ file.format = "xlsx" =>
    /\ Len(outcome.value) = Count(file.Projects)
    /\ Total([i \in DOMAIN outcome.value |-> outcome.value[i].participations])
         = Count(file.Participations)
    /\ Total([i \in DOMAIN outcome.value |-> outcome.value[i].classifications])
         = Count(file.Classifications)

\* Whether a table arrives as one workbook or as archived CSV files, parsing
\* gives the same drafts, and no row that is not blank is lost or counted twice.
FilesAreReadAlike == FormatsAgree /\ EveryRowIsKept

\* The error of parseXLSX: a numeric Student ID is refused, text is required
\* to preserve leading zeroes.  (Checked, and found not to hold below a blank
\* row of the sheet.)
NumericStudentIDsAreRefused ==
  outcome # Unread /\ outcome.ok =>
    \A i \in DOMAIN outcome.value : \A j \in DOMAIN outcome.value[i].participations :
      outcome.value[i].participations[j].id # "number"
=============================================================================
