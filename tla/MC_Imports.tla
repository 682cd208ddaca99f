------------------------------ MODULE MC_Imports ------------------------------
(***************************************************************************)
(* The life of import batches in two settings, the parsers of files and    *)
(* the validation of rows.  A behaviour starts in one of the Settings and  *)
(* stays there.                                                            *)
(*   "shared"   two clients work on one batch of two rows, next to         *)
(*              projects and people made by hand;                          *)
(*   "expiry"   one client and two batches, one cleaned at a time;         *)
(*   "parsing"  workbooks of up to three projects and two people, blank    *)
(*              rows in between, and flawed files;                         *)
(*   "numeric"  workbooks with Student IDs in numeric cells;               *)
(*   "keys"     rows with keys of catalogs whose versions meet in year 2;  *)
(*   "people"   rows with two or three participants over a few people.     *)
(***************************************************************************)
EXTENDS ImportBatch, ImportValidation, ImportParsing, TLC

CONSTANTS Settings, b1, b2, c1, c2, t1, t2, x1, n1
VARIABLE setting

-----------------------------------------------------------------------------
(* Batches.                                                                *)

\* Two files with the same two rows; the rows share a term and an author.
MCDrafts == [b \in {b1, b2} |-> 1 :> [title |-> t1, term |-> x1, author |-> n1]
                                @@ 2 :> [title |-> t2, term |-> x1, author |-> n1]]

Expiry == INSTANCE ImportBatch WITH MaxRevision <- 3, MaxOutside <- 0

\* Bounds of the settings: one batch; one client, who selects one row.
OneBatch == batches'[b2].state = "absent"
OneClient == seen'[c2] = Nil /\ \A b \in Batches : rows'[b][2].choice = NoChoice

-----------------------------------------------------------------------------
(* Files.                                                                  *)

Sheet(lines) == [header |-> TRUE, rows |-> lines]
ProjectRows == {Blank} \cup [key : {"k1", "k2"}, flawed : {FALSE}]
PersonRows ==
  {Blank} \cup {[key |-> k, role |-> r, person |-> "ann", id |-> i, flawed |-> FALSE] :
                  k \in {"k1", "k2"}, r \in {"student", "advisor"}, i \in {"none", "text"}}
NumericRow == [key |-> "k1", role |-> "student", person |-> "ann", id |-> "number", flawed |-> FALSE]
TermRows == {[key |-> "k1", dimension |-> "platform", term |-> "web", flawed |-> FALSE]}

Book(p, q, t) ==
  [format |-> "xlsx", archive |-> TRUE, sheets |-> SheetNames,
   Projects |-> Sheet(p), Participations |-> Sheet(q), Classifications |-> Sheet(t)]
Good == Book(<<[key |-> "k1", flawed |-> FALSE]>>, << >>, << >>)
Flawed == {[Good EXCEPT !.archive = FALSE], [Good EXCEPT !.sheets = {"Projects"}],
           [Good EXCEPT !.Projects.header = FALSE],
           Book(<<[key |-> "k1", flawed |-> TRUE]>>, << >>, << >>)}
UpTo(n, S) == UNION {[1..k -> S] : k \in 0..n}
TextUploads ==
  {Book(p, q, t) : p \in UpTo(3, ProjectRows), q \in UpTo(2, PersonRows), t \in UpTo(1, TermRows)}
  \cup Flawed \cup {AsCsv(b) : b \in Flawed \cup {Good}}
NumericUploads ==
  {Book(<<[key |-> "k1", flawed |-> FALSE]>>, q, << >>) : q \in UpTo(3, PersonRows \cup {NumericRow})}
AllUploads == TextUploads \cup NumericUploads

-----------------------------------------------------------------------------
(* Rows.                                                                   *)

Person(name, student, staff) == [name |-> name, student |-> student, staff |-> staff, made |-> 0]
Participant(role, name, student, staff) ==
  [role |-> role, name |-> name, student |-> student, staff |-> staff]
Version(id, key, from, to, required) ==
  [id |-> id, key |-> key, from |-> from, to |-> to, majorRequired |-> required]
Web == [dimension |-> "platform", key |-> "web"]
Art == [dimension |-> "category", key |-> "art"]
CatalogOf(links, terms) ==
  [programs |-> {Version("p1", "cs", 1, 1, FALSE), Version("p2", "cs", 2, 3, TRUE)},
   courses |-> {Version("c1", "thesis", 1, 2, FALSE)},
   majors |-> {Version("m1", "ai", 2, 2, FALSE)},
   links |-> links, terms |-> terms]
ManyCatalogs == {CatalogOf(l, t) : l \in {{<<"c1", "p1">>}, {<<"c1", "p1">>, <<"c1", "p2">>}},
                                   t \in SUBSET {Web, Art}}
OneCatalog == CatalogOf({<<"c1", "p1">>}, {Web, Art})

Row(year, course, major, terms, participations) ==
  [year |-> year, program |-> "cs", course |-> course, major |-> major, terms |-> terms,
   participations |-> participations]
Team == <<Participant("student", "ann", Empty, Empty), Participant("advisor", "bob", Empty, Empty)>>
KeyDrafts ==
  {Row(y, c, m, t, Team) : y \in 0..3, c \in {"thesis", "x"}, m \in {Empty, "ai"},
                           t \in {<< >>, <<Web>>, <<Art>>, <<Art, Web>>, <<Web, Art, Web>>,
                                  <<Web, Art, [Web EXCEPT !.dimension = "genre"]>>}}
Participants == {Participant(r, n, s, f) : r \in {"student", "advisor"}, n \in {"ann", "bob"},
                                           s \in {Empty, "1"}, f \in {Empty, "a"}}
TeamDrafts == {Row(1, "thesis", Empty, <<Web, Art>>, t) :
  t \in [1..2 -> Participants] \cup [1..3 -> {p \in Participants : p.student = Empty \/ p.staff = Empty}]}
SomePopulations ==
  {{}, {Person("ann", Empty, Empty)}, {Person("ann", "1", Empty)}, {Person("bob", Empty, "a")},
   {Person("ann", "1", "a")}, {Person("ann", "1", Empty), Person("ann", Empty, "a")}}

AllDrafts == KeyDrafts \cup TeamDrafts
AllCatalogs == ManyCatalogs \cup {OneCatalog}

NewRow == phase = "new" /\ left = << >> /\ team = << >>
NoRow == draft = Nil /\ catalog = Nil /\ population = {} /\ phase = "none" /\ left = << >> /\ team = << >>
NoFile == file = Nil /\ outcome = Unread

-----------------------------------------------------------------------------
settingVars == <<setting, vars, fileVars, rowVars>>

Choose ==
  /\ setting \in Settings
  /\ Init
  /\ \/ setting \in {"shared", "expiry"} /\ NoFile /\ NoRow
     \/ setting = "parsing" /\ file \in TextUploads /\ outcome = Unread /\ NoRow
     \/ setting = "numeric" /\ file \in NumericUploads /\ outcome = Unread /\ NoRow
     \/ setting = "keys" /\ draft \in KeyDrafts /\ catalog \in ManyCatalogs /\ population = {}
          /\ NewRow /\ NoFile
     \/ setting = "people" /\ draft \in TeamDrafts /\ catalog = OneCatalog
          /\ population \in SomePopulations /\ NewRow /\ NoFile

GoOn ==
  /\ \/ setting = "shared" /\ Next /\ OneBatch /\ UNCHANGED <<fileVars, rowVars>>
     \/ setting = "expiry" /\ Expiry!Next /\ OneClient /\ UNCHANGED <<fileVars, rowVars>>
     \/ setting \in {"parsing", "numeric"} /\ FileNext /\ UNCHANGED <<vars, rowVars>>
     \/ setting \in {"keys", "people"} /\ RowNext /\ UNCHANGED <<vars, fileVars>>
  /\ UNCHANGED setting

\* The cleaner's ticker keeps firing, and a transaction that was begun ends:
\* its request's context is bounded.
SettingSpec ==
  /\ Choose /\ [][GoOn]_settingVars
  /\ WF_settingVars(setting = "expiry" /\ Cleaner /\ UNCHANGED <<setting, fileVars, rowVars>>)
  /\ WF_settingVars(setting = "expiry" /\ Commits(c1) /\ UNCHANGED <<setting, fileVars, rowVars>>)

-----------------------------------------------------------------------------
\* What a preview stored is scrubbed once it has expired, unless the batch was
\* committed before.
ExpiredIsScrubbed == setting = "expiry" => ExpiredPreviewsAreScrubbed
=============================================================================
