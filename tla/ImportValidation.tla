-------------------------- MODULE ImportValidation --------------------------
(***************************************************************************)
(* One row of an import: the validation of the preview                     *)
(* (internal/imports/validation.go), the resolution of its keys and people *)
(* at commit (service.go, resolveProjectInput) and the last checks before  *)
(* its project is created (projects, validateInput).  Validation and       *)
(* resolution decide about the same draft in different code: validation    *)
(* compares what the entries say, resolution compares people.  The         *)
(* properties say where the two agree, and what a row fails of that passed *)
(* the first.                                                              *)
(***************************************************************************)
EXTENDS Integers, FiniteSets, Sequences

CONSTANTS
  RowDrafts,   \* rows of files: [year, program, course, major, terms, participations]
  Catalogs,    \* [programs, courses, majors: versions; links; terms] records; a
               \* term, here and in a draft, is [dimension, key], and a catalog's
               \* are the ones not retired
  Populations, \* sets of people [name, student, staff] in the database
  MinYear, MaxYear,
  Empty        \* a cell without text

Cells == STRING \cup {Empty}
Participations == [role : STRING, name : STRING, student : Cells, staff : Cells]
\* made is the place of the row's entry a person was registered for, or 0.
People == [name : STRING, student : Cells, staff : Cells, made : Nat]

\* The versions of one key are never valid in the same year (CatalogSync), and
\* the unique columns of people hold.
OneAYear(versions) ==
  \A v, w \in versions : v.key = w.key /\ v.from <= w.to /\ w.from <= v.to => v = w
IDsDiffer(set) ==
  \A a, b \in set :
    (a.student = b.student /\ a.student # Empty) \/ (a.staff = b.staff /\ a.staff # Empty) => a = b

ASSUME ValidationAssumption ==
  /\ \A d \in RowDrafts : d.participations \in Seq(Participations) /\ d.year \in Int
  /\ \A c \in Catalogs :
       /\ \A v \in c.programs \cup c.courses : v.from \in Int /\ v.to \in Int
       /\ OneAYear(c.programs) /\ OneAYear(c.courses)
  /\ \A set \in Populations :
       /\ IsFiniteSet(set) /\ set \subseteq People /\ IDsDiffer(set)
       /\ \A q \in set : q.made = 0

VARIABLES draft, catalog, population, phase, left, team

rowVars == <<draft, catalog, population, phase, left, team>>

Requires == {"student", "advisor"}
Roles == {"student", "advisor", "co_advisor", "committee_member"}

\* catalogVersion: at most one version of a key is valid in a year.
VersionsOf(versions, key, year) ==
  {v \in versions : v.key = key /\ v.from <= year /\ year <= v.to}
Found(versions, key) == VersionsOf(versions, key, draft.year) # {}
VersionOf(versions, key) == CHOOSE v \in VersionsOf(versions, key, draft.year) : TRUE

\* The catalog part of validateDraft; Empty is the empty major_key.
CatalogErrors ==
  LET program == Found(catalog.programs, draft.program)
      course == Found(catalog.courses, draft.course) IN
  IF draft.year \notin MinYear..MaxYear THEN {"invalid_academic_period"}
  ELSE (IF ~program \/ ~course \/ (draft.major # Empty /\ ~Found(catalog.majors, draft.major))
        THEN {"unknown_catalog_key"} ELSE {})
    \cup (IF program /\ draft.major = Empty /\ VersionOf(catalog.programs, draft.program).majorRequired
          THEN {"missing_major"} ELSE {})
    \cup (IF program /\ course
             /\ <<VersionOf(catalog.courses, draft.course).id,
                  VersionOf(catalog.programs, draft.program).id>> \notin catalog.links
          THEN {"unsupported_course_program"} ELSE {})

\* validateClassifications: a term of no dimension is not looked up, and every
\* dimension named counts.
Dimensions == {"category", "platform", "domain", "topic", "technology"}
ClassificationErrors ==
  LET terms == draft.terms
      dimensions == {terms[i].dimension : i \in DOMAIN terms} IN
  (IF \/ ~(dimensions \subseteq Dimensions)
      \/ \E i, j \in DOMAIN terms : i # j /\ terms[i] = terms[j]
   THEN {"invalid_classification"} ELSE {})
  \cup (IF \E i \in DOMAIN terms : terms[i].dimension \in Dimensions /\ terms[i] \notin catalog.terms
        THEN {"unknown_taxonomy_key"} ELSE {})
  \cup (IF "category" \in dimensions THEN {} ELSE {"missing_category"})
  \cup (IF "platform" \in dimensions THEN {} ELSE {"missing_platform"})

NameOnly(p) == p.student = Empty /\ p.staff = Empty
Named(name) == {q \in population : q.name = name}

\* validateParticipations: what makes two entries the same is all they say.
ParticipationErrors ==
  LET entries == draft.participations IN
  (IF \E i, j \in DOMAIN entries : i # j /\ entries[i] = entries[j]
   THEN {"duplicate_participation"} ELSE {})
  \cup (IF \E i \in DOMAIN entries : NameOnly(entries[i]) /\ Cardinality(Named(entries[i].name)) > 1
        THEN {"ambiguous_person_match"} ELSE {})
  \cup (IF \E i \in DOMAIN entries : entries[i].role \notin Roles
        THEN {"invalid_participation_role"} ELSE {})
  \cup (IF Requires \subseteq {entries[i].role : i \in DOMAIN entries}
        THEN {} ELSE {"missing_participation"})

\* validateDraft and rowState (possible duplicates are ImportBatch's subject).
Errors == CatalogErrors \cup ClassificationErrors \cup ParticipationErrors

RowInit ==
  /\ draft \in RowDrafts /\ catalog \in Catalogs /\ population \in Populations
  /\ phase = "new" /\ left = << >> /\ team = << >>

\* CreatePreview, and again Commit, validate the draft.
Validate ==
  /\ phase = "new"
  /\ phase' = IF Errors = {} THEN "valid" ELSE "error"
  /\ left' = draft.participations
  /\ UNCHANGED <<draft, catalog, population, team>>

\* Mutated form: a student who is found by the staff ID only.
Match_StaffFirst(p) ==
  IF p.staff # Empty THEN {q \in population : q.staff = p.staff}
  ELSE IF p.student # Empty THEN {q \in population : q.student = p.student}
  ELSE Named(p.name)

\* resolvePerson: by Student ID, else by Staff ID, else by name.
Match(p) ==
  IF p.student # Empty THEN {q \in population : q.student = p.student}
  ELSE IF p.staff # Empty THEN {q \in population : q.staff = p.staff}
  ELSE Named(p.name)

\* The unique columns of people.
Unique(p) ==
  /\ p.student # Empty => \A q \in population : q.student # p.student
  /\ p.staff # Empty => \A q \in population : q.staff # p.staff
Registered(p) ==
  [name |-> p.name, student |-> p.student, staff |-> p.staff, made |-> Len(team) + 1]

\* rolePosition: how many of the role were resolved before.
Taken(role) == {i \in DOMAIN team : team[i].role = role}
Position(role) == Cardinality(Taken(role))
Member(p, person) == [person |-> person, role |-> p.role, position |-> Position(p.role)]

ResolveKnown ==
  /\ phase = "valid" /\ left # << >>
  /\ LET p == Head(left) IN
     /\ Cardinality(Match(p)) = 1
     /\ team' = Append(team, Member(p, CHOOSE q \in Match(p) : TRUE))
  /\ left' = Tail(left)
  /\ UNCHANGED <<draft, catalog, population, phase>>

ResolveNew ==
  /\ phase = "valid" /\ left # << >>
  /\ LET p == Head(left) IN
     /\ Match(p) = {} /\ Unique(p)
     /\ population' = population \cup {Registered(p)}
     /\ team' = Append(team, Member(p, Registered(p)))
  /\ left' = Tail(left)
  /\ UNCHANGED <<draft, catalog, phase>>

\* More than one match, or a unique column that refuses the new person.
ResolveFails ==
  /\ phase = "valid" /\ left # << >>
  /\ LET p == Head(left) IN Cardinality(Match(p)) > 1 \/ (Match(p) = {} /\ ~Unique(p))
  /\ phase' = "failed"
  /\ UNCHANGED <<draft, catalog, population, left, team>>

\* validateInput of the project: a person has a role once.
SamePersonTwice ==
  \E i, j \in DOMAIN team : i # j /\ team[i].person = team[j].person /\ team[i].role = team[j].role

CreateProject ==
  /\ phase = "valid" /\ left = << >>
  /\ phase' = IF SamePersonTwice THEN "failed" ELSE "created"
  /\ UNCHANGED <<draft, catalog, population, left, team>>

RowNext == Validate \/ ResolveKnown \/ ResolveNew \/ ResolveFails \/ CreateProject
RowSpec == RowInit /\ [][RowNext]_rowVars

----------------------------------------------------------------------------
\* A draft that passed validation finds its keys when it is resolved:
\* resolveProjectInput finds one version for each key, the program offers the
\* course, a program that wants a major gets one, every term is there, and the
\* project gets a category and a platform.  (Of its people see below.)
KeysResolve ==
  phase \in {"valid", "created", "failed"} =>
    LET program == VersionsOf(catalog.programs, draft.program, draft.year)
        course == VersionsOf(catalog.courses, draft.course, draft.year) IN
    /\ Cardinality(program) = 1 /\ Cardinality(course) = 1
    /\ \A p \in program, c \in course : <<c.id, p.id>> \in catalog.links
    /\ draft.major = Empty => \A p \in program : ~p.majorRequired
    /\ draft.major # Empty => VersionsOf(catalog.majors, draft.major, draft.year) # {}
    /\ \A i \in DOMAIN draft.terms : draft.terms[i] \in catalog.terms
    /\ {"category", "platform"} \subseteq {draft.terms[i].dimension : i \in DOMAIN draft.terms}

\* Whoever is resolved is who the row names: the Student ID decides, then the
\* Staff ID, then the name; and no resolution leaves two people with one ID.
ResolvedAsNamed ==
  /\ \A i \in DOMAIN team :
       LET p == draft.participations[i]
           q == team[i].person IN
       /\ p.student # Empty => q.student = p.student
       /\ p.student = Empty /\ p.staff # Empty => q.staff = p.staff
       /\ NameOnly(p) => q.name = p.name
  /\ IDsDiffer(population)

\* The positions of a role are 0, 1, ... in the row's order, as the unique
\* (project_id, role, position) of project_participations demands.
PositionsAreDense ==
  \A role \in Roles :
    /\ {team[i].position : i \in Taken(role)} = 0 .. Cardinality(Taken(role)) - 1
    /\ \A i, j \in Taken(role) : i < j => team[i].position < team[j].position

\* What an entry can fail of: its two IDs are of different people, or it gives
\* a name only and the row has registered a namesake before.
IDsOfTwo(p) ==
  p.student # Empty /\ p.staff # Empty /\ \E q \in population : q.staff = p.staff /\ q.student # p.student
NamesakeMade(p) == NameOnly(p) /\ \E q \in Named(p.name) : q.made > 0
\* What the team can fail of: two entries that differ are one person in a role.
EntriesOfOne ==
  \E i, j \in DOMAIN team :
    /\ draft.participations[i] # draft.participations[j]
    /\ team[i].person = team[j].person /\ team[i].role = team[j].role

\* A row that passed validation and still fails does so for one of these three
\* reasons, none of which validation looks for: no key, no person the database
\* has twice, no entry given twice fails it.
FailuresAreOfPeople ==
  phase = "failed" =>
    \/ left # << >> /\ (IDsOfTwo(Head(left)) \/ NamesakeMade(Head(left)))
    \/ left = << >> /\ EntriesOfOne

\* Validation and the later resolution agree about the keys; whom resolution
\* finds or registers is who the row names, in positions without gaps; and a row
\* that passed fails only where its own entries clash as people.
DraftsResolve == KeysResolve /\ ResolvedAsNamed /\ PositionsAreDense /\ FailuresAreOfPeople
=============================================================================
