----------------------------- MODULE CatalogSync -----------------------------
(***************************************************************************)
(* Synchronizing the version-controlled catalogs into the database         *)
(* (internal/catalog): a source file is validated, then programs, majors,  *)
(* courses and taxonomy terms are written one statement after the other in *)
(* one transaction.  Formats, labels and codes are one content value.      *)
(***************************************************************************)
EXTENDS Integers, FiniteSets, Sequences, SequencesExt, Functions

CONSTANTS
  Sources,     \* the source files someone may synchronize
  Unreliable,  \* may a transaction fail by itself?
  Open, Nil

Versions == [id : STRING, from : Int, to : Int \cup {Open}, content : STRING, links : Seq(STRING)]
Entries == [id : STRING, key : STRING, versions : Seq(Versions)]
Terms == [id : STRING, dimension : STRING, key : STRING, content : STRING, retired : BOOLEAN]
SourceFiles ==
  [program : Seq(Entries), major : Seq(Entries), course : Seq(Entries), terms : Seq(Terms)]

ASSUME CatalogAssumption ==
  /\ Sources \subseteq SourceFiles /\ Nil \notin Sources
  /\ Open \notin Int

VARIABLES
  db,       \* the catalog tables
  tried,    \* the last source
  outcome   \* and what its synchronization said

catalogVars == <<db, tried, outcome>>

Kinds == {"program", "major", "course"}
Elements(seq) == {seq[i] : i \in DOMAIN seq}
NoTables == [identities |-> {}, versions |-> {}, links |-> {}, terms |-> {}]
Failed == [failed |-> TRUE]

----------------------------------------------------------------------------
\* What a source has written, in this order.
Statement(do, kind, parent, item) == [do |-> do, kind |-> kind, parent |-> parent, item |-> item]

EntryStatements(kind, entry) ==
  <<Statement("identity", kind, entry.id, entry)>>
    \o [i \in DOMAIN entry.versions |-> Statement("version", kind, entry.id, entry.versions[i])]

OfKind(source, kind) == [i \in DOMAIN source[kind] |-> EntryStatements(kind, source[kind][i])]

Statements(source) ==
  FlattenSeq(OfKind(source, "program") \o OfKind(source, "major") \o OfKind(source, "course"))
    \o [i \in DOMAIN source.terms |-> Statement("term", "term", source.terms[i].id, source.terms[i])]

----------------------------------------------------------------------------
\* Validate

\* No id is used twice in the whole source.
IdsDiffer(source) ==
  LET all == Statements(source) IN IsInjective([i \in DOMAIN all |-> all[i].item.id])

KeysDiffer(entries) == IsInjective([i \in DOMAIN entries |-> entries[i].key])

Before(year, end) == end # Open => year <= end

\* Mutated form: periods are compared in the order of the file.
Precedes_FileOrder(versions, i, j) == i < j

\* The order of the first years; sort.Slice may order equal ones either way.
Precedes(versions, i, j) ==
  \/ versions[i].from < versions[j].from
  \/ versions[i].from = versions[j].from /\ i < j

\* validateNoOverlap compares each period with the one that begins before it.
ValidateNoOverlap(versions) ==
  \A i, j \in DOMAIN versions :
    /\ Precedes(versions, i, j)
    /\ ~\E k \in DOMAIN versions : Precedes(versions, i, k) /\ Precedes(versions, k, j)
    => ~Before(versions[j].from, versions[i].to)

ValidVersions(entry) ==
  /\ \A v \in Elements(entry.versions) : 1 <= v.from /\ Before(v.from, v.to)
  /\ ValidateNoOverlap(entry.versions)

ValidLinks(source) ==
  LET known == UNION {{v.id : v \in Elements(e.versions)} : e \in Elements(source.program)} IN
  \A e \in Elements(source.course) : \A v \in Elements(e.versions) :
    IsInjective(v.links) /\ Elements(v.links) \subseteq known

Valid(source) ==
  /\ IdsDiffer(source)
  /\ \A k \in Kinds : KeysDiffer(source[k]) /\ \A e \in Elements(source[k]) : ValidVersions(e)
  /\ ValidLinks(source)
  /\ IsInjective([i \in DOMAIN source.terms |-> <<source.terms[i].dimension, source.terms[i].key>>])

----------------------------------------------------------------------------
\* The statements of the transaction: tables in, tables or Failed out.

\* INSERT ... ON CONFLICT (id) DO NOTHING; another row's key is a conflict, and
\* so is a stored row with another key.
EnsureIdentity(tables, kind, entry) ==
  LET mine == {x \in tables.identities : x.kind = kind /\ x.id = entry.id}
      same == {x \in tables.identities : x.kind = kind /\ x.key = entry.key}
  IN IF mine = same
     THEN [tables EXCEPT !.identities = @ \cup {[kind |-> kind, id |-> entry.id, key |-> entry.key]}]
     ELSE Failed

Overlap(v, w) == Before(v.from, w.to) /\ Before(w.from, v.to)

Row(kind, parent, v) ==
  [kind |-> kind, parent |-> parent, id |-> v.id, from |-> v.from, to |-> v.to, content |-> v.content]

Stored(tables, kind, id) == {x \in tables.versions : x.kind = kind /\ x.id = id}

\* A version keeps its parent; the exclusion constraint is checked for the
\* statement, not for the transaction.
Clashes(tables, kind, parent, v) ==
  \/ \E x \in Stored(tables, kind, v.id) : x.parent # parent
  \/ \E x \in tables.versions \ Stored(tables, kind, v.id) :
       x.kind = kind /\ x.parent = parent /\ Overlap(x, v)

\* Links are inserted, never deleted.
LinksOf(kind, v) == IF kind = "course" THEN {v.id} \X Elements(v.links) ELSE {}

EnsureVersion(tables, kind, parent, v) ==
  IF Clashes(tables, kind, parent, v) THEN Failed
  ELSE [tables EXCEPT
          !.versions = (@ \ Stored(tables, kind, v.id)) \cup {Row(kind, parent, v)},
          !.links = @ \cup LinksOf(kind, v)]

\* Mutated form: a source that leaves the retirement out takes it back.
RetiredAt_Overwritten(stored, term) == term.retired

\* COALESCE keeps a retirement the source leaves out.
RetiredAt(stored, term) == term.retired \/ \E x \in stored : x.retired

SyncTerm(tables, term) ==
  LET stored == {x \in tables.terms : x.id = term.id}
      same == {x \in tables.terms : x.dimension = term.dimension /\ x.key = term.key}
  IN IF stored # same THEN Failed
     ELSE [tables EXCEPT !.terms =
            (@ \ stored) \cup {[term EXCEPT !.retired = RetiredAt(stored, term)]}]

Execute(tables, statement) ==
  IF tables = Failed THEN Failed
  ELSE CASE statement.do = "identity" -> EnsureIdentity(tables, statement.kind, statement.item)
         [] statement.do = "version" ->
              EnsureVersion(tables, statement.kind, statement.parent, statement.item)
         [] statement.do = "term" -> SyncTerm(tables, statement.item)

Synced(tables, source) ==
  LET all == Statements(source)
      After[i \in 0 .. Len(all)] == IF i = 0 THEN tables ELSE Execute(After[i - 1], all[i])
  IN After[Len(all)]

----------------------------------------------------------------------------
CatalogInit == db = NoTables /\ tried = Nil /\ outcome = "none"

Sync(source) ==
  /\ Valid(source)
  /\ LET result == Synced(db, source) IN
     IF result = Failed THEN outcome' = "failed" /\ UNCHANGED db
     ELSE outcome' = "synchronized" /\ db' = result
  /\ tried' = source

RefuseSource(source) ==
  /\ ~Valid(source)
  /\ tried' = source /\ outcome' = "invalid"
  /\ UNCHANGED db

LoseTransaction(source) ==
  /\ Unreliable /\ Valid(source)
  /\ tried' = source /\ outcome' = "lost"
  /\ UNCHANGED db

CatalogNext == \E source \in Sources : Sync(source) \/ RefuseSource(source) \/ LoseTransaction(source)
CatalogSpec == CatalogInit /\ [][CatalogNext]_catalogVars

\* What List shows of the taxonomy.
Listed(terms) == {term.id : term \in {x \in terms : ~x.retired}}

----------------------------------------------------------------------------
\* The tables hold one row per version and no dangling link.
TablesHold ==
  /\ tried \in Sources \cup {Nil}
  /\ outcome \in {"none", "synchronized", "failed", "invalid", "lost"}
  /\ \A x, y \in db.versions : x.kind = y.kind /\ x.id = y.id => x = y
  /\ \A link \in db.links : \E x \in db.versions : x.kind = "program" /\ x.id = link[2]

\* Comparing neighbours finds every overlap: a source is refused for its
\* periods exactly if two versions of one entry share a year.
OverlapsAreFound ==
  tried # Nil => \A k \in Kinds : \A e \in Elements(tried[k]) :
    (\A v \in Elements(e.versions) : Before(v.from, v.to)) =>
      (ValidateNoOverlap(e.versions) <=>
        \A i, j \in DOMAIN e.versions : i # j => ~Overlap(e.versions[i], e.versions[j]))

\* A synchronized source is in the tables as it says: its identities, its
\* versions with their parents and periods, its links and its retirements.
SourceIsStored ==
  outcome = "synchronized" =>
    /\ \A k \in Kinds : \A e \in Elements(tried[k]) :
         /\ [kind |-> k, id |-> e.id, key |-> e.key] \in db.identities
         /\ \A v \in Elements(e.versions) :
              Row(k, e.id, v) \in db.versions /\ LinksOf(k, v) \subseteq db.links
    /\ \A term \in Elements(tried.terms) :
         \E x \in db.terms : x.id = term.id /\ x.content = term.content /\ (term.retired => x.retired)

\* Synchronizing what was just synchronized succeeds and changes nothing, so a
\* deployment may repeat it.
SyncIsRepeatable == outcome = "synchronized" => Synced(db, tried) = db

\* A term that was retired is never offered again, whatever source is
\* synchronized next, also one that leaves its retirement out.
RetiredStaysRetired ==
  \A x \in db.terms : x.id \notin Listed(db.terms) =>
    \A source \in {any \in Sources : Valid(any)} :
      LET after == Synced(db, source) IN
      after # Failed => x.id \notin Listed(after.terms)

\* Catalog sources: overlapping periods are found whatever the file's order,
\* repeating a synchronization changes nothing, one that succeeds leaves the
\* tables as the source says, and no later one offers what was retired.
CatalogsFollowSources ==
  TablesHold /\ OverlapsAreFound /\ SourceIsStored /\ SyncIsRepeatable /\ RetiredStaysRetired

\* A valid source can be synchronized, whatever was synchronized before.
ValidSourcesSync == outcome # "failed"
=============================================================================
