----------------------------- MODULE MC_Projects -----------------------------
(***************************************************************************)
(* Projects in four settings, and the catalogs they refer to in two.  A    *)
(* behaviour starts in one of the Settings and stays there.                *)
(*   "edits"    two administrators, and contents that are refused;         *)
(*   "status"   one administrator at a time, logos, projects without title;*)
(*   "logos"    two administrators and two images;                         *)
(*   "links"    two administrators and lists of up to two links;           *)
(*   "periods"  sources whose versions' periods meet, clash or are open;   *)
(*   "entries"  sources that exchange keys, move versions, retire terms.   *)
(***************************************************************************)
EXTENDS ProjectLifecycle, CatalogSync, TLC

CONSTANTS Settings, bad, first, second, blank
VARIABLE setting

-----------------------------------------------------------------------------
(* Projects.                                                               *)

\* Two spellings of one URL, another URL, and one that is refused.
MCCanonical == [u \in {"repo", "repo/..", "mirror", "http"} |->
                  CASE u = "http" -> "invalid"
                    [] u = "mirror" -> "mirror"
                    [] OTHER -> "repo"]
InputLinks == [url : DOMAIN MCCanonical, primary : BOOLEAN]
MCLinks == UNION {[1..n -> InputLinks] : n \in 0..2}

Edits == INSTANCE ProjectLifecycle WITH
  Contents <- {bad, first, second}, Untitled <- {}, Images <- {}, Links <- {},
  MaxRevision <- 4, MaxUploads <- 0
Status == INSTANCE ProjectLifecycle WITH
  Contents <- {bad, first, blank}, Links <- {}, MaxRevision <- 6, MaxUploads <- 1
Logos == INSTANCE ProjectLifecycle WITH
  Contents <- {first}, Links <- {}, MaxRevision <- 5
ListsOfLinks == INSTANCE ProjectLifecycle WITH
  Contents <- {first}, Images <- {}, MaxRevision <- 4, MaxUploads <- 0

\* A bound of "status": one administrator reads the project.
OneReader == Cardinality({e \in Editors : view'[e] # NoView}) <= 1

-----------------------------------------------------------------------------
(* Catalog sources.                                                        *)

Version(id, period, content, links_) ==
  [id |-> id, from |-> period[1], to |-> period[2], content |-> content, links |-> links_]
Entry(id, key, versions) == [id |-> id, key |-> key, versions |-> versions]
Term(id, key, content, retired) ==
  [id |-> id, dimension |-> "topic", key |-> key, content |-> content, retired |-> retired]
File(programs, majors, courses, terms) ==
  [program |-> programs, major |-> majors, course |-> courses, terms |-> terms]

Periods == {<<1, 1>>, <<1, 2>>, <<2, 2>>, <<3, 2>>, <<2, Open>>, <<3, Open>>}
VersionLists ==
  LET one(id, period) == <<Version(id, period, "x", << >>)>> IN
  {one("v1", x) : x \in Periods}
    \cup {one("v1", x) \o one("v2", y) : x, y \in Periods}
    \cup {one("v2", x) \o one("v1", y) : x, y \in Periods}
Triples == {<<Version("v1", x, "x", << >>), Version("v2", y, "x", << >>), Version("v3", z, "x", << >>)>> :
  x, y, z \in Periods \ {<<3, 2>>}}
PeriodSources ==
  {File(<<Entry("p", "k", versions)>>, << >>, << >>, << >>) : versions \in VersionLists \cup Triples}

\* Two programs that may exchange keys or a version, a course that refers to
\* them, terms that change, and a major that does.
EntrySources ==
  LET v1 == Version("v1", <<1, Open>>, "x", << >>)
      v2(content) == Version("v2", <<1, Open>>, content, << >>)
      programs == {<<Entry("p", "k", <<v1>>)>>, <<Entry("p", "l", <<v1>>)>>,
                   <<Entry("p", "k", <<v1>>), Entry("q", "l", <<v2("x")>>)>>,
                   <<Entry("p", "k", <<v1>>), Entry("q", "l", <<v2("y")>>)>>,
                   <<Entry("p", "k", <<v2("x")>>), Entry("q", "k", <<v1>>)>>}
      courses == {<<Entry("c", "k", <<Version("w", <<1, 2>>, "x", references)>>)>> :
                   references \in {<< >>, <<"v2">>, <<"v1", "v1">>}}
      terms == {<< >>} \cup {<<Term("t", "k", "x", r)>> : r \in BOOLEAN}
                 \cup {<<Term("t", "l", "x", FALSE)>>, <<Term("s", "k", "x", FALSE)>>}
  IN {File(p, << >>, c, << >>) : p \in programs, c \in courses}
       \cup {File(<<Entry("p", "k", <<v1>>)>>, << >>, << >>, t) : t \in terms}
       \cup {File(<< >>, <<Entry("m", key, <<Version("u", <<1, y>>, "x", << >>)>>)>>, << >>, << >>) :
               key \in {"k", "l"}, y \in {1, 2}}

AllSources == PeriodSources \cup EntrySources
OfPeriods == INSTANCE CatalogSync WITH Sources <- PeriodSources, Unreliable <- FALSE
OfEntries == INSTANCE CatalogSync WITH Sources <- EntrySources

-----------------------------------------------------------------------------
settingVars == <<setting, vars, catalogVars>>

Choose == setting \in Settings /\ Init /\ CatalogInit

GoOn ==
  /\ \/ setting = "edits" /\ Edits!Next /\ UNCHANGED catalogVars
     \/ setting = "status" /\ Status!Next /\ OneReader /\ UNCHANGED catalogVars
     \/ setting = "logos" /\ Logos!Next /\ UNCHANGED catalogVars
     \/ setting = "links" /\ ListsOfLinks!Next /\ UNCHANGED catalogVars
     \/ setting = "periods" /\ OfPeriods!CatalogNext /\ UNCHANGED vars
     \/ setting = "entries" /\ OfEntries!CatalogNext /\ UNCHANGED vars
  /\ UNCHANGED setting

SettingSpec == Choose /\ [][GoOn]_settingVars

Symmetry == Permutations(Editors) \cup Permutations(Images)

=============================================================================
