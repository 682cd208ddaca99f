-------------------------- MODULE MC_ArtifactStorage --------------------------
(***************************************************************************)
(* The artifact storage in three settings, and downloads from B2 in one.   *)
(* A behaviour starts in one setting and stays there.                      *)
(*   "serve"     two requests and a migration, sound local files;          *)
(*   "damage"    two local artifacts are there, their files may go bad,    *)
(*               and are migrated next to the requests;                    *)
(*   "quota"     two deleted artifacts that do not fit together;           *)
(*   "download"  one download through the ranged reader.                   *)
(***************************************************************************)
EXTENDS ArtifactStorage, RangedReader, TLC, Functions

CONSTANTS small, twin, large
VARIABLE setting

Sizes == small :> 1 @@ twin :> 1 @@ large :> 2

Sound == INSTANCE ArtifactStorage WITH Contents <- {small, large}
Damage == INSTANCE ArtifactStorage WITH
  MaxRevision <- 4, Defaults <- {"local"}, LocalFaults <- TRUE
Quota == INSTANCE ArtifactStorage WITH Migrators <- {}, MaxRevision <- 6

\* The theorem about downloads speaks of this reader.
ASSUME ReaderFits == ReaderAssumption

settingVars == <<setting, vars, readerVars>>

ReaderAtRest ==
  /\ offset = 0 /\ body = NoStream /\ download = << >> /\ current = 1
  /\ left = 0 /\ phase = "closed" /\ wrong = {}

\* What two successful uploads, and perhaps deletions, leave.
TwoUploads(contents, statuses) ==
  \E c \in {f \in [Artifacts -> contents] : IsInjective(f)}, s \in [Artifacts -> statuses] :
    /\ project = [status |-> "published", revision |-> 3]
    /\ row = [a \in Artifacts |-> [status |-> s[a], backend |-> "local",
                                   content |-> c[a], revision |-> 1]]
    /\ bytes = [b \in Backends |-> IF b = "local" THEN c ELSE [a \in Artifacts |-> NoContent]]
    /\ issued = Artifacts
    /\ told = [a \in Artifacts |-> "success"]
    /\ request = [r \in Requests |-> Idle]
    /\ lock = NoRequest
    /\ migration = [m \in Migrators |-> [pc |-> "idle", work |-> {}, item |-> NoArtifact]]
    /\ files = "intact"

Choose ==
  \/ setting = "serve" /\ Init /\ ReaderAtRest
  \/ setting = "damage" /\ TwoUploads({small, twin}, {"active"}) /\ ReaderAtRest
  \/ setting = "quota" /\ TwoUploads({small, large}, {"deleted"}) /\ ReaderAtRest
  \/ setting = "download" /\ Init /\ ReaderInit

\* A bound of "damage": one request is under way.
OneAtATime == Cardinality({r \in Requests : request'[r] # Idle}) <= 1

GoOn ==
  /\ \/ setting = "serve" /\ Sound!Next /\ UNCHANGED readerVars
     \/ setting = "damage" /\ Damage!Next /\ OneAtATime /\ UNCHANGED readerVars
     \/ setting = "quota" /\ Quota!Next /\ UNCHANGED readerVars
     \/ setting = "download" /\ ReaderNext /\ UNCHANGED vars
  /\ UNCHANGED setting

SettingSpec == Choose /\ [][GoOn]_settingVars

\* Downloads alone.
DownloadSpec == Choose /\ setting = "download" /\ [][GoOn]_settingVars

-------------------------------------------------------------------------------
Symmetry == Permutations(Artifacts) \cup Permutations(Requests)
===============================================================================
