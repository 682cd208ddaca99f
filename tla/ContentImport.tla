------------------------------ MODULE ContentImport ------------------------------
(***************************************************************************)
(* The two bulk importers of the command line: project files               *)
(* (artifactimport) and project content, that is a logo, files and links   *)
(* (projectcontentimport).  A run plans the whole bundle without writing,  *)
(* then works on several projects at a time, item by item: look whether    *)
(* the item is there, read the project's revision, send it.  Runs are      *)
(* killed and repeated, and administrators edit the same projects.         *)
(* How projects are dispatched to workers is DispatchPool's.               *)
(***************************************************************************)
EXTENDS Integers, Sequences, FiniteSets

CONSTANTS
    Runs,        \* executions of the command
    Projects,
    Keys,        \* project -> its import key
    Bundle,      \* sequence of [who, items], items in the order they are applied
    Size,        \* digest -> bytes
    Types,       \* artifact types
    Before,      \* a file, and logo, that projects may have before
    Quota,       \* bytes of active files a project may have
    Workers,
    Merges,      \* files only: entries of one project are put together
    MaxEdits, MaxFaults, MaxCrashes,
    NoLogo

Digests == DOMAIN Size
Items == [kind : {"logo", "file", "links"}, type : Types, digest : Digests, byType : BOOLEAN]

\* An entry has one logo and one set of links at most.
ASSUME ImportAssumption ==
    /\ IsFiniteSet(Projects) /\ IsFiniteSet(Types) /\ IsFiniteSet(Digests)
    /\ Len(Bundle) \in Nat /\ DOMAIN Bundle = 1 .. Len(Bundle)
    /\ \A i \in DOMAIN Bundle :
        /\ Bundle[i].items \in Seq(Items)
        /\ \A m, n \in DOMAIN Bundle[i].items :
            LET x == Bundle[i].items[m]
                y == Bundle[i].items[n]
            IN /\ Merges => x.kind = "file"
               /\ x.kind = y.kind /\ x.kind # "file" => x.digest = y.digest
    /\ Size \in [Digests -> Nat]
    /\ Quota \in Nat /\ Workers \in Nat \ {0}
    /\ Merges \in BOOLEAN

VARIABLES
    db,       \* project -> [revision, deleted, logo, files, links]: files counts copies
    phase,    \* run -> "new", "refused", "applying", "over", "crashed"
    plan,     \* run -> project -> sequence of [item, reason]: why it will be skipped
    work,     \* run -> project -> [state, next, revision, uploaded, skipped]
    halted,   \* run -> "no", "fatal": an outcome says so, "cancelled": its context is
    result,   \* run -> [uploaded, skipped, failed]
    commits,  \* run -> changes it has committed and heard of
    unheard,  \* run -> changes it has committed and taken for failures
    bare,     \* <<project, item>>: in place, but their bytes were removed again
    touched,  \* projects edited by somebody else
    beside,   \* runs that were applying when another began to
    edits, faults, crashes

vars == <<db, phase, plan, work, halted, result, commits, unheard, bare, touched,
          beside, edits, faults, crashes>>

\* What only a lost answer changes.
lostVars == <<unheard, bare>>

Counts == [Types \X Digests -> Nat]
Images == Digests \cup {Before, NoLogo}
Entries == [item : Items, reason : {"none", "present"}]
Busy == {"check", "read", "send"}

ImportTypeOK ==
    /\ db \in [Projects -> [revision : Nat, deleted : BOOLEAN, logo : Images, links : Images,
                            files : Counts]]
    /\ phase \in [Runs -> {"new", "refused", "applying", "over", "crashed"}]
    /\ plan \in [Runs -> [Projects -> Seq(Entries)]]
    /\ work \in [Runs -> [Projects ->
                [state : Busy \cup {"none", "done", "failed"}, next : Nat, revision : Nat,
                 uploaded : Nat, skipped : Nat]]]
    /\ halted \in [Runs -> {"no", "fatal", "cancelled"}]
    /\ result \in [Runs -> [uploaded : Nat, skipped : Nat, failed : Nat]]
    /\ commits \in [Runs -> Nat] /\ unheard \in [Runs -> Nat]
    /\ bare \subseteq Projects \X Items
    /\ touched \subseteq Projects /\ beside \subseteq Runs
    /\ edits \in Nat /\ faults \in Nat /\ crashes \in Nat

\* The sum of a function's values.
SumOver(f) == Cardinality(UNION {{x} \X (1 .. f[x]) : x \in DOMAIN f})

ActiveBytes(files) == SumOver([k \in Types \X Digests |-> files[k] * Size[k[2]]])

\* Runs side by side cannot bring a project over its quota together.
WithinQuota == \A p \in Projects : ActiveBytes(db[p].files) <= Quota

Idle == [state |-> "none", next |-> 0, revision |-> 0, uploaded |-> 0, skipped |-> 0]
NoPlan == [p \in Projects |-> <<>>]

Init ==
    /\ \E filled \in SUBSET Projects :
        db = [p \in Projects |->
                [revision |-> 1, deleted |-> FALSE, links |-> NoLogo,
                 logo |-> IF p \in filled THEN Before ELSE NoLogo,
                 files |-> [k \in Types \X Digests |-> IF p \in filled /\ k[2] = Before THEN 1 ELSE 0]]]
    /\ WithinQuota
    /\ phase = [r \in Runs |-> "new"]
    /\ plan = [r \in Runs |-> NoPlan]
    /\ work = [r \in Runs |-> [p \in Projects |-> Idle]]
    /\ halted = [r \in Runs |-> "no"]
    /\ result = [r \in Runs |-> [uploaded |-> 0, skipped |-> 0, failed |-> 0]]
    /\ commits = [r \in Runs |-> 0] /\ unheard = [r \in Runs |-> 0] /\ bare = {}
    /\ touched = {} /\ beside = {}
    /\ edits = 0 /\ faults = 0 /\ crashes = 0

----------------------------------------------------------------------------
(* Planning *)

Resolve(who) == {p \in Projects : ~db[p].deleted /\ who \in {p, Keys[p]}}

\* The entries of one project, in the bundle's order.
ItemsOf(p) ==
    LET Mine(i) == IF p \in Resolve(Bundle[i].who) THEN Bundle[i].items ELSE <<>>
        Gathered[i \in 0 .. Len(Bundle)] == IF i = 0 THEN <<>> ELSE Gathered[i - 1] \o Mine(i)
    IN Gathered[Len(Bundle)]

Resolved ==
    /\ \A i \in DOMAIN Bundle : Cardinality(Resolve(Bundle[i].who)) = 1
    /\ ~Merges => \A i, j \in DOMAIN Bundle : i # j => Resolve(Bundle[i].who) # Resolve(Bundle[j].who)

\* Is there an active file like it?  Demonstration files only look at the type.
Present(files, item) ==
    IF item.byType THEN \E d \in Digests : files[<<item.type, d>>] > 0
    ELSE files[<<item.type, item.digest>>] > 0

\* A mutated form: any logo will do.
SameLogo_Any(logo, item) == logo # NoLogo

SameLogo(logo, item) == logo = item.digest

Count(files, item) == [files EXCEPT ![<<item.type, item.digest>>] = @ + 1]

AddPlanned(files, item) == Count(files, item)

\* Links are compared when they are sent.
IsThere(p, files, item) ==
    CASE item.kind = "file" -> Present(files, item)
      [] item.kind = "logo" -> SameLogo(db[p].logo, item)
      [] item.kind = "links" -> FALSE

\* What is planned counts as there for the items that follow.
Classified(p) ==
    LET items == ItemsOf(p)
        With[i \in 0 .. Len(items)] ==
            IF i = 0 THEN db[p].files
            ELSE IF items[i].kind = "file" /\ ~IsThere(p, With[i - 1], items[i])
                 THEN AddPlanned(With[i - 1], items[i]) ELSE With[i - 1]
    IN [plan |-> [i \in DOMAIN items |->
                    [item |-> items[i],
                     reason |-> IF IsThere(p, With[i - 1], items[i]) THEN "present" ELSE "none"]],
        fits |-> \/ With[Len(items)] = db[p].files
                 \/ ActiveBytes(With[Len(items)]) <= Quota]

PlannedSkips(plans) ==
    SumOver([p \in Projects |-> Cardinality({i \in DOMAIN plans[p] : plans[p][i].reason # "none"})])

\* Any error stops the whole command before it writes.  The file importer
\* counts planned skips here, the content importer when it passes them.
Plan(r) ==
    LET plans == [p \in Projects |-> Classified(p).plan]
        fits == \A p \in Projects : Classified(p).fits
    IN /\ phase[r] = "new"
       /\ IF Resolved /\ fits
          THEN /\ phase' = [phase EXCEPT ![r] = "applying"]
               /\ plan' = [plan EXCEPT ![r] = plans]
               /\ result' = [result EXCEPT ![r].skipped = IF Merges THEN PlannedSkips(plans) ELSE 0]
               /\ beside' = beside \cup {s \in Runs : phase[s] = "applying"}
          ELSE /\ phase' = [phase EXCEPT ![r] = "refused"]
               /\ UNCHANGED <<plan, result, beside>>
       /\ UNCHANGED <<db, work, halted, commits, lostVars, touched, edits, faults, crashes>>

----------------------------------------------------------------------------
(* Applying *)

Active(r) == {p \in Projects : work[r][p].state \in Busy}

\* A worker takes the next project.
Begin(r, p) ==
    /\ phase[r] = "applying" /\ halted[r] # "cancelled"
    /\ work[r][p].state = "none" /\ plan[r][p] # <<>>
    /\ Cardinality(Active(r)) < Workers
    /\ work' = [work EXCEPT ![r][p].state = "check", ![r][p].next = 1]
    /\ UNCHANGED <<db, phase, plan, halted, result, commits, lostVars, touched, beside, edits, faults,
                   crashes>>

Entry(r, p) == plan[r][p][work[r][p].next]
Skips(entry) == entry.reason # "none"

\* Planned skips of the file importer are already counted.
CountsSkip(r, p) == ~(Merges /\ Skips(Entry(r, p)))

\* The item is dealt with; after the last one the outcome is added to the result.
Finish(r, p, counts) ==
    LET w == work[r][p]
        sum == [w EXCEPT !.uploaded = @ + counts.uploaded, !.skipped = @ + counts.skipped]
        last == w.next = Len(plan[r][p])
    IN /\ work' = [work EXCEPT ![r][p] =
                    IF last THEN [sum EXCEPT !.state = "done"]
                    ELSE [sum EXCEPT !.state = "check", !.next = @ + 1]]
       /\ result' = IF last THEN [result EXCEPT ![r].uploaded = @ + sum.uploaded,
                                                ![r].skipped = @ + sum.skipped]
                    ELSE result

Uploaded == [uploaded |-> 1, skipped |-> 0]
Skipped(r, p) == [uploaded |-> 0, skipped |-> IF CountsSkip(r, p) THEN 1 ELSE 0]

\* A mutated form: what was uploaded before the failure is forgotten.
FailedOutcome_Forgets(r, p) == [result EXCEPT ![r].failed = @ + 1]

\* The first failure ends the project; what it did before counts.
FailedOutcome(r, p) ==
    [result EXCEPT ![r].uploaded = @ + work[r][p].uploaded,
                   ![r].skipped = @ + work[r][p].skipped,
                   ![r].failed = @ + 1]

Fail(r, p) ==
    /\ work' = [work EXCEPT ![r][p].state = "failed"]
    /\ result' = FailedOutcome(r, p)

\* A planned skip of the logo asks nobody.
AsksNobody(r, p) ==
    work[r][p].state = "check" /\ Skips(Entry(r, p)) /\ Entry(r, p).item.kind = "logo"

\* Look whether the item is there already.
Check(r, p) ==
    LET entry == Entry(r, p)
    IN /\ work[r][p].state = "check" /\ (halted[r] = "cancelled" => AsksNobody(r, p))
       /\ IF Skips(entry) \/ IsThere(p, db[p].files, entry.item)
          THEN Finish(r, p, Skipped(r, p))
          ELSE work' = [work EXCEPT ![r][p].state = "read"] /\ UNCHANGED result
       /\ UNCHANGED <<db, phase, plan, halted, commits, lostVars, touched, beside,
                      edits, faults, crashes>>

\* Read the revision the change is to be made against.
Read(r, p) ==
    /\ work[r][p].state = "read" /\ halted[r] # "cancelled"
    /\ IF db[p].deleted THEN Fail(r, p)
       ELSE /\ work' = [work EXCEPT ![r][p].state = "send", ![r][p].revision = db[p].revision]
            /\ UNCHANGED result
    /\ UNCHANGED <<db, phase, plan, halted, commits, lostVars, touched, beside, edits, faults, crashes>>

\* The quota is looked at under the project's lock.
Fits(p, item) == item.kind = "file" => ActiveBytes(Count(db[p].files, item)) <= Quota

Changed(row, item) ==
    CASE item.kind = "file" -> [row EXCEPT !.revision = @ + 1, !.files = Count(@, item)]
      [] item.kind = "logo" -> [row EXCEPT !.revision = @ + 1, !.logo = item.digest]
      [] item.kind = "links" -> [row EXCEPT !.revision = @ + 1, !.links = item.digest]

\* The services lock the project, and refuse when it has changed since; a set of
\* links that is there already is left alone.
Refuses(r, p) ==
    \/ db[p].deleted \/ db[p].revision # work[r][p].revision
    \/ ~Fits(p, Entry(r, p).item)
Unchanged(r, p) == Entry(r, p).item.kind = "links" /\ db[p].links = Entry(r, p).item.digest
Apply(r, p) == db' = [db EXCEPT ![p] = Changed(@, Entry(r, p).item)]

Send(r, p) ==
    /\ work[r][p].state = "send" /\ halted[r] # "cancelled"
    /\ IF Refuses(r, p) THEN Fail(r, p) /\ UNCHANGED <<db, commits>>
       ELSE IF Unchanged(r, p) THEN Finish(r, p, Skipped(r, p)) /\ UNCHANGED <<db, commits>>
       ELSE /\ Apply(r, p)
            /\ commits' = [commits EXCEPT ![r] = @ + 1]
            /\ Finish(r, p, Uploaded)
    /\ UNCHANGED <<phase, plan, halted, lostVars, touched, beside, edits, faults, crashes>>

\* COMMIT is done and its answer lost, or the source file does not close: the
\* change is in place and the run takes it for a failure.  The service then removes
\* the new bytes, if the storage lets it; links have none.
CommitUnheard(r, p) ==
    /\ work[r][p].state = "send" /\ ~Refuses(r, p) /\ ~Unchanged(r, p)
    /\ Apply(r, p)
    /\ unheard' = [unheard EXCEPT ![r] = @ + 1]
    /\ \E gone \in SUBSET {x \in {<<p, Entry(r, p).item>>} : x[2].kind # "links"} :
        bare' = bare \cup gone

\* A call that ends in an error has changed nothing, or more than its caller hears of.
Interrupted(r, p) == UNCHANGED <<db, lostVars>> \/ CommitUnheard(r, p)

\* An error of the database, the source file or the storage; only the storage
\* is fatal to the whole run, and it is asked before the transaction.
Break(r, p, fatal) ==
    /\ p \in Active(r) /\ faults < MaxFaults /\ halted[r] # "cancelled"
    /\ Fail(r, p)
    /\ IF fatal THEN UNCHANGED <<db, lostVars>> ELSE Interrupted(r, p)
    /\ halted' = [halted EXCEPT ![r] = IF fatal THEN "fatal" ELSE @]
    /\ faults' = faults + 1
    /\ UNCHANGED <<phase, plan, commits, touched, beside, edits, crashes>>

\* The coordinator receives the fatal outcome, begins nothing more and cancels
\* the context of the workers: what they do next fails.
Cancel(r) ==
    /\ phase[r] = "applying" /\ halted[r] = "fatal"
    /\ halted' = [halted EXCEPT ![r] = "cancelled"]
    /\ UNCHANGED <<db, phase, plan, work, result, commits, lostVars, touched, beside,
                   edits, faults, crashes>>

\* A mutated form: a cancelled call is tried again instead of ending the project.
Cancelled_Retries(r, p) ==
    /\ p \in Active(r) /\ halted[r] = "cancelled" /\ ~AsksNobody(r, p)
    /\ work' = [work EXCEPT ![r][p].state = "check"]
    /\ UNCHANGED <<db, phase, plan, halted, result, commits, lostVars, touched, beside, edits, faults,
                   crashes>>

\* A call under the cancelled context, or one that it overtakes.
Cancelled(r, p) ==
    /\ p \in Active(r) /\ halted[r] = "cancelled" /\ ~AsksNobody(r, p)
    /\ Fail(r, p)
    /\ Interrupted(r, p)
    /\ UNCHANGED <<phase, plan, halted, commits, touched, beside, edits, faults, crashes>>

Dispatched(r) ==
    halted[r] = "cancelled" \/ \A p \in Projects : plan[r][p] # <<>> => work[r][p].state # "none"

\* Every project begun has ended, and none will be begun any more.
Over(r) ==
    /\ phase[r] = "applying" /\ Active(r) = {} /\ Dispatched(r)
    /\ phase' = [phase EXCEPT ![r] = "over"]
    /\ UNCHANGED <<db, plan, work, halted, result, commits, lostVars, touched, beside,
                   edits, faults, crashes>>

\* The process is killed.
Crash(r) ==
    /\ phase[r] = "applying" /\ crashes < MaxCrashes
    /\ phase' = [phase EXCEPT ![r] = "crashed"]
    /\ work' = [work EXCEPT ![r] = [p \in Projects |-> Idle]]
    /\ crashes' = crashes + 1
    /\ UNCHANGED <<db, plan, halted, result, commits, lostVars, touched, beside, edits, faults>>

\* An administrator edits, deletes, or takes a file or the logo out.
Edit(p, change) ==
    /\ edits < MaxEdits /\ ~db[p].deleted
    /\ db' = [db EXCEPT ![p] = [change EXCEPT !.revision = db[p].revision + 1]]
    /\ edits' = edits + 1
    /\ touched' = touched \cup {p}
    /\ UNCHANGED <<phase, plan, work, halted, result, commits, lostVars, beside, faults, crashes>>

EditsOf(p) ==
    {db[p], [db[p] EXCEPT !.deleted = TRUE], [db[p] EXCEPT !.logo = NoLogo]} \cup
    {[db[p] EXCEPT !.files[k] = 0] : k \in {j \in DOMAIN db[p].files : db[p].files[j] > 0}}

Work(r) ==
    \/ \E p \in Projects : Begin(r, p) \/ Check(r, p) \/ Read(r, p) \/ Send(r, p) \/ Cancelled(r, p)
    \/ Cancel(r)
    \/ Over(r)

Next ==
    \/ \E r \in Runs : Plan(r) \/ Work(r) \/ Crash(r)
    \/ \E r \in Runs, p \in Projects, fatal \in BOOLEAN : Break(r, p, fatal)
    \/ \E p \in Projects : \E change \in EditsOf(p) : Edit(p, change)

Spec == Init /\ [][Next]_vars

----------------------------------------------------------------------------
(* Properties *)

Success(r) == phase[r] = "over" /\ result[r].failed = 0

\* Runs that do not overlap, killed and repeated as often as one likes, leave
\* one copy of every file: each looks for what the one before has done.
NoFileTwice ==
    beside = {} => \A p \in Projects \ touched : \A k \in Types \X Digests : db[p].files[k] <= 1

\* After a run that reports success a project nobody else has edited holds what
\* the bundle says: logo, links, and each file, or one of its type.  This is about
\* the rows; of their bytes see RerunsComplete.
BundleIsThere ==
    beside = {} => \A r \in Runs, p \in Projects \ touched :
        Success(r) => \A i \in DOMAIN plan[r][p] :
            LET item == plan[r][p][i].item
            IN CASE item.kind = "file" -> \E d \in IF item.byType THEN Digests ELSE {item.digest} :
                                            db[p].files[<<item.type, d>>] > 0
                 [] item.kind = "logo" -> db[p].logo = item.digest
                 [] item.kind = "links" -> db[p].links = item.digest

\* What runProject says of a failure, that it leaves the committed work, and the
\* repetition that completes it: what a successful run found or made has its bytes.
\* It does not hold: a COMMIT whose answer is lost stands without the bytes that
\* are removed after it, and the next run counts its row as there.
RerunsComplete ==
    beside = {} => \A r \in Runs, p \in Projects \ touched :
        Success(r) => \A i \in DOMAIN plan[r][p] : <<p, plan[r][p][i].item>> \notin bare

\* What planning has let through is carried out: without faults
\* or other editors no project fails, in particular none for its quota.
PlannedRunsFit ==
    beside = {} /\ faults = 0 => \A r \in Runs, p \in Projects \ touched :
        work[r][p].state # "failed"

\* What is reported as done was done, also when projects failed half way: the
\* numbers are those of the changes the run has heard of.  What it has not heard of
\* hides in the projects reported as failed, one change each; so a success reports
\* all that was done, and it accounts for every item of the bundle.
ResultsAreTrue ==
    \A r \in Runs : phase[r] = "over" =>
        /\ result[r].uploaded = commits[r]
        /\ unheard[r] <= result[r].failed
        /\ Success(r) => result[r].uploaded + result[r].skipped =
                            SumOver([p \in Projects |-> Len(plan[r][p])])

\* Executions one after the other, killed anywhere and repeated: a bundle that
\* was reported done is there completely and nothing of it twice; and what the
\* quota allowed when planning is not refused later, nor exceeded side by side.
BundlesAreApplied == ImportTypeOK /\ BundleIsThere /\ NoFileTwice /\ PlannedRunsFit /\ WithinQuota

=============================================================================
