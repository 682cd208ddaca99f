---------------------------- MODULE ArtifactStorage ----------------------------
(***************************************************************************)
(* Artifacts of one project: rows in PostgreSQL, bytes in a storage        *)
(* backend, and no transaction across the two.                             *)
(*                                                                         *)
(* An upload stores its bytes under a fresh key first, then commits the    *)
(* row under the project's row lock, and removes the bytes again when the  *)
(* transaction reports an error.  ausectl copies bytes from the local      *)
(* backend to B2 row by row while the API keeps serving.  A fresh artifact *)
(* id and the fresh storage key generated with it are one name here.       *)
(***************************************************************************)
EXTENDS Integers, FiniteSets, Functions

CONSTANTS
    Artifacts,        \* identifiers, each with its own storage key
    Requests,         \* API requests, each handled by a goroutine
    Migrators,        \* runs of the storage migration at one time
    Contents,         \* distinct file contents
    Size,             \* their sizes in bytes
    Defaults,         \* default backends configured for the processes
    MaxProjectBytes,  \* quota
    MaxRevision,      \* bound on the project's revision
    LocalFaults,      \* may local files be damaged or lost?
    NoContent, NoArtifact, NoRequest

Backends == {"local", "b2"}
Operations == {"upload", "replace", "update", "delete", "restore", "open"}

ASSUME StorageAssumption ==
    /\ Size \in [Contents -> Nat \ {0}]
    /\ Defaults \subseteq Backends \cup {""}
    /\ MaxProjectBytes \in Nat
    /\ MaxRevision \in Nat
    /\ LocalFaults \in BOOLEAN
    /\ NoContent \notin Contents
    /\ NoArtifact \notin Artifacts
    /\ NoRequest \notin Requests

VARIABLES
    project,    \* the project's status and revision
    row,        \* table artifacts
    bytes,      \* per backend: the content stored under each key
    issued,     \* identifiers handed out so far
    told,       \* what the caller that created an artifact was told
    request,    \* the requests under way
    lock,       \* whose transaction holds the project's row lock
    migration,  \* the migration runs
    files       \* the local files: "intact", or "damaged" since a first fault

vars == <<project, row, bytes, issued, told, request, lock, migration, files>>

Rows == [status : {"none", "active", "deleted"}, backend : Backends,
         content : Contents \cup {NoContent}, revision : Nat]

Idle == [op |-> "open", pc |-> "idle", target |-> NoArtifact,
         new |-> NoArtifact, content |-> NoContent, backend |-> "local",
         expected |-> 0, used |-> 0, found |-> FALSE]

TypeOK ==
    /\ project \in [status : {"draft", "published", "deleted"}, revision : Nat]
    /\ row \in [Artifacts -> Rows]
    /\ bytes \in [Backends -> [Artifacts -> Contents \cup {NoContent}]]
    /\ issued \subseteq Artifacts
    /\ told \in [Artifacts -> {"nothing", "success", "failure"}]
    /\ request \in [Requests ->
         [op : Operations,
          pc : {"idle", "ready", "locked", "cleanup", "opening"},
          target : Artifacts \cup {NoArtifact}, new : Artifacts \cup {NoArtifact},
          content : Contents \cup {NoContent}, backend : Backends,
          expected : Nat, used : Nat, found : BOOLEAN]]
    /\ lock \in Requests \cup {NoRequest}
    /\ migration \in [Migrators ->
         [pc : {"idle", "running", "copied"}, work : SUBSET Artifacts,
          item : Artifacts \cup {NoArtifact}]]
    /\ files \in {"intact", "damaged"}

Init ==
    /\ project = [status |-> "published", revision |-> 1]
    /\ row = [a \in Artifacts |-> [status |-> "none", backend |-> "local",
                                   content |-> NoContent, revision |-> 0]]
    /\ bytes = [b \in Backends |-> [a \in Artifacts |-> NoContent]]
    /\ issued = {}
    /\ told = [a \in Artifacts |-> "nothing"]
    /\ request = [r \in Requests |-> Idle]
    /\ lock = NoRequest
    /\ migration = [m \in Migrators |->
                      [pc |-> "idle", work |-> {}, item |-> NoArtifact]]
    /\ files = "intact"

-------------------------------------------------------------------------------
(* Requests.                                                                 *)

Stored(a) == row[a].status # "none"
Active(a) == row[a].status = "active"
SizeOf(c) == IF c = NoContent THEN 0 ELSE Size[c]

\* SELECT sum(byte_count) over the project's active artifacts.
ActiveBytes ==
    SumFunctionOnSet([a \in Artifacts |-> SizeOf(row[a].content)],
                     {a \in Artifacts : Active(a)})

At(r, pc) == request[r].pc = pc

\* Backend.Put: fresh key, bytes visible as a whole or not at all.
PutAt(b, a, c) == bytes' = [bytes EXCEPT ![b][a] = c]

\* NewStorageSet: no option means the local backend.
DefaultName(option) == IF option = "" THEN "local" ELSE option

\* Upload and Replace store the bytes before any transaction.  The detected
\* content may be refused; then the bytes are removed again.
Store(r, op, target, expected) ==
    \E a \in Artifacts \ issued, c \in Contents, option \in Defaults,
       pc \in {"ready", "cleanup"} :
        /\ At(r, "idle")
        /\ PutAt(DefaultName(option), a, c)
        /\ issued' = issued \cup {a}
        /\ told' = [told EXCEPT ![a] = IF pc = "ready" THEN @ ELSE "failure"]
        /\ request' = [request EXCEPT ![r] =
              [Idle EXCEPT !.op = op, !.pc = pc, !.target = target, !.new = a,
                           !.content = c, !.backend = DefaultName(option),
                           !.expected = expected]]
        /\ UNCHANGED <<project, row, lock, migration, files>>

\* The client sends a revision it has seen, possibly an outdated one.
Upload(r) ==
    \E expected \in 1 .. project.revision : Store(r, "upload", NoArtifact, expected)

Replace(r) ==
    \E a \in Artifacts : /\ Stored(a)
                         /\ Store(r, "replace", a, row[a].revision)

\* Put reports an error; B2 may have kept the object all the same.
PutFails(r) ==
    \E a \in Artifacts \ issued, c \in Contents, option \in Defaults :
        /\ At(r, "idle")
        /\ bytes' \in {bytes} \cup
              (IF DefaultName(option) = "b2" THEN {[bytes EXCEPT !["b2"][a] = c]} ELSE {})
        /\ issued' = issued \cup {a}
        /\ told' = [told EXCEPT ![a] = "failure"]
        /\ UNCHANGED <<project, row, request, lock, migration, files>>

\* Update, Delete and Restore start with their transaction.
Begin(r, op) ==
    \E a \in Artifacts :
        /\ At(r, "idle")
        /\ Stored(a)
        /\ request' = [request EXCEPT ![r] =
              [Idle EXCEPT !.op = op, !.pc = "ready", !.target = a,
                           !.expected = row[a].revision]]
        /\ UNCHANGED <<project, row, bytes, issued, told, lock, migration, files>>

\* Exists, asked of the backend the row names.
Exists(a) == bytes[row[a].backend][a] # NoContent

\* What the transaction reads once it holds the row lock.
Measured(r) ==
    [request[r] EXCEPT !.pc = "locked", !.used = ActiveBytes,
        !.found = IF request[r].op = "restore" 
                  THEN Exists(request[r].target) ELSE FALSE]

\* A mutated form: SELECT ... without FOR UPDATE.
LockProjectShared(r) ==
    /\ At(r, "ready")
    /\ lock' = r
    /\ request' = [request EXCEPT ![r] = Measured(r)]
    /\ UNCHANGED <<project, row, bytes, issued, told, migration, files>>

\* lockProject: SELECT ... FOR UPDATE, then the sum over active artifacts and,
\* to restore, the look for the stored bytes.
LockProject(r) ==
    /\ At(r, "ready")
    /\ lock = NoRequest
    /\ lock' = r
    /\ request' = [request EXCEPT ![r] = Measured(r)]
    /\ UNCHANGED <<project, row, bytes, issued, told, migration, files>>

Unlocked(r) == lock' = IF lock = r THEN NoRequest ELSE lock

\* checkReplacementQuota
Fits(used, replaced, new) == used - replaced + new <= MaxProjectBytes

\* The checks of the four mutations, in their transaction.
Permitted(r) ==
    LET q == request[r]
        a == q.target
    IN  /\ project.status # "deleted"
        /\ IF q.op = "upload" THEN project.revision = q.expected
           ELSE row[a].revision = q.expected
        /\ CASE q.op = "upload"  -> Fits(q.used, 0, SizeOf(q.content))
             [] q.op = "replace" -> /\ Active(a)
                                    /\ Fits(q.used, SizeOf(row[a].content),
                                            SizeOf(q.content))
             [] q.op = "delete"  -> Active(a)
             [] q.op = "restore" -> /\ row[a].status = "deleted"
                                    /\ q.found
                                    /\ Fits(q.used, 0, SizeOf(row[a].content))
             [] OTHER            -> TRUE

\* The rows after the transaction of r.
Written(r) ==
    LET q == request[r]
        status == CASE q.op \in {"replace", "delete"} -> "deleted"
                    [] q.op = "restore" -> "active"
                    [] OTHER -> row[q.target].status
    IN  [a \in Artifacts |->
           CASE a = q.new    -> [status |-> "active", backend |-> q.backend,
                                 content |-> q.content, revision |-> 1]
             [] a = q.target -> [row[a] EXCEPT !.status = status, !.revision = @ + 1]
             [] OTHER        -> row[a]]

\* The request ends; what its caller learns of a new artifact.
Answer(r, verdict) ==
    told' = IF request[r].new = NoArtifact THEN told
            ELSE [told EXCEPT ![request[r].new] = verdict]

\* COMMIT takes effect; its answer may be lost, and then counts as an error.
Commit(r) ==
    /\ At(r, "locked")
    /\ Permitted(r)
    /\ project.revision < MaxRevision
    /\ row' = Written(r)
    /\ project' = [project EXCEPT !.revision = @ + 1]
    /\ Unlocked(r)
    /\ \/ /\ Answer(r, "success")
          /\ request' = [request EXCEPT ![r] = Idle]
       \/ /\ Answer(r, "failure")
          /\ request' = [request EXCEPT ![r] =
                IF @.new = NoArtifact THEN Idle ELSE [@ EXCEPT !.pc = "cleanup"]]
    /\ UNCHANGED <<bytes, issued, migration, files>>

\* A check refuses the operation, or the transaction fails: rolled back.
Abort(r) ==
    /\ At(r, "ready") \/ At(r, "locked")
    /\ Answer(r, "failure")
    /\ Unlocked(r)
    /\ request' = [request EXCEPT ![r] =
          IF @.new = NoArtifact THEN Idle ELSE [@ EXCEPT !.pc = "cleanup"]]
    /\ UNCHANGED <<project, row, bytes, issued, migration, files>>

\* A mutated form: a failed replacement removes the artifact it was to replace.
RemoveTarget(r) ==
    IF request[r].target = NoArtifact THEN UNCHANGED bytes
    ELSE PutAt(request[r].backend, request[r].target, NoContent)

\* RemoveNew; an error of it is ignored.
RemoveNew(r) ==
    \/ PutAt(request[r].backend, request[r].new, NoContent)
    \/ UNCHANGED bytes

CleanUp(r) ==
    /\ At(r, "cleanup")
    /\ RemoveNew(r)
    /\ request' = [request EXCEPT ![r] = Idle]
    /\ UNCHANGED <<project, row, issued, told, lock, migration, files>>

\* OpenPublic reads the row, then opens the bytes where the row said they are.
OpenPublic(r) ==
    \E a \in Artifacts :
        /\ At(r, "idle")
        /\ Active(a)
        /\ project.status = "published"
        /\ request' = [request EXCEPT ![r] =
              [Idle EXCEPT !.pc = "opening", !.target = a,
                           !.backend = row[a].backend]]
        /\ UNCHANGED <<project, row, bytes, issued, told, lock, migration, files>>

OpenContent(r) ==
    /\ At(r, "opening")
    /\ request' = [request EXCEPT ![r] = Idle]
    /\ UNCHANGED <<project, row, bytes, issued, told, lock, migration, files>>

\* The process ends, or the client goes away: nothing more is done for r.
Vanish(r) ==
    /\ ~At(r, "idle")
    /\ request' = [request EXCEPT ![r] = Idle]
    /\ Unlocked(r)
    /\ UNCHANGED <<project, row, bytes, issued, told, migration, files>>

\* The project is published, deleted or restored, under the same row lock.
MoveProject ==
    \E status \in {"draft", "published", "deleted"} :
        /\ lock = NoRequest
        /\ project.revision < MaxRevision
        /\ project' = [status |-> status, revision |-> project.revision + 1]
        /\ UNCHANGED <<row, bytes, issued, told, request, lock, migration, files>>

-------------------------------------------------------------------------------
(* MigrateStorage: from the local backend to the default backend B2.         *)

Moves(m, pc) == migration[m].pc = pc

\* The work list is read once; rows stored later are left to the next run.
Plan(m) ==
    /\ Moves(m, "idle")
    /\ \E a \in Artifacts : Stored(a) /\ row[a].backend = "local"
    /\ migration' = [migration EXCEPT ![m] =
          [pc |-> "running", item |-> NoArtifact,
           work |-> {a \in Artifacts : Stored(a) /\ row[a].backend = "local"}]]
    /\ UNCHANGED <<project, row, bytes, issued, told, request, lock, files>>

\* The copied bytes have the size and digest of the row.
Verified(a, c) == c = row[a].content

\* The row's bytes are copied under the same key.  A wrong size skips the row,
\* a wrong digest ends the run.
Copy(m) ==
    \E a \in migration[m].work :
        LET c == bytes["local"][a]
            rest == [migration[m] EXCEPT !.work = @ \ {a}]
        IN  /\ Moves(m, "running")
            /\ c # NoContent
            /\ PutAt("b2", a, c)
            /\ migration' = [migration EXCEPT ![m] =
                 IF Verified(a, c) THEN [rest EXCEPT !.pc = "copied", !.item = a]
                 ELSE IF SizeOf(c) # SizeOf(row[a].content) THEN rest
                 ELSE [pc |-> "idle", work |-> {}, item |-> NoArtifact]]
            /\ UNCHANGED <<project, row, issued, told, request, lock, files>>

\* The source cannot be opened, or the copy fails, perhaps after it was stored.
CopyFails(m) ==
    \E a \in migration[m].work :
        /\ Moves(m, "running")
        /\ \/ UNCHANGED bytes
           \/ /\ bytes["local"][a] # NoContent
              /\ PutAt("b2", a, bytes["local"][a])
        /\ migration' = [migration EXCEPT ![m].work = @ \ {a}]
        /\ UNCHANGED <<project, row, issued, told, request, lock, files>>

\* A mutated form: the bytes are moved, not copied.
StampAndRemove(m) ==
    LET a == migration[m].item
    IN  /\ Moves(m, "copied")
        /\ row' = [row EXCEPT ![a].backend = "b2"]
        /\ PutAt("local", a, NoContent)
        /\ migration' = [migration EXCEPT ![m].pc = "running", ![m].item = NoArtifact]
        /\ UNCHANGED <<project, issued, told, request, lock, files>>

\* UPDATE ... SET storage_backend WHERE id AND storage_backend='local'; a row
\* locked by a transaction is waited for.
Stamp(m) ==
    LET a == migration[m].item
    IN  /\ Moves(m, "copied")
        /\ \A r \in Requests : At(r, "locked") => request[r].target # a
        /\ row' = [row EXCEPT ![a].backend = "b2"]
        /\ migration' = [migration EXCEPT ![m].pc = "running", ![m].item = NoArtifact]
        /\ UNCHANGED <<project, bytes, issued, told, request, lock, files>>

StampFails(m) ==
    /\ Moves(m, "copied")
    /\ migration' = [migration EXCEPT ![m].pc = "running", ![m].item = NoArtifact]
    /\ UNCHANGED <<project, row, bytes, issued, told, request, lock, files>>

\* The run ends, having gone through its list or anywhere before.
EndRun(m) ==
    /\ ~Moves(m, "idle")
    /\ migration' = [migration EXCEPT ![m] =
          [pc |-> "idle", work |-> {}, item |-> NoArtifact]]
    /\ UNCHANGED <<project, row, bytes, issued, told, request, lock, files>>

\* A local file is damaged or lost.
DamageLocal ==
    \E a \in issued, c \in Contents \cup {NoContent} :
        /\ LocalFaults
        /\ bytes["local"][a] \notin {c, NoContent}
        /\ PutAt("local", a, c)
        /\ files' = "damaged"
        /\ UNCHANGED <<project, row, issued, told, request, lock, migration>>

-------------------------------------------------------------------------------

Serve(r) ==
    \/ Upload(r) \/ Replace(r) \/ PutFails(r)
    \/ Begin(r, "update") \/ Begin(r, "delete") \/ Begin(r, "restore")
    \/ LockProject(r) \/ Commit(r) \/ Abort(r) \/ CleanUp(r)
    \/ OpenPublic(r) \/ OpenContent(r) \/ Vanish(r)

Migrate(m) ==
    \/ Plan(m) \/ Copy(m) \/ CopyFails(m) \/ Stamp(m) \/ StampFails(m) \/ EndRun(m)

Next ==
    \/ \E r \in Requests : Serve(r)
    \/ \E m \in Migrators : Migrate(m)
    \/ MoveProject
    \/ DamageLocal

Spec == Init /\ [][Next]_vars

-------------------------------------------------------------------------------
(* Properties.                                                               *)

\* No local file has been damaged or lost so far.
Intact == files = "intact"

\* Every row, deleted ones included, has its bytes where it says they are -
\* except rows whose commit was reported to the caller as failed: their bytes
\* are removed although the row exists.  Uploads, replacements, failing and
\* repeated migrations and dying requests may interleave in any way.
RowsHaveBytes ==
    \A a \in Artifacts :
        Stored(a) /\ told[a] # "failure" => bytes[row[a].backend][a] = row[a].content

\* Active bytes never exceed the quota, though every request measured them
\* before it stored anything: the project's row lock keeps the measure true.
QuotaHolds == ActiveBytes <= MaxProjectBytes

\* A download that has read its row finds the artifact's bytes where the row
\* said, even if the artifact is replaced, deleted or migrated in between.
DownloadFindsBytes ==
    \A r \in Requests :
        At(r, "opening") /\ told[request[r].target] # "failure" =>
            bytes[request[r].backend][request[r].target] = row[request[r].target].content

\* Once a row says B2, B2 holds what its digest says, whatever happened to
\* local files and however often the migration was run.
MigratedRowsAreSound ==
    \A a \in Artifacts :
        Stored(a) /\ row[a].backend = "b2" /\ told[a] # "failure" =>
            bytes["b2"][a] = row[a].content

\* However uploads, replacements, restorations and migrations interleave: the
\* types hold, the files of a project that count stay within its quota, and a
\* row that says B2 names bytes that are there and the ones it describes.
StorageInv == TypeOK /\ QuotaHolds /\ MigratedRowsAreSound

\* Until a local file is damaged, no row that was acknowledged, and no download
\* that has read its row, is left without bytes by a removal, a failed request
\* or a migration.
BytesAreThere == Intact => RowsHaveBytes /\ DownloadFindsBytes

-------------------------------------------------------------------------------
(* What readers can tell: a migration is not among it.                       *)

Readable(a) == Stored(a) /\ bytes[row[a].backend][a] = row[a].content

Content == INSTANCE ArtifactContent
               WITH known <- {a \in Artifacts : Stored(a)},
                    listed <- {a \in Artifacts : Active(a)},
                    acknowledged <- {a \in Artifacts : told[a] = "success"},
                    content <- [a \in Artifacts |-> row[a].content],
                    readable <- {a \in Artifacts : Readable(a)}

\* Until a local file is damaged, every step is one of a store of immutable
\* contents whose acknowledged entries are never lost, or none that a reader
\* could notice.
ContentIsKept == [][files' = "damaged" \/ Content!Next]_(Content!vars)

===============================================================================
