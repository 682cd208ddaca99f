------------------------------ MODULE SearchSync ------------------------------
(***************************************************************************)
(* The durable search outbox of AUSE Discovery.                            *)
(*                                                                         *)
(* Every transaction that changes a Project raises projects.revision and   *)
(* upserts the Project's one row of project_search_sync.  A reconciler     *)
(* (backend/internal/search/reconciler.go) claims such rows under a lease, *)
(* builds the public document from several separate reads, posts it to     *)
(* Meilisearch, waits for the engine's task and marks the row.  Nothing    *)
(* ties the claim, the reads, the post and the mark together but the       *)
(* revision and the lease owner stored in the row.                         *)
(*                                                                         *)
(* Time is abstract: a lease may expire, and a retry may fall due, at any  *)
(* moment.  The engine's queue is kept per Project: Meilisearch runs tasks *)
(* in the order it accepted them, and tasks on different documents do not  *)
(* affect each other.                                                      *)
(***************************************************************************)
EXTENDS Integers, Sequences, FiniteSets

CONSTANTS
    Projects,     \* identifiers of projects
    Workers,      \* API processes; each is started once and has its own WorkerID
    NoWorker,     \* NULL lease_owner
    NoDocument,   \* the index holds nothing for a project, or a deletion
    NoClaim,      \* a worker applies no claim
    Overlapping,  \* may two API processes run at the same time?
    BatchSize,    \* LIMIT of the claim query
    MaxRevision,  \* bound on a project's revision
    MaxTasks      \* bound on a project's queued engine tasks

Statuses == {"none", "draft", "published", "deleted"}
SyncActions == {"upsert", "remove"}
SyncStates == {"absent", "pending", "processing", "synced", "failed"}

\* A document carries the revision its first query read; content is the newest
\* revision its other queries read: aliases, people, taxonomy, artifacts, logo.
Documents == [revision : Nat, content : Nat]

Claims == [project : Projects, revision : Nat, action : SyncActions]

ASSUME SyncAssumption ==
    /\ NoWorker \notin Workers
    /\ NoDocument \notin Documents
    /\ NoClaim \notin Claims
    /\ Overlapping \in BOOLEAN
    /\ BatchSize \in Nat \ {0}
    /\ MaxRevision \in Nat
    /\ MaxTasks \in Nat

VARIABLES
    project,        \* table projects: status, pre_delete_status, revision
    row,            \* table project_search_sync
    updatedBefore,  \* <<p, q>>: row p has an older updated_at than row q
    process,        \* an API process: not started, running, gone
    batch,          \* claims a worker holds and has not begun
    claim,          \* the claim a worker is applying
    pc,             \* where its application stands
    document,       \* the document it built (NoDocument: a deletion)
    ahead,          \* tasks up to and including its own that have not run
    tasks,          \* engine: accepted, unfinished tasks of a project, in order
    index           \* engine: the document visible to searches

databaseVars == <<project, row, updatedBefore>>
workerVars == <<process, batch, claim, pc, document, ahead>>
engineVars == <<tasks, index>>
vars == <<project, row, updatedBefore, process, batch, claim, pc, document,
          ahead, tasks, index>>

Rows == [state : SyncStates, desired : Nat, action : SyncActions,
         indexed : Nat,                     \* 0: NULL
         owner : Workers \cup {NoWorker},
         expired : BOOLEAN,                 \* lease_expires_at <= now()
         due : BOOLEAN]                     \* next_attempt_at NULL or <= now()

TypeOK ==
    /\ project \in [Projects -> [status : Statuses, preDelete : Statuses,
                                 revision : Nat]]
    /\ row \in [Projects -> Rows]
    /\ updatedBefore \subseteq Projects \X Projects
    /\ process \in [Workers -> {"new", "up", "down"}]
    /\ batch \in [Workers -> SUBSET Claims]
    /\ claim \in [Workers -> Claims \cup {NoClaim}]
    /\ pc \in [Workers -> {"idle", "read", "post", "wait", "failed"}]
    /\ document \in [Workers -> Documents \cup {NoDocument}]
    /\ ahead \in [Workers -> Nat]
    /\ tasks \in [Projects -> Seq(Documents \cup {NoDocument})]
    /\ index \in [Projects -> Documents \cup {NoDocument}]

Init ==
    /\ project = [p \in Projects |->
                    [status |-> "none", preDelete |-> "none", revision |-> 0]]
    /\ row = [p \in Projects |->
                [state |-> "absent", desired |-> 0, action |-> "remove",
                 indexed |-> 0, owner |-> NoWorker,
                 expired |-> FALSE, due |-> TRUE]]
    /\ updatedBefore = {}
    /\ process = [w \in Workers |-> "new"]
    /\ batch = [w \in Workers |-> {}]
    /\ claim = [w \in Workers |-> NoClaim]
    /\ pc = [w \in Workers |-> "idle"]
    /\ document = [w \in Workers |-> NoDocument]
    /\ ahead = [w \in Workers |-> 0]
    /\ tasks = [p \in Projects |-> <<>>]
    /\ index = [p \in Projects |-> NoDocument]

-------------------------------------------------------------------------------
(* Project transactions.  Each commits the project, its revision and the     *)
(* sync row together.  Calls that fail (a stale expected revision, a status  *)
(* that does not allow the operation) roll back and are no steps here.       *)

ActionFor(status) == IF status = "published" THEN "upsert" ELSE "remove"

\* What searches should find for a project: its published content, or nothing.
Wanted(p) ==
    IF project[p].status = "published"
    THEN [revision |-> project[p].revision, content |-> project[p].revision]
    ELSE NoDocument

\* updated_at = now() on the rows of S.
Touch(S) ==
    updatedBefore' =
        {pair \in Projects \X Projects :
            /\ pair[1] \notin S
            /\ row[pair[1]].state # "absent"
            /\ pair[2] \in S \/ pair \in updatedBefore}

\* A mutated form: the conflict branch leaves desired_revision alone.
SyncUpsertKeepingRevision(p, revision, action) ==
    /\ row' = [row EXCEPT ![p] =
                 [state |-> "pending",
                  desired |-> IF @.desired = 0 THEN revision ELSE @.desired,
                  action |-> action, indexed |-> @.indexed, owner |-> NoWorker,
                  expired |-> FALSE, due |-> TRUE]]
    /\ Touch({p})

\* UpsertProjectSearchSync: insert, or ask again whatever the row's state was.
SyncUpsert(p, revision, action) ==
    /\ row' = [row EXCEPT ![p] =
                 [state |-> "pending", desired |-> revision, action |-> action,
                  indexed |-> @.indexed, owner |-> NoWorker,
                  expired |-> FALSE, due |-> TRUE]]
    /\ Touch({p})

\* Moves p to a status at the next revision and asks for its projection.
Advance(p, status, preDelete) ==
    /\ project[p].revision < MaxRevision
    /\ project' = [project EXCEPT ![p] = [status |-> status,
                                          preDelete |-> preDelete,
                                          revision |-> @.revision + 1]]
    /\ SyncUpsert(p, project[p].revision + 1, ActionFor(status))
    /\ UNCHANGED <<workerVars, engineVars>>

Create(p) ==
    /\ project[p].status = "none"
    /\ Advance(p, "draft", "none")

Replace(p) ==
    /\ project[p].status \in {"draft", "published"}
    /\ Advance(p, project[p].status, "none")

Publish(p) ==
    /\ project[p].status = "draft"
    /\ Advance(p, "published", "none")

Delete(p) ==
    /\ project[p].status \in {"draft", "published"}
    /\ Advance(p, "deleted", project[p].status)

Restore(p) ==
    /\ project[p].status = "deleted"
    /\ Advance(p, project[p].preDelete, "none")

\* An artifact, logo or repository link of the project changed.
MutateChild(p) ==
    /\ project[p].status \in {"draft", "published"}
    /\ Advance(p, project[p].status, "none")

\* An administrator asks again at the current revision.
ReindexProject(p) ==
    /\ project[p].status # "none"
    /\ SyncUpsert(p, project[p].revision, ActionFor(project[p].status))
    /\ UNCHANGED <<project, workerVars, engineVars>>

Edit(p) ==
    \/ Create(p) \/ Replace(p) \/ Publish(p) \/ Delete(p) \/ Restore(p)
    \/ MutateChild(p) \/ ReindexProject(p)

-------------------------------------------------------------------------------
(* The reconciler: one goroutine per process, one claim at a time.           *)

Running(w) == process[w] = "up"

Start(w) ==
    /\ process[w] = "new"
    /\ Overlapping \/ \A v \in Workers : ~Running(v)
    /\ process' = [process EXCEPT ![w] = "up"]
    /\ UNCHANGED <<databaseVars, batch, claim, pc, document, ahead, engineVars>>

\* The worker lets go of the claim it was applying.
Finish(w) ==
    /\ pc' = [pc EXCEPT ![w] = "idle"]
    /\ claim' = [claim EXCEPT ![w] = NoClaim]
    /\ document' = [document EXCEPT ![w] = NoDocument]
    /\ ahead' = [ahead EXCEPT ![w] = 0]

\* A process ends anywhere: its rows stay leased, its accepted tasks queued.
Crash(w) ==
    /\ Running(w)
    /\ process' = [process EXCEPT ![w] = "down"]
    /\ batch' = [batch EXCEPT ![w] = {}]
    /\ Finish(w)
    /\ UNCHANGED <<databaseVars, engineVars>>

\* A mutated form: rows of a lost worker are never taken over.
ClaimableIgnoringLeases(p) == row[p].state \in {"pending", "failed"} /\ row[p].due

Claimable(p) ==
    \/ row[p].state \in {"pending", "failed"} /\ row[p].due
    \/ row[p].state = "processing" /\ row[p].expired

\* A mutated form: LIMIT without ORDER BY updated_at.
FirstInLineUnordered(S) ==
    LET candidates == {p \in Projects : Claimable(p)}
    IN  /\ S \subseteq candidates
        /\ S # {}
        /\ Cardinality(S) = BatchSize \/ S = candidates

\* S is what ORDER BY updated_at LIMIT BatchSize returns.
FirstInLine(S) ==
    LET candidates == {p \in Projects : Claimable(p)}
    IN  /\ S \subseteq candidates
        /\ S # {}
        /\ \A p \in S, q \in candidates \ S : <<q, p>> \notin updatedBefore
        /\ IF Cardinality(candidates) <= BatchSize
           THEN S = candidates
           ELSE Cardinality(S) = BatchSize

ClaimOf(p) ==
    [project |-> p, revision |-> row[p].desired, action |-> row[p].action]

Leased(r, w) == [r EXCEPT !.state = "processing", !.owner = w,
                          !.expired = FALSE, !.due = TRUE]

\* The claim statement commits: the rows of S are leased to w.
LeaseRows(w, S) ==
    /\ Running(w)
    /\ pc[w] = "idle"
    /\ batch[w] = {}
    /\ FirstInLine(S)
    /\ row' = [p \in Projects |->
                 IF p \in S THEN Leased(row[p], w) ELSE row[p]]
    /\ Touch(S)

ClaimSync(w) ==
    \E S \in SUBSET Projects :
        /\ LeaseRows(w, S)
        /\ batch' = [batch EXCEPT ![w] = {ClaimOf(p) : p \in S}]
        /\ UNCHANGED <<project, process, claim, pc, document, ahead, engineVars>>

\* The rows are leased but the result never reaches the worker.
ClaimSyncLost(w) ==
    \E S \in SUBSET Projects :
        /\ LeaseRows(w, S)
        /\ UNCHANGED <<project, workerVars, engineVars>>

\* The worker turns to claim c and reaches stage with document built.
Apply(w, c, stage, built) ==
    /\ Running(w)
    /\ pc[w] = "idle"
    /\ c \in batch[w]
    /\ batch' = [batch EXCEPT ![w] = @ \ {c}]
    /\ claim' = [claim EXCEPT ![w] = c]
    /\ pc' = [pc EXCEPT ![w] = stage]
    /\ document' = [document EXCEPT ![w] = built]
    /\ UNCHANGED <<databaseVars, process, ahead, engineVars>>

\* Removal is asked for, or the first query of the build finds no published row.
ApplyRemoval(w) ==
    \E c \in batch[w] :
        /\ c.action = "remove" \/ project[c.project].status # "published"
        /\ Apply(w, c, "post", NoDocument)

\* A mutated form: the revision read is not compared with the claim's.
ApplyUpsertUnchecked(w) ==
    \E c \in batch[w] :
        /\ c.action = "upsert"
        /\ project[c.project].status = "published"
        /\ Apply(w, c, "read", [revision |-> project[c.project].revision,
                                content |-> 0])

\* The first query of the build returns the claimed revision.
ApplyUpsert(w) ==
    \E c \in batch[w] :
        /\ c.action = "upsert"
        /\ project[c.project].status = "published"
        /\ project[c.project].revision = c.revision
        /\ Apply(w, c, "read", [revision |-> c.revision, content |-> 0])

\* It returns another revision: the claim fails and nothing is posted.
ApplyStale(w) ==
    \E c \in batch[w] :
        /\ c.action = "upsert"
        /\ project[c.project].status = "published"
        /\ project[c.project].revision # c.revision
        /\ Apply(w, c, "failed", NoDocument)

\* It fails.
ApplyFails(w) ==
    \E c \in batch[w] :
        /\ c.action = "upsert"
        /\ Apply(w, c, "failed", NoDocument)

\* The remaining queries of the build, each on the pool; the last reads newest.
ReadContent(w) ==
    /\ Running(w)
    /\ pc[w] = "read"
    /\ document' = [document EXCEPT ![w].content =
                        project[claim[w].project].revision]
    /\ pc' = [pc EXCEPT ![w] = "post"]
    /\ UNCHANGED <<databaseVars, process, batch, claim, ahead, engineVars>>

\* A step of the application fails: a query, the post, the task or its poll.
FailApplication(w) ==
    /\ pc' = [pc EXCEPT ![w] = "failed"]
    /\ ahead' = [ahead EXCEPT ![w] = 0]
    /\ UNCHANGED <<databaseVars, process, batch, claim, document>>

ReadContentFails(w) ==
    /\ Running(w)
    /\ pc[w] = "read"
    /\ FailApplication(w)
    /\ UNCHANGED engineVars

\* The engine accepts the worker's task behind those it already holds.
Accept(w) ==
    LET p == claim[w].project
    IN  /\ Running(w)
        /\ pc[w] = "post"
        /\ Len(tasks[p]) < MaxTasks
        /\ tasks' = [tasks EXCEPT ![p] = Append(@, document[w])]
        /\ UNCHANGED index

Post(w) ==
    /\ Accept(w)
    /\ pc' = [pc EXCEPT ![w] = "wait"]
    /\ ahead' = [ahead EXCEPT ![w] = Len(tasks[claim[w].project]) + 1]
    /\ UNCHANGED <<databaseVars, process, batch, claim, document>>

\* The engine accepted the task but the worker sees an error.
PostUnacknowledged(w) ==
    /\ Accept(w)
    /\ FailApplication(w)

PostRefused(w) ==
    /\ Running(w)
    /\ pc[w] = "post"
    /\ FailApplication(w)
    /\ UNCHANGED engineVars

\* Ten seconds pass, or a poll fails; the accepted task is not withdrawn.
GiveUpWaiting(w) ==
    /\ Running(w)
    /\ pc[w] = "wait"
    /\ FailApplication(w)
    /\ UNCHANGED engineVars

\* Mutated forms of the marks' WHERE clause.
HoldsClaimIgnoringRevision(w) ==
    row[claim[w].project].state # "absent"

HoldsClaimIgnoringOwner(w) ==
    LET r == row[claim[w].project]
    IN  r.desired = claim[w].revision /\ r.state = "processing"

\* WHERE desired_revision=$2 AND state='processing' AND lease_owner=$3
HoldsClaim(w) ==
    LET r == row[claim[w].project]
    IN  /\ r.desired = claim[w].revision
        /\ r.state = "processing"
        /\ r.owner = w

\* A mark updates the row only while the worker still holds it.
Mark(w, marked) ==
    /\ Running(w)
    /\ IF HoldsClaim(w)
       THEN /\ row' = [row EXCEPT ![claim[w].project] = marked]
            /\ Touch({claim[w].project})
       ELSE UNCHANGED <<row, updatedBefore>>
    /\ Finish(w)
    /\ UNCHANGED <<project, process, batch, engineVars>>

\* A mutated form: the mark does not wait for the engine's task.
TaskDoneUnchecked(w) == pc[w] = "wait"

TaskDone(w) == pc[w] = "wait" /\ ahead[w] = 0

Confirmed(r) == [r EXCEPT !.indexed = r.desired, !.state = "synced",
                          !.owner = NoWorker, !.expired = FALSE]

MarkSucceeded(w) ==
    /\ TaskDone(w)
    /\ Mark(w, Confirmed(row[claim[w].project]))

Rejected(r) == [r EXCEPT !.state = "failed", !.owner = NoWorker,
                         !.expired = FALSE, !.due = FALSE]

MarkFailed(w) ==
    /\ pc[w] = "failed"
    /\ Mark(w, Rejected(row[claim[w].project]))

\* The mark itself fails: the row waits for its lease to expire.
MarkLost(w) ==
    /\ Running(w)
    /\ TaskDone(w) \/ pc[w] = "failed"
    /\ Finish(w)
    /\ UNCHANGED <<databaseVars, process, batch, engineVars>>

-------------------------------------------------------------------------------
(* Time and the engine.                                                      *)

LeaseExpires(p) ==
    /\ row[p].state = "processing"
    /\ ~row[p].expired
    /\ row' = [row EXCEPT ![p].expired = TRUE]
    /\ UNCHANGED <<project, updatedBefore, workerVars, engineVars>>

RetryDue(p) ==
    /\ row[p].state = "failed"
    /\ ~row[p].due
    /\ row' = [row EXCEPT ![p].due = TRUE]
    /\ UNCHANGED <<project, updatedBefore, workerVars, engineVars>>

Awaits(w, p) == pc[w] = "wait" /\ claim[w].project = p /\ ahead[w] > 0

\* The engine finishes the oldest task of p.
Dequeue(p) ==
    /\ tasks[p] # <<>>
    /\ tasks' = [tasks EXCEPT ![p] = Tail(@)]
    /\ ahead' = [w \in Workers |->
                   IF Awaits(w, p) THEN ahead[w] - 1 ELSE ahead[w]]
    /\ UNCHANGED <<databaseVars, process, batch, claim, document>>

TaskSucceeds(p) ==
    /\ Dequeue(p)
    /\ index' = [index EXCEPT ![p] = Head(tasks[p])]
    /\ UNCHANGED pc

\* The engine fails the task; the worker whose task it was sees that.
TaskFails(p) ==
    /\ Dequeue(p)
    /\ pc' = [w \in Workers |->
                IF Awaits(w, p) /\ ahead[w] = 1 THEN "failed" ELSE pc[w]]
    /\ UNCHANGED index

-------------------------------------------------------------------------------

Reconcile(w) ==
    \/ ClaimSync(w) \/ ApplyRemoval(w) \/ ApplyUpsert(w) \/ ApplyStale(w)
    \/ ReadContent(w) \/ Post(w) \/ MarkSucceeded(w) \/ MarkFailed(w)

Disturb(w) ==
    \/ Crash(w) \/ ClaimSyncLost(w) \/ ApplyFails(w) \/ ReadContentFails(w)
    \/ PostUnacknowledged(w) \/ PostRefused(w) \/ GiveUpWaiting(w) \/ MarkLost(w)

Engine(p) == TaskSucceeds(p) \/ TaskFails(p)

Next ==
    \/ \E p \in Projects : Edit(p) \/ LeaseExpires(p) \/ RetryDue(p) \/ Engine(p)
    \/ \E w \in Workers : Start(w) \/ Reconcile(w) \/ Disturb(w)

Spec == Init /\ [][Next]_vars

-------------------------------------------------------------------------------
(* Properties.                                                               *)

\* A row that says synced is true: nothing for the project is left in the
\* engine's queue and searches find exactly its committed, published content.
\* Edits may race with every step of an application, workers may die between
\* any two, tasks may run long after the worker gave up on them.  Holds for
\* one API process at a time, the deployment of compose.yaml.
SyncedIsFresh ==
    \A p \in Projects :
        row[p].state = "synced" => tasks[p] = <<>> /\ index[p] = Wanted(p)

\* Searches never fall back behind a revision that was confirmed: no late task
\* brings back a document older than indexed_revision.  One process at a time.
NeverBehindConfirmed ==
    \A p \in Projects :
        index[p] # NoDocument => index[p].revision >= row[p].indexed

\* A row that becomes synced is completed by a worker that holds its document.
Completion ==
    \A p \in Projects :
        row[p].state # "synced" /\ row'[p].state = "synced" =>
            \E w \in Workers : /\ claim[w] # NoClaim
                               /\ claim[w].project = p
                               /\ document[w] = Wanted(p)
                               /\ ahead[w] = 0

\* The worker that completes a row has had the engine apply exactly what the
\* project wants at that moment, however many processes there are: the
\* revision in markSucceeded's WHERE also rules out a document whose reads
\* straddled an edit.
CompletionIsCurrent == [][Completion]_vars

\* How a worker's row may leave it.
Surrender ==
    \A p \in Projects, w \in Workers :
        row[p].owner = w /\ row'[p].owner # w =>
            \/ row'[p].state = "pending"
            \/ row[p].expired
            \/ /\ claim[w] # NoClaim
               /\ claim[w].project = p
               /\ claim'[w] = NoClaim

\* A worker loses a row only to its own mark, to a new request for the project,
\* or, after its lease expired, to another worker.  Any number of processes.
LeaseRespected == [][Surrender]_vars

\* What may go wrong while the reconciler works on p.
Faults(p) ==
    \E w \in Workers :
        \/ ClaimSyncLost(w)
        \/ Disturb(w) /\ claim[w] # NoClaim /\ claim[w].project = p
        \/ ApplyFails(w) /\ claim'[w].project = p

\* If requests for p cease, work on p meets no more faults and some process
\* stays up, searches come to show p as it is and go on doing so, whatever
\* happens to other projects: no project starves behind another that is edited
\* or fails for ever.
Converges ==
    \A p \in Projects :
        /\ <>[][~Edit(p)]_vars
        /\ <>[][~Faults(p) /\ ~TaskFails(p)]_vars
        /\ <>[](\E w \in Workers : Running(w))
        => <>[](index[p] = Wanted(p) /\ row[p].state \in {"synced", "absent"})

(* The inductive invariant.                                                  *)

\* Each transaction leaves the row asking for what the project is.
RowTracksProject ==
    \A p \in Projects :
        /\ row[p].state = "absent" <=> project[p].status = "none"
        /\ row[p].desired = project[p].revision
        /\ row[p].action = ActionFor(project[p].status)
        /\ row[p].state = "processing" <=> row[p].owner # NoWorker
        /\ row[p].indexed <= row[p].desired
        /\ project[p].status = "deleted" => project[p].preDelete \in {"draft", "published"}

Outstanding(w) == batch[w] \cup ({claim[w]} \ {NoClaim})

\* A claim is a request the project once made: the current one or an older one.
ClaimsFollowProject ==
    \A w \in Workers :
        /\ pc[w] = "idle" <=> claim[w] = NoClaim
        /\ \A c \in Outstanding(w) :
            /\ c.revision <= project[c.project].revision
            /\ c.revision = project[c.project].revision
                 => c.action = ActionFor(project[c.project].status)

\* While the project stays at the claimed revision the document is right.
DocumentOK(w) ==
    LET p == claim[w].project
        current == project[p].revision = claim[w].revision
    IN  /\ pc[w] = "read" =>
            /\ document[w] # NoDocument
            /\ document[w].revision = claim[w].revision
            /\ current => project[p].status = "published"
        /\ pc[w] \in {"post", "wait"} =>
            /\ current => document[w] = Wanted(p)
            /\ document[w] # NoDocument => document[w].revision = claim[w].revision

DocumentFollowsProject == \A w \in Workers : DocumentOK(w)

OneProcess == \A v, w \in Workers : Running(v) /\ Running(w) => v = w

\* With one process, what it holds is leased to it or asked for anew.
OwnsRows(w) ==
    /\ ~Running(w) => batch[w] = {} /\ pc[w] = "idle"
    /\ claim[w] \notin batch[w]
    /\ \A c, d \in Outstanding(w) : c.project = d.project => c = d
    /\ \A c \in Outstanding(w) :
        /\ row[c.project].indexed <= c.revision
        /\ \/ row[c.project].state = "pending"
           \/ row[c.project].state = "processing" /\ row[c.project].owner = w

ClaimsOwnRows == \A w \in Workers : OwnsRows(w)

\* With one process, the task a worker waits for is the youngest of its project.
WaitsForYoungest(w) ==
    LET p == claim[w].project
    IN  pc[w] = "wait" =>
            /\ ahead[w] = Len(tasks[p])
            /\ IF tasks[p] = <<>> THEN index[p] = document[w]
               ELSE tasks[p][Len(tasks[p])] = document[w]

WaitsForLastTask == \A w \in Workers : WaitsForYoungest(w)

QueueNotBehindConfirmed ==
    \A p \in Projects : \A i \in 1 .. Len(tasks[p]) :
        tasks[p][i] # NoDocument => tasks[p][i].revision >= row[p].indexed

\* Holds for any number of processes.
CommonInv ==
    TypeOK /\ RowTracksProject /\ ClaimsFollowProject /\ DocumentFollowsProject

\* Inductive when processes do not overlap; implies the two invariants above.
SingleInv ==
    /\ CommonInv
    /\ OneProcess
    /\ ClaimsOwnRows
    /\ WaitsForLastTask
    /\ SyncedIsFresh
    /\ NeverBehindConfirmed
    /\ QueueNotBehindConfirmed
===============================================================================
