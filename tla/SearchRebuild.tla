--------------------------- MODULE SearchRebuild ---------------------------
(***************************************************************************)
(* Rebuilding the search index (internal/search: reconciler.go,            *)
(* maintenance.go, client.go): a rebuild fills a second index, freezes the *)
(* projects with table locks, fills it again, swaps it with the live one   *)
(* and records that every project is indexed.  Between rebuilds the same   *)
(* process reconciles single projects.  The engine runs the tasks it       *)
(* accepted one after the other, also those nobody waits for any more.     *)
(* The outbox itself is SearchSync's subject; here a row is only pending,  *)
(* processing or synced.                                                   *)
(***************************************************************************)
EXTENDS Naturals, FiniteSets, Sequences

CONSTANTS
  Projects, Processes,
  Reconcilers,   \* the processes whose reconciler works next to rebuilds
  Operations,    \* rebuild operations, 1..n; each names a physical index
  MaxRevision,   \* bound: edits of a project
  MaxCrashes,    \* bound: processes that end
  MaxTasks,      \* bound: tasks the engine has not run yet
  MarksFail,     \* may the update that records a failure fail as well?
  Nil

ASSUME RebuildAssumption ==
  /\ Operations \subseteq Nat \ {0} /\ MaxRevision \in Nat \ {0}
  /\ Reconcilers \subseteq Processes /\ Nil \notin Processes

VARIABLES
  content,   \* projects: revision and whether it is published
  rows,      \* project_search_sync, reduced to state, owner and revision
  ops,       \* search_rebuild_operations: their state
  index,     \* the engine's indexes: revision of a document, 0 without one
  tasks,     \* tasks the engine accepted, oldest first
  proc,      \* what each process is doing
  locked,    \* processes that hold SHARE locks on the projects' tables
  crashes

vars == <<content, rows, ops, index, tasks, proc, locked, crashes>>

Live == 0
Idle == [pc |-> "idle"]
Down == [pc |-> "down"]
NoDocuments == [p \in Projects |-> 0]

\* What BuildProjectDocument returns: the published content or nothing.
Wanted(p) == IF content[p].published THEN content[p].revision ELSE 0
Published == {p \in Projects : content[p].published}
Active == {o \in Operations : ops[o] \in {"pending", "processing"}}

Put(q, name, documents) == [kind |-> "put", by |-> q, index |-> name, documents |-> documents]
Swap(q, name) == [kind |-> "swap", by |-> q, index |-> name]

\* Applying a task: documents replace those of the same project, a swap
\* exchanges two indexes.
Run(task, indexes) ==
  IF task.kind = "swap"
  THEN [indexes EXCEPT ![Live] = indexes[task.index], ![task.index] = indexes[Live]]
  ELSE [indexes EXCEPT ![task.index] =
         [p \in Projects |-> IF p \in DOMAIN task.documents THEN task.documents[p] ELSE @[p]]]

Reconciling == {"claimed", "built", "sent"}
Rebuilding == {"list", "build", "filled", "locked", "refilled", "swapped"}

Waiting(q) == \E i \in DOMAIN tasks : tasks[i].by = q
Forget(q) == [i \in DOMAIN tasks |-> IF tasks[i].by = q THEN [tasks[i] EXCEPT !.by = Nil] ELSE tasks[i]]
Done(q, pc) == proc[q].pc = pc /\ ~Waiting(q)

Init ==
  /\ content = [p \in Projects |-> [revision |-> 1, published |-> TRUE]]
  /\ rows = [p \in Projects |-> [state |-> "pending", owner |-> Nil]]
  /\ ops = [o \in Operations |-> "absent"]
  /\ index = [o \in Operations \cup {Live} |-> NoDocuments]
  /\ tasks = << >>
  /\ proc = [q \in Processes |-> Down]
  /\ locked = {}
  /\ crashes = 0

----------------------------------------------------------------------------
\* Changes of a project wait for the SHARE locks of a rebuild; they ask for
\* the project's projection in their transaction.
Edit(p, published) ==
  /\ locked = {}
  /\ content[p].revision < MaxRevision
  /\ content' = [content EXCEPT ![p] = [revision |-> @.revision + 1, published |-> published]]
  /\ rows' = [rows EXCEPT ![p] = [state |-> "pending", owner |-> Nil]]
  /\ UNCHANGED <<ops, index, tasks, proc, locked, crashes>>

\* CreateRebuild: the unique index allows one active operation.
CreateRebuild(o) ==
  /\ Active = {} /\ ops[o] = "absent" /\ \A k \in Operations : k < o => ops[k] # "absent"
  /\ ops' = [ops EXCEPT ![o] = "pending"]
  /\ UNCHANGED <<content, rows, index, tasks, proc, locked, crashes>>

\* Mutated form: a start leaves operations of an earlier process alone.
Start_NoRecovery(q) ==
  /\ proc[q] = Down
  /\ proc' = [proc EXCEPT ![q] = Idle]
  /\ UNCHANGED <<content, rows, ops, index, tasks, locked, crashes>>

\* Run, on start: an operation in processing is taken for one that a restart
\* interrupted.
Start(q) ==
  /\ proc[q] = Down
  /\ ops' = [o \in Operations |-> IF ops[o] = "processing" THEN "failed" ELSE ops[o]]
  /\ proc' = [proc EXCEPT ![q] = Idle]
  /\ UNCHANGED <<content, rows, index, tasks, locked, crashes>>

Crash(q) ==
  /\ proc[q] # Down /\ crashes < MaxCrashes
  /\ crashes' = crashes + 1
  /\ proc' = [proc EXCEPT ![q] = Down]
  /\ locked' = locked \ {q}
  /\ tasks' = Forget(q)
  /\ UNCHANGED <<content, rows, ops, index>>

----------------------------------------------------------------------------
\* ProcessRebuildOnce, claimRebuild
ClaimRebuild(q, o) ==
  /\ proc[q] = Idle /\ ops[o] = "pending"
  /\ ops' = [ops EXCEPT ![o] = "processing"]
  /\ proc' = [proc EXCEPT ![q] = [pc |-> "list", op |-> o]]
  /\ UNCHANGED <<content, rows, index, tasks, locked, crashes>>

\* executeRebuild: the published projects are listed ...
ListProjects(q) ==
  /\ proc[q].pc = "list"
  /\ proc' = [proc EXCEPT ![q] = [pc |-> "build", op |-> @.op, initial |-> Published]]
  /\ UNCHANGED <<content, rows, ops, index, tasks, locked, crashes>>

\* ... and their documents built without a lock, those still published.
BuildDocuments(q) ==
  /\ proc[q].pc = "build" /\ Len(tasks) < MaxTasks
  /\ LET found == proc[q].initial \cap Published IN
     tasks' = Append(tasks, Put(q, proc[q].op, [p \in found |-> Wanted(p)]))
  /\ proc' = [proc EXCEPT ![q].pc = "filled"]
  /\ UNCHANGED <<content, rows, ops, index, locked, crashes>>

\* Mutated form: the index is filled again without the locks.
LockTables_None(q) ==
  /\ Done(q, "filled")
  /\ proc' = [proc EXCEPT ![q].pc = "locked"]
  /\ UNCHANGED <<content, rows, ops, index, tasks, locked, crashes>>

\* LOCK TABLE ... IN SHARE MODE: SHARE locks do not conflict with each other.
LockTables(q) ==
  /\ Done(q, "filled")
  /\ locked' = locked \cup {q}
  /\ proc' = [proc EXCEPT ![q].pc = "locked"]
  /\ UNCHANGED <<content, rows, ops, index, tasks, crashes>>

\* Documents of the initial list that are gone are deleted, all published ones
\* are written again.
FinalDocuments(q) == [p \in Published \cup proc[q].initial |-> Wanted(p)]

RefillIndex(q) ==
  /\ proc[q].pc = "locked" /\ Len(tasks) < MaxTasks
  /\ tasks' = Append(tasks, Put(q, proc[q].op, FinalDocuments(q)))
  /\ proc' = [proc EXCEPT ![q].pc = "refilled"]
  /\ UNCHANGED <<content, rows, ops, index, locked, crashes>>

\* Stats: the index holds as many documents as projects are published.
CountMatches(q) ==
  Cardinality({p \in Projects : index[proc[q].op][p] # 0}) = Cardinality(Published)

SwapIndexes(q) ==
  /\ Done(q, "refilled") /\ CountMatches(q) /\ Len(tasks) < MaxTasks
  /\ tasks' = Append(tasks, Swap(q, proc[q].op))
  /\ proc' = [proc EXCEPT ![q].pc = "swapped"]
  /\ UNCHANGED <<content, rows, ops, index, locked, crashes>>

\* Mutated form: the operation's state is not compared.
CompleteRebuild_AnyState(q) ==
  /\ Done(q, "swapped")
  /\ rows' = [p \in Projects |-> [state |-> "synced", owner |-> Nil]]
  /\ ops' = [ops EXCEPT ![proc[q].op] = "completed"]
  /\ locked' = locked \ {q}
  /\ proc' = [proc EXCEPT ![q] = Idle]
  /\ UNCHANGED <<content, index, tasks, crashes>>

\* The transaction marks every row synced and the operation completed, unless
\* a starting process has declared it failed meanwhile, and commits.
CompleteRebuild(q) ==
  /\ Done(q, "swapped")
  /\ rows' = [p \in Projects |-> [state |-> "synced", owner |-> Nil]]
  /\ ops' = [ops EXCEPT ![proc[q].op] = IF @ = "processing" THEN "completed" ELSE @]
  /\ locked' = locked \ {q}
  /\ proc' = [proc EXCEPT ![q] = Idle]
  /\ UNCHANGED <<content, index, tasks, crashes>>

\* Any error or timeout of executeRebuild: the transaction rolls back, tasks
\* in the engine's queue stay there, the operation is marked failed.
FailRebuild(q) ==
  /\ proc[q].pc \in Rebuilding
  /\ \/ ops' = [ops EXCEPT ![proc[q].op] = IF @ = "processing" THEN "failed" ELSE @]
     \/ MarksFail /\ UNCHANGED ops
  /\ locked' = locked \ {q}
  /\ tasks' = Forget(q)
  /\ proc' = [proc EXCEPT ![q] = Idle]
  /\ UNCHANGED <<content, rows, index, crashes>>

----------------------------------------------------------------------------
\* ReconcileOnce for one row; a lease expires only when its owner has stopped
\* working on it (SearchSync has leases that expire under a live owner).
Abandoned(p) ==
  rows[p].state = "processing"
    /\ ~(\E q \in Processes : rows[p].owner = q /\ proc[q].pc \in Reconciling /\ proc[q].project = p)

ClaimRow(q, p) ==
  /\ q \in Reconcilers /\ proc[q] = Idle
  /\ rows[p].state = "pending" \/ Abandoned(p)
  /\ rows' = [rows EXCEPT ![p] = [state |-> "processing", owner |-> q]]
  /\ proc' = [proc EXCEPT ![q] = [pc |-> "claimed", project |-> p]]
  /\ UNCHANGED <<content, ops, index, tasks, locked, crashes>>

\* applyClaim reads the project ...
BuildRow(q) ==
  /\ proc[q].pc = "claimed"
  /\ LET p == proc[q].project IN
     proc' = [proc EXCEPT ![q] = [pc |-> "built", project |-> p, document |-> Wanted(p)]]
  /\ UNCHANGED <<content, rows, ops, index, tasks, locked, crashes>>

\* ... and posts or deletes its document.
SendRow(q) ==
  /\ proc[q].pc = "built" /\ Len(tasks) < MaxTasks
  /\ tasks' = Append(tasks, Put(q, Live, [r \in {proc[q].project} |-> proc[q].document]))
  /\ proc' = [proc EXCEPT ![q] = [pc |-> "sent", project |-> @.project]]
  /\ UNCHANGED <<content, rows, ops, index, locked, crashes>>

\* markSucceeded and markFailed, which compare state, owner and revision.
MarkRow(q, state) ==
  LET p == proc[q].project IN
  /\ state = "synced" => Done(q, "sent")
  /\ proc[q].pc \in Reconciling
  /\ rows' = IF rows[p] = [state |-> "processing", owner |-> q]
             THEN [rows EXCEPT ![p] = [state |-> state, owner |-> Nil]] ELSE rows
  /\ tasks' = Forget(q)
  /\ proc' = [proc EXCEPT ![q] = Idle]
  /\ UNCHANGED <<content, ops, index, locked, crashes>>

----------------------------------------------------------------------------
\* The engine runs its oldest task.
RunTask ==
  /\ tasks # << >>
  /\ index' = Run(Head(tasks), index)
  /\ tasks' = Tail(tasks)
  /\ UNCHANGED <<content, rows, ops, proc, locked, crashes>>

Rebuild(q) ==
  \/ \E o \in Operations : ClaimRebuild(q, o)
  \/ ListProjects(q) \/ BuildDocuments(q) \/ LockTables(q) \/ RefillIndex(q)
  \/ SwapIndexes(q) \/ CompleteRebuild(q) \/ FailRebuild(q)
Reconcile(q) ==
  \/ \E p \in Projects : ClaimRow(q, p)
  \/ BuildRow(q) \/ SendRow(q)
  \/ \E state \in {"synced", "pending"} : MarkRow(q, state)

Next ==
  \/ \E p \in Projects, published \in BOOLEAN : Edit(p, published)
  \/ \E o \in Operations : CreateRebuild(o)
  \/ \E q \in Processes : Start(q) \/ Crash(q) \/ Rebuild(q) \/ Reconcile(q)
  \/ RunTask

Spec == Init /\ [][Next]_vars

----------------------------------------------------------------------------
TypeOK ==
  /\ content \in [Projects -> [revision : 1..MaxRevision, published : BOOLEAN]]
  /\ \A p \in Projects : rows[p].owner # Nil <=> rows[p].state = "processing"
  /\ ops \in [Operations -> {"absent", "pending", "processing", "completed", "failed"}]
  /\ index \in [Operations \cup {Live} -> [Projects -> 0..MaxRevision]]
  /\ locked \subseteq {q \in Processes : proc[q].pc \in {"locked", "refilled", "swapped"}}
  /\ Cardinality(Active) <= 1

\* A row that says synced is right about the index that searches use: it holds
\* the project's current document, or none when it is not published, whatever
\* was swapped, failed or interrupted, and whatever the engine still runs.
SyncedMeansIndexed == \A p \in Projects : rows[p].state = "synced" => index[Live][p] = Wanted(p)

\* Searching never goes backwards: a document that is current and recorded as
\* such stays, also when the index is swapped, until its project changes.
NeverBackwards ==
  [][\A p \in Projects :
       rows[p].state = "synced" /\ index[Live][p] = Wanted(p) /\ content'[p] = content[p]
         => index'[Live][p] = Wanted(p)]_vars

\* What an administrator was told about a rebuild that ended stays true, also
\* when a starting process declared it failed while it was running.
RebuildEndsOnce ==
  [][\A o \in Operations : ops[o] \in {"completed", "failed"} => ops'[o] = ops[o]]_vars

\* A completed rebuild has indexed every project that was published then.
CompletedMeansIndexed ==
  [][\A o \in Operations : ops[o] # "completed" /\ ops'[o] = "completed" =>
       \A p \in Projects : index[Live][p] = Wanted(p)]_vars

\* An operation that has ended stays as it is, and one that ends as completed
\* leaves every project's document, or none, in the index that searches use; and
\* on the way there searches never lose a document they had.
RebuildsEndRight == RebuildEndsOnce /\ CompletedMeansIndexed /\ NeverBackwards

\* A requested rebuild ends: none blocks the next one for ever.
RebuildEnds ==
  \A o \in Operations : ops[o] \in {"pending", "processing"} ~> ops[o] \in {"completed", "failed"}
=============================================================================
