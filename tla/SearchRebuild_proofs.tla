-------------------------- MODULE SearchRebuild_proofs --------------------------
(***************************************************************************)
(* Proofs about rebuilding the search index, for any projects, processes,  *)
(* operations and bounds.  While rows are reconciled next to another       *)
(* process's rebuild a later answer may overwrite an earlier one (that is  *)
(* SearchSync's subject); the theorems are about the deployments without:  *)
(* rebuilds only, by any number of processes, or one process that does     *)
(* both.  The last part is about the connections and locks that rebuilds   *)
(* and requests share.                                                     *)
(***************************************************************************)
EXTENDS SearchRebuild, ConnectionPool, FiniteSetTheorems, SequenceTheorems, TLAPS

NoRowsBeside == Reconcilers = {} \/ \A q, r \in Processes : q = r

-----------------------------------------------------------------------------
(* The inductive invariant. *)

Filling == {"build", "filled", "locked", "refilled", "swapped"}
Locking == {"locked", "refilled", "swapped"}

States ==
  {Idle, Down} \cup [pc : {"list"}, op : Operations]
    \cup [pc : Filling, op : Operations, initial : SUBSET Projects]
    \cup [pc : {"claimed", "sent"}, project : Projects]
    \cup [pc : {"built"}, project : Projects, document : 0..MaxRevision]

Owners == Processes \cup {Nil}
Documents == UNION {[S -> 0..MaxRevision] : S \in SUBSET Projects}
Puts == [kind : {"put"}, by : Owners, index : Operations \cup {Live}, documents : Documents]
Swaps == [kind : {"swap"}, by : Owners, index : Operations]

Types ==
  /\ content \in [Projects -> [revision : 1..MaxRevision, published : BOOLEAN]]
  /\ rows \in [Projects -> [state : {"pending", "processing", "synced"}, owner : Owners]]
  /\ \A p \in Projects : rows[p].owner # Nil <=> rows[p].state = "processing"
  /\ ops \in [Operations -> {"absent", "pending", "processing", "completed", "failed"}]
  /\ index \in [Operations \cup {Live} -> [Projects -> 0..MaxRevision]]
  /\ tasks \in Seq(Puts \cup Swaps)
  /\ proc \in [Processes -> States]
  /\ locked = {q \in Processes : proc[q].pc \in Locking}

\* An index holds every project's document.
Full(name) == \A p \in Projects : index[name][p] = Wanted(p)

\* The unique index on active operations; nothing happens to one before it
\* is claimed.
OperationsInTurn ==
  /\ \A o1, o2 \in Active : o1 = o2
  /\ \A o \in Operations : ops[o] \in {"absent", "pending"} =>
       index[o] = NoDocuments /\ \A i \in DOMAIN tasks : tasks[i].index # o

\* A process works on an operation of its own, and so do the tasks.
WorkersApart ==
  /\ \A q \in Processes : proc[q].pc \in Rebuilding => ops[proc[q].op] \in {"processing", "failed"}
  /\ \A q, r \in Processes :
       proc[q].pc \in Rebuilding /\ proc[r].pc \in Rebuilding /\ proc[q].op = proc[r].op => q = r
  /\ \A i, j \in DOMAIN tasks : tasks[i].index = tasks[j].index /\ i # j => tasks[i].index = Live

\* Whose task is in the queue, and what it is for.
TaskFits(i, q) ==
  \/ proc[q].pc \in {"filled", "refilled"} /\ tasks[i].kind = "put" /\ tasks[i].index = proc[q].op
  \/ proc[q].pc = "swapped" /\ tasks[i].kind = "swap" /\ tasks[i].index = proc[q].op
  \/ proc[q].pc = "sent" /\ tasks[i].kind = "put" /\ tasks[i].index = Live
TasksFit ==
  \A i \in DOMAIN tasks :
    /\ \A q \in Processes : tasks[i].by = q => TaskFits(i, q)
    /\ \A q \in Processes : proc[q].pc \in Rebuilding /\ tasks[i].index = proc[q].op => tasks[i].by = q
    /\ tasks[i].kind = "put" /\ tasks[i].index = Live => Reconcilers # {}

\* Until the tables are locked the new index holds documents of listed
\* projects only; then the content is frozen and the second fill completes it.
OnlyListed(q) ==
  \A p \in Projects \ proc[q].initial : index[proc[q].op][p] = 0
Fills(q) ==
  /\ proc[q].pc \in {"list", "build"} => index[proc[q].op] = NoDocuments
  /\ proc[q].pc \in {"filled", "locked"} =>
       /\ OnlyListed(q)
       /\ \A i \in DOMAIN tasks : tasks[i].by = q => DOMAIN tasks[i].documents \subseteq proc[q].initial
  /\ proc[q].pc = "refilled" =>
       \/ Full(proc[q].op) /\ \A i \in DOMAIN tasks : tasks[i].by # q
       \/ /\ OnlyListed(q)
          /\ \E i \in DOMAIN tasks : tasks[i].by = q /\ tasks[i].documents = FinalDocuments(q)
  /\ proc[q].pc = "swapped" =>
       \/ Full(proc[q].op) /\ \E i \in DOMAIN tasks : tasks[i].by = q
       \/ Full(Live) /\ \A i \in DOMAIN tasks : tasks[i].by # q
FillsUp == \A q \in Processes : Fills(q)

\* A task that cannot make the live index worse: it fills an index of an
\* operation or swaps in a full one.
Clean(i) ==
  /\ tasks[i].index # Live
  /\ tasks[i].kind = "swap" => Full(tasks[i].index)
CleanAfter(q) ==
  /\ proc[q].pc = "refilled" =>
       \A i \in DOMAIN tasks : (\A j \in DOMAIN tasks : tasks[j].by = q => j < i) => Clean(i)
  /\ proc[q].pc = "swapped" => \A i \in DOMAIN tasks : Clean(i)
CleanFromHere == \A q \in Processes : CleanAfter(q)

\* Tasks nobody waits for any more, and those under way, leave synced rows
\* right.
RowsStayRight ==
  \A i \in DOMAIN tasks, p \in Projects : rows[p].state = "synced" =>
    /\ tasks[i].kind = "swap" => index[tasks[i].index][p] = Wanted(p)
    /\ tasks[i].kind = "put" /\ tasks[i].index = Live => p \notin DOMAIN tasks[i].documents

\* A process that reconciles is alone: its row is not synced, what it built is
\* current as long as it owns the row, and its task is the last one.
Owns(q) == rows[proc[q].project] = [state |-> "processing", owner |-> q]
RowAlone(q) ==
  proc[q].pc \in Reconciling =>
    /\ q \in Reconcilers
    /\ rows[proc[q].project].state # "synced"
    /\ proc[q].pc = "built" /\ Owns(q) => proc[q].document = Wanted(proc[q].project)
    /\ proc[q].pc = "sent" /\ tasks # << >> => tasks[Len(tasks)].by = q
    /\ proc[q].pc = "sent" /\ Owns(q) =>
         IF tasks = << >> THEN index[Live][proc[q].project] = Wanted(proc[q].project)
         ELSE tasks[Len(tasks)].documents = [r \in {proc[q].project} |-> Wanted(proc[q].project)]
RowsAlone == \A q \in Processes : RowAlone(q)

RebuildIInv ==
  /\ Types /\ OperationsInTurn /\ WorkersApart /\ TasksFit /\ FillsUp
  /\ CleanFromHere /\ RowsStayRight /\ RowsAlone /\ SyncedMeansIndexed

-----------------------------------------------------------------------------
(* What the types say of one process, one task and the queue. *)

\* The record a process has in each of its states.
LEMMA StateOf ==
  ASSUME Types, NEW q \in Processes
  PROVE  /\ proc[q].pc \in {"idle", "down"} \cup Rebuilding \cup Reconciling
         /\ proc[q].pc = "idle" <=> proc[q] = Idle
         /\ proc[q].pc = "down" <=> proc[q] = Down
         /\ proc[q].pc \in Rebuilding => proc[q].op \in Operations
         /\ proc[q].pc = "list" => proc[q] = [pc |-> "list", op |-> proc[q].op]
         /\ proc[q].pc \in Filling =>
              /\ proc[q] = [pc |-> proc[q].pc, op |-> proc[q].op, initial |-> proc[q].initial]
              /\ proc[q].initial \subseteq Projects
         /\ proc[q].pc \in Reconciling => proc[q].project \in Projects
         /\ proc[q].pc = "built" => proc[q].document \in 0..MaxRevision
<1>1. proc[q] \in States
  BY DEF Types
<1> QED
  BY <1>1 DEF States, Idle, Down, Filling, Rebuilding, Reconciling

\* The record of a queued task.
LEMMA TaskOf ==
  ASSUME Types, NEW i \in DOMAIN tasks
  PROVE  /\ tasks[i].by \in Owners
         /\ tasks[i].kind \in {"put", "swap"}
         /\ tasks[i].index \in Operations \cup {Live}
         /\ tasks[i].kind = "swap" => tasks[i] \in Swaps /\ tasks[i].index \in Operations
         /\ tasks[i].kind = "put" => tasks[i] \in Puts /\ tasks[i].documents \in Documents
<1>1. tasks[i] \in Puts \cup Swaps
  BY DEF Types
<1> QED
  BY <1>1 DEF Puts, Swaps

\* Live is not the index of an operation, and a document is a revision.
LEMMA Apart ==
  ASSUME Types
  PROVE  /\ Live \notin Operations
         /\ \A p \in Projects : Wanted(p) \in 0..MaxRevision
         /\ \A p \in Projects : ~content[p].published => Wanted(p) = 0
BY RebuildAssumption DEF Types, Live, Wanted

\* A set of documents for some projects.
LEMMA DocumentsAre ==
  ASSUME NEW S \in SUBSET Projects, NEW f \in [S -> 0..MaxRevision]
  PROVE  f \in Documents
BY DEF Documents

\* A queue with one more task.
LEMMA Appended ==
  ASSUME Types, NEW t \in Puts \cup Swaps
  PROVE  LET longer == Append(tasks, t) IN
         /\ longer \in Seq(Puts \cup Swaps)
         /\ DOMAIN tasks = 1..Len(tasks) /\ Len(tasks) \in Nat
         /\ DOMAIN longer = 1..(Len(tasks) + 1)
         /\ \A i \in DOMAIN tasks : i \in DOMAIN longer /\ longer[i] = tasks[i]
         /\ longer[Len(tasks) + 1] = t
         /\ \A i \in DOMAIN longer : i \in DOMAIN tasks \/ i = Len(tasks) + 1
         /\ longer # << >> /\ Len(longer) = Len(tasks) + 1
<1> DEFINE longer == Append(tasks, t)
<1>1. tasks \in Seq(Puts \cup Swaps)
  BY DEF Types
<1>2. longer \in Seq(Puts \cup Swaps) /\ Len(longer) = Len(tasks) + 1 /\ Len(tasks) \in Nat
  BY <1>1
<1>3. DOMAIN longer = 1..(Len(tasks) + 1) /\ DOMAIN tasks = 1..Len(tasks)
  BY <1>1, <1>2
<1>4. \A i \in DOMAIN tasks : i \in DOMAIN longer /\ longer[i] = tasks[i]
  BY <1>1, <1>2, <1>3
<1>5. longer[Len(tasks) + 1] = t
  BY <1>1
<1>6. longer # << >>
  BY <1>2
<1>7. \A i \in DOMAIN longer : i \in DOMAIN tasks \/ i = Len(tasks) + 1
  BY <1>2, <1>3
<1> QED
  BY <1>1, <1>2, <1>3, <1>4, <1>5, <1>6, <1>7

\* The queue without the task that has run.
LEMMA Shortened ==
  ASSUME Types, tasks # << >>
  PROVE  /\ Tail(tasks) \in Seq(Puts \cup Swaps)
         /\ Head(tasks) = tasks[1] /\ 1 \in DOMAIN tasks
         /\ \A i \in DOMAIN Tail(tasks) : i + 1 \in DOMAIN tasks /\ Tail(tasks)[i] = tasks[i + 1]
         /\ \A i \in DOMAIN tasks : i # 1 => i - 1 \in DOMAIN Tail(tasks) /\ Tail(tasks)[i - 1] = tasks[i]
         /\ Len(Tail(tasks)) = Len(tasks) - 1 /\ Len(tasks) \in Nat \ {0}
BY DEF Types

\* What a process leaves behind stays in the queue.
LEMMA Forgotten ==
  ASSUME Types, NEW q \in Processes
  PROVE  /\ Forget(q) \in Seq(Puts \cup Swaps)
         /\ DOMAIN Forget(q) = DOMAIN tasks /\ Len(Forget(q)) = Len(tasks)
         /\ Forget(q) = << >> <=> tasks = << >>
         /\ \A i \in DOMAIN tasks :
              /\ Forget(q)[i].kind = tasks[i].kind
              /\ Forget(q)[i].index = tasks[i].index
              /\ Forget(q)[i].documents = tasks[i].documents
              /\ Forget(q)[i].by # q
              /\ \A r \in Processes : r # q => (Forget(q)[i].by = r <=> tasks[i].by = r)
<1>1. \A i \in DOMAIN tasks : tasks[i] \in Puts \cup Swaps
  BY DEF Types
<1>2. Nil \in Owners /\ Nil # q /\ \A r \in Processes : r # Nil
  BY RebuildAssumption DEF Owners
<1>3. \A i \in DOMAIN tasks : [tasks[i] EXCEPT !.by = Nil] \in Puts \cup Swaps
  BY <1>1, <1>2 DEF Puts, Swaps
<1>4. \A i \in DOMAIN tasks :
        LET f == IF tasks[i].by = q THEN [tasks[i] EXCEPT !.by = Nil] ELSE tasks[i] IN
        /\ f \in Puts \cup Swaps
        /\ f.kind = tasks[i].kind /\ f.index = tasks[i].index /\ f.documents = tasks[i].documents
        /\ f.by # q
        /\ \A r \in Processes : r # q => (f.by = r <=> tasks[i].by = r)
  BY <1>1, <1>2, <1>3 DEF Puts, Swaps
<1>5. DOMAIN tasks = 1..Len(tasks) /\ Len(tasks) \in Nat
  BY DEF Types
<1>6. Forget(q) \in Seq(Puts \cup Swaps) /\ DOMAIN Forget(q) = DOMAIN tasks /\ Len(Forget(q)) = Len(tasks)
  BY <1>4, <1>5 DEF Forget
<1>7. Forget(q) = << >> <=> tasks = << >>
  BY <1>5, <1>6 DEF Types
<1> QED
  BY <1>4, <1>6, <1>7 DEF Forget

-----------------------------------------------------------------------------
(* What a step leaves alone. *)

\* The queue keeps its tasks, and r has no others.
SameTasks(r) ==
  /\ \A i \in DOMAIN tasks :
       /\ i \in DOMAIN tasks'
       /\ tasks'[i].kind = tasks[i].kind /\ tasks'[i].index = tasks[i].index
       /\ tasks'[i].documents = tasks[i].documents
       /\ tasks'[i].by = r <=> tasks[i].by = r
  /\ \A i \in DOMAIN tasks' : tasks'[i].by = r => i \in DOMAIN tasks

\* What is wanted, and which indexes are full, follow from the content.
LEMMA ContentKept ==
  ASSUME Types, content' = content
  PROVE  /\ \A p \in Projects : Wanted(p)' = Wanted(p)
         /\ Published' = Published
         /\ index' = index => \A n \in Operations \cup {Live} : Full(n)' <=> Full(n)
         /\ \A r \in Processes : proc'[r] = proc[r] => FinalDocuments(r)' = FinalDocuments(r)
BY DEF Wanted, Published, Full, FinalDocuments

\* A process whose state, tasks and indexes stay keeps what it has filled.
LEMMA FillsKept ==
  ASSUME Types, NEW r \in Processes, Fills(r), proc'[r] = proc[r], SameTasks(r),
         index' = index, content' = content
  PROVE  Fills(r)'
<1>1. proc[r].pc \in Rebuilding => proc[r].op \in Operations
  BY StateOf
<1>2. CASE proc[r].pc \in Rebuilding
  <2>1. Full(proc[r].op)' <=> Full(proc[r].op)
    BY <1>1, <1>2, ContentKept DEF Full
  <2>2. Full(Live)' <=> Full(Live)
    BY ContentKept DEF Full
  <2>3. OnlyListed(r)' <=> OnlyListed(r)
    BY DEF OnlyListed
  <2>4. FinalDocuments(r)' = FinalDocuments(r)
    BY ContentKept
  <2> QED
    BY <2>1, <2>2, <2>3, <2>4 DEF Fills, SameTasks, NoDocuments
<1>3. CASE proc[r].pc \notin Rebuilding
  BY <1>3 DEF Fills, Rebuilding
<1> QED
  BY <1>2, <1>3

\* ... and the tasks behind its own stay clean.
LEMMA CleanKept ==
  ASSUME Types, NEW r \in Processes, CleanAfter(r), proc'[r] = proc[r], SameTasks(r),
         index' = index, content' = content,
         proc[r].pc \in {"refilled", "swapped"} => \A i \in DOMAIN tasks' \ DOMAIN tasks : Clean(i)'
  PROVE  CleanAfter(r)'
<1>1. \A i \in DOMAIN tasks : Clean(i) => Clean(i)'
  BY TaskOf, ContentKept DEF Clean, SameTasks, Full
<1> QED
  BY <1>1 DEF CleanAfter, SameTasks

-----------------------------------------------------------------------------
(* Steps that end what a process was doing: it crashes, gives up its rebuild *)
(* or is done with its row.                                                  *)

\* The tasks it leaves behind are nobody's; its operation may be failed.
LEMMA LeavesStep ==
  ASSUME RebuildIInv, NEW q \in Processes, NEW state \in {Idle, Down},
         proc' = [proc EXCEPT ![q] = state], tasks' = Forget(q), locked' = locked \ {q},
         UNCHANGED <<content, index>>, ops' \in [Operations -> {"absent", "pending", "processing", "completed", "failed"}],
         \A o \in Operations : ops'[o] = ops[o] \/ (ops[o] = "processing" /\ ops'[o] = "failed")
  PROVE  /\ proc' \in [Processes -> States] /\ tasks' \in Seq(Puts \cup Swaps)
         /\ locked' = {r \in Processes : proc'[r].pc \in Locking}
         /\ OperationsInTurn' /\ WorkersApart' /\ TasksFit' /\ FillsUp' /\ CleanFromHere'
<1> USE DEF RebuildIInv
<1>1. /\ proc \in [Processes -> States] /\ proc'[q] = state
      /\ \A r \in Processes \ {q} : proc'[r] = proc[r]
      /\ state.pc \in {"idle", "down"} /\ state \in States
  BY DEF Types, States, Idle, Down
<1>2. proc' \in [Processes -> States]
  BY <1>1
<1>3. tasks' \in Seq(Puts \cup Swaps)
  BY Forgotten
<1>4. locked' = {r \in Processes : proc'[r].pc \in Locking}
  BY <1>1 DEF Types, Locking
<1>5. /\ \A r \in Processes \ {q} : SameTasks(r)
      /\ \A i \in DOMAIN tasks : tasks'[i].by # q
      /\ DOMAIN tasks' = DOMAIN tasks
      /\ \A i \in DOMAIN tasks : tasks'[i].kind = tasks[i].kind /\ tasks'[i].index = tasks[i].index
  BY Forgotten DEF SameTasks
<1>6. OperationsInTurn'
  BY <1>5 DEF OperationsInTurn, Active, NoDocuments
<1>7. WorkersApart'
  <2>1. \A r \in Processes : proc'[r].pc \in Rebuilding => r # q /\ proc[r].op \in Operations
    BY <1>1, StateOf DEF Rebuilding
  <2>2. \A r \in Processes : proc'[r].pc \in Rebuilding => ops'[proc'[r].op] \in {"processing", "failed"}
    BY <1>1, <2>1 DEF WorkersApart
  <2>3. \A r1, r2 \in Processes :
          proc'[r1].pc \in Rebuilding /\ proc'[r2].pc \in Rebuilding /\ proc'[r1].op = proc'[r2].op => r1 = r2
    BY <1>1, <2>1 DEF WorkersApart
  <2>4. \A i, j \in DOMAIN tasks' : tasks'[i].index = tasks'[j].index /\ i # j => tasks'[i].index = Live
    BY <1>5 DEF WorkersApart
  <2> QED
    BY <2>2, <2>3, <2>4 DEF WorkersApart
<1>8. TasksFit'
  <2> SUFFICES ASSUME NEW i \in DOMAIN tasks
               PROVE  /\ \A r \in Processes : tasks'[i].by = r => TaskFits(i, r)'
                      /\ \A r \in Processes : proc'[r].pc \in Rebuilding /\ tasks'[i].index = proc'[r].op => tasks'[i].by = r
                      /\ tasks'[i].kind = "put" /\ tasks'[i].index = Live => Reconcilers # {}
    BY <1>5 DEF TasksFit
  <2>1. \A r \in Processes \ {q} : (tasks'[i].by = r <=> tasks[i].by = r) /\ (TaskFits(i, r)' <=> TaskFits(i, r))
    BY <1>1, <1>5 DEF SameTasks, TaskFits
  <2>2. tasks'[i].by # q /\ proc'[q].pc \notin Rebuilding
    BY <1>1, <1>5 DEF Rebuilding
  <2> QED
    BY <1>1, <1>5, <2>1, <2>2 DEF TasksFit
<1>9. FillsUp'
  <2> SUFFICES ASSUME NEW r \in Processes PROVE Fills(r)'
    BY DEF FillsUp
  <2>1. CASE r = q
    BY <1>1, <2>1 DEF Fills
  <2>2. CASE r # q
    BY <1>1, <1>5, <2>2, FillsKept DEF FillsUp
  <2> QED
    BY <2>1, <2>2
<1>10. CleanFromHere'
  <2> SUFFICES ASSUME NEW r \in Processes PROVE CleanAfter(r)'
    BY DEF CleanFromHere
  <2>1. CASE r = q
    BY <1>1, <2>1 DEF CleanAfter
  <2>2. CASE r # q
    BY <1>1, <1>5, <2>2, CleanKept DEF CleanFromHere
  <2> QED
    BY <2>1, <2>2
<1> QED
  BY <1>2, <1>3, <1>4, <1>6, <1>7, <1>8, <1>9, <1>10

\* Rows keep what they say when they and the indexes stay.
LEMMA RowsKept ==
  ASSUME RebuildIInv, NEW q \in Processes, tasks' = Forget(q), UNCHANGED <<content, rows, index>>
  PROVE  RowsStayRight' /\ SyncedMeansIndexed'
<1> USE DEF RebuildIInv
<1>1. RowsStayRight'
  BY Forgotten DEF RowsStayRight, Wanted
<1>2. SyncedMeansIndexed'
  BY DEF SyncedMeansIndexed, Wanted
<1> QED
  BY <1>1, <1>2

\* A process that reconciles is the only one; nothing is said of the others.
LEMMA OneReconciles ==
  ASSUME RebuildIInv, NoRowsBeside, NEW r \in Processes, proc[r].pc \in Reconciling
  PROVE  /\ r \in Reconcilers /\ \A q \in Processes : q = r
         /\ proc[r].project \in Projects
BY StateOf DEF RebuildIInv, RowsAlone, RowAlone, NoRowsBeside

\* Stopping keeps the invariant: locks go, tasks stay.
LEMMA CrashStep ==
  ASSUME RebuildIInv, NoRowsBeside, NEW q \in Processes, Crash(q)
  PROVE  RebuildIInv'
<1> USE DEF RebuildIInv, Crash
<1>1. /\ ops \in [Operations -> {"absent", "pending", "processing", "completed", "failed"}]
      /\ Down \in {Idle, Down} /\ UNCHANGED <<content, index>>
      /\ ops' \in [Operations -> {"absent", "pending", "processing", "completed", "failed"}]
      /\ \A o \in Operations : ops'[o] = ops[o] \/ (ops[o] = "processing" /\ ops'[o] = "failed")
      /\ proc' = [proc EXCEPT ![q] = Down] /\ tasks' = Forget(q) /\ locked' = locked \ {q}
  BY DEF Types
<1>2. /\ proc' \in [Processes -> States] /\ tasks' \in Seq(Puts \cup Swaps)
      /\ locked' = {r \in Processes : proc'[r].pc \in Locking}
      /\ OperationsInTurn' /\ WorkersApart' /\ TasksFit' /\ FillsUp' /\ CleanFromHere'
  BY <1>1, LeavesStep
<1>3. RowsStayRight' /\ SyncedMeansIndexed'
  BY RowsKept
<1>4. Types'
  BY <1>1, <1>2 DEF Types
<1>5. RowsAlone'
  <2> SUFFICES ASSUME NEW r \in Processes, proc'[r].pc \in Reconciling PROVE FALSE
    BY DEF RowsAlone, RowAlone
  <2>1. r # q /\ proc'[r] = proc[r]
    BY DEF Types, Reconciling, Down
  <2> QED
    BY <2>1, OneReconciles
<1> QED
  BY <1>2, <1>3, <1>4, <1>5

\* So does a rebuild that fails, wherever it was.
LEMMA FailRebuildStep ==
  ASSUME RebuildIInv, NoRowsBeside, NEW q \in Processes, FailRebuild(q)
  PROVE  RebuildIInv'
<1> USE DEF RebuildIInv, FailRebuild
<1>1. proc[q].op \in Operations
  BY StateOf
<1>2. /\ ops' \in [Operations -> {"absent", "pending", "processing", "completed", "failed"}]
      /\ \A o \in Operations : ops'[o] = ops[o] \/ (ops[o] = "processing" /\ ops'[o] = "failed")
  <2>1. ops' = [ops EXCEPT ![proc[q].op] = IF ops[proc[q].op] = "processing" THEN "failed" ELSE ops[proc[q].op]]
          \/ ops' = ops
    OBVIOUS
  <2>2. ops \in [Operations -> {"absent", "pending", "processing", "completed", "failed"}]
    BY DEF Types
  <2>3. CASE ops' = ops
    BY <2>2, <2>3
  <2>4. CASE ops' = [ops EXCEPT ![proc[q].op] = IF ops[proc[q].op] = "processing" THEN "failed" ELSE ops[proc[q].op]]
    BY <1>1, <2>2, <2>4
  <2> QED
    BY <2>1, <2>3, <2>4
<1>a. Idle \in {Idle, Down} /\ UNCHANGED <<content, index>>
  OBVIOUS
<1>3. /\ proc' \in [Processes -> States] /\ tasks' \in Seq(Puts \cup Swaps)
      /\ locked' = {r \in Processes : proc'[r].pc \in Locking}
      /\ OperationsInTurn' /\ WorkersApart' /\ TasksFit' /\ FillsUp' /\ CleanFromHere'
  BY <1>2, <1>a, LeavesStep
<1>4. RowsStayRight' /\ SyncedMeansIndexed'
  BY RowsKept
<1>5. Types'
  BY <1>2, <1>3 DEF Types
<1>6. RowsAlone'
  <2> SUFFICES ASSUME NEW r \in Processes, proc'[r].pc \in Reconciling PROVE FALSE
    BY DEF RowsAlone, RowAlone
  <2>1. r # q /\ proc'[r] = proc[r]
    BY DEF Types, Reconciling, Idle
  <2> QED
    BY <2>1, OneReconciles
<1> QED
  BY <1>3, <1>4, <1>5, <1>6

\* A row is marked synced when its task, the last one, has run and the row
\* still belongs to the process.
LEMMA MarkRowStep ==
  ASSUME RebuildIInv, NoRowsBeside, NEW q \in Processes, NEW state \in {"synced", "pending"},
         MarkRow(q, state)
  PROVE  RebuildIInv'
<1> USE DEF RebuildIInv
<1> DEFINE p == proc[q].project
<1>1. /\ proc[q].pc \in Reconciling /\ tasks' = Forget(q)
      /\ proc' = [proc EXCEPT ![q] = Idle]
      /\ UNCHANGED <<content, ops, index, locked, crashes>>
      /\ state = "synced" => Done(q, "sent")
      /\ rows' = IF Owns(q) THEN [rows EXCEPT ![p] = [state |-> state, owner |-> Nil]] ELSE rows
  BY DEF MarkRow, Owns
<1>2. p \in Projects /\ \A r \in Processes : r = q
  BY <1>1, OneReconciles
<1>3. /\ ops \in [Operations -> {"absent", "pending", "processing", "completed", "failed"}]
      /\ Idle \in {Idle, Down} /\ UNCHANGED <<content, index>>
      /\ ops' \in [Operations -> {"absent", "pending", "processing", "completed", "failed"}]
      /\ \A o \in Operations : ops'[o] = ops[o] \/ (ops[o] = "processing" /\ ops'[o] = "failed")
  BY <1>1 DEF Types
<1>4. locked' = locked \ {q}
  BY <1>1 DEF Types, Locking, Reconciling
<1>5. /\ proc' \in [Processes -> States] /\ tasks' \in Seq(Puts \cup Swaps)
      /\ locked' = {r \in Processes : proc'[r].pc \in Locking}
      /\ OperationsInTurn' /\ WorkersApart' /\ TasksFit' /\ FillsUp' /\ CleanFromHere'
  BY <1>1, <1>3, <1>4, LeavesStep
<1>6. Types'
  <2>1. /\ rows' \in [Projects -> [state : {"pending", "processing", "synced"}, owner : Owners]]
        /\ \A r \in Projects : rows'[r].owner # Nil <=> rows'[r].state = "processing"
    BY <1>1, <1>2 DEF Types, Owners
  <2> QED
    BY <1>1, <1>5, <2>1 DEF Types
<1>7. RowsAlone'
  BY <1>1, <1>2 DEF RowsAlone, RowAlone, Reconciling, Idle, Types
<1>8. CASE Owns(q) /\ state = "synced"
  <2>1. tasks = << >>
    <3> SUFFICES ASSUME tasks # << >> PROVE FALSE
      OBVIOUS
    <3>1. tasks[Len(tasks)].by = q
      BY <1>1, <1>8 DEF RowsAlone, RowAlone, Done, Reconciling
    <3>2. Len(tasks) \in DOMAIN tasks
      BY DEF Types
    <3> QED
      BY <1>1, <1>8, <3>1, <3>2 DEF Done, Waiting
  <2>2. index[Live][p] = Wanted(p)
    BY <1>1, <1>8, <2>1 DEF RowsAlone, RowAlone, Done, Reconciling
  <2>3. SyncedMeansIndexed'
    BY <1>1, <1>2, <2>2 DEF SyncedMeansIndexed, Wanted, Types
  <2>4. RowsStayRight'
    BY <1>1, <2>1, Forgotten DEF RowsStayRight
  <2> QED
    BY <1>5, <1>6, <1>7, <2>3, <2>4
<1>9. CASE ~(Owns(q) /\ state = "synced")
  <2>1. \A r \in Projects : rows'[r].state = "synced" => rows[r].state = "synced"
    BY <1>1, <1>2, <1>9 DEF Types
  <2>2. SyncedMeansIndexed'
    BY <1>1, <2>1 DEF SyncedMeansIndexed, Wanted
  <2>3. RowsStayRight'
    BY <1>1, <2>1, Forgotten DEF RowsStayRight, Wanted
  <2> QED
    BY <1>5, <1>6, <1>7, <2>2, <2>3
<1> QED
  BY <1>8, <1>9

-----------------------------------------------------------------------------
(* Steps that touch neither an index nor the queue. *)

\* Everybody else keeps what it has filled, and so does q by moving on.
LEMMA OthersKept ==
  ASSUME RebuildIInv, NEW q \in Processes, \A r \in Processes \ {q} : proc'[r] = proc[r],
         UNCHANGED <<content, index, tasks>>, Fills(q)', CleanAfter(q)'
  PROVE  FillsUp' /\ CleanFromHere'
<1> SUFFICES ASSUME NEW r \in Processes, r # q PROVE Fills(r)' /\ CleanAfter(r)'
  BY DEF FillsUp, CleanFromHere
<1>1. SameTasks(r)
  BY DEF SameTasks
<1> QED
  BY <1>1, FillsKept, CleanKept DEF RebuildIInv, FillsUp, CleanFromHere

\* A step within a rebuild keeps the operation: nobody else's, no new tasks.
LEMMA MovesOn ==
  ASSUME RebuildIInv, NEW q \in Processes, proc[q].pc \in Rebuilding, ~Waiting(q),
         NEW pc \in Filling, NEW listed \in SUBSET Projects,
         proc' = [proc EXCEPT ![q] = [pc |-> pc, op |-> proc[q].op, initial |-> listed]],
         UNCHANGED <<rows, ops, index, tasks, content>>,
         locked' = {r \in Processes : proc'[r].pc \in Locking}
  PROVE  /\ Types' /\ OperationsInTurn' /\ WorkersApart' /\ TasksFit'
         /\ RowsStayRight' /\ SyncedMeansIndexed' /\ RowsAlone'
<1> USE DEF RebuildIInv
<1>1. /\ proc[q].op \in Operations /\ pc \in Rebuilding /\ pc \notin Reconciling
      /\ proc'[q] = [pc |-> pc, op |-> proc[q].op, initial |-> listed]
      /\ \A r \in Processes \ {q} : proc'[r] = proc[r]
  BY StateOf DEF Types, Filling, Rebuilding, Reconciling
<1>2. Types'
  <2>1. proc'[q] \in States
    BY <1>1 DEF States
  <2> QED
    BY <1>1, <2>1 DEF Types
<1>3. OperationsInTurn'
  BY DEF OperationsInTurn, Active, NoDocuments
<1>4. WorkersApart'
  BY <1>1 DEF WorkersApart
<1>5. TasksFit'
  <2> SUFFICES ASSUME NEW i \in DOMAIN tasks
               PROVE  /\ \A r \in Processes : tasks[i].by = r => TaskFits(i, r)'
                      /\ \A r \in Processes : proc'[r].pc \in Rebuilding /\ tasks[i].index = proc'[r].op => tasks[i].by = r
                      /\ tasks[i].kind = "put" /\ tasks[i].index = Live => Reconcilers # {}
    BY DEF TasksFit
  <2>1. tasks[i].by # q
    BY DEF Waiting
  <2>2. \A r \in Processes : r # q => (TaskFits(i, r)' <=> TaskFits(i, r))
    BY <1>1 DEF TaskFits
  <2> QED
    BY <1>1, <2>1, <2>2 DEF TasksFit
<1>6. RowsStayRight' /\ SyncedMeansIndexed'
  BY DEF RowsStayRight, SyncedMeansIndexed, Wanted
<1>7. RowsAlone'
  <2> SUFFICES ASSUME NEW r \in Processes, proc'[r].pc \in Reconciling PROVE RowAlone(r)'
    BY DEF RowsAlone, RowAlone
  <2>1. r # q /\ proc'[r] = proc[r] /\ RowAlone(r)
    BY <1>1 DEF RowsAlone
  <2> QED
    BY <2>1 DEF RowAlone, Owns, Wanted
<1> QED
  BY <1>2, <1>3, <1>4, <1>5, <1>6, <1>7

\* The published projects are listed; the new index is still empty.
LEMMA ListProjectsStep ==
  ASSUME RebuildIInv, NEW q \in Processes, ListProjects(q)
  PROVE  RebuildIInv'
<1> USE DEF RebuildIInv
<1>1. /\ proc[q].pc = "list" /\ proc[q].pc \in Rebuilding /\ "build" \in Filling
      /\ Published \in SUBSET Projects /\ UNCHANGED <<rows, ops, index, tasks, content>> /\ locked' = locked
      /\ proc' = [proc EXCEPT ![q] = [pc |-> "build", op |-> proc[q].op, initial |-> Published]]
  BY DEF ListProjects, Rebuilding, Filling, Published
<1>2. ~Waiting(q)
  BY <1>1 DEF Waiting, TasksFit, TaskFits
<1>3. /\ proc'[q] = [pc |-> "build", op |-> proc[q].op, initial |-> Published]
      /\ \A r \in Processes \ {q} : proc'[r] = proc[r]
  BY <1>1 DEF Types
<1>4. locked' = {r \in Processes : proc'[r].pc \in Locking}
  BY <1>1, <1>3 DEF Types, Locking
<1>5. Fills(q)' /\ CleanAfter(q)'
  BY <1>1, <1>3 DEF FillsUp, Fills, CleanAfter, NoDocuments
<1>6. FillsUp' /\ CleanFromHere'
  BY <1>1, <1>3, <1>5, OthersKept
<1> QED
  BY <1>1, <1>2, <1>4, <1>6, MovesOn

\* The tables are locked when the first fill has run.
LEMMA LockTablesStep ==
  ASSUME RebuildIInv, NEW q \in Processes, LockTables(q)
  PROVE  RebuildIInv'
<1> USE DEF RebuildIInv
<1>1. /\ proc[q].pc = "filled" /\ proc[q].pc \in Rebuilding /\ "locked" \in Filling /\ ~Waiting(q)
      /\ UNCHANGED <<rows, ops, index, tasks, content>> /\ locked' = locked \cup {q}
      /\ proc' = [proc EXCEPT ![q].pc = "locked"]
  BY DEF LockTables, Done, Rebuilding, Filling
<1>2. /\ proc[q].initial \in SUBSET Projects
      /\ proc[q] = [pc |-> "filled", op |-> proc[q].op, initial |-> proc[q].initial]
  BY <1>1, StateOf DEF Filling
<1>3. proc' = [proc EXCEPT ![q] = [pc |-> "locked", op |-> proc[q].op, initial |-> proc[q].initial]]
  <2>1. proc' = [proc EXCEPT ![q] = [proc[q] EXCEPT !.pc = "locked"]]
    BY <1>1
  <2>2. [proc[q] EXCEPT !.pc = "locked"] = [pc |-> "locked", op |-> proc[q].op, initial |-> proc[q].initial]
    BY <1>2
  <2> QED
    BY <2>1, <2>2
<1>4. /\ proc'[q] = [pc |-> "locked", op |-> proc[q].op, initial |-> proc[q].initial]
      /\ \A r \in Processes \ {q} : proc'[r] = proc[r]
  BY <1>3 DEF Types
<1>5. locked' = {r \in Processes : proc'[r].pc \in Locking}
  BY <1>1, <1>4 DEF Types, Locking
<1>6. Fills(q)' /\ CleanAfter(q)'
  BY <1>1, <1>4 DEF FillsUp, Fills, CleanAfter, OnlyListed
<1>7. FillsUp' /\ CleanFromHere'
  BY <1>1, <1>4, <1>6, OthersKept
<1> QED
  BY <1>1, <1>2, <1>3, <1>5, <1>7, MovesOn

\* A starting process declares failed what is in processing, also when the
\* process that works on it is alive.
LEMMA StartStep ==
  ASSUME RebuildIInv, NoRowsBeside, NEW q \in Processes, Start(q)
  PROVE  RebuildIInv'
<1> USE DEF RebuildIInv
<1>1. /\ proc[q] = Down /\ proc'[q] = Idle /\ \A r \in Processes \ {q} : proc'[r] = proc[r]
      /\ proc' \in [Processes -> States] /\ UNCHANGED <<content, rows, index, tasks, locked>>
      /\ \A o \in Operations : ops'[o] = IF ops[o] = "processing" THEN "failed" ELSE ops[o]
  BY DEF Start, Types, States
<1>2. /\ Down.pc \notin Rebuilding \cup Reconciling \cup Locking
      /\ Idle.pc \notin Rebuilding \cup Reconciling \cup Locking
      /\ Idle.pc \notin {"filled", "refilled", "swapped", "sent", "list", "build"}
  BY DEF Down, Idle, Rebuilding, Reconciling, Locking
<1>3. Types'
  BY <1>1, <1>2 DEF Start, Types
<1>4. OperationsInTurn'
  BY <1>1 DEF OperationsInTurn, Active, NoDocuments
<1>5. WorkersApart'
  <2>1. \A r \in Processes : proc'[r].pc \in Rebuilding => r # q /\ proc[r].op \in Operations
    BY <1>1, <1>2, StateOf
  <2>2. \A r \in Processes : proc'[r].pc \in Rebuilding => ops'[proc'[r].op] \in {"processing", "failed"}
    BY <1>1, <2>1 DEF WorkersApart
  <2> QED
    BY <1>1, <2>1, <2>2 DEF WorkersApart
<1>6. TasksFit'
  <2>1. \A i \in DOMAIN tasks : tasks[i].by # q
    BY <1>1 DEF TasksFit, TaskFits, Down
  <2>2. \A r \in Processes \ {q}, i \in DOMAIN tasks : TaskFits(i, r)' <=> TaskFits(i, r)
    BY <1>1 DEF TaskFits
  <2> QED
    BY <1>1, <1>2, <2>1, <2>2 DEF TasksFit
<1>7. FillsUp' /\ CleanFromHere'
  <2>1. Fills(q)' /\ CleanAfter(q)'
    BY <1>1 DEF Fills, CleanAfter, Idle
  <2> QED
    BY <1>1, <2>1, OthersKept
<1>8. RowsStayRight' /\ SyncedMeansIndexed'
  BY <1>1 DEF RowsStayRight, SyncedMeansIndexed, Wanted
<1>9. RowsAlone'
  BY <1>1, <1>2 DEF RowsAlone, RowAlone, Owns, Wanted
<1> QED
  BY <1>3, <1>4, <1>5, <1>6, <1>7, <1>8, <1>9

\* A requested rebuild gets the one place there is.
LEMMA CreateRebuildStep ==
  ASSUME RebuildIInv, NEW o \in Operations, CreateRebuild(o)
  PROVE  RebuildIInv'
<1> USE DEF RebuildIInv
<1>1. /\ Active = {} /\ ops[o] = "absent" /\ ops' = [ops EXCEPT ![o] = "pending"]
      /\ UNCHANGED <<content, rows, index, tasks, proc, locked>>
  BY DEF CreateRebuild
<1>2. Types'
  BY <1>1 DEF Types
<1>3. OperationsInTurn'
  BY <1>1 DEF OperationsInTurn, Active, Types, NoDocuments
<1>4. WorkersApart'
  BY <1>1, StateOf DEF WorkersApart, Types
<1>5. TasksFit' /\ RowsStayRight' /\ SyncedMeansIndexed' /\ RowsAlone'
  BY <1>1 DEF TasksFit, TaskFits, RowsStayRight, SyncedMeansIndexed, RowsAlone, RowAlone, Owns, Wanted
<1>6. FillsUp' /\ CleanFromHere'
  BY <1>1 DEF FillsUp, Fills, OnlyListed, FinalDocuments, Published, NoDocuments, CleanFromHere, CleanAfter, Clean, Full, Wanted
<1> QED
  BY <1>2, <1>3, <1>4, <1>5, <1>6

\* The operation that is claimed has an empty index and no tasks.
LEMMA ClaimRebuildStep ==
  ASSUME RebuildIInv, NEW q \in Processes, NEW o \in Operations, ClaimRebuild(q, o)
  PROVE  RebuildIInv'
<1> USE DEF RebuildIInv
<1>1. /\ proc[q] = Idle /\ ops[o] = "pending" /\ ops' = [ops EXCEPT ![o] = "processing"]
      /\ proc'[q] = [pc |-> "list", op |-> o] /\ \A r \in Processes \ {q} : proc'[r] = proc[r]
      /\ proc' \in [Processes -> States] /\ UNCHANGED <<content, rows, index, tasks, locked>>
  BY DEF ClaimRebuild, Types, States
<1>2. Types'
  <2>1. proc[q].pc \notin Locking /\ proc'[q].pc \notin Locking
    BY <1>1 DEF Locking, Idle
  <2>2. locked' = {r \in Processes : proc'[r].pc \in Locking}
    BY <1>1, <2>1 DEF Types
  <2> QED
    BY <1>1, <2>2 DEF Types
<1>3. OperationsInTurn'
  BY <1>1 DEF OperationsInTurn, Active, Types, NoDocuments
<1>4. \A r \in Processes \ {q} : proc[r].pc \in Rebuilding => proc[r].op \in Operations \ {o}
  BY <1>1, StateOf DEF WorkersApart
<1>5. WorkersApart'
  <2>1. \A r \in Processes : proc'[r].pc \in Rebuilding => ops'[proc'[r].op] \in {"processing", "failed"}
    BY <1>1, <1>4 DEF WorkersApart, Types
  <2>2. \A q1, q2 \in Processes :
          proc'[q1].pc \in Rebuilding /\ proc'[q2].pc \in Rebuilding /\ proc'[q1].op = proc'[q2].op => q1 = q2
    BY <1>1, <1>4 DEF WorkersApart
  <2> QED
    BY <1>1, <2>1, <2>2 DEF WorkersApart
<1>6. TasksFit'
  <2>1. \A i \in DOMAIN tasks : tasks[i].by # q /\ tasks[i].index # o
    BY <1>1 DEF TasksFit, TaskFits, Idle, OperationsInTurn
  <2>2. \A r \in Processes \ {q}, i \in DOMAIN tasks : TaskFits(i, r)' <=> TaskFits(i, r)
    BY <1>1 DEF TaskFits
  <2> QED
    BY <1>1, <2>1, <2>2 DEF TasksFit
<1>7. FillsUp' /\ CleanFromHere'
  <2>1. Fills(q)' /\ CleanAfter(q)'
    BY <1>1 DEF Fills, CleanAfter, OperationsInTurn, NoDocuments
  <2> QED
    BY <1>1, <2>1, OthersKept
<1>8. RowsStayRight' /\ SyncedMeansIndexed'
  BY <1>1 DEF RowsStayRight, SyncedMeansIndexed, Wanted
<1>9. RowsAlone'
  BY <1>1 DEF RowsAlone, RowAlone, Owns, Wanted, Reconciling
<1> QED
  BY <1>2, <1>3, <1>5, <1>6, <1>7, <1>8, <1>9

\* A step of the process that reconciles: nobody rebuilds, and only rows and
\* its own state change.
LEMMA AloneStep ==
  ASSUME RebuildIInv, NEW q \in Processes, \A r \in Processes : r = q,
         NEW state \in States, state.pc \in Reconciling, state.pc # "sent", ~Waiting(q),
         proc[q].pc \in {"idle", "claimed"}, proc' = [proc EXCEPT ![q] = state],
         UNCHANGED <<content, ops, index, tasks, locked>>
  PROVE  /\ proc' \in [Processes -> States] /\ locked' = {r \in Processes : proc'[r].pc \in Locking}
         /\ OperationsInTurn' /\ WorkersApart' /\ TasksFit' /\ FillsUp' /\ CleanFromHere'
<1> USE DEF RebuildIInv
<1>1. /\ proc'[q] = state /\ \A r \in Processes : proc'[r] = state
      /\ state.pc \in {"claimed", "built"} /\ proc' \in [Processes -> States]
  BY DEF Types, Reconciling
<1>2. locked' = {r \in Processes : proc'[r].pc \in Locking}
  BY <1>1 DEF Types, Locking
<1>3. OperationsInTurn' /\ WorkersApart'
  BY <1>1 DEF OperationsInTurn, Active, NoDocuments, WorkersApart, Rebuilding
<1>4. TasksFit'
  BY <1>1 DEF TasksFit, TaskFits, Waiting, Rebuilding
<1>5. FillsUp' /\ CleanFromHere'
  BY <1>1 DEF FillsUp, Fills, CleanFromHere, CleanAfter
<1> QED
  BY <1>1, <1>2, <1>3, <1>4, <1>5

\* A row is claimed by the one process there is then.
LEMMA ClaimRowStep ==
  ASSUME RebuildIInv, NoRowsBeside, NEW q \in Processes, NEW p \in Projects, ClaimRow(q, p)
  PROVE  RebuildIInv'
<1> USE DEF RebuildIInv
<1> DEFINE state == [pc |-> "claimed", project |-> p]
<1>1. /\ q \in Reconcilers /\ proc[q] = Idle /\ proc' = [proc EXCEPT ![q] = state]
      /\ rows' = [rows EXCEPT ![p] = [state |-> "processing", owner |-> q]]
      /\ UNCHANGED <<content, ops, index, tasks, locked>>
  BY DEF ClaimRow
<1>2. \A r \in Processes : r = q
  BY <1>1 DEF NoRowsBeside
<1>3. state \in States /\ state.pc \in Reconciling /\ state.pc # "sent"
  BY DEF States, Reconciling
<1>4. ~Waiting(q) /\ proc[q].pc \in {"idle", "claimed"}
  BY <1>1 DEF Waiting, TasksFit, TaskFits, Idle
<1>5. /\ proc' \in [Processes -> States] /\ locked' = {r \in Processes : proc'[r].pc \in Locking}
      /\ OperationsInTurn' /\ WorkersApart' /\ TasksFit' /\ FillsUp' /\ CleanFromHere'
  <2> HIDE DEF state
  <2> QED
    BY <1>1, <1>2, <1>3, <1>4, AloneStep
<1>6. Types'
  <2>1. /\ rows' \in [Projects -> [state : {"pending", "processing", "synced"}, owner : Owners]]
        /\ \A r \in Projects : rows'[r].owner # Nil <=> rows'[r].state = "processing"
    BY <1>1, RebuildAssumption DEF Types, Owners
  <2> QED
    BY <1>1, <1>5, <2>1 DEF Types
<1>7. \A r \in Projects : rows'[r].state = "synced" => rows[r].state = "synced" /\ r # p
  BY <1>1 DEF Types
<1>8. RowsStayRight' /\ SyncedMeansIndexed'
  BY <1>1, <1>7 DEF RowsStayRight, SyncedMeansIndexed, Wanted
<1>9. RowsAlone'
  BY <1>1, <1>2, <1>7 DEF RowsAlone, RowAlone, Types
<1> QED
  BY <1>5, <1>6, <1>8, <1>9

\* What is built is the document of this moment.
LEMMA BuildRowStep ==
  ASSUME RebuildIInv, NoRowsBeside, NEW q \in Processes, BuildRow(q)
  PROVE  RebuildIInv'
<1> USE DEF RebuildIInv
<1> DEFINE p == proc[q].project
           state == [pc |-> "built", project |-> p, document |-> Wanted(p)]
<1>1. /\ proc[q].pc = "claimed" /\ proc' = [proc EXCEPT ![q] = state]
      /\ UNCHANGED <<content, rows, ops, index, tasks, locked>>
  BY DEF BuildRow
<1>2. /\ \A r \in Processes : r = q
      /\ p \in Projects /\ q \in Reconcilers
  BY <1>1, OneReconciles DEF Reconciling
<1>3. state \in States /\ state.pc \in Reconciling /\ state.pc # "sent"
  BY <1>2, Apart DEF States, Reconciling
<1>4. ~Waiting(q) /\ proc[q].pc \in {"idle", "claimed"}
  BY <1>1 DEF Waiting, TasksFit, TaskFits
<1>5. /\ proc' \in [Processes -> States] /\ locked' = {r \in Processes : proc'[r].pc \in Locking}
      /\ OperationsInTurn' /\ WorkersApart' /\ TasksFit' /\ FillsUp' /\ CleanFromHere'
  <2> HIDE DEF state
  <2> QED
    BY <1>1, <1>2, <1>3, <1>4, AloneStep
<1>6. Types'
  BY <1>1, <1>5 DEF Types
<1>8. RowsStayRight' /\ SyncedMeansIndexed'
  BY <1>1 DEF RowsStayRight, SyncedMeansIndexed, Wanted
<1>9. RowsAlone'
  <2>1. rows[p].state # "synced"
    BY <1>1 DEF RowsAlone, RowAlone, Reconciling
  <2>2. Wanted(p)' = Wanted(p)
    BY <1>1 DEF Wanted
  <2> QED
    BY <1>1, <1>2, <2>1, <2>2 DEF RowsAlone, RowAlone, Types
<1> QED
  BY <1>5, <1>6, <1>8, <1>9

\* An edit waits for the locks; then nobody relies on what was wanted but
\* those whose row is no longer synced.
LEMMA EditStep ==
  ASSUME RebuildIInv, NEW p \in Projects, NEW published \in BOOLEAN, Edit(p, published)
  PROVE  RebuildIInv'
<1> USE DEF RebuildIInv
<1>1. /\ locked = {} /\ content[p].revision < MaxRevision
      /\ content' = [content EXCEPT ![p] = [revision |-> content[p].revision + 1, published |-> published]]
      /\ rows' = [rows EXCEPT ![p] = [state |-> "pending", owner |-> Nil]]
      /\ UNCHANGED <<ops, index, tasks, proc, locked>>
  BY DEF Edit
<1>2. \A r \in Processes : proc[r].pc \notin Locking
  BY <1>1 DEF Types
<1>3. /\ \A r \in Projects : rows'[r].state = "synced" => rows[r].state = "synced" /\ r # p
      /\ \A r \in Projects \ {p} : content'[r] = content[r] /\ rows'[r] = rows[r]
      /\ rows'[p] = [state |-> "pending", owner |-> Nil]
  BY <1>1 DEF Types
<1>4. \A r \in Projects \ {p} : Wanted(r)' = Wanted(r)
  BY <1>3 DEF Wanted
<1>5. Types'
  <2>1. content[p].revision + 1 \in 1..MaxRevision
    BY <1>1, RebuildAssumption DEF Types
  <2>2. content' \in [Projects -> [revision : 1..MaxRevision, published : BOOLEAN]]
    BY <1>1, <2>1 DEF Types
  <2> QED
    BY <1>1, <2>2 DEF Types, Owners
<1>6. OperationsInTurn' /\ WorkersApart' /\ TasksFit'
  BY <1>1 DEF OperationsInTurn, Active, NoDocuments, WorkersApart, TasksFit, TaskFits
<1>7. FillsUp' /\ CleanFromHere'
  BY <1>1, <1>2 DEF FillsUp, Fills, OnlyListed, NoDocuments, CleanFromHere, CleanAfter, Locking
<1>8. RowsStayRight' /\ SyncedMeansIndexed'
  BY <1>1, <1>3, <1>4 DEF RowsStayRight, SyncedMeansIndexed
<1>9. RowsAlone'
  <2> SUFFICES ASSUME NEW r \in Processes, proc[r].pc \in Reconciling PROVE RowAlone(r)'
    BY <1>1 DEF RowsAlone, RowAlone
  <2>1. RowAlone(r) /\ proc[r].project \in Projects /\ r # Nil
    BY StateOf, RebuildAssumption DEF RowsAlone
  <2>2. CASE proc[r].project = p
    BY <1>1, <1>3, <2>1, <2>2 DEF RowAlone, Owns
  <2>3. CASE proc[r].project # p
    <3>1. Wanted(proc[r].project)' = Wanted(proc[r].project) /\ (Owns(r)' <=> Owns(r))
      BY <1>1, <1>3, <1>4, <2>1, <2>3 DEF Owns
    <3> QED
      BY <1>1, <1>3, <2>1, <2>3, <3>1 DEF RowAlone
  <2> QED
    BY <2>2, <2>3
<1> QED
  BY <1>5, <1>6, <1>7, <1>8, <1>9

\* Completing marks every row: the live index is full, and no task that is
\* still queued can change that for the worse.
LEMMA CompleteRebuildStep ==
  ASSUME RebuildIInv, NoRowsBeside, NEW q \in Processes, CompleteRebuild(q)
  PROVE  RebuildIInv' /\ Full(Live)
<1> USE DEF RebuildIInv
<1>1. /\ proc[q].pc = "swapped" /\ ~Waiting(q) /\ UNCHANGED <<content, index, tasks>>
      /\ proc' = [proc EXCEPT ![q] = Idle] /\ locked' = locked \ {q}
      /\ rows' = [p \in Projects |-> [state |-> "synced", owner |-> Nil]]
      /\ ops' = [ops EXCEPT ![proc[q].op] = IF ops[proc[q].op] = "processing" THEN "completed" ELSE ops[proc[q].op]]
  BY DEF CompleteRebuild, Done
<1>2. proc[q].op \in Operations /\ proc[q].pc \in Rebuilding
  BY <1>1, StateOf DEF Rebuilding
<1>3. /\ \A o \in Operations : ops'[o] = ops[o] \/ (ops[o] = "processing" /\ ops'[o] = "completed")
      /\ \A o \in Operations \ {proc[q].op} : ops'[o] = ops[o]
      /\ ops' \in [Operations -> {"absent", "pending", "processing", "completed", "failed"}]
  BY <1>1, <1>2 DEF Types
<1>4. /\ proc'[q] = Idle /\ \A r \in Processes \ {q} : proc'[r] = proc[r]
      /\ proc' \in [Processes -> States]
  BY <1>1 DEF Types, States
<1>5. /\ Idle.pc \notin Rebuilding \cup Reconciling \cup Locking
      /\ Idle.pc \notin {"filled", "refilled", "swapped", "sent", "list", "build"}
  BY DEF Idle, Rebuilding, Reconciling, Locking
<1>6. \A i \in DOMAIN tasks : tasks[i].by # q /\ Clean(i)
  BY <1>1 DEF Waiting, CleanFromHere, CleanAfter
<1>7. Full(Live)
  BY <1>1, <1>6 DEF FillsUp, Fills
<1>8. Types'
  <2>1. locked' = {r \in Processes : proc'[r].pc \in Locking}
    BY <1>1, <1>4, <1>5 DEF Types
  <2>2. /\ rows' \in [Projects -> [state : {"pending", "processing", "synced"}, owner : Owners]]
        /\ \A r \in Projects : rows'[r].owner # Nil <=> rows'[r].state = "processing"
    BY <1>1 DEF Owners
  <2> QED
    BY <1>1, <1>3, <1>4, <2>1, <2>2 DEF Types
<1>9. OperationsInTurn'
  BY <1>1, <1>3 DEF OperationsInTurn, Active, NoDocuments
<1>10. WorkersApart'
  <2>1. \A r \in Processes : proc'[r].pc \in Rebuilding =>
           r # q /\ proc[r].op \in Operations /\ proc[r].op # proc[q].op
    BY <1>2, <1>4, <1>5, StateOf DEF WorkersApart
  <2>2. \A r \in Processes : proc'[r].pc \in Rebuilding => ops'[proc'[r].op] \in {"processing", "failed"}
    BY <1>3, <1>4, <2>1 DEF WorkersApart
  <2> QED
    BY <1>1, <1>4, <2>1, <2>2 DEF WorkersApart
<1>11. TasksFit'
  <2>1. \A r \in Processes \ {q}, i \in DOMAIN tasks : TaskFits(i, r)' <=> TaskFits(i, r)
    BY <1>1, <1>4 DEF TaskFits
  <2> QED
    BY <1>1, <1>4, <1>5, <1>6, <2>1 DEF TasksFit
<1>12. FillsUp' /\ CleanFromHere'
  <2>1. Fills(q)' /\ CleanAfter(q)'
    BY <1>4 DEF Fills, CleanAfter, Idle
  <2> QED
    BY <1>1, <1>4, <2>1, OthersKept
<1>13. RowsStayRight' /\ SyncedMeansIndexed'
  BY <1>1, <1>6, <1>7 DEF RowsStayRight, SyncedMeansIndexed, Wanted, Clean, Full
<1>14. RowsAlone'
  <2> SUFFICES ASSUME NEW r \in Processes, proc'[r].pc \in Reconciling PROVE FALSE
    BY DEF RowsAlone, RowAlone
  <2>1. r # q /\ proc[r].pc \in Reconciling
    BY <1>4, <1>5
  <2> QED
    BY <2>1, OneReconciles
<1> QED
  BY <1>7, <1>8, <1>9, <1>10, <1>11, <1>12, <1>13, <1>14

-----------------------------------------------------------------------------
(* Steps that give the engine a task. *)

\* A rebuild hands over a task for its own index: the invariant stays, but for
\* what the process itself has filled.
LEMMA HandsOver ==
  ASSUME RebuildIInv, NoRowsBeside, NEW q \in Processes, proc[q].pc \in Filling, ~Waiting(q),
         NEW t \in Puts \cup Swaps, t.by = q, t.index = proc[q].op,
         t.kind = "swap" => Full(proc[q].op),
         NEW pc \in Filling,
         t.kind = "put" => pc \in {"filled", "refilled"}, t.kind = "swap" => pc = "swapped",
         proc' = [proc EXCEPT ![q] = [pc |-> pc, op |-> proc[q].op, initial |-> proc[q].initial]],
         tasks' = Append(tasks, t), UNCHANGED <<content, rows, ops, index, locked>>,
         proc[q].pc \in Locking <=> pc \in Locking
  PROVE  /\ Types' /\ OperationsInTurn' /\ WorkersApart' /\ TasksFit'
         /\ \A r \in Processes \ {q} : Fills(r)' /\ CleanAfter(r)'
         /\ RowsStayRight' /\ SyncedMeansIndexed' /\ RowsAlone'
<1> USE DEF RebuildIInv
<1> DEFINE last == Len(tasks) + 1
<1>1. /\ proc[q].op \in Operations /\ proc[q].initial \in SUBSET Projects
      /\ proc[q].pc \in Rebuilding /\ pc \in Rebuilding /\ pc \notin Reconciling
      /\ proc'[q] = [pc |-> pc, op |-> proc[q].op, initial |-> proc[q].initial]
      /\ \A r \in Processes \ {q} : proc'[r] = proc[r]
  BY StateOf DEF Types, Filling, Rebuilding, Reconciling
<1>2. /\ tasks' \in Seq(Puts \cup Swaps)
      /\ \A i \in DOMAIN tasks : i \in DOMAIN tasks' /\ tasks'[i] = tasks[i]
      /\ tasks'[last] = t /\ last \in DOMAIN tasks' /\ last \notin DOMAIN tasks
      /\ \A i \in DOMAIN tasks' : i \in DOMAIN tasks \/ i = last
  BY Appended
<1>3. /\ \A i \in DOMAIN tasks : tasks[i].by # q /\ tasks[i].index # proc[q].op
      /\ proc[q].op # Live /\ t.kind \in {"put", "swap"}
  BY <1>1, Apart DEF Waiting, TasksFit, Puts, Swaps
<1> HIDE DEF last
<1>4. Types'
  <2>1. proc'[q] \in States
    BY <1>1 DEF States
  <2>2. locked' = {r \in Processes : proc'[r].pc \in Locking}
    BY <1>1 DEF Types
  <2> QED
    BY <1>1, <1>2, <2>1, <2>2 DEF Types
<1>5. OperationsInTurn'
  <2>1. ops[proc[q].op] \in {"processing", "failed"}
    BY <1>1 DEF WorkersApart
  <2> QED
    BY <1>2, <1>3, <2>1 DEF OperationsInTurn, Active, NoDocuments
<1>6. WorkersApart'
  <2>1. \A i, j \in DOMAIN tasks' : tasks'[i].index = tasks'[j].index /\ i # j => tasks'[i].index = Live
    BY <1>2, <1>3 DEF WorkersApart
  <2> QED
    BY <1>1, <2>1 DEF WorkersApart
<1>7. TasksFit'
  <2> SUFFICES ASSUME NEW i \in DOMAIN tasks'
               PROVE  /\ \A r \in Processes : tasks'[i].by = r => TaskFits(i, r)'
                      /\ \A r \in Processes : proc'[r].pc \in Rebuilding /\ tasks'[i].index = proc'[r].op => tasks'[i].by = r
                      /\ tasks'[i].kind = "put" /\ tasks'[i].index = Live => Reconcilers # {}
    BY DEF TasksFit
  <2>1. CASE i = last
    <3>1. TaskFits(i, q)'
      BY <1>1, <1>2, <1>3, <2>1 DEF TaskFits
    <3>2. \A r \in Processes : proc'[r].pc \in Rebuilding /\ proc'[r].op = proc[q].op => r = q
      BY <1>1 DEF WorkersApart
    <3> QED
      BY <1>2, <1>3, <2>1, <3>1, <3>2
  <2>2. CASE i \in DOMAIN tasks
    <3>1. \A r \in Processes \ {q} : TaskFits(i, r)' <=> TaskFits(i, r)
      BY <1>1, <1>2, <2>2 DEF TaskFits
    <3> QED
      BY <1>1, <1>2, <1>3, <2>2, <3>1 DEF TasksFit
  <2> QED
    BY <1>2, <2>1, <2>2
<1>8. ASSUME NEW r \in Processes \ {q} PROVE Fills(r)' /\ CleanAfter(r)'
  <2>1. SameTasks(r) /\ proc'[r] = proc[r]
    BY <1>1, <1>2 DEF SameTasks
  <2>2. \A i \in DOMAIN tasks' \ DOMAIN tasks : Clean(i)'
    BY <1>1, <1>2, <1>3, ContentKept DEF Clean
  <2>3. Fills(r) /\ CleanAfter(r)
    BY DEF FillsUp, CleanFromHere
  <2> QED
    BY <2>1, <2>2, <2>3, FillsKept, CleanKept
<1>9. RowsStayRight'
  BY <1>2, <1>3 DEF RowsStayRight, Wanted, Full
<1>10. SyncedMeansIndexed'
  BY DEF SyncedMeansIndexed, Wanted
<1>11. RowsAlone'
  <2> SUFFICES ASSUME NEW r \in Processes, proc'[r].pc \in Reconciling PROVE FALSE
    BY DEF RowsAlone, RowAlone
  <2>1. r # q /\ proc[r].pc \in Reconciling
    BY <1>1
  <2> QED
    BY <2>1, OneReconciles
<1> QED
  BY <1>4, <1>5, <1>6, <1>7, <1>8, <1>9, <1>10, <1>11

\* The record of a process that goes on to another place in its rebuild.
LEMMA GoesOn ==
  ASSUME Types, NEW q \in Processes, proc[q].pc \in Filling, NEW pc,
         proc' = [proc EXCEPT ![q].pc = pc]
  PROVE  /\ proc' = [proc EXCEPT ![q] = [pc |-> pc, op |-> proc[q].op, initial |-> proc[q].initial]]
         /\ proc'[q] = [pc |-> pc, op |-> proc[q].op, initial |-> proc[q].initial]
<1>1. proc' = [proc EXCEPT ![q] = [proc[q] EXCEPT !.pc = pc]]
  OBVIOUS
<1>2. [proc[q] EXCEPT !.pc = pc] = [pc |-> pc, op |-> proc[q].op, initial |-> proc[q].initial]
  <2>1. proc[q] = [pc |-> proc[q].pc, op |-> proc[q].op, initial |-> proc[q].initial]
    BY StateOf
  <2> QED
    BY <2>1
<1> QED
  BY <1>1, <1>2 DEF Types

\* The first fill: documents of listed projects for an empty index.
LEMMA BuildDocumentsStep ==
  ASSUME RebuildIInv, NoRowsBeside, NEW q \in Processes, BuildDocuments(q)
  PROVE  RebuildIInv'
<1> USE DEF RebuildIInv
<1> DEFINE documents == [p \in proc[q].initial \cap Published |-> Wanted(p)]
           t == Put(q, proc[q].op, documents)
<1>1. /\ proc[q].pc = "build" /\ proc[q].pc \in Filling /\ "filled" \in Filling
      /\ tasks' = Append(tasks, t) /\ proc' = [proc EXCEPT ![q].pc = "filled"]
      /\ UNCHANGED <<content, rows, ops, index, locked>>
      /\ proc[q].pc \in Locking <=> "filled" \in Locking
  BY DEF BuildDocuments, Filling, Locking
<1>2. /\ proc' = [proc EXCEPT ![q] = [pc |-> "filled", op |-> proc[q].op, initial |-> proc[q].initial]]
      /\ proc'[q] = [pc |-> "filled", op |-> proc[q].op, initial |-> proc[q].initial]
  BY <1>1, GoesOn
<1>3. proc[q].op \in Operations /\ proc[q].initial \subseteq Projects
  BY <1>1, StateOf DEF Filling, Rebuilding
<1>4. documents \in Documents
  <2>1. documents \in [proc[q].initial \cap Published -> 0..MaxRevision]
    BY <1>3, Apart
  <2> QED
    BY <1>3, <2>1, DocumentsAre
<1>5. t \in Puts \cup Swaps /\ t.by = q /\ t.index = proc[q].op /\ t.kind = "put" /\ t.documents = documents
  BY <1>3, <1>4 DEF Put, Puts, Owners
<1>6. ~Waiting(q)
  BY <1>1 DEF Waiting, TasksFit, TaskFits
<1>7. Fills(q)' /\ CleanAfter(q)'
  <2>1. index[proc[q].op] = NoDocuments
    BY <1>1 DEF FillsUp, Fills
  <2>2. \A i \in DOMAIN tasks' : tasks'[i].by = q => tasks'[i].documents = documents
    BY <1>1, <1>5, <1>6, Appended DEF Waiting
  <2>3. OnlyListed(q)'
    BY <1>1, <1>2, <2>1 DEF OnlyListed, NoDocuments
  <2>4. DOMAIN documents \subseteq proc'[q].initial
    BY <1>2
  <2> HIDE DEF documents, t
  <2>5. \A i \in DOMAIN tasks' : tasks'[i].by = q => DOMAIN tasks'[i].documents \subseteq proc'[q].initial
    BY <2>2, <2>4
  <2> QED
    BY <1>2, <2>3, <2>5 DEF Fills, CleanAfter
<1> HIDE DEF t, documents
<1>8. /\ Types' /\ OperationsInTurn' /\ WorkersApart' /\ TasksFit'
      /\ \A r \in Processes \ {q} : Fills(r)' /\ CleanAfter(r)'
      /\ RowsStayRight' /\ SyncedMeansIndexed' /\ RowsAlone'
  BY <1>1, <1>2, <1>5, <1>6, HandsOver
<1> QED
  BY <1>7, <1>8 DEF FillsUp, CleanFromHere

\* The second fill: it completes the index, and nothing dirty follows it.
LEMMA RefillIndexStep ==
  ASSUME RebuildIInv, NoRowsBeside, NEW q \in Processes, RefillIndex(q)
  PROVE  RebuildIInv'
<1> USE DEF RebuildIInv
<1> DEFINE t == Put(q, proc[q].op, FinalDocuments(q))
<1>1. /\ proc[q].pc = "locked" /\ proc[q].pc \in Filling /\ "refilled" \in Filling
      /\ tasks' = Append(tasks, t) /\ proc' = [proc EXCEPT ![q].pc = "refilled"]
      /\ UNCHANGED <<content, rows, ops, index, locked>>
      /\ proc[q].pc \in Locking <=> "refilled" \in Locking
  BY DEF RefillIndex, Filling, Locking
<1>2. /\ proc' = [proc EXCEPT ![q] = [pc |-> "refilled", op |-> proc[q].op, initial |-> proc[q].initial]]
      /\ proc'[q] = [pc |-> "refilled", op |-> proc[q].op, initial |-> proc[q].initial]
  BY <1>1, GoesOn
<1>3. proc[q].op \in Operations /\ proc[q].initial \subseteq Projects
  BY <1>1, StateOf DEF Filling, Rebuilding
<1>4. FinalDocuments(q) \in Documents
  <2>1. FinalDocuments(q) \in [Published \cup proc[q].initial -> 0..MaxRevision]
    BY <1>3, Apart DEF FinalDocuments, Published
  <2>2. Published \cup proc[q].initial \in SUBSET Projects
    BY <1>3 DEF Published
  <2> QED
    BY <2>1, <2>2, DocumentsAre
<1>5. t \in Puts \cup Swaps /\ t.by = q /\ t.index = proc[q].op /\ t.kind = "put" /\ t.documents = FinalDocuments(q)
  BY <1>3, <1>4 DEF Put, Puts, Owners
<1>6. ~Waiting(q)
  BY <1>1 DEF Waiting, TasksFit, TaskFits
<1> HIDE DEF t
<1>7. Fills(q)' /\ CleanAfter(q)'
  <2>1. OnlyListed(q)
    BY <1>1 DEF FillsUp, Fills
  <2>2. OnlyListed(q)' /\ FinalDocuments(q)' = FinalDocuments(q)
    BY <1>1, <1>2, <2>1, ContentKept DEF OnlyListed, FinalDocuments, Published, Wanted
  <2>3. /\ Len(tasks) + 1 \in DOMAIN tasks' /\ tasks'[Len(tasks) + 1] = t
        /\ DOMAIN tasks' = 1..(Len(tasks) + 1) /\ Len(tasks) \in Nat
    BY <1>1, <1>5, Appended
  <2>4. \A i \in DOMAIN tasks' : ~(\A j \in DOMAIN tasks' : tasks'[j].by = q => j < i)
    <3> SUFFICES ASSUME NEW i \in DOMAIN tasks' PROVE ~(Len(tasks) + 1 < i) /\ tasks'[Len(tasks) + 1].by = q
      BY <2>3
    <3> QED
      BY <1>5, <2>3
  <2> QED
    BY <1>2, <1>5, <2>2, <2>3, <2>4 DEF Fills, CleanAfter
<1>8. /\ Types' /\ OperationsInTurn' /\ WorkersApart' /\ TasksFit'
      /\ \A r \in Processes \ {q} : Fills(r)' /\ CleanAfter(r)'
      /\ RowsStayRight' /\ SyncedMeansIndexed' /\ RowsAlone'
  BY <1>1, <1>2, <1>5, <1>6, HandsOver
<1> QED
  BY <1>7, <1>8 DEF FillsUp, CleanFromHere

\* The swap is asked for when the second fill has run: the index is full.
LEMMA SwapIndexesStep ==
  ASSUME RebuildIInv, NoRowsBeside, NEW q \in Processes, SwapIndexes(q)
  PROVE  RebuildIInv'
<1> USE DEF RebuildIInv
<1> DEFINE t == Swap(q, proc[q].op)
<1>1. /\ proc[q].pc = "refilled" /\ proc[q].pc \in Filling /\ "swapped" \in Filling /\ ~Waiting(q)
      /\ tasks' = Append(tasks, t) /\ proc' = [proc EXCEPT ![q].pc = "swapped"]
      /\ UNCHANGED <<content, rows, ops, index, locked>>
      /\ proc[q].pc \in Locking <=> "swapped" \in Locking
  BY DEF SwapIndexes, Done, Filling, Locking
<1>2. /\ proc' = [proc EXCEPT ![q] = [pc |-> "swapped", op |-> proc[q].op, initial |-> proc[q].initial]]
      /\ proc'[q] = [pc |-> "swapped", op |-> proc[q].op, initial |-> proc[q].initial]
  BY <1>1, GoesOn
<1>3. proc[q].op \in Operations /\ proc[q].op # Live
  BY <1>1, StateOf, Apart DEF Filling, Rebuilding
<1>4. t \in Puts \cup Swaps /\ t.by = q /\ t.index = proc[q].op /\ t.kind = "swap"
  BY <1>3 DEF Swap, Swaps, Owners
<1>5. Full(proc[q].op)
  BY <1>1 DEF FillsUp, Fills, Waiting
<1> HIDE DEF t
<1>6. Fills(q)' /\ CleanAfter(q)'
  <2>1. /\ Len(tasks) + 1 \in DOMAIN tasks' /\ tasks'[Len(tasks) + 1] = t
        /\ \A i \in DOMAIN tasks' : i = Len(tasks) + 1 \/ (i \in DOMAIN tasks /\ tasks'[i] = tasks[i])
    BY <1>1, <1>4, Appended
  <2>2. /\ \A n \in Operations \cup {Live} : Full(n)' <=> Full(n)
        /\ proc'[q].op = proc[q].op
    BY <1>1, <1>2, ContentKept
  <2>3. \A i \in DOMAIN tasks : Clean(i)
    BY <1>1 DEF CleanFromHere, CleanAfter, Waiting
  <2>4. Full(proc[q].op)'
    BY <1>3, <1>5, <2>2
  <2>5. \A i \in DOMAIN tasks' : Clean(i)'
    BY <1>3, <1>4, <2>1, <2>2, <2>3, <2>4, TaskOf DEF Clean
  <2>6. \E i \in DOMAIN tasks' : tasks'[i].by = q
    BY <1>4, <2>1
  <2> QED
    BY <1>2, <2>4, <2>5, <2>6 DEF Fills, CleanAfter
<1>7. /\ Types' /\ OperationsInTurn' /\ WorkersApart' /\ TasksFit'
      /\ \A r \in Processes \ {q} : Fills(r)' /\ CleanAfter(r)'
      /\ RowsStayRight' /\ SyncedMeansIndexed' /\ RowsAlone'
  BY <1>1, <1>2, <1>4, <1>5, HandsOver
<1> QED
  BY <1>6, <1>7 DEF FillsUp, CleanFromHere

\* What was built for a row is handed over; the row is not synced.
LEMMA SendRowStep ==
  ASSUME RebuildIInv, NoRowsBeside, NEW q \in Processes, SendRow(q)
  PROVE  RebuildIInv'
<1> USE DEF RebuildIInv
<1> DEFINE p == proc[q].project
           documents == [r \in {p} |-> proc[q].document]
           t == Put(q, Live, documents)
           state == [pc |-> "sent", project |-> p]
           last == Len(tasks) + 1
<1>1. /\ proc[q].pc = "built" /\ proc[q].pc \in Reconciling
      /\ tasks' = Append(tasks, t) /\ proc' = [proc EXCEPT ![q] = state]
      /\ UNCHANGED <<content, rows, ops, index, locked>>
  BY DEF SendRow, Reconciling
<1>2. /\ \A r \in Processes : r = q
      /\ p \in Projects /\ q \in Reconcilers /\ proc[q].document \in 0..MaxRevision
  BY <1>1, OneReconciles, StateOf
<1>3. documents \in Documents
  <2>1. documents \in [{p} -> 0..MaxRevision] /\ {p} \in SUBSET Projects
    BY <1>2
  <2> QED
    BY <2>1, DocumentsAre
<1>4. /\ t \in Puts \cup Swaps /\ t.by = q /\ t.index = Live /\ t.kind = "put"
      /\ t.documents = documents /\ DOMAIN documents = {p}
  BY <1>3 DEF Put, Puts, Owners
<1>5. state \in States /\ state.pc = "sent" /\ state.project = p
  BY <1>2 DEF States
<1> HIDE DEF t, documents, state
<1>6. /\ tasks' \in Seq(Puts \cup Swaps) /\ tasks' # << >> /\ Len(tasks') = last
      /\ \A i \in DOMAIN tasks : i \in DOMAIN tasks' /\ tasks'[i] = tasks[i]
      /\ tasks'[last] = t /\ last \in DOMAIN tasks' /\ last \notin DOMAIN tasks
      /\ \A i \in DOMAIN tasks' : i \in DOMAIN tasks \/ i = last
  BY <1>1, <1>4, Appended
<1>7. proc'[q] = state /\ proc' \in [Processes -> States] /\ \A r \in Processes : proc'[r].pc = "sent"
  BY <1>1, <1>2, <1>5 DEF Types
<1>8. \A i \in DOMAIN tasks : tasks[i].by # q
  BY <1>1 DEF TasksFit, TaskFits
<1> HIDE DEF last
<1>9. Types'
  <2>1. locked' = {r \in Processes : proc'[r].pc \in Locking}
    BY <1>1, <1>2, <1>7 DEF Types, Locking, Reconciling
  <2> QED
    BY <1>1, <1>6, <1>7, <2>1 DEF Types
<1>10. OperationsInTurn' /\ WorkersApart'
  BY <1>1, <1>4, <1>6, <1>7, Apart DEF OperationsInTurn, Active, NoDocuments, WorkersApart, Rebuilding
<1>11. TasksFit'
  <2> SUFFICES ASSUME NEW i \in DOMAIN tasks'
               PROVE  /\ tasks'[i].by = q => TaskFits(i, q)'
                      /\ tasks'[i].kind = "put" /\ tasks'[i].index = Live => Reconcilers # {}
    BY <1>2, <1>7 DEF TasksFit, Rebuilding
  <2>1. CASE i = last
    BY <1>2, <1>4, <1>6, <1>7, <2>1 DEF TaskFits
  <2>2. CASE i \in DOMAIN tasks
    BY <1>2, <1>6, <1>8, <2>2
  <2> QED
    BY <1>6, <2>1, <2>2
<1>12. FillsUp' /\ CleanFromHere'
  BY <1>7 DEF FillsUp, Fills, CleanFromHere, CleanAfter
<1>13. rows[p].state # "synced" /\ (Owns(q) => proc[q].document = Wanted(p))
  BY <1>1 DEF RowsAlone, RowAlone, Reconciling
<1>14. RowsStayRight'
  <2> SUFFICES ASSUME NEW i \in DOMAIN tasks', NEW r \in Projects, rows[r].state = "synced"
               PROVE  /\ tasks'[i].kind = "swap" => index[tasks'[i].index][r] = Wanted(r)
                      /\ tasks'[i].kind = "put" /\ tasks'[i].index = Live => r \notin DOMAIN tasks'[i].documents
    BY <1>1 DEF RowsStayRight, Wanted
  <2>1. CASE i = last
    BY <1>4, <1>6, <1>13, <2>1
  <2>2. CASE i \in DOMAIN tasks
    BY <1>6, <2>2 DEF RowsStayRight
  <2> QED
    BY <1>6, <2>1, <2>2
<1>15. SyncedMeansIndexed'
  BY <1>1 DEF SyncedMeansIndexed, Wanted
<1>16. RowsAlone'
  <2>1. Owns(q) => documents = [r \in {p} |-> Wanted(p)]
    BY <1>13 DEF documents
  <2>2. Wanted(p)' = Wanted(p) /\ proc'[q].project = p /\ (Owns(q)' <=> Owns(q))
    BY <1>1, <1>5, <1>7 DEF Wanted, Owns
  <2>3. RowAlone(q)'
    BY <1>1, <1>2, <1>4, <1>6, <1>7, <1>13, <2>1, <2>2 DEF RowAlone
  <2> QED
    BY <1>2, <2>3 DEF RowsAlone
<1> QED
  BY <1>9, <1>10, <1>11, <1>12, <1>14, <1>15, <1>16

-----------------------------------------------------------------------------
(* The engine runs a task. *)

\* What the oldest task does to the indexes.
LEMMA RunEffect ==
  ASSUME RebuildIInv, RunTask
  PROVE  /\ tasks # << >> /\ tasks' = Tail(tasks) /\ UNCHANGED <<content, rows, ops, proc, locked>>
         /\ index' \in [Operations \cup {Live} -> [Projects -> 0..MaxRevision]]
         /\ tasks[1].kind = "put" =>
              /\ \A n \in Operations \cup {Live} : n # tasks[1].index => index'[n] = index[n]
              /\ \A p \in Projects : index'[tasks[1].index][p] =
                   IF p \in DOMAIN tasks[1].documents THEN tasks[1].documents[p] ELSE index[tasks[1].index][p]
         /\ tasks[1].kind = "swap" =>
              /\ tasks[1].index \in Operations
              /\ index'[Live] = index[tasks[1].index] /\ index'[tasks[1].index] = index[Live]
              /\ \A n \in Operations : n # tasks[1].index => index'[n] = index[n]
<1> USE DEF RebuildIInv
<1> DEFINE t == tasks[1]
<1>1. tasks # << >> /\ index' = Run(t, index) /\ tasks' = Tail(tasks) /\ 1 \in DOMAIN tasks
  BY Shortened DEF RunTask
<1>2. /\ t.kind \in {"put", "swap"} /\ t.index \in Operations \cup {Live}
      /\ t.kind = "swap" => t.index \in Operations
      /\ t.kind = "put" => t.documents \in Documents
  BY <1>1, TaskOf
<1>3. Live \notin Operations
  BY Apart
<1> HIDE DEF t
<1>4. CASE t.kind = "put"
  <2>1. \A p \in DOMAIN t.documents : t.documents[p] \in 0..MaxRevision
    BY <1>2, <1>4 DEF Documents
  <2>2. index' = [index EXCEPT ![t.index] =
           [p \in Projects |-> IF p \in DOMAIN t.documents THEN t.documents[p] ELSE index[t.index][p]]]
    BY <1>1, <1>4 DEF Run
  <2>3. [p \in Projects |-> IF p \in DOMAIN t.documents THEN t.documents[p] ELSE index[t.index][p]]
          \in [Projects -> 0..MaxRevision]
    BY <1>2, <2>1 DEF Types
  <2>4. /\ index' \in [Operations \cup {Live} -> [Projects -> 0..MaxRevision]]
        /\ \A n \in Operations \cup {Live} : n # t.index => index'[n] = index[n]
        /\ \A p \in Projects : index'[t.index][p] =
                   IF p \in DOMAIN t.documents THEN t.documents[p] ELSE index[t.index][p]
    BY <1>2, <2>2, <2>3 DEF Types
  <2> QED
    BY <1>1, <1>4, <2>4 DEF RunTask, t
<1>5. CASE t.kind = "swap"
  <2>1. index' = [index EXCEPT ![Live] = index[t.index], ![t.index] = index[Live]]
    BY <1>1, <1>5 DEF Run
  <2>2. /\ index' \in [Operations \cup {Live} -> [Projects -> 0..MaxRevision]]
        /\ index'[Live] = index[t.index] /\ index'[t.index] = index[Live]
        /\ \A n \in Operations : n # t.index => index'[n] = index[n]
    BY <1>2, <1>3, <1>5, <2>1 DEF Types
  <2> QED
    BY <1>1, <1>2, <1>5, <2>2 DEF RunTask, t
<1> QED
  BY <1>2, <1>4, <1>5

\* The index of a task that is not the oldest stays, unless it is the live one.
LEMMA OtherIndexesStay ==
  ASSUME RebuildIInv, RunTask
  PROVE  /\ \A j \in DOMAIN tasks : j # 1 /\ tasks[j].index # Live => index'[tasks[j].index] = index[tasks[j].index]
         /\ \A o \in Operations : o # tasks[1].index => index'[o] = index[o]
         /\ \A i \in DOMAIN tasks' : i + 1 \in DOMAIN tasks /\ i + 1 # 1 /\ i \in Nat /\ tasks'[i] = tasks[i + 1]
         /\ \A i \in DOMAIN tasks : i # 1 => i - 1 \in DOMAIN tasks' /\ tasks'[i - 1] = tasks[i] /\ i \in Nat
         /\ 1 \in DOMAIN tasks
         /\ \A n \in Operations \cup {Live} : Full(n)' <=> \A p \in Projects : index'[n][p] = Wanted(p)
         /\ \A j \in DOMAIN tasks : j # 1 /\ Clean(j) => tasks[j].index # Live /\
              (tasks[j].kind = "swap" => \A p \in Projects : index'[tasks[j].index][p] = Wanted(p))
<1> USE DEF RebuildIInv
<1>1. /\ 1 \in DOMAIN tasks /\ DOMAIN tasks \subseteq Nat
      /\ \A i \in DOMAIN tasks' : i + 1 \in DOMAIN tasks /\ i \in Nat \ {0} /\ tasks'[i] = tasks[i + 1]
      /\ \A i \in DOMAIN tasks : i # 1 => i - 1 \in DOMAIN tasks' /\ tasks'[i - 1] = tasks[i]
  <2>1. tasks # << >> /\ tasks' = Tail(tasks) /\ tasks \in Seq(Puts \cup Swaps)
    BY RunEffect DEF Types
  <2>2. DOMAIN tasks \subseteq Nat /\ DOMAIN tasks' \subseteq Nat \ {0}
    BY <2>1
  <2> QED
    BY <2>1, <2>2, Shortened
<1>2. \A o \in Operations : o # tasks[1].index => index'[o] = index[o]
  BY <1>1, RunEffect, TaskOf
<1>3. \A j \in DOMAIN tasks : j # 1 /\ tasks[j].index # Live => index'[tasks[j].index] = index[tasks[j].index]
  BY <1>1, <1>2, TaskOf DEF WorkersApart
<1>4. \A n \in Operations \cup {Live} : Full(n)' <=> \A p \in Projects : index'[n][p] = Wanted(p)
  BY RunEffect, ContentKept DEF Full
<1>5. ASSUME NEW j \in DOMAIN tasks, j # 1, Clean(j)
      PROVE  /\ tasks[j].index # Live
             /\ tasks[j].kind = "swap" => \A p \in Projects : index'[tasks[j].index][p] = Wanted(p)
  <2>1. tasks[j].index # Live /\ tasks[j].index \in Operations \cup {Live}
    BY <1>5, TaskOf DEF Clean
  <2>2. tasks[j].kind = "swap" => \A p \in Projects : index'[tasks[j].index][p] = Wanted(p)
    BY <1>3, <1>5, <2>1 DEF Clean, Full
  <2> QED
    BY <2>1, <2>2
<1> QED
  BY <1>1, <1>2, <1>3, <1>4, <1>5

\* What a process has filled stays while the engine runs another's task.
LEMMA RunFillsOther ==
  ASSUME RebuildIInv, RunTask, NEW r \in Processes, proc[r].pc \in Rebuilding, tasks[1].by # r
  PROVE  Fills(r)'
<1> USE DEF RebuildIInv
<1> DEFINE o == proc[r].op
<1>1. /\ o \in Operations /\ proc'[r] = proc[r] /\ Fills(r) /\ 1 \in DOMAIN tasks
      /\ FinalDocuments(r)' = FinalDocuments(r)
  BY StateOf, RunEffect, OtherIndexesStay, ContentKept DEF FillsUp
<1>2. index'[o] = index[o]
  BY <1>1, OtherIndexesStay DEF TasksFit
<1>3. /\ \A i \in DOMAIN tasks' : tasks'[i].by = r =>
           \E j \in DOMAIN tasks : tasks[j].by = r /\ tasks[j].documents = tasks'[i].documents
      /\ \A j \in DOMAIN tasks : tasks[j].by = r =>
           \E i \in DOMAIN tasks' : tasks'[i].by = r /\ tasks[j].documents = tasks'[i].documents
  <2>1. \A i \in DOMAIN tasks' : i + 1 \in DOMAIN tasks /\ tasks'[i] = tasks[i + 1]
    BY OtherIndexesStay
  <2>2. \A j \in DOMAIN tasks : tasks[j].by = r => j - 1 \in DOMAIN tasks' /\ tasks'[j - 1] = tasks[j]
    BY OtherIndexesStay
  <2> QED
    BY <2>1, <2>2
<1>4. Full(o)' <=> Full(o)
  BY <1>1, <1>2, RunEffect, ContentKept DEF Full
<1>5. OnlyListed(r)' <=> OnlyListed(r)
  BY <1>1, <1>2 DEF OnlyListed
<1>6. proc[r].pc = "swapped" /\ Full(Live) => Full(Live)'
  <2> SUFFICES ASSUME proc[r].pc = "swapped", Full(Live) PROVE \A p \in Projects : index'[Live][p] = Wanted(p)
    BY OtherIndexesStay
  <2>1. Clean(1)
    BY <1>1 DEF CleanFromHere, CleanAfter
  <2>2. tasks[1].kind \in {"put", "swap"}
    BY <1>1, TaskOf
  <2> QED
    BY <2>1, <2>2, RunEffect DEF Clean, Full
<1> QED
  BY <1>1, <1>2, <1>3, <1>4, <1>5, <1>6 DEF Fills, NoDocuments

\* A process's own task does what it is for, and it has no other.
LEMMA RunFillsOwn ==
  ASSUME RebuildIInv, RunTask, NEW r \in Processes, proc[r].pc \in Rebuilding, tasks[1].by = r
  PROVE  Fills(r)'
<1> USE DEF RebuildIInv
<1> DEFINE o == proc[r].op
<1>1. /\ o \in Operations /\ o # Live /\ proc'[r] = proc[r] /\ Fills(r) /\ 1 \in DOMAIN tasks /\ TaskFits(1, r)
      /\ FinalDocuments(r)' = FinalDocuments(r)
  BY StateOf, Apart, RunEffect, OtherIndexesStay, ContentKept DEF FillsUp, TasksFit
<1>2. tasks[1].index = o /\ \A i \in DOMAIN tasks : tasks[i].by = r => i = 1
  <2>1. \A i \in DOMAIN tasks : tasks[i].by = r => tasks[i].index = o
    BY DEF TasksFit, TaskFits, Rebuilding
  <2> QED
    BY <1>1, <2>1 DEF WorkersApart
<1>3. \A i \in DOMAIN tasks' : tasks'[i].by # r
  BY <1>2, OtherIndexesStay
<1>4. CASE proc[r].pc = "filled"
  <2>1. OnlyListed(r) /\ DOMAIN tasks[1].documents \subseteq proc[r].initial /\ tasks[1].kind = "put"
    BY <1>1, <1>4 DEF Fills, TaskFits
  <2>2. OnlyListed(r)'
    BY <1>1, <1>2, <2>1, RunEffect DEF OnlyListed
  <2> QED
    BY <1>1, <1>3, <1>4, <2>2 DEF Fills
<1>5. CASE proc[r].pc = "refilled"
  <2>1. OnlyListed(r) /\ tasks[1].documents = FinalDocuments(r) /\ tasks[1].kind = "put"
    BY <1>1, <1>2, <1>5 DEF Fills, TaskFits
  <2>2. \A p \in Projects : index'[o][p] = Wanted(p)
    <3> SUFFICES ASSUME NEW p \in Projects PROVE index'[o][p] = Wanted(p)
      OBVIOUS
    <3>1. CASE p \in Published \cup proc[r].initial
      <4>1. p \in DOMAIN tasks[1].documents /\ tasks[1].documents[p] = Wanted(p)
        BY <2>1, <3>1 DEF FinalDocuments
      <4> QED
        BY <1>2, <2>1, <4>1, RunEffect
    <3>2. CASE p \notin Published \cup proc[r].initial
      <4>1. p \notin DOMAIN tasks[1].documents /\ index[o][p] = 0
        BY <2>1, <3>2 DEF FinalDocuments, OnlyListed
      <4>2. Wanted(p) = 0
        BY <3>2, Apart DEF Published
      <4> QED
        BY <1>2, <2>1, <4>1, <4>2, RunEffect
    <3> QED
      BY <3>1, <3>2
  <2>3. Full(o)'
    BY <1>1, <2>2, OtherIndexesStay
  <2> QED
    BY <1>1, <1>3, <1>5, <2>3 DEF Fills
<1>6. CASE proc[r].pc = "swapped"
  <2>1. Full(o) /\ tasks[1].kind = "swap"
    BY <1>1, <1>6 DEF Fills, TaskFits
  <2>2. \A p \in Projects : index'[Live][p] = Wanted(p)
    BY <1>2, <2>1, RunEffect DEF Full
  <2>3. Full(Live)'
    BY <2>2, OtherIndexesStay
  <2> QED
    BY <1>1, <1>3, <1>6, <2>3 DEF Fills
<1> QED
  BY <1>1, <1>4, <1>5, <1>6 DEF TaskFits, Rebuilding

\* A task that runs keeps the invariant.
LEMMA RunTaskStep ==
  ASSUME RebuildIInv, RunTask
  PROVE  RebuildIInv'
<1> USE DEF RebuildIInv
<1>1. /\ tasks # << >> /\ tasks' = Tail(tasks) /\ UNCHANGED <<content, rows, ops, proc, locked>>
      /\ \A p \in Projects : Wanted(p)' = Wanted(p)
  BY RunEffect, ContentKept
<1>2. /\ \A i \in DOMAIN tasks' : i + 1 \in DOMAIN tasks /\ i + 1 # 1 /\ i \in Nat /\ tasks'[i] = tasks[i + 1]
      /\ 1 \in DOMAIN tasks
  BY OtherIndexesStay
<1>3. Types'
  BY <1>1, RunEffect, Shortened DEF Types
<1>4. OperationsInTurn'
  <2>1. \A o \in Operations : ops[o] \in {"absent", "pending"} => index'[o] = index[o]
    BY <1>2, OtherIndexesStay DEF OperationsInTurn
  <2> QED
    BY <1>1, <1>2, <2>1 DEF OperationsInTurn, Active, NoDocuments
<1>5. WorkersApart'
  <2>1. \A i, j \in DOMAIN tasks' : tasks'[i].index = tasks'[j].index /\ i # j => tasks'[i].index = Live
    BY <1>2 DEF WorkersApart
  <2> QED
    BY <1>1, <2>1 DEF WorkersApart
<1>6. TasksFit'
  <2>1. \A i \in DOMAIN tasks', r \in Processes : TaskFits(i, r)' <=> TaskFits(i + 1, r)
    BY <1>1, <1>2 DEF TaskFits
  <2> QED
    BY <1>1, <1>2, <2>1 DEF TasksFit
<1>7. FillsUp'
  <2> SUFFICES ASSUME NEW r \in Processes PROVE Fills(r)'
    BY DEF FillsUp
  <2>1. CASE proc[r].pc \in Rebuilding
    BY <2>1, RunFillsOther, RunFillsOwn
  <2>2. CASE proc[r].pc \notin Rebuilding
    BY <1>1, <2>2 DEF Fills, Rebuilding
  <2> QED
    BY <2>1, <2>2
<1>8. CleanFromHere'
  <2>1. \A i \in DOMAIN tasks' : Clean(i + 1) => Clean(i)'
    <3> SUFFICES ASSUME NEW i \in DOMAIN tasks', Clean(i + 1)
                 PROVE  /\ tasks'[i].index # Live
                        /\ tasks'[i].kind = "swap" => \A p \in Projects : index'[tasks'[i].index][p] = Wanted(p)'
      BY DEF Clean, Full
    <3> QED
      BY <1>1, <1>2, OtherIndexesStay
  <2> SUFFICES ASSUME NEW r \in Processes PROVE CleanAfter(r)'
    BY DEF CleanFromHere
  <2>2. ASSUME NEW i \in DOMAIN tasks', \A j \in DOMAIN tasks' : tasks'[j].by = r => j < i
        PROVE  \A j \in DOMAIN tasks : tasks[j].by = r => j < i + 1
    <3> SUFFICES ASSUME NEW j \in DOMAIN tasks, tasks[j].by = r PROVE j < i + 1
      OBVIOUS
    <3>1. i \in Nat /\ i # 0
      BY <1>2
    <3>2. CASE j = 1
      BY <3>1, <3>2
    <3>3. CASE j # 1
      <4>1. j - 1 \in DOMAIN tasks' /\ tasks'[j - 1] = tasks[j] /\ j \in Nat
        BY <3>3, OtherIndexesStay
      <4>2. j - 1 < i
        BY <2>2, <4>1
      <4> QED
        BY <3>1, <4>1, <4>2
    <3> QED
      BY <3>2, <3>3
  <2> QED
    BY <1>1, <1>2, <2>1, <2>2 DEF CleanFromHere, CleanAfter
<1>9. RowsStayRight'
  <2> SUFFICES ASSUME NEW i \in DOMAIN tasks', NEW p \in Projects, rows[p].state = "synced"
               PROVE  /\ tasks'[i].kind = "swap" => index'[tasks'[i].index][p] = Wanted(p)
                      /\ tasks'[i].kind = "put" /\ tasks'[i].index = Live => p \notin DOMAIN tasks'[i].documents
    BY <1>1 DEF RowsStayRight
  <2>1. tasks[i + 1].kind = "swap" => tasks[i + 1].index # Live
    BY <1>2, TaskOf, Apart
  <2>2. tasks[i + 1].kind = "swap" => index'[tasks[i + 1].index] = index[tasks[i + 1].index]
    BY <1>2, <2>1, OtherIndexesStay
  <2> QED
    BY <1>2, <2>2 DEF RowsStayRight
<1>10. SyncedMeansIndexed'
  <2> SUFFICES ASSUME NEW p \in Projects, rows[p].state = "synced" PROVE index'[Live][p] = Wanted(p)
    BY <1>1 DEF SyncedMeansIndexed
  <2>1. index[Live][p] = Wanted(p)
    BY DEF SyncedMeansIndexed
  <2>2. /\ tasks[1].kind = "swap" => index[tasks[1].index][p] = Wanted(p)
        /\ tasks[1].kind = "put" /\ tasks[1].index = Live => p \notin DOMAIN tasks[1].documents
    BY <1>2 DEF RowsStayRight
  <2>3. tasks[1].kind \in {"put", "swap"}
    BY <1>2, TaskOf
  <2> QED
    BY <2>1, <2>2, <2>3, RunEffect
<1>11. RowsAlone'
  <2> SUFFICES ASSUME NEW r \in Processes, RowAlone(r), proc[r].pc = "sent" PROVE RowAlone(r)'
    <3> SUFFICES ASSUME NEW r \in Processes, RowAlone(r), proc[r].pc # "sent" PROVE RowAlone(r)'
      BY DEF RowsAlone
    <3>1. (Owns(r)' <=> Owns(r)) /\ proc'[r] = proc[r] /\ rows' = rows
      BY <1>1 DEF Owns
    <3>2. proc[r].pc \in Reconciling => Wanted(proc[r].project)' = Wanted(proc[r].project)
      BY <1>1, StateOf
    <3> QED
      BY <3>1, <3>2 DEF RowAlone
  <2> DEFINE p == proc[r].project
  <2>1. /\ tasks[Len(tasks)].by = r /\ p \in Projects /\ (Owns(r)' <=> Owns(r)) /\ Wanted(p)' = Wanted(p)
        /\ Owns(r) => tasks[Len(tasks)].documents = [x \in {p} |-> Wanted(p)]
    BY <1>1, StateOf DEF RowAlone, Reconciling, Owns
  <2>2. Len(tasks) \in Nat \ {0} /\ Len(tasks') = Len(tasks) - 1 /\ tasks' \in Seq(Puts \cup Swaps)
    BY <1>1, <1>3, Shortened DEF Types
  <2>3. CASE tasks' # << >>
    <3>1. Len(tasks') \in DOMAIN tasks' /\ Len(tasks') + 1 = Len(tasks)
      BY <2>2, <2>3
    <3>2. tasks'[Len(tasks')] = tasks[Len(tasks)]
      BY <1>2, <3>1
    <3> QED
      BY <1>1, <2>1, <2>3, <3>2 DEF RowAlone, Reconciling
  <2>4. CASE tasks' = << >>
    <3>1. Len(tasks) = 1
      BY <2>2, <2>4
    <3>2. tasks[1].kind = "put" /\ tasks[1].index = Live
      BY <1>2, <2>1, <3>1 DEF TasksFit, TaskFits
    <3>3. Owns(r) => index'[Live][p] = Wanted(p)
      BY <2>1, <3>1, <3>2, RunEffect
    <3> QED
      BY <1>1, <2>1, <2>4, <3>3 DEF RowAlone, Reconciling
  <2> QED
    BY <2>3, <2>4
<1> QED
  BY <1>3, <1>4, <1>5, <1>6, <1>7, <1>8, <1>9, <1>10, <1>11

-----------------------------------------------------------------------------
(* The theorems. *)

\* Before anything happens the invariant holds.
LEMMA RebuildInit == Init => RebuildIInv
<1> SUFFICES ASSUME Init PROVE RebuildIInv
  OBVIOUS
<1> USE DEF Init
<1>1. Types
  <2>1. Down \in States /\ Down.pc \notin Locking /\ Nil \in Owners /\ 1 \in 1..MaxRevision
    BY RebuildAssumption DEF Down, States, Locking, Owners
  <2> QED
    BY <2>1, RebuildAssumption DEF Types, NoDocuments
<1>2. OperationsInTurn /\ WorkersApart /\ TasksFit
  BY DEF OperationsInTurn, Active, WorkersApart, TasksFit, Down, Rebuilding
<1>3. FillsUp /\ CleanFromHere /\ RowsAlone
  BY DEF FillsUp, Fills, CleanFromHere, CleanAfter, RowsAlone, RowAlone, Down, Reconciling
<1>4. RowsStayRight /\ SyncedMeansIndexed
  BY DEF RowsStayRight, SyncedMeansIndexed
<1> QED
  BY <1>1, <1>2, <1>3, <1>4 DEF RebuildIInv

\* Every step keeps it.
LEMMA RebuildStep == NoRowsBeside /\ RebuildIInv /\ [Next]_vars => RebuildIInv'
<1> SUFFICES ASSUME NoRowsBeside, RebuildIInv, [Next]_vars PROVE RebuildIInv'
  OBVIOUS
<1>1. ASSUME NEW p \in Projects, NEW published \in BOOLEAN, Edit(p, published) PROVE RebuildIInv'
  BY <1>1, EditStep
<1>2. ASSUME NEW o \in Operations, CreateRebuild(o) PROVE RebuildIInv'
  BY <1>2, CreateRebuildStep
<1>3. ASSUME NEW q \in Processes, Start(q) \/ Crash(q) PROVE RebuildIInv'
  BY <1>3, StartStep, CrashStep
<1>4. ASSUME NEW q \in Processes, Rebuild(q) PROVE RebuildIInv'
  BY <1>4, ClaimRebuildStep, ListProjectsStep, BuildDocumentsStep, LockTablesStep, RefillIndexStep,
     SwapIndexesStep, CompleteRebuildStep, FailRebuildStep DEF Rebuild
<1>5. ASSUME NEW q \in Processes, Reconcile(q) PROVE RebuildIInv'
  BY <1>5, ClaimRowStep, BuildRowStep, SendRowStep, MarkRowStep DEF Reconcile
<1>6. ASSUME RunTask PROVE RebuildIInv'
  BY <1>6, RunTaskStep
<1>7. ASSUME UNCHANGED vars PROVE RebuildIInv'
  <2> USE <1>7 DEF vars, RebuildIInv
  <2>1. Types' /\ OperationsInTurn' /\ WorkersApart' /\ TasksFit'
    BY DEF Types, OperationsInTurn, Active, NoDocuments, WorkersApart, TasksFit, TaskFits
  <2>2. FillsUp'
    BY DEF FillsUp, Fills, OnlyListed, FinalDocuments, Published, NoDocuments, Full, Wanted
  <2>3. CleanFromHere' /\ RowsStayRight' /\ RowsAlone' /\ SyncedMeansIndexed'
    BY DEF CleanFromHere, CleanAfter, Clean, Full, Wanted, RowsStayRight, RowsAlone, RowAlone, Owns, SyncedMeansIndexed
  <2> QED
    BY <2>1, <2>2, <2>3
<1> QED
  BY <1>1, <1>2, <1>3, <1>4, <1>5, <1>6, <1>7 DEF Next

\* The invariant of the rebuild (reconciler.go, maintenance.go): one active
\* operation, every process on an index of its own, the new index completed
\* while the projects are frozen, and rows that say synced right.
THEOREM RebuildInvariant ==
  ASSUME NoRowsBeside PROVE Spec => []RebuildIInv
<1>1. Init => RebuildIInv
  BY RebuildInit
<1>2. RebuildIInv /\ [Next]_vars => RebuildIInv'
  BY RebuildStep
<1> QED
  BY <1>1, <1>2, PTL DEF Spec

\* Types, and at most one operation is active (the unique index of
\* search_rebuild_operations).
THEOREM RebuildTypesTheorem ==
  ASSUME NoRowsBeside PROVE Spec => []TypeOK
<1>1. RebuildIInv => TypeOK
  <2> SUFFICES ASSUME RebuildIInv PROVE TypeOK
    OBVIOUS
  <2>1. Cardinality(Active) <= 1
    <3>1. CASE Active = {}
      BY <3>1, FS_EmptySet
    <3>2. CASE Active # {}
      <4>1. PICK o \in Active : Active = {o}
        BY <3>2 DEF RebuildIInv, OperationsInTurn
      <4> QED
        BY <4>1, FS_Singleton
    <3> QED
      BY <3>1, <3>2
  <2> QED
    BY <2>1 DEF RebuildIInv, Types, TypeOK, Locking
<1> QED
  BY <1>1, RebuildInvariant, PTL

\* A row that says synced is right about the index that searches use, after
\* any edits, crashes, failures, restarts and leftover tasks.
THEOREM SyncedMeansIndexedTheorem ==
  ASSUME NoRowsBeside PROVE Spec => []SyncedMeansIndexed
BY RebuildInvariant, PTL DEF RebuildIInv

\* Searching never goes backwards, also when the index is swapped.
THEOREM NeverBackwardsTheorem ==
  ASSUME NoRowsBeside PROVE Spec => NeverBackwards
<1>1. RebuildIInv /\ [Next]_vars =>
        [\A p \in Projects :
           rows[p].state = "synced" /\ index[Live][p] = Wanted(p) /\ content'[p] = content[p]
             => index'[Live][p] = Wanted(p)]_vars
  <2> SUFFICES ASSUME RebuildIInv, [Next]_vars, NEW p \in Projects,
                      rows[p].state = "synced", index[Live][p] = Wanted(p), content'[p] = content[p]
               PROVE  index'[Live][p] = Wanted(p)
    OBVIOUS
  <2>1. CASE index' = index
    BY <2>1
  <2>2. CASE RunTask
    <3>1. RebuildIInv' /\ rows' = rows /\ Wanted(p)' = Wanted(p)
      BY <2>2, RunTaskStep, RunEffect DEF Wanted
    <3> QED
      BY <3>1 DEF RebuildIInv, SyncedMeansIndexed
  <2>3. index' = index \/ RunTask
    BY DEF vars, Next, Rebuild, Reconcile, Edit, CreateRebuild, Start, Crash, ClaimRebuild, ListProjects, BuildDocuments,
       LockTables, RefillIndex, SwapIndexes, CompleteRebuild, FailRebuild, ClaimRow, BuildRow, SendRow, MarkRow
  <2> QED
    BY <2>1, <2>2, <2>3
<1> QED
  BY <1>1, RebuildInvariant, PTL DEF Spec, NeverBackwards

\* An operation that has ended stays as it is, and one that ends as completed
\* leaves the index that searches use full; on the way no document is lost.
THEOREM RebuildsEndRightTheorem ==
  ASSUME NoRowsBeside PROVE Spec => RebuildsEndRight
<1>1. RebuildIInv /\ [Next]_vars =>
        [\A o \in Operations : ops[o] \in {"completed", "failed"} => ops'[o] = ops[o]]_vars
  <2> SUFFICES ASSUME RebuildIInv, Next, NEW o \in Operations, ops[o] \in {"completed", "failed"}
               PROVE  ops'[o] = ops[o]
    BY DEF vars
  <2>1. ops \in [Operations -> {"absent", "pending", "processing", "completed", "failed"}]
    BY DEF RebuildIInv, Types
  <2>2. ASSUME NEW q \in Processes, Rebuild(q) \/ Start(q) PROVE ops'[o] = ops[o]
    BY <2>1, <2>2 DEF Rebuild, ClaimRebuild, ListProjects, BuildDocuments,
       LockTables, RefillIndex, SwapIndexes, CompleteRebuild, FailRebuild, Start
  <2>3. ASSUME NEW k \in Operations, CreateRebuild(k) PROVE ops'[o] = ops[o]
    BY <2>1, <2>3 DEF CreateRebuild
  <2> QED
    BY <2>2, <2>3 DEF Next, Edit, Crash, Reconcile, ClaimRow, BuildRow, SendRow, MarkRow, RunTask
<1>2. NoRowsBeside /\ RebuildIInv /\ [Next]_vars =>
        [\A o \in Operations : ops[o] # "completed" /\ ops'[o] = "completed" =>
           \A p \in Projects : index[Live][p] = Wanted(p)]_vars
  <2> SUFFICES ASSUME NoRowsBeside, RebuildIInv, Next, NEW o \in Operations,
                      ops[o] # "completed", ops'[o] = "completed"
               PROVE  \A p \in Projects : index[Live][p] = Wanted(p)
    BY DEF vars
  <2>1. ops \in [Operations -> {"absent", "pending", "processing", "completed", "failed"}]
    BY DEF RebuildIInv, Types
  <2>2. ASSUME NEW q \in Processes, Rebuild(q) \/ Start(q) PROVE CompleteRebuild(q)
    BY <2>1, <2>2 DEF Rebuild, ClaimRebuild, ListProjects, BuildDocuments,
       LockTables, RefillIndex, SwapIndexes, FailRebuild, Start
  <2>3. ASSUME NEW k \in Operations, CreateRebuild(k) PROVE FALSE
    BY <2>1, <2>3 DEF CreateRebuild
  <2>4. \E q \in Processes : CompleteRebuild(q)
    BY <2>2, <2>3 DEF Next, Edit, Crash, Reconcile, ClaimRow, BuildRow, SendRow, MarkRow, RunTask
  <2> QED
    BY <2>4, CompleteRebuildStep DEF Full
<1>3. Spec => RebuildEndsOnce
  BY <1>1, RebuildInvariant, PTL DEF Spec, RebuildEndsOnce
<1>4. Spec => CompletedMeansIndexed
  BY <1>2, RebuildInvariant, PTL DEF Spec, CompletedMeansIndexed
<1> QED
  BY <1>3, <1>4, NeverBackwardsTheorem DEF RebuildsEndRight

-----------------------------------------------------------------------------
(* Connections and locks.                                                  *)
(*                                                                         *)
(* What an actor holds follows from how many instructions it has left, for *)
(* its program is straight.                                                *)

Tables == {"projects", "aliases", "participations", "terms", "artifacts"}

\* The connections of an actor of a kind with n instructions left.
ConnsAt(kind, n) ==
  CASE kind = "list" -> IF n \in {0, 14} THEN 0 ELSE IF n \in {1, 3, 5, 7, 9, 11, 13} THEN 1 ELSE 2
    [] kind = "replace" -> IF n \in {0, 7} THEN 0 ELSE 1
    [] kind = "artifact" -> IF n \in {0, 5} THEN 0 ELSE 1
    [] kind = "rebuild" -> IF n \in {0, 11, 13, 15} THEN 0 ELSE IF n \in {2, 4} THEN 2 ELSE 1

\* The lengths at which an actor may hold locks: until it commits.
LockedUpTo(kind) ==
  CASE kind = "list" -> 0 [] kind = "replace" -> 6 [] kind = "artifact" -> 4 [] kind = "rebuild" -> 10

\* The tables a rebuild locks, in their order, and when the lock is taken.
SharedAt == [t \in Tables |-> CASE t = "projects" -> 9 [] t = "aliases" -> 8
                                [] t = "participations" -> 7 [] t = "terms" -> 6
                                [] t = "artifacts" -> 5]

Length(kind) ==
  CASE kind = "list" -> 14 [] kind = "replace" -> 7 [] kind = "artifact" -> 5 [] kind = "rebuild" -> 15

Sorts == {"list", "replace", "artifact", "rebuild"}

Instructions ==
  [do : {"acquire", "release", "commit"}]
    \cup [do : {"lock"}, on : Tables, mode : {"write", "share"}]
    \cup [do : {"lock"}, on : {"row"}, mode : {"own"}]

\* The next instruction of a kind with n left.
Takes == [do |-> "acquire"]
Returns == [do |-> "release"]
Commits == [do |-> "commit"]
Locks(on, mode) == [do |-> "lock", on |-> on, mode |-> mode]
NextOfList(n) == IF n \in {14, 13, 11, 9, 7, 5, 3} THEN Takes ELSE Returns
NextOfReplace(n) ==
  CASE n = 7 -> Takes [] n = 6 -> Locks("projects", "write") [] n = 5 -> Locks("row", "own")
    [] n = 4 -> Locks("aliases", "write") [] n = 3 -> Locks("participations", "write")
    [] n = 2 -> Locks("terms", "write") [] n = 1 -> Commits
NextOfArtifact(n) ==
  CASE n = 5 -> Takes [] n = 4 -> Locks("row", "own") [] n = 3 -> Locks("artifacts", "write")
    [] n = 2 -> Locks("projects", "write") [] n = 1 -> Commits
NextOfRebuild(n) ==
  CASE n = 10 -> Locks("projects", "share") [] n = 9 -> Locks("aliases", "share")
    [] n = 8 -> Locks("participations", "share") [] n = 7 -> Locks("terms", "share")
    [] n = 6 -> Locks("artifacts", "share")
    [] n \in {15, 13, 11, 5, 3} -> Takes [] n \in {14, 12, 4, 2} -> Returns [] n = 1 -> Commits
NextOf(kind, n) ==
  CASE kind = "list" -> NextOfList(n) [] kind = "replace" -> NextOfReplace(n)
    [] kind = "artifact" -> NextOfArtifact(n) [] kind = "rebuild" -> NextOfRebuild(n)

\* Two programs one after the other.
Joins(r, s, t) ==
  /\ r \in Seq(Instructions) /\ Len(r) = Len(s) + Len(t)
  /\ \A i \in 1..(Len(s) + Len(t)) : r[i] = IF i <= Len(s) THEN s[i] ELSE t[i - Len(s)]

LEMMA OneAfterTheOther ==
  ASSUME NEW s \in Seq(Instructions), NEW t \in Seq(Instructions)
  PROVE  Joins(s \o t, s, t)
  BY ConcatProperties DEF Joins

LEMMA Singles ==
  /\ Acquire \in Seq(Instructions) /\ Len(Acquire) = 1 /\ Acquire[1] = Takes
  /\ Release \in Seq(Instructions) /\ Len(Release) = 1 /\ Release[1] = Returns
  /\ Commit \in Seq(Instructions) /\ Len(Commit) = 1 /\ Commit[1] = Commits
  /\ \A t \in Tables, m \in {"write", "share"} :
       /\ Lock(t, m) \in Seq(Instructions) /\ Len(Lock(t, m)) = 1
       /\ Lock(t, m)[1] = Locks(t, m)
  /\ /\ Lock("row", "own") \in Seq(Instructions) /\ Len(Lock("row", "own")) = 1
     /\ Lock("row", "own")[1] = Locks("row", "own")
  BY DEF Acquire, Release, Commit, Lock, Takes, Returns, Commits, Locks, Instructions

\* A lock on a table is one instruction.
IsSingle(s, e) == s \in Seq(Instructions) /\ Len(s) = 1 /\ s[1] = e

LEMMA TableLocks ==
  ASSUME NEW m \in {"write", "share"}
  PROVE  /\ IsSingle(Lock("projects", m), Locks("projects", m))
         /\ IsSingle(Lock("aliases", m), Locks("aliases", m))
         /\ IsSingle(Lock("participations", m), Locks("participations", m))
         /\ IsSingle(Lock("terms", m), Locks("terms", m))
         /\ IsSingle(Lock("artifacts", m), Locks("artifacts", m))
  BY Singles DEF IsSingle, Tables

\* A program and an instruction after it.
Grows(r, s, e) ==
  /\ r \in Seq(Instructions) /\ Len(r) = Len(s) + 1
  /\ \A i \in 1..Len(s) : r[i] = s[i]
  /\ r[Len(s) + 1] = e

LEMMA OneMore ==
  ASSUME NEW s \in Seq(Instructions), NEW t, NEW e, IsSingle(t, e)
  PROVE  Grows(s \o t, s, e)
<1>1. t \in Seq(Instructions) /\ Len(t) = 1 /\ t[1] = e /\ Len(s) \in Nat
  BY DEF IsSingle
<1>2. Joins(s \o t, s, t)
  BY <1>1, OneAfterTheOther
<1>. QED  BY <1>1, <1>2 DEF Joins, Grows

LEMMA ReadsShape ==
  /\ Query \in Seq(Instructions) /\ Len(Query) = 2
  /\ Query[1] = Takes /\ Query[2] = Returns
  /\ BuildDocument \in Seq(Instructions) /\ Len(BuildDocument) = 4
  /\ BuildDocument[1] = Takes /\ BuildDocument[2] = Returns
  /\ BuildDocument[3] = Takes /\ BuildDocument[4] = Returns
  /\ LoadChildren \in Seq(Instructions) /\ Len(LoadChildren) = 6
  /\ LoadChildren[1] = Takes /\ LoadChildren[2] = Returns
  /\ LoadChildren[3] = Takes /\ LoadChildren[4] = Returns
  /\ LoadChildren[5] = Takes /\ LoadChildren[6] = Returns
<1>1. /\ Query \in Seq(Instructions) /\ Len(Query) = 2
      /\ Query[1] = Takes /\ Query[2] = Returns
  <2>1. Joins(Query, Acquire, Release)
    BY OneAfterTheOther, Singles DEF Query
  <2>. QED  BY <2>1, Singles DEF Joins
<1>2. /\ BuildDocument \in Seq(Instructions) /\ Len(BuildDocument) = 4
      /\ BuildDocument[1] = Takes /\ BuildDocument[2] = Returns
      /\ BuildDocument[3] = Takes /\ BuildDocument[4] = Returns
  <2>1. Joins(BuildDocument, Query, Query)
    BY <1>1, OneAfterTheOther DEF BuildDocument
  <2>. QED  BY <1>1, <2>1 DEF Joins
<1>3. Joins(LoadChildren, BuildDocument, Query)
  <2>1. LoadChildren = BuildDocument \o Query
    BY DEF LoadChildren, BuildDocument
  <2>. QED  BY <1>1, <1>2, <2>1, OneAfterTheOther
<1>. QED  BY <1>1, <1>2, <1>3 DEF Joins

LEMMA ListShape ==
  /\ List \in Seq(Instructions) /\ Len(List) = 14
  /\ \A i \in 1..14 : List[i] = NextOfList(15 - i)
<1>1. PICK p : p = Acquire \o LoadChildren
  OBVIOUS
<1>2. PICK q : q = p \o LoadChildren
  OBVIOUS
<1>3. Joins(p, Acquire, LoadChildren)
  BY <1>1, OneAfterTheOther, Singles, ReadsShape
<1>4. p \in Seq(Instructions) /\ Len(p) = 7
  BY <1>3, Singles, ReadsShape DEF Joins
<1>5. Joins(q, p, LoadChildren)
  BY <1>2, <1>4, OneAfterTheOther, ReadsShape
<1>6. q \in Seq(Instructions) /\ Len(q) = 13
  BY <1>4, <1>5, ReadsShape DEF Joins
<1>7. Joins(List, q, Release)
  <2>1. List = q \o Release
    BY <1>1, <1>2 DEF List
  <2>. QED  BY <1>6, <2>1, OneAfterTheOther, Singles
<1>8. ASSUME NEW i \in 1..14
      PROVE  List[i] = NextOfList(15 - i)
  <2>1. i <= 13 => List[i] = q[i]
    BY <1>6, <1>7, Singles DEF Joins
  <2>2. i = 14 => List[i] = Release[1]
    BY <1>6, <1>7, Singles DEF Joins
  <2>3. i \in 8..13 => q[i] = LoadChildren[i - 7]
    BY SMTT(30), <1>4, <1>5, ReadsShape DEF Joins
  <2>4. i \in 1..7 => q[i] = p[i]
    BY SMTT(30), <1>4, <1>5, ReadsShape DEF Joins
  <2>5. i \in 2..7 => p[i] = LoadChildren[i - 1]
    BY <1>3, Singles, ReadsShape DEF Joins
  <2>6. i = 1 => p[i] = Acquire[1]
    BY <1>3, Singles, ReadsShape DEF Joins
  <2>7. CASE i \in 8..13
    <3>1. List[i] = LoadChildren[i - 7]
      BY <2>1, <2>3, <2>7
    <3>. QED  BY SMTT(30), <2>7, <3>1, ReadsShape DEF NextOfList
  <2>8. CASE i \in 2..7
    <3>1. List[i] = LoadChildren[i - 1]
      BY <2>1, <2>4, <2>5, <2>8
    <3>. QED  BY <2>8, <3>1, ReadsShape DEF NextOfList
  <2>9. CASE i \in {1, 14}
    BY <2>1, <2>2, <2>4, <2>6, <2>9, Singles DEF NextOfList
  <2>. QED  BY <2>7, <2>8, <2>9
<1>9. List \in Seq(Instructions) /\ Len(List) = 14
  BY <1>6, <1>7, Singles DEF Joins
<1>. QED  BY <1>8, <1>9
LEMMA ReplaceShape ==
  /\ Replace \in Seq(Instructions) /\ Len(Replace) = 7
  /\ \A i \in 1..7 : Replace[i] = NextOfReplace(8 - i)
<1>1. /\ IsSingle(Lock("projects", "write"), Locks("projects", "write"))
      /\ IsSingle(Lock("aliases", "write"), Locks("aliases", "write"))
      /\ IsSingle(Lock("participations", "write"), Locks("participations", "write"))
      /\ IsSingle(Lock("terms", "write"), Locks("terms", "write"))
      /\ IsSingle(Lock("row", "own"), Locks("row", "own"))
      /\ IsSingle(Acquire, Takes) /\ IsSingle(Commit, Commits)
  BY TableLocks, Singles DEF IsSingle
<1>2. PICK p : p = Lock("aliases", "write") \o Lock("participations", "write")
  OBVIOUS
<1>3. /\ p \in Seq(Instructions) /\ Len(p) = 2
      /\ p[1] = Locks("aliases", "write") /\ p[2] = Locks("participations", "write")
  <2>1. Grows(p, Lock("aliases", "write"), Locks("participations", "write"))
    BY <1>1, <1>2, OneMore DEF IsSingle
  <2>. QED  BY <1>1, <1>2, <2>1 DEF Grows, IsSingle
<1>4. PICK q : q = p \o Lock("terms", "write")
  OBVIOUS
<1>5. /\ q \in Seq(Instructions) /\ Len(q) = 3
      /\ q[1] = p[1] /\ q[2] = p[2] /\ q[3] = Locks("terms", "write")
  <2>1. Grows(q, p, Locks("terms", "write"))
    BY <1>1, <1>3, <1>4, OneMore
  <2>. QED  BY <1>1, <1>3, <1>4, <2>1 DEF Grows
<1>6. PICK u : u = Acquire \o Lock("projects", "write")
  OBVIOUS
<1>7. u \in Seq(Instructions) /\ Len(u) = 2 /\ u[1] = Takes /\ u[2] = Locks("projects", "write")
  <2>1. Grows(u, Acquire, Locks("projects", "write"))
    BY <1>1, <1>6, OneMore DEF IsSingle
  <2>. QED  BY <1>1, <1>6, <2>1 DEF Grows, IsSingle
<1>8. PICK v : v = u \o Lock("row", "own")
  OBVIOUS
<1>9. /\ v \in Seq(Instructions) /\ Len(v) = 3
      /\ v[1] = u[1] /\ v[2] = u[2] /\ v[3] = Locks("row", "own")
  <2>1. Grows(v, u, Locks("row", "own"))
    BY <1>1, <1>7, <1>8, OneMore
  <2>. QED  BY <1>1, <1>7, <1>8, <2>1 DEF Grows
<1>10. PICK w : w = v \o q
  OBVIOUS
<1>11. Joins(w, v, q)
  BY <1>5, <1>9, <1>10, OneAfterTheOther
<1>12. /\ w \in Seq(Instructions) /\ Len(w) = 6 /\ w[1] = v[1] /\ w[2] = v[2] /\ w[3] = v[3]
       /\ w[4] = q[1] /\ w[5] = q[2] /\ w[6] = q[3]
  BY <1>5, <1>9, <1>11 DEF Joins
<1>13. Replace = w \o Commit
  BY <1>2, <1>4, <1>6, <1>8, <1>10 DEF Replace, WriteChildren, Write
<1>14. /\ Replace \in Seq(Instructions) /\ Len(Replace) = 7 /\ Replace[7] = Commits
       /\ \A i \in 1..6 : Replace[i] = w[i]
  <2>1. Grows(Replace, w, Commits)
    BY <1>1, <1>12, <1>13, OneMore
  <2>. QED  BY <1>1, <1>12, <1>13, <2>1 DEF Grows
<1>. QED  BY <1>3, <1>5, <1>7, <1>9, <1>12, <1>14 DEF NextOfReplace

LEMMA ArtifactShape ==
  /\ ArtifactChange \in Seq(Instructions) /\ Len(ArtifactChange) = 5
  /\ \A i \in 1..5 : ArtifactChange[i] = NextOfArtifact(6 - i)
<1>1. /\ IsSingle(Lock("projects", "write"), Locks("projects", "write"))
      /\ IsSingle(Lock("artifacts", "write"), Locks("artifacts", "write"))
      /\ IsSingle(Lock("row", "own"), Locks("row", "own"))
      /\ IsSingle(Acquire, Takes) /\ IsSingle(Commit, Commits)
  BY TableLocks, Singles DEF IsSingle
<1>2. PICK p : p = Acquire \o Lock("row", "own")
  OBVIOUS
<1>3. p \in Seq(Instructions) /\ Len(p) = 2 /\ p[1] = Takes /\ p[2] = Locks("row", "own")
  <2>1. Grows(p, Acquire, Locks("row", "own"))
    BY <1>1, <1>2, OneMore DEF IsSingle
  <2>. QED  BY <1>1, <1>2, <2>1 DEF Grows, IsSingle
<1>4. PICK q : q = p \o Lock("artifacts", "write")
  OBVIOUS
<1>5. /\ q \in Seq(Instructions) /\ Len(q) = 3
      /\ q[1] = p[1] /\ q[2] = p[2] /\ q[3] = Locks("artifacts", "write")
  <2>1. Grows(q, p, Locks("artifacts", "write"))
    BY <1>1, <1>3, <1>4, OneMore
  <2>. QED  BY <1>1, <1>3, <1>4, <2>1 DEF Grows
<1>6. PICK u : u = q \o Lock("projects", "write")
  OBVIOUS
<1>7. /\ u \in Seq(Instructions) /\ Len(u) = 4
      /\ u[1] = q[1] /\ u[2] = q[2] /\ u[3] = q[3] /\ u[4] = Locks("projects", "write")
  <2>1. Grows(u, q, Locks("projects", "write"))
    BY <1>1, <1>5, <1>6, OneMore
  <2>. QED  BY <1>1, <1>5, <1>6, <2>1 DEF Grows
<1>8. ArtifactChange = u \o Commit
  BY <1>2, <1>4, <1>6 DEF ArtifactChange, Write
<1>9. /\ ArtifactChange \in Seq(Instructions) /\ Len(ArtifactChange) = 5 /\ ArtifactChange[5] = Commits
      /\ \A i \in 1..4 : ArtifactChange[i] = u[i]
  <2>1. Grows(ArtifactChange, u, Commits)
    BY <1>1, <1>7, <1>8, OneMore
  <2>. QED  BY <1>1, <1>7, <1>8, <2>1 DEF Grows
<1>. QED  BY <1>3, <1>5, <1>7, <1>9 DEF NextOfArtifact

LEMMA RebuildShape ==
  /\ RebuildIndex \in Seq(Instructions) /\ Len(RebuildIndex) = 15
  /\ \A i \in 1..15 : RebuildIndex[i] = NextOfRebuild(16 - i)
<1>1. /\ IsSingle(Lock("projects", "share"), Locks("projects", "share"))
      /\ IsSingle(Lock("aliases", "share"), Locks("aliases", "share"))
      /\ IsSingle(Lock("participations", "share"), Locks("participations", "share"))
      /\ IsSingle(Lock("terms", "share"), Locks("terms", "share"))
      /\ IsSingle(Lock("artifacts", "share"), Locks("artifacts", "share"))
      /\ IsSingle(Acquire, Takes) /\ IsSingle(Commit, Commits)
  BY TableLocks, Singles DEF IsSingle
<1>2. PICK p : p = Lock("projects", "share") \o Lock("aliases", "share")
  OBVIOUS
<1>3. /\ p \in Seq(Instructions) /\ Len(p) = 2
      /\ p[1] = Locks("projects", "share") /\ p[2] = Locks("aliases", "share")
  <2>1. Grows(p, Lock("projects", "share"), Locks("aliases", "share"))
    BY <1>1, <1>2, OneMore DEF IsSingle
  <2>. QED  BY <1>1, <1>2, <2>1 DEF Grows, IsSingle
<1>4. PICK q : q = p \o Lock("participations", "share")
  OBVIOUS
<1>5. /\ q \in Seq(Instructions) /\ Len(q) = 3
      /\ q[1] = p[1] /\ q[2] = p[2] /\ q[3] = Locks("participations", "share")
  <2>1. Grows(q, p, Locks("participations", "share"))
    BY <1>1, <1>3, <1>4, OneMore
  <2>. QED  BY <1>1, <1>3, <1>4, <2>1 DEF Grows
<1>6. PICK u : u = q \o Lock("terms", "share")
  OBVIOUS
<1>7. /\ u \in Seq(Instructions) /\ Len(u) = 4
      /\ u[1] = q[1] /\ u[2] = q[2] /\ u[3] = q[3] /\ u[4] = Locks("terms", "share")
  <2>1. Grows(u, q, Locks("terms", "share"))
    BY <1>1, <1>5, <1>6, OneMore
  <2>. QED  BY <1>1, <1>5, <1>6, <2>1 DEF Grows
<1>8. PICK v : v = u \o Lock("artifacts", "share")
  OBVIOUS
<1>9. /\ v \in Seq(Instructions) /\ Len(v) = 5
      /\ v[1] = u[1] /\ v[2] = u[2] /\ v[3] = u[3] /\ v[4] = u[4] /\ v[5] = Locks("artifacts", "share")
  <2>1. Grows(v, u, Locks("artifacts", "share"))
    BY <1>1, <1>7, <1>8, OneMore
  <2>. QED  BY <1>1, <1>7, <1>8, <2>1 DEF Grows
<1>10. PICK w : w = BuildDocument \o Acquire
  OBVIOUS
<1>11. /\ w \in Seq(Instructions) /\ Len(w) = 5
       /\ \A i \in 1..4 : w[i] = BuildDocument[i]
       /\ w[5] = Takes
  <2>1. Grows(w, BuildDocument, Takes)
    BY <1>1, <1>10, OneMore, ReadsShape
  <2>. QED  BY <1>1, <1>10, ReadsShape, <2>1 DEF Grows
<1>12. PICK x : x = w \o v
  OBVIOUS
<1>13. Joins(x, w, v)
  BY <1>9, <1>11, <1>12, OneAfterTheOther
<1>14. /\ x \in Seq(Instructions) /\ Len(x) = 10
       /\ \A i \in 1..10 : x[i] = IF i <= 5 THEN w[i] ELSE v[i - 5]
  BY <1>9, <1>11, <1>13 DEF Joins
<1>15. PICK y : y = x \o BuildDocument
  OBVIOUS
<1>16. Joins(y, x, BuildDocument)
  BY <1>14, <1>15, OneAfterTheOther, ReadsShape
<1>17. /\ y \in Seq(Instructions) /\ Len(y) = 14
       /\ \A i \in 1..14 : y[i] = IF i <= 10 THEN x[i] ELSE BuildDocument[i - 10]
  BY <1>14, <1>16, ReadsShape DEF Joins
<1>18. RebuildIndex = y \o Commit
  BY <1>2, <1>4, <1>6, <1>8, <1>10, <1>12, <1>15 DEF RebuildIndex, LockAllTables, LockParents
<1>19. /\ RebuildIndex \in Seq(Instructions) /\ Len(RebuildIndex) = 15 /\ RebuildIndex[15] = Commits
       /\ \A i \in 1..14 : RebuildIndex[i] = y[i]
  <2>1. Grows(RebuildIndex, y, Commits)
    BY <1>1, <1>17, <1>18, OneMore
  <2>. QED  BY <1>17, <2>1 DEF Grows
<1>20. /\ \A i \in 1..4 : RebuildIndex[i] = BuildDocument[i]
       /\ RebuildIndex[5] = Takes
       /\ \A i \in 6..10 : RebuildIndex[i] = v[i - 5]
       /\ \A i \in 11..14 : RebuildIndex[i] = BuildDocument[i - 10]
  BY <1>11, <1>14, <1>17, <1>19
<1>21. ASSUME NEW i \in 1..15
       PROVE  RebuildIndex[i] = NextOfRebuild(16 - i)
  <2>1. CASE i \in {1, 2, 3, 4, 5}
    BY SMTT(30), <1>20, <2>1, ReadsShape DEF NextOfRebuild
  <2>2. CASE i \in {6, 7, 8, 9, 10}
    <3>1. v[i - 5] = NextOfRebuild(16 - i)
      <4>1. /\ v[1] = Locks("projects", "share") /\ v[2] = Locks("aliases", "share")
            /\ v[3] = Locks("participations", "share") /\ v[4] = Locks("terms", "share")
            /\ v[5] = Locks("artifacts", "share")
        BY <1>3, <1>5, <1>7, <1>9
      <4>. QED  BY <2>2, <4>1 DEF NextOfRebuild
    <3>. QED  BY <1>20, <2>2, <3>1
  <2>3. CASE i \in {11, 12, 13, 14}
    BY SMTT(30), <1>20, <2>3, ReadsShape DEF NextOfRebuild
  <2>4. CASE i = 15
    BY <1>19, <2>4 DEF NextOfRebuild
  <2>. QED  BY <2>1, <2>2, <2>3, <2>4
<1>. QED  BY <1>19, <1>21

LEMMA ProgramShape ==
  ASSUME NEW kind \in Sorts
  PROVE  /\ Program(kind) \in Seq(Instructions) /\ Len(Program(kind)) = Length(kind)
         /\ \A i \in 1..Length(kind) : Program(kind)[i] = NextOf(kind, Length(kind) + 1 - i)
<1>1. CASE kind = "list"
  BY <1>1, ListShape DEF Program, Length, NextOf
<1>2. CASE kind = "replace"
  BY <1>2, ReplaceShape DEF Program, Length, NextOf
<1>3. CASE kind = "artifact"
  BY <1>3, ArtifactShape DEF Program, Length, NextOf
<1>4. CASE kind = "rebuild"
  BY <1>4, RebuildShape DEF Program, Length, NextOf
<1>. QED  BY <1>1, <1>2, <1>3, <1>4 DEF Sorts
-----------------------------------------------------------------------------
(* The inductive invariant. *)

TableLockings == [by : Actors, on : Tables, mode : {"write", "share"}]
RowLockings == [by : Actors, on : {"row"}, mode : {"own"}]
Lockings == TableLockings \cup RowLockings

\* What an actor has left is the end of its program, and what it has of the
\* pool follows from that.
OnItsWay(p, n, c, kind) ==
  /\ p \in Seq(Instructions) /\ Len(p) = n /\ n \in 0..Length(kind)
  /\ \A i \in 1..n : p[i] = NextOf(kind, n + 1 - i)
  /\ c = ConnsAt(kind, n)

PoolTypes ==
  /\ left \in [Actors -> Seq(Instructions)]
  /\ conns \in [Actors -> Nat]
  /\ held \subseteq Lockings
WaysInv == \A x \in Actors : OnItsWay(left[x], Len(left[x]), conns[x], Kind[x])

\* Locks are held until the commit, those of a rebuild in mode share and from
\* the moment on when its turn comes.
LocksInv ==
  /\ \A l \in held : /\ Len(left[l.by]) \in 1..LockedUpTo(Kind[l.by])
                     /\ Kind[l.by] = "rebuild" => l.mode = "share"
  /\ \A x \in Actors, t \in Tables :
       Kind[x] = "rebuild" /\ Len(left[x]) \in 1..SharedAt[t] =>
         [by |-> x, on |-> t, mode |-> "share"] \in held
  /\ \A l, k \in held : l.by # k.by => ~Conflict(l, k.on, k.mode)

Used(c) == UNION {{x} \X (1..c[x]) : x \in Actors}
UsedInv == IsFiniteSet(Used(conns)) /\ InUse <= MaxConns

PoolInv == PoolTypes /\ WaysInv /\ LocksInv /\ UsedInv

-----------------------------------------------------------------------------
(* Steps of one actor. *)

\* What one instruction does to connections and locks.
Does(kind, n) ==
  /\ NextOf(kind, n).do \in {"acquire", "release", "lock", "commit"}
  /\ NextOf(kind, n).do = "acquire" => ConnsAt(kind, n - 1) = ConnsAt(kind, n) + 1
  /\ NextOf(kind, n).do \in {"release", "commit"} => ConnsAt(kind, n - 1) = ConnsAt(kind, n) - 1
  /\ NextOf(kind, n).do = "lock" => ConnsAt(kind, n - 1) = ConnsAt(kind, n) /\ n - 1 \in 1..LockedUpTo(kind)
  /\ NextOf(kind, n).do = "commit" => n = 1
  /\ NextOf(kind, n).do # "commit" /\ n \in 1..LockedUpTo(kind) => n - 1 \in 1..LockedUpTo(kind)
  /\ ConnsAt(kind, n) \in Nat /\ ConnsAt(kind, n - 1) \in Nat
  /\ n \in 1..LockedUpTo(kind) => ConnsAt(kind, n) > 0

LEMMA ListDoes == \A n \in 1..14 : Does("list", n)
<1>. SUFFICES ASSUME NEW n \in 1..14 PROVE Does("list", n)
  OBVIOUS
<1>1. NextOf("list", n) = NextOfList(n)
  BY DEF NextOf
<1>2. LockedUpTo("list") = 0
  BY DEF LockedUpTo
<1>3. \A m \in 0..14 : ConnsAt("list", m) = IF m \in {0, 14} THEN 0 ELSE IF m \in {1, 3, 5, 7, 9, 11, 13} THEN 1 ELSE 2
  BY DEF ConnsAt
<1>. QED  BY <1>1, <1>2, <1>3 DEF Does, NextOfList, Takes, Returns

LEMMA ReplaceDoes == \A n \in 1..7 : Does("replace", n)
<1>. SUFFICES ASSUME NEW n \in 1..7 PROVE Does("replace", n)
  OBVIOUS
<1>1. NextOf("replace", n) = NextOfReplace(n)
  BY DEF NextOf
<1>2. LockedUpTo("replace") = 6
  BY DEF LockedUpTo
<1>3. \A m \in 0..7 : ConnsAt("replace", m) = IF m \in {0, 7} THEN 0 ELSE 1
  BY DEF ConnsAt
<1>4. NextOfReplace(n).do = IF n = 7 THEN "acquire" ELSE IF n = 1 THEN "commit" ELSE "lock"
  BY DEF NextOfReplace, Takes, Commits, Locks
<1>. QED  BY <1>1, <1>2, <1>3, <1>4 DEF Does

LEMMA ArtifactDoes == \A n \in 1..5 : Does("artifact", n)
<1>. SUFFICES ASSUME NEW n \in 1..5 PROVE Does("artifact", n)
  OBVIOUS
<1>1. NextOf("artifact", n) = NextOfArtifact(n)
  BY DEF NextOf
<1>2. LockedUpTo("artifact") = 4
  BY DEF LockedUpTo
<1>3. \A m \in 0..5 : ConnsAt("artifact", m) = IF m \in {0, 5} THEN 0 ELSE 1
  BY DEF ConnsAt
<1>4. NextOfArtifact(n).do = IF n = 5 THEN "acquire" ELSE IF n = 1 THEN "commit" ELSE "lock"
  BY DEF NextOfArtifact, Takes, Commits, Locks
<1>. QED  BY <1>1, <1>2, <1>3, <1>4 DEF Does

LEMMA RebuildDoes == \A n \in 1..15 : Does("rebuild", n)
<1>. SUFFICES ASSUME NEW n \in 1..15 PROVE Does("rebuild", n)
  OBVIOUS
<1>1. NextOf("rebuild", n) = NextOfRebuild(n)
  BY DEF NextOf
<1>2. LockedUpTo("rebuild") = 10
  BY DEF LockedUpTo
<1>3. \A m \in 0..15 : ConnsAt("rebuild", m) = IF m \in {0, 11, 13, 15} THEN 0 ELSE IF m \in {2, 4} THEN 2 ELSE 1
  BY DEF ConnsAt
<1>4. NextOfRebuild(n).do = IF n \in {15, 13, 11, 5, 3} THEN "acquire" ELSE IF n \in {14, 12, 4, 2} THEN "release"
                            ELSE IF n = 1 THEN "commit" ELSE "lock"
  BY DEF NextOfRebuild, Takes, Returns, Commits, Locks
<1>. QED  BY <1>1, <1>2, <1>3, <1>4 DEF Does

LEMMA EveryoneDoes ==
  ASSUME NEW kind \in Sorts, NEW n \in 1..Length(kind)
  PROVE  Does(kind, n)
<1>1. /\ Length("list") = 14 /\ Length("replace") = 7
      /\ Length("artifact") = 5 /\ Length("rebuild") = 15
  BY DEF Length
<1>. QED  BY <1>1, ListDoes, ReplaceDoes, ArtifactDoes, RebuildDoes DEF Sorts

\* A rebuild asks for its tables in their order, in mode share.
LEMMA RebuildShares ==
  ASSUME NEW n \in 1..15
  PROVE  /\ NextOf("rebuild", n).do = "lock" => NextOf("rebuild", n).mode = "share"
         /\ \A t \in Tables :
              /\ SharedAt[t] \in 5..9
              /\ n - 1 = SharedAt[t] => NextOf("rebuild", n) = Locks(t, "share")
<1>1. NextOf("rebuild", n) = NextOfRebuild(n)
  BY DEF NextOf
<1>2. ASSUME NEW t \in Tables
      PROVE  /\ SharedAt[t] \in 5..9
             /\ n - 1 = SharedAt[t] => NextOfRebuild(n) = Locks(t, "share")
  <2>1. /\ SharedAt["projects"] = 9 /\ SharedAt["aliases"] = 8 /\ SharedAt["participations"] = 7
        /\ SharedAt["terms"] = 6 /\ SharedAt["artifacts"] = 5
    BY DEF SharedAt, Tables
  <2>. QED  BY <2>1 DEF Tables, NextOfRebuild
<1>3. NextOfRebuild(n).do = "lock" => NextOfRebuild(n).mode = "share"
  BY DEF NextOfRebuild, Takes, Returns, Commits, Locks
<1>. QED  BY <1>1, <1>2, <1>3

\* One instruction further.
LEMMA OneFurther ==
  ASSUME NEW p, NEW n, NEW c, NEW kind \in Sorts, OnItsWay(p, n, c, kind), p # << >>
  PROVE  /\ n \in 1..Length(kind) /\ Head(p) = NextOf(kind, n) /\ Len(Tail(p)) = n - 1
         /\ OnItsWay(Tail(p), n - 1, ConnsAt(kind, n - 1), kind)
<1>1. p \in Seq(Instructions) /\ Len(p) = n /\ n \in 0..Length(kind) /\ Length(kind) \in Nat
  BY DEF OnItsWay, Length, Sorts
<1>2. n \in 1..Length(kind) /\ Head(p) = p[1]
  BY <1>1
<1>3. /\ Tail(p) \in Seq(Instructions) /\ Len(Tail(p)) = n - 1
      /\ \A i \in 1..(n - 1) : Tail(p)[i] = p[i + 1]
  BY <1>1, <1>2
<1>4. ASSUME NEW i \in 1..(n - 1)
      PROVE  Tail(p)[i] = NextOf(kind, (n - 1) + 1 - i)
  <2>1. i + 1 \in 1..n /\ n + 1 - (i + 1) = (n - 1) + 1 - i
    BY <1>2
  <2>2. p[i + 1] = NextOf(kind, n + 1 - (i + 1))
    BY <2>1 DEF OnItsWay
  <2>. QED  BY <1>3, <2>1, <2>2
<1>5. Head(p) = NextOf(kind, n)
  <2>1. 1 \in 1..n /\ n + 1 - 1 = n
    BY <1>2
  <2>. QED  BY <1>2, <2>1 DEF OnItsWay
<1>. QED  BY <1>1, <1>2, <1>3, <1>4, <1>5 DEF OnItsWay

\* Connections in use.
LEMMA OneMoreUsed ==
  ASSUME NEW c \in [Actors -> Nat], NEW x \in Actors, IsFiniteSet(Used(c))
  PROVE  /\ IsFiniteSet(Used([c EXCEPT ![x] = @ + 1]))
         /\ Cardinality(Used([c EXCEPT ![x] = @ + 1])) = Cardinality(Used(c)) + 1
<1>. DEFINE d == [c EXCEPT ![x] = @ + 1]
            new == <<x, c[x] + 1>>
<1>1. ASSUME NEW y \in Actors
      PROVE  {y} \X (1..d[y]) = IF y = x THEN ({y} \X (1..c[y])) \cup {new} ELSE {y} \X (1..c[y])
  <2>1. 1..(c[x] + 1) = (1..c[x]) \cup {c[x] + 1}
    OBVIOUS
  <2>2. CASE y = x
    BY <2>1, <2>2
  <2>3. CASE y # x
    BY <2>3
  <2>. QED  BY <2>2, <2>3
<1>2. Used(d) = Used(c) \cup {new}
  <2>. HIDE DEF d, new
  <2>. QED  BY <1>1 DEF Used
<1>3. new \notin Used(c)
  BY DEF Used
<1>. HIDE DEF d, new
<1>4. IsFiniteSet(Used(d)) /\ Cardinality(Used(d)) = Cardinality(Used(c)) + 1
  BY <1>2, <1>3, FS_AddElement
<1>. QED  BY <1>4 DEF d

LEMMA FewerUsed ==
  ASSUME NEW c \in [Actors -> Nat], NEW d \in [Actors -> Nat],
         \A x \in Actors : d[x] <= c[x], IsFiniteSet(Used(c))
  PROVE  IsFiniteSet(Used(d)) /\ Cardinality(Used(d)) <= Cardinality(Used(c))
<1>1. Used(d) \subseteq Used(c)
  <2>1. ASSUME NEW x \in Actors
        PROVE  ({x} \X (1..d[x])) \subseteq ({x} \X (1..c[x]))
    <3>1. d[x] \in Nat /\ c[x] \in Nat /\ d[x] <= c[x]
      OBVIOUS
    <3>2. 1..d[x] \subseteq 1..c[x]
      BY <3>1
    <3>. QED  BY <3>2
  <2>. QED  BY <2>1 DEF Used
<1>. QED  BY <1>1, FS_Subset

\* One that uses none.
LEMMA SomeUsed ==
  ASSUME NEW c \in [Actors -> Nat], Cardinality(Used(c)) # 0
  PROVE  \E x \in Actors : c[x] > 0
<1>. SUFFICES ASSUME \A x \in Actors : c[x] = 0 PROVE FALSE
  OBVIOUS
<1>1. Used(c) = {}
  BY DEF Used
<1>. QED  BY <1>1, FS_EmptySet

LEMMA PoolInit_Inv == ASSUME PoolAssumption, PoolInit PROVE PoolInv
<1>1. \A x \in Actors : Kind[x] \in Sorts
  BY DEF PoolAssumption, Sorts
<1>2. ASSUME NEW x \in Actors
      PROVE  /\ left[x] \in Seq(Instructions) /\ Len(left[x]) = Length(Kind[x])
             /\ OnItsWay(left[x], Len(left[x]), conns[x], Kind[x])
  <2>1. left[x] = Program(Kind[x]) /\ conns[x] = 0
    BY DEF PoolInit
  <2>2. Length(Kind[x]) \in Nat /\ ConnsAt(Kind[x], Length(Kind[x])) = 0
    BY <1>1 DEF Sorts, Length, ConnsAt
  <2>. QED  BY <1>1, <2>1, <2>2, ProgramShape DEF OnItsWay
<1>3. PoolTypes
  BY <1>2 DEF PoolInit, PoolTypes
<1>4. LocksInv
  <2>1. ASSUME NEW x \in Actors, NEW t \in Tables, Kind[x] = "rebuild"
        PROVE  Len(left[x]) \notin 1..SharedAt[t]
    BY SMTT(30), <1>2, <2>1, RebuildShares DEF Length
  <2>. QED  BY <2>1 DEF PoolInit, LocksInv
<1>5. UsedInv
  <2>1. Used(conns) = {}
    BY DEF PoolInit, Used
  <2>2. InUse = Cardinality(Used(conns))
    BY DEF InUse, Used
  <2>. QED  BY <2>1, <2>2, FS_EmptySet DEF UsedInv, PoolAssumption
<1>. QED  BY <1>2, <1>3, <1>4, <1>5 DEF PoolInv, WaysInv

\* What an actor that goes on finds, and where that leaves it.
LEMMA GoesFurther ==
  ASSUME PoolAssumption, PoolInv, NEW x \in Actors, ~Ended(x),
         NEW n, n = Len(left[x])
  PROVE  /\ Kind[x] \in Sorts /\ n \in 1..Length(Kind[x]) /\ n \in Nat /\ n > 0
         /\ Head(left[x]) = NextOf(Kind[x], n) /\ Head(left[x]) \in Instructions
         /\ Does(Kind[x], n) /\ conns[x] = ConnsAt(Kind[x], n)
         /\ Tail(left[x]) \in Seq(Instructions) /\ Len(Tail(left[x])) = n - 1
         /\ OnItsWay(Tail(left[x]), n - 1, ConnsAt(Kind[x], n - 1), Kind[x])
<1>1. Kind[x] \in Sorts /\ OnItsWay(left[x], n, conns[x], Kind[x])
  BY DEF PoolInv, WaysInv, PoolAssumption, Sorts
<1>2. left[x] # << >> /\ left[x] \in Seq(Instructions)
  BY DEF Ended, PoolInv, PoolTypes
<1>3. /\ n \in 1..Length(Kind[x]) /\ Head(left[x]) = NextOf(Kind[x], n)
      /\ Len(Tail(left[x])) = n - 1
      /\ OnItsWay(Tail(left[x]), n - 1, ConnsAt(Kind[x], n - 1), Kind[x])
  BY <1>1, <1>2, OneFurther
<1>4. Does(Kind[x], n)
  BY <1>1, <1>3, EveryoneDoes
<1>5. Head(left[x]) \in Instructions /\ Tail(left[x]) \in Seq(Instructions) /\ n \in Nat /\ n > 0
  <2>1. Len(left[x]) \in Nat /\ Len(left[x]) > 0
    BY <1>2
  <2>. QED  BY <1>2, <2>1
<1>6. conns[x] = ConnsAt(Kind[x], n)
  BY <1>1 DEF OnItsWay
<1>. QED  BY <1>1, <1>3, <1>4, <1>5, <1>6

LEMMA WaysGoOn ==
  ASSUME PoolAssumption, PoolInv, NEW x \in Actors, NEW p, NEW c,
         left' = [left EXCEPT ![x] = p], conns' = [conns EXCEPT ![x] = c],
         p \in Seq(Instructions), c \in Nat, OnItsWay(p, Len(p), c, Kind[x]), held' \subseteq Lockings
  PROVE  PoolTypes' /\ WaysInv'
<1>1. PoolTypes'
  BY DEF PoolInv, PoolTypes
<1>2. ASSUME NEW y \in Actors
      PROVE  OnItsWay(left'[y], Len(left'[y]), conns'[y], Kind[y])
  <2>1. OnItsWay(left[y], Len(left[y]), conns[y], Kind[y])
    BY DEF PoolInv, WaysInv
  <2>2. left'[y] = (IF y = x THEN p ELSE left[y]) /\ conns'[y] = (IF y = x THEN c ELSE conns[y])
    BY DEF PoolInv, PoolTypes
  <2>. QED  BY <2>1, <2>2
<1>. QED  BY <1>1, <1>2 DEF WaysInv

\* Locks while an actor takes a connection or returns one.
LEMMA LocksStay ==
  ASSUME PoolAssumption, PoolInv, NEW x \in Actors, Wants(x, "acquire") \/ Wants(x, "release"),
         Advance(x), held' = held
  PROVE  LocksInv'
<1>1. PICK n : n = Len(left[x])
  OBVIOUS
<1>2. /\ Kind[x] \in Sorts /\ n \in 1..Length(Kind[x]) /\ n \in Nat /\ n > 0
      /\ Head(left[x]) = NextOf(Kind[x], n) /\ Does(Kind[x], n) /\ Len(Tail(left[x])) = n - 1
  BY <1>1, GoesFurther DEF Wants
<1>3. NextOf(Kind[x], n).do \in {"acquire", "release"}
  BY <1>2 DEF Wants
<1>4. \A y \in Actors : Len(left'[y]) = IF y = x THEN n - 1 ELSE Len(left[y])
  BY <1>2 DEF Advance, PoolInv, PoolTypes
<1>5. \A l \in held : l.by \in Actors
  BY DEF PoolInv, PoolTypes, Lockings, TableLockings, RowLockings
<1>6. ASSUME NEW l \in held
      PROVE  Len(left'[l.by]) \in 1..LockedUpTo(Kind[l.by])
  <2>1. Len(left[l.by]) \in 1..LockedUpTo(Kind[l.by])
    BY DEF PoolInv, LocksInv
  <2>. QED  BY <1>1, <1>2, <1>3, <1>4, <1>5, <2>1 DEF Does
<1>7. ASSUME NEW y \in Actors, NEW t \in Tables, Kind[y] = "rebuild", Len(left'[y]) \in 1..SharedAt[t]
      PROVE  [by |-> y, on |-> t, mode |-> "share"] \in held
  <2>1. Len(left[y]) \in 1..SharedAt[t]
    <3>1. CASE y # x
      BY <1>4, <1>7, <3>1
    <3>2. CASE y = x
      <4>1. n \in 1..15
        BY <1>2, <1>7, <3>2 DEF Length
      <4>2. SharedAt[t] \in 5..9 /\ (n - 1 = SharedAt[t] => NextOf("rebuild", n) = Locks(t, "share"))
        BY <4>1, RebuildShares
      <4>3. n - 1 # SharedAt[t]
        BY <1>3, <1>7, <3>2, <4>2 DEF Locks
      <4>. QED  BY <1>1, <1>2, <1>4, <1>7, <3>2, <4>1, <4>2, <4>3
    <3>. QED  BY <3>1, <3>2
  <2>. QED  BY <1>7, <2>1 DEF PoolInv, LocksInv
<1>8. \A l \in held : Kind[l.by] = "rebuild" => l.mode = "share"
  BY DEF PoolInv, LocksInv
<1>9. \A l, k \in held : l.by # k.by => ~Conflict(l, k.on, k.mode)
  BY DEF PoolInv, LocksInv
<1>. QED  BY <1>6, <1>7, <1>8, <1>9 DEF LocksInv, Conflict

\* Locks of one that ends.
LEMMA LocksGo ==
  ASSUME PoolAssumption, PoolInv, NEW x \in Actors, NEW p, left' = [left EXCEPT ![x] = p],
         Len(p) = 0, held' = {l \in held : l.by # x}
  PROVE  LocksInv'
<1>1. \A l \in held : l.by \in Actors
  BY DEF PoolInv, PoolTypes, Lockings, TableLockings, RowLockings
<1>2. \A y \in Actors : Len(left'[y]) = IF y = x THEN 0 ELSE Len(left[y])
  BY DEF PoolInv, PoolTypes
<1>3. ASSUME NEW l \in held, l.by # x
      PROVE  /\ Len(left'[l.by]) \in 1..LockedUpTo(Kind[l.by])
             /\ Kind[l.by] = "rebuild" => l.mode = "share"
  BY <1>1, <1>2, <1>3 DEF PoolInv, LocksInv
<1>4. ASSUME NEW y \in Actors, NEW t \in Tables, Kind[y] = "rebuild", Len(left'[y]) \in 1..SharedAt[t]
      PROVE  [by |-> y, on |-> t, mode |-> "share"] \in held'
  <2>1. y # x
    BY <1>2, <1>4
  <2>2. [by |-> y, on |-> t, mode |-> "share"] \in held
    BY <1>2, <1>4, <2>1 DEF PoolInv, LocksInv
  <2>. QED  BY <2>1, <2>2
<1>5. \A l, k \in held : l.by # k.by => ~Conflict(l, k.on, k.mode)
  BY DEF PoolInv, LocksInv
<1>. QED  BY <1>3, <1>4, <1>5 DEF LocksInv, Conflict

LEMMA PoolTakesConnection ==
  ASSUME PoolAssumption, PoolInv, NEW x \in Actors, TakeConnection(x)
  PROVE  PoolInv'
<1>1. PICK n, p, c : n = Len(left[x]) /\ p = Tail(left[x]) /\ c = ConnsAt(Kind[x], n - 1)
  OBVIOUS
<1>2. /\ Head(left[x]) = NextOf(Kind[x], n) /\ Does(Kind[x], n) /\ conns[x] = ConnsAt(Kind[x], n)
      /\ p \in Seq(Instructions) /\ Len(p) = n - 1 /\ OnItsWay(p, n - 1, c, Kind[x])
  BY <1>1, GoesFurther DEF TakeConnection, Wants
<1>3. c = conns[x] + 1 /\ c \in Nat
  BY <1>1, <1>2 DEF TakeConnection, Wants, Does
<1>4. /\ left' = [left EXCEPT ![x] = p] /\ conns' = [conns EXCEPT ![x] = c]
      /\ held' \subseteq Lockings /\ OnItsWay(p, Len(p), c, Kind[x])
  BY <1>1, <1>2, <1>3 DEF TakeConnection, Advance, PoolInv, PoolTypes
<1>5. PoolTypes' /\ WaysInv'
  BY <1>2, <1>3, <1>4, WaysGoOn
<1>6. LocksInv'
  BY LocksStay DEF TakeConnection
<1>7. UsedInv'
  <2>1. /\ InUse = Cardinality(Used(conns)) /\ InUse' = Cardinality(Used(conns'))
        /\ IsFiniteSet(Used(conns)) /\ InUse < MaxConns /\ MaxConns \in Nat
    BY DEF InUse, Used, TakeConnection, PoolInv, UsedInv, PoolAssumption
  <2>2. IsFiniteSet(Used(conns')) /\ Cardinality(Used(conns')) = Cardinality(Used(conns)) + 1
    BY <2>1, OneMoreUsed DEF TakeConnection, PoolInv, PoolTypes
  <2>3. Cardinality(Used(conns)) \in Nat
    BY <2>1, FS_CardinalityType
  <2>. QED  BY <2>1, <2>2, <2>3 DEF UsedInv
<1>. QED  BY <1>5, <1>6, <1>7 DEF PoolInv

\* Whoever returns connections leaves room.
LEMMA RoomStays ==
  ASSUME PoolAssumption, PoolInv, NEW x \in Actors, NEW c \in Nat, c <= conns[x],
         conns' = [conns EXCEPT ![x] = c]
  PROVE  UsedInv'
<1>1. conns \in [Actors -> Nat] /\ conns' \in [Actors -> Nat] /\ \A y \in Actors : conns'[y] <= conns[y]
  BY DEF PoolInv, PoolTypes
<1>2. /\ InUse = Cardinality(Used(conns)) /\ InUse' = Cardinality(Used(conns'))
      /\ IsFiniteSet(Used(conns)) /\ InUse <= MaxConns /\ MaxConns \in Nat
  BY DEF InUse, Used, PoolInv, UsedInv, PoolAssumption
<1>3. IsFiniteSet(Used(conns')) /\ Cardinality(Used(conns')) <= Cardinality(Used(conns))
  BY <1>1, <1>2, FewerUsed
<1>4. Cardinality(Used(conns)) \in Nat /\ Cardinality(Used(conns')) \in Nat
  BY <1>2, <1>3, FS_CardinalityType
<1>. QED  BY <1>2, <1>3, <1>4 DEF UsedInv

LEMMA PoolReturnsConnection ==
  ASSUME PoolAssumption, PoolInv, NEW x \in Actors, ReturnConnection(x)
  PROVE  PoolInv'
<1>1. PICK n, p, c : n = Len(left[x]) /\ p = Tail(left[x]) /\ c = ConnsAt(Kind[x], n - 1)
  OBVIOUS
<1>2. /\ Head(left[x]) = NextOf(Kind[x], n) /\ Does(Kind[x], n) /\ conns[x] = ConnsAt(Kind[x], n)
      /\ p \in Seq(Instructions) /\ Len(p) = n - 1 /\ OnItsWay(p, n - 1, c, Kind[x])
  BY <1>1, GoesFurther DEF ReturnConnection, Wants
<1>3. c = conns[x] - 1 /\ c \in Nat /\ conns[x] \in Nat /\ c <= conns[x]
  BY <1>1, <1>2 DEF ReturnConnection, Wants, Does
<1>4. /\ left' = [left EXCEPT ![x] = p] /\ conns' = [conns EXCEPT ![x] = c]
      /\ held' \subseteq Lockings /\ OnItsWay(p, Len(p), c, Kind[x])
  BY <1>1, <1>2, <1>3 DEF ReturnConnection, Advance, PoolInv, PoolTypes
<1>5. PoolTypes' /\ WaysInv'
  BY <1>2, <1>3, <1>4, WaysGoOn
<1>6. LocksInv'
  BY LocksStay DEF ReturnConnection
<1>7. UsedInv'
  BY <1>3, <1>4, RoomStays
<1>. QED  BY <1>5, <1>6, <1>7 DEF PoolInv

LEMMA PoolEndsTransaction ==
  ASSUME PoolAssumption, PoolInv, NEW x \in Actors, EndTransaction(x)
  PROVE  PoolInv'
<1>1. PICK n, p, c : n = Len(left[x]) /\ p = Tail(left[x]) /\ c = ConnsAt(Kind[x], n - 1)
  OBVIOUS
<1>2. /\ Head(left[x]) = NextOf(Kind[x], n) /\ Does(Kind[x], n) /\ conns[x] = ConnsAt(Kind[x], n)
      /\ p \in Seq(Instructions) /\ Len(p) = n - 1 /\ OnItsWay(p, n - 1, c, Kind[x])
  BY <1>1, GoesFurther DEF EndTransaction, Wants
<1>3. c = conns[x] - 1 /\ c \in Nat /\ conns[x] \in Nat /\ c <= conns[x] /\ n = 1
  BY <1>1, <1>2 DEF EndTransaction, Wants, Does
<1>4. /\ left' = [left EXCEPT ![x] = p] /\ conns' = [conns EXCEPT ![x] = c]
      /\ held' \subseteq Lockings /\ OnItsWay(p, Len(p), c, Kind[x])
      /\ Len(p) = 0 /\ held' = {l \in held : l.by # x}
  <2>1. Len(p) = n - 1 /\ Len(p) = 0 /\ OnItsWay(p, Len(p), c, Kind[x])
    BY <1>2, <1>3
  <2>. QED  BY <1>1, <1>3, <2>1 DEF EndTransaction, Advance, PoolInv, PoolTypes
<1>5. PoolTypes' /\ WaysInv'
  BY <1>2, <1>3, <1>4, WaysGoOn
<1>6. LocksInv'
  BY <1>4, LocksGo
<1>7. UsedInv'
  BY <1>3, <1>4, RoomStays
<1>. QED  BY <1>5, <1>6, <1>7 DEF PoolInv

LEMMA PoolDrops ==
  ASSUME PoolAssumption, PoolInv, NEW x \in Actors, Drop(x)
  PROVE  PoolInv'
<1>1. Kind[x] \in Sorts /\ conns[x] \in Nat
  BY DEF PoolAssumption, Sorts, PoolInv, PoolTypes
<1>2. PICK p, c : p = << >> /\ c = 0
  OBVIOUS
<1>3. p \in Seq(Instructions) /\ Len(p) = 0 /\ c \in Nat /\ c <= conns[x]
  BY <1>1, <1>2
<1>4. OnItsWay(p, Len(p), c, Kind[x])
  <2>1. ConnsAt(Kind[x], 0) = 0 /\ Length(Kind[x]) \in Nat
    BY <1>1 DEF Sorts, ConnsAt, Length
  <2>. QED  BY <1>2, <1>3, <2>1 DEF OnItsWay
<1>5. /\ left' = [left EXCEPT ![x] = p] /\ conns' = [conns EXCEPT ![x] = c]
      /\ held' = {l \in held : l.by # x} /\ held' \subseteq Lockings
  BY <1>2 DEF Drop, PoolInv, PoolTypes
<1>6. PoolTypes' /\ WaysInv'
  BY <1>3, <1>4, <1>5, WaysGoOn
<1>7. LocksInv'
  BY <1>3, <1>5, LocksGo
<1>8. UsedInv'
  BY <1>3, <1>5, RoomStays
<1>. QED  BY <1>6, <1>7, <1>8 DEF PoolInv

LEMMA PoolTakesLock ==
  ASSUME PoolAssumption, PoolInv, NEW x \in Actors, TakeLock(x)
  PROVE  PoolInv'
<1>1. PICK n, p, e : n = Len(left[x]) /\ p = Tail(left[x]) /\ e = NextOf(Kind[x], n)
  OBVIOUS
<1>2. /\ Kind[x] \in Sorts /\ n \in 1..Length(Kind[x]) /\ n \in Nat /\ n > 0
      /\ Head(left[x]) = e /\ e \in Instructions /\ e.do = "lock"
      /\ Does(Kind[x], n) /\ conns[x] = ConnsAt(Kind[x], n)
      /\ p \in Seq(Instructions) /\ Len(p) = n - 1 /\ OnItsWay(p, n - 1, ConnsAt(Kind[x], n - 1), Kind[x])
  BY <1>1, GoesFurther DEF TakeLock, Wants
<1>3. PICK c : c = conns[x]
  OBVIOUS
<1>4. c = ConnsAt(Kind[x], n - 1) /\ c \in Nat /\ n - 1 \in 1..LockedUpTo(Kind[x])
  BY <1>1, <1>2, <1>3 DEF Does
<1>5. PICK l : l = [by |-> x, on |-> e.on, mode |-> e.mode]
  OBVIOUS
<1>6. l \in Lockings /\ l.by = x /\ l.on = e.on /\ l.mode = e.mode
  <2>1. \/ e.on \in Tables /\ e.mode \in {"write", "share"}
        \/ e.on = "row" /\ e.mode = "own"
    BY <1>2 DEF Instructions
  <2>. QED  BY <1>5, <2>1 DEF Lockings, TableLockings, RowLockings
<1>7. /\ left' = [left EXCEPT ![x] = p] /\ conns' = [conns EXCEPT ![x] = c] /\ conns' = conns
      /\ held' = held \cup {l} /\ held' \subseteq Lockings /\ OnItsWay(p, Len(p), c, Kind[x])
  BY <1>1, <1>2, <1>3, <1>4, <1>5, <1>6 DEF TakeLock, Advance, PoolInv, PoolTypes
<1>8. PoolTypes' /\ WaysInv'
  BY <1>2, <1>4, <1>7, WaysGoOn
<1>9. \A y \in Actors : Len(left'[y]) = IF y = x THEN n - 1 ELSE Len(left[y])
  BY <1>2, <1>7 DEF PoolInv, PoolTypes
<1>10. \A k \in held : k.by \in Actors
  BY DEF PoolInv, PoolTypes, Lockings, TableLockings, RowLockings
<1>11. LocksInv'
  <2>1. ASSUME NEW k \in held
        PROVE  /\ Len(left'[k.by]) \in 1..LockedUpTo(Kind[k.by])
               /\ Kind[k.by] = "rebuild" => k.mode = "share"
    BY <1>4, <1>9, <1>10 DEF PoolInv, LocksInv
  <2>2. /\ Len(left'[l.by]) \in 1..LockedUpTo(Kind[l.by])
        /\ Kind[l.by] = "rebuild" => l.mode = "share"
    BY <1>1, <1>2, <1>4, <1>6, <1>9, RebuildShares DEF Length
  <2>3. ASSUME NEW y \in Actors, NEW t \in Tables, Kind[y] = "rebuild", Len(left'[y]) \in 1..SharedAt[t]
        PROVE  [by |-> y, on |-> t, mode |-> "share"] \in held'
    <3>1. CASE Len(left[y]) \in 1..SharedAt[t]
      BY <1>7, <2>3, <3>1 DEF PoolInv, LocksInv
    <3>2. CASE y = x /\ n - 1 = SharedAt[t]
      <4>1. e = Locks(t, "share")
        BY <1>1, <1>2, <2>3, <3>2, RebuildShares DEF Length
      <4>. QED  BY <1>5, <1>7, <3>2, <4>1 DEF Locks
    <3>3. y = x => n \in 1..15 /\ SharedAt[t] \in 5..9
      BY <1>2, <2>3, RebuildShares DEF Length
    <3>. QED  BY <1>1, <1>9, <2>3, <3>1, <3>2, <3>3
  <2>4. ASSUME NEW k \in held, k.by # x
        PROVE  ~Conflict(k, l.on, l.mode) /\ ~Conflict(l, k.on, k.mode)
    <3>1. Blockers(x) = {} /\ Wants(x, "lock")
      BY DEF TakeLock
    <3>2. ~Conflict(k, e.on, e.mode)
      BY ZenonT(30), <1>2, <2>4, <3>1 DEF Blockers
    <3>. QED  BY <1>6, <3>2 DEF Conflict
  <2>5. \A k, m \in held : k.by # m.by => ~Conflict(k, m.on, m.mode)
    BY DEF PoolInv, LocksInv
  <2>6. \A k, m \in held' : k.by # m.by => ~Conflict(k, m.on, m.mode)
    BY <1>6, <1>7, <2>4, <2>5
  <2>7. \A k \in held' : /\ Len(left'[k.by]) \in 1..LockedUpTo(Kind[k.by])
                         /\ Kind[k.by] = "rebuild" => k.mode = "share"
    BY <1>7, <2>1, <2>2
  <2>. QED  BY <2>3, <2>6, <2>7 DEF LocksInv, Conflict
<1>12. UsedInv'
  <2>1. c \in Nat /\ c <= conns[x]
    BY <1>3, <1>4
  <2>. QED  BY <1>7, <2>1, RoomStays
<1>. QED  BY <1>8, <1>11, <1>12 DEF PoolInv

LEMMA PoolInductive ==
  ASSUME PoolAssumption, PoolInv, [PoolNext]_poolVars
  PROVE  PoolInv'
<1>1. CASE PoolNext
  <2>1. PICK x \in Actors : Step(x) \/ GiveUp(x)
    BY <1>1 DEF PoolNext
  <2>2. CASE TakeConnection(x)
    BY <2>2, PoolTakesConnection
  <2>3. CASE ReturnConnection(x)
    BY <2>3, PoolReturnsConnection
  <2>4. CASE TakeLock(x)
    BY <2>4, PoolTakesLock
  <2>5. CASE EndTransaction(x)
    BY <2>5, PoolEndsTransaction
  <2>6. CASE DeadlockDetected(x) \/ GiveUp(x)
    BY <2>6, PoolDrops DEF DeadlockDetected, GiveUp
  <2>. QED  BY <2>1, <2>2, <2>3, <2>4, <2>5, <2>6 DEF Step
<1>2. CASE UNCHANGED poolVars
  <2>1. left' = left /\ conns' = conns /\ held' = held
    BY <1>2 DEF poolVars
  <2>2. PoolTypes' /\ WaysInv'
    BY <2>1 DEF PoolInv, PoolTypes, WaysInv
  <2>3. LocksInv'
    BY <2>1 DEF PoolInv, LocksInv, Conflict
  <2>4. UsedInv'
    BY <2>1 DEF PoolInv, UsedInv, Used, InUse
  <2>. QED  BY <2>2, <2>3, <2>4 DEF PoolInv
<1>. QED  BY <1>1, <1>2

LEMMA PoolInvariant == ASSUME PoolAssumption PROVE PoolSpec => []PoolInv
<1>1. PoolInit => PoolInv
  BY PoolInit_Inv
<1>2. PoolInv /\ [PoolNext]_poolVars => PoolInv'
  BY PoolInductive
<1>. QED  BY <1>1, <1>2, PTL DEF PoolSpec

-----------------------------------------------------------------------------
(* What follows. *)

\* A rebuild past its last lock holds all five: no other mode is left.
LEMMA HoldsAllTables == ASSUME PoolAssumption, PoolInv PROVE FrozenWhileRebuilding
<1>. SUFFICES ASSUME NEW x \in Actors, Kind[x] = "rebuild", conns[x] > 0,
                     Len(left[x]) <= Len(BuildDocument) + Len(Commit),
                     NEW l \in held, l.mode = "write"
              PROVE  FALSE
  BY DEF FrozenWhileRebuilding
<1>1. Len(left[x]) \in 1..5
  <2>1. PICK n : n = Len(left[x])
    OBVIOUS
  <2>2. n <= 5
    BY <2>1, ReadsShape, Singles
  <2>3. n \in Nat /\ conns[x] = ConnsAt("rebuild", n)
    BY <2>1 DEF PoolInv, PoolTypes, WaysInv, OnItsWay
  <2>4. ConnsAt("rebuild", 0) = 0
    BY DEF ConnsAt
  <2>5. n # 0
    BY <2>3, <2>4
  <2>6. n \in 1..5
    BY <2>2, <2>3, <2>5
  <2>. QED  BY <2>1, <2>6
<1>2. l.by \in Actors /\ l.on \in Tables
  BY DEF PoolInv, PoolTypes, Lockings, TableLockings, RowLockings
<1>3. PICK k : k = [by |-> x, on |-> l.on, mode |-> "share"]
  OBVIOUS
<1>4. k \in held
  <2>1. SharedAt[l.on] \in 5..9
    BY <1>2, RebuildShares
  <2>2. Len(left[x]) \in 1..SharedAt[l.on]
    <3>1. \A n \in 1..5, m \in 5..9 : n \in 1..m
      OBVIOUS
    <3>. QED  BY <1>1, <2>1, <3>1
  <2>3. LocksInv
    BY DEF PoolInv
  <2>. QED  BY <1>2, <1>3, <2>2, <2>3 DEF LocksInv
<1>5. l.by # x
  BY <1>4 DEF PoolInv, LocksInv
<1>6. Conflict(l, k.on, k.mode)
  BY <1>3 DEF Conflict
<1>. QED  BY <1>3, <1>4, <1>5, <1>6 DEF PoolInv, LocksInv

\* An actor that does not move wants a connection or waits for a lock; who
\* blocks it holds a lock, hence a connection.
LEMMA WaitsForSomething ==
  ASSUME PoolAssumption, PoolInv, NEW x \in Actors, ~Ended(x), ~Moves(x)
  PROVE  \/ Wants(x, "acquire") /\ ~(InUse < MaxConns)
         \/ Wants(x, "lock") /\ Blockers(x) # {}
<1>1. PICK n : n = Len(left[x])
  OBVIOUS
<1>2. Head(left[x]) = NextOf(Kind[x], n) /\ Does(Kind[x], n)
  BY <1>1, GoesFurther
<1>3. Head(left[x]).do \in {"acquire", "release", "lock", "commit"}
  BY <1>2 DEF Does
<1>. QED  BY <1>3 DEF Wants, Moves

LEMMA BlockersHold ==
  ASSUME PoolAssumption, PoolInv, NEW x \in Actors, NEW y \in Blockers(x)
  PROVE  y \in Actors /\ ~Ended(y) /\ conns[y] > 0
<1>1. PICK l \in held : l.by = y
  BY DEF Blockers
<1>2. y \in Actors
  BY <1>1 DEF PoolInv, PoolTypes, Lockings, TableLockings, RowLockings
<1>3. PICK n : n = Len(left[y])
  OBVIOUS
<1>4. n \in 1..LockedUpTo(Kind[y]) /\ LockedUpTo(Kind[y]) \in Nat
  BY <1>1, <1>2, <1>3 DEF PoolInv, LocksInv, PoolAssumption, LockedUpTo
<1>5. ~Ended(y)
  BY <1>3, <1>4 DEF Ended
<1>6. Does(Kind[y], n) /\ conns[y] = ConnsAt(Kind[y], n)
  BY <1>2, <1>3, <1>5, GoesFurther
<1>. QED  BY <1>2, <1>4, <1>5, <1>6 DEF Does

LEMMA IdleHoldsNothing ==
  ASSUME PoolAssumption, PoolInv, NEW x \in Actors, conns[x] > 0
  PROVE  ~Ended(x)
<1>. SUFFICES ASSUME Ended(x) PROVE FALSE
  OBVIOUS
<1>1. Kind[x] \in Sorts /\ Len(left[x]) = 0
  BY DEF PoolAssumption, Sorts, Ended
<1>2. conns[x] = ConnsAt(Kind[x], 0)
  BY <1>1 DEF PoolInv, WaysInv, OnItsWay
<1>. QED  BY <1>1, <1>2 DEF Sorts, ConnsAt

\* Were a connection free, or did nobody who holds one want another, those who
\* wait would wait for each other's locks: a cycle.
LEMMA OnlyForConnections == ASSUME PoolAssumption, PoolInv PROVE StuckMeansExhausted
<1>. SUFFICES ASSUME \A x \in Actors : ~Moves(x), \E x \in Actors : ~Ended(x),
                     \A as \in SUBSET Actors : ~Cycle(as)
              PROVE  /\ InUse = MaxConns
                     /\ \E x \in Actors : conns[x] > 0 /\ Wants(x, "acquire")
                     /\ \A x \in Actors : conns[x] > 0 => Wants(x, "acquire") \/ Blockers(x) # {}
  BY DEF StuckMeansExhausted
<1>1. InUse = MaxConns
  <2>. SUFFICES ASSUME InUse # MaxConns PROVE FALSE
    OBVIOUS
  <2>1. InUse < MaxConns
    <3>1. InUse = Cardinality(Used(conns)) /\ IsFiniteSet(Used(conns)) /\ InUse <= MaxConns /\ MaxConns \in Nat
      BY DEF InUse, Used, PoolInv, UsedInv, PoolAssumption
    <3>2. Cardinality(Used(conns)) \in Nat
      BY <3>1, FS_CardinalityType
    <3>. QED  BY <3>1, <3>2
  <2>2. PICK waiting : waiting = {x \in Actors : ~Ended(x)}
    OBVIOUS
  <2>3. ASSUME NEW x \in waiting
        PROVE  Blockers(x) \cap waiting # {}
    BY <2>1, <2>2, WaitsForSomething, BlockersHold
  <2>. QED  BY <2>2, <2>3 DEF Cycle
<1>2. \E x \in Actors : conns[x] > 0 /\ Wants(x, "acquire")
  <2>. SUFFICES ASSUME \A x \in Actors : conns[x] > 0 => ~Wants(x, "acquire") PROVE FALSE
    OBVIOUS
  <2>1. PICK using : using = {x \in Actors : conns[x] > 0}
    OBVIOUS
  <2>2. using # {}
    <3>1. Cardinality(Used(conns)) = MaxConns /\ MaxConns # 0 /\ conns \in [Actors -> Nat]
      BY <1>1 DEF InUse, Used, PoolAssumption, PoolInv, PoolTypes
    <3>. QED  BY <2>1, <3>1, SomeUsed
  <2>3. ASSUME NEW x \in using
        PROVE  Blockers(x) \cap using # {}
    BY <2>1, WaitsForSomething, BlockersHold, IdleHoldsNothing
  <2>. QED  BY <2>1, <2>2, <2>3 DEF Cycle
<1>3. \A x \in Actors : conns[x] > 0 => Wants(x, "acquire") \/ Blockers(x) # {}
  BY WaitsForSomething, IdleHoldsNothing
<1>. QED  BY <1>1, <1>2, <1>3

\* While a rebuild that has locked its tables reads, no write to a project, its
\* children or its artifacts is under way (executeRebuild): for any requests, any
\* number of rebuilds and any pool.
THEOREM FrozenTheorem == ASSUME PoolAssumption PROVE PoolSpec => []FrozenWhileRebuilding
<1>1. PoolInv => FrozenWhileRebuilding
  BY HoldsAllTables
<1>. QED  BY <1>1, PoolInvariant, PTL

\* Everybody waits only if the pool is exhausted by those who want one connection
\* more: what PostgreSQL's deadlock detector does not see has no other cause.
THEOREM StuckTheorem == ASSUME PoolAssumption PROVE PoolSpec => []StuckMeansExhausted
<1>1. PoolInv => StuckMeansExhausted
  BY OnlyForConnections
<1>. QED  BY <1>1, PoolInvariant, PTL

\* Both at once: what the locks of LOCK TABLE and of the requests do and cannot do.
THEOREM LockingTheorem == ASSUME PoolAssumption PROVE PoolSpec => []LockingInv
<1>1. FrozenWhileRebuilding /\ StuckMeansExhausted => LockingInv
  BY DEF LockingInv
<1>. QED  BY <1>1, FrozenTheorem, StuckTheorem, PTL

=============================================================================
