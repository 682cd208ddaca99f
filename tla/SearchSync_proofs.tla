--------------------------- MODULE SearchSync_proofs ---------------------------
(***************************************************************************)
(* Proofs about the search outbox, for any sets of projects and processes, *)
(* any batch size and any bounds, in three parts: what holds however many  *)
(* processes run; what holds when API processes do not overlap, that rows  *)
(* are right about the index; and that the outbox then implements the      *)
(* search view.                                                            *)
(***************************************************************************)
EXTENDS SearchSyncRefinement, SequenceTheorems, TLAPS

-------------------------------------------------------------------------------
(* The part of the invariant that holds however many processes run.          *)

\* Before anything happens the common invariant holds.
LEMMA InitCommon == Init => CommonInv
<1> SUFFICES ASSUME Init PROVE CommonInv
    OBVIOUS
<1>1. TypeOK
    BY SyncAssumption DEF Init, TypeOK, Rows, Statuses, SyncStates, SyncActions
<1>2. RowTracksProject
    BY DEF Init, RowTracksProject, ActionFor
<1>3. ClaimsFollowProject
    BY DEF Init, ClaimsFollowProject, Outstanding
<1>4. DocumentFollowsProject
    BY DEF Init, DocumentFollowsProject, DocumentOK
<1> QED
    BY <1>1, <1>2, <1>3, <1>4 DEF CommonInv

\* A worker that is not idle applies a claim it holds.
LEMMA WorkingHasClaim ==
    ASSUME CommonInv, NEW w \in Workers, pc[w] # "idle"
    PROVE  /\ claim[w] \in Claims
           /\ claim[w].project \in Projects
           /\ claim[w].revision \in Nat
           /\ claim[w] \in Outstanding(w)
BY SyncAssumption DEF CommonInv, TypeOK, ClaimsFollowProject, Outstanding, Claims

\* A commit of project p at its next revision keeps the common invariant:
\* every claim and document for p is now at an older revision.
LEMMA AdvanceCommon ==
    ASSUME CommonInv, NEW p \in Projects,
           NEW status \in {"draft", "published", "deleted"},
           NEW preDelete \in Statuses,
           status = "deleted" => preDelete \in {"draft", "published"},
           Advance(p, status, preDelete)
    PROVE  CommonInv'
<1> USE DEF CommonInv, Advance, SyncUpsert
<1>1. TypeOK'
  <2>1. project' \in [Projects -> [status : Statuses, preDelete : Statuses,
                                   revision : Nat]]
    BY DEF TypeOK, Statuses
  <2>2. row' \in [Projects -> Rows]
    <3>1. project[p].revision + 1 \in Nat /\ ActionFor(status) \in SyncActions
      BY DEF TypeOK, ActionFor, SyncActions
    <3> QED
      BY <3>1, SyncAssumption DEF TypeOK, Rows, SyncStates
  <2>3. updatedBefore' \subseteq Projects \X Projects
    BY DEF Touch
  <2> QED
    BY <2>1, <2>2, <2>3 DEF TypeOK, workerVars, engineVars
<1>2. RowTracksProject'
    BY SyncAssumption DEF TypeOK, RowTracksProject, ActionFor, Rows, Statuses, workerVars, engineVars
<1>3. ClaimsFollowProject'
    BY SyncAssumption DEF TypeOK, ClaimsFollowProject, Outstanding, workerVars, Claims, engineVars
<1>4. DocumentFollowsProject'
  <2> SUFFICES ASSUME NEW w \in Workers, pc[w] # "idle" PROVE DocumentOK(w)'
    BY DEF DocumentFollowsProject, DocumentOK, workerVars
  <2>1. /\ claim[w].project \in Projects /\ claim[w].revision \in Nat
        /\ claim[w].revision <= project[claim[w].project].revision
    BY WorkingHasClaim DEF ClaimsFollowProject
  <2>2. /\ project'[p].revision = project[p].revision + 1
        /\ project[p].revision \in Nat
        /\ \A q \in Projects \ {p} : project'[q] = project[q]
    BY DEF TypeOK
  <2>3. project'[claim[w].project].revision = claim[w].revision
          => project'[claim[w].project] = project[claim[w].project]
    BY <2>1, <2>2
  <2>4. DocumentOK(w)
    BY DEF DocumentFollowsProject
  <2>5. claim' = claim /\ pc' = pc /\ document' = document
    BY DEF workerVars
  <2> QED
    BY <2>3, <2>4, <2>5 DEF DocumentOK, Wanted
<1> QED
    BY <1>1, <1>2, <1>3, <1>4

\* Asking again at the current revision keeps it.
LEMMA ReindexCommon ==
    ASSUME CommonInv, NEW p \in Projects, ReindexProject(p)
    PROVE  CommonInv'
<1> USE DEF CommonInv, ReindexProject, SyncUpsert
<1>1. TypeOK'
  <2>1. row' \in [Projects -> Rows]
    <3>1. project[p].revision \in Nat /\ ActionFor(project[p].status) \in SyncActions
      BY DEF TypeOK, ActionFor, SyncActions
    <3> QED
      BY <3>1, SyncAssumption DEF TypeOK, Rows, SyncStates
  <2>2. updatedBefore' \subseteq Projects \X Projects
    BY DEF Touch
  <2> QED
    BY <2>1, <2>2 DEF TypeOK, workerVars, engineVars
<1>2. RowTracksProject'
    BY SyncAssumption DEF TypeOK, RowTracksProject, ActionFor, Rows, Statuses
<1>3. ClaimsFollowProject'
    BY DEF ClaimsFollowProject, Outstanding, workerVars
<1>4. DocumentFollowsProject'
    BY DEF DocumentFollowsProject, DocumentOK, Wanted, workerVars
<1> QED
    BY <1>1, <1>2, <1>3, <1>4

\* Every request for a project's projection keeps the common invariant.
LEMMA EditCommon ==
    ASSUME CommonInv, NEW p \in Projects, Edit(p)
    PROVE  CommonInv'
<1>1. CASE Create(p)
    BY <1>1, AdvanceCommon DEF Create, Statuses
<1>2. CASE Replace(p)
    BY <1>2, AdvanceCommon DEF Replace, Statuses
<1>3. CASE Publish(p)
    BY <1>3, AdvanceCommon DEF Publish, Statuses
<1>4. CASE Delete(p)
    BY <1>4, AdvanceCommon DEF Delete, Statuses
<1>5. CASE Restore(p)
  <2>1. project[p].preDelete \in {"draft", "published"}
    BY <1>5 DEF Restore, CommonInv, RowTracksProject
  <2> QED
    BY <1>5, <2>1, AdvanceCommon DEF Restore, Statuses
<1>6. CASE MutateChild(p)
    BY <1>6, AdvanceCommon DEF MutateChild, Statuses
<1>7. CASE ReindexProject(p)
    BY <1>7, ReindexCommon
<1> QED
    BY <1>1, <1>2, <1>3, <1>4, <1>5, <1>6, <1>7 DEF Edit

\* A process that starts or ends keeps it.
LEMMA ProcessCommon ==
    ASSUME CommonInv, NEW w \in Workers, Start(w) \/ Crash(w)
    PROVE  CommonInv'
<1> USE DEF CommonInv
<1>1. CASE Start(w)
    BY <1>1 DEF Start, TypeOK, RowTracksProject, ClaimsFollowProject, Outstanding,
        DocumentFollowsProject, DocumentOK, Wanted, databaseVars, engineVars
<1>2. CASE Crash(w)
  <2> USE <1>2 DEF Crash, Finish, databaseVars, engineVars
  <2>1. TypeOK'
    BY DEF TypeOK
  <2>2. RowTracksProject'
    BY DEF RowTracksProject
  <2>3. ClaimsFollowProject'
    BY DEF TypeOK, ClaimsFollowProject, Outstanding
  <2>4. DocumentFollowsProject'
    BY DEF TypeOK, DocumentFollowsProject, DocumentOK, Wanted
  <2> QED
    BY <2>1, <2>2, <2>3, <2>4
<1> QED
    BY <1>1, <1>2

\* What the three updates of the reconciler make of a row.
LEMMA LeasedRow ==
    ASSUME NEW r \in Rows, NEW w \in Workers
    PROVE  /\ Leased(r, w) \in Rows
           /\ Leased(r, w).state = "processing"
           /\ Leased(r, w).owner = w
           /\ Leased(r, w).owner # NoWorker
           /\ Leased(r, w).desired = r.desired
           /\ Leased(r, w).action = r.action
           /\ Leased(r, w).indexed = r.indexed
BY SyncAssumption DEF Leased, Rows, SyncStates

\* Both marks free the row and keep what it asks for.
LEMMA MarkedRow ==
    ASSUME NEW r \in Rows
    PROVE  /\ Confirmed(r) \in Rows
           /\ Confirmed(r).state = "synced"
           /\ Confirmed(r).owner = NoWorker
           /\ Confirmed(r).desired = r.desired
           /\ Confirmed(r).action = r.action
           /\ Confirmed(r).indexed = r.desired
           /\ Rejected(r) \in Rows
           /\ Rejected(r).state = "failed"
           /\ Rejected(r).owner = NoWorker
           /\ Rejected(r).desired = r.desired
           /\ Rejected(r).action = r.action
           /\ Rejected(r).indexed = r.indexed
BY DEF Confirmed, Rejected, Rows, SyncStates

\* Leasing rows, whether or not the claims reach the worker.
LEMMA ClaimCommon ==
    ASSUME CommonInv, NEW w \in Workers, ClaimSync(w) \/ ClaimSyncLost(w)
    PROVE  CommonInv'
<1> USE DEF CommonInv
<1> PICK S \in SUBSET Projects :
        /\ LeaseRows(w, S)
        /\ \/ batch' = [batch EXCEPT ![w] = {ClaimOf(p) : p \in S}]
           \/ batch' = batch
        /\ UNCHANGED <<project, process, claim, pc, document, ahead, engineVars>>
    BY DEF ClaimSync, ClaimSyncLost, workerVars
<1>1. \A p \in S : ClaimOf(p) \in Claims
    BY DEF TypeOK, ClaimOf, Claims, Rows
<1>2. \A p \in S : row[p].state # "absent"
    BY DEF LeaseRows, FirstInLine, Claimable
<1>3. TypeOK'
  <2>1. row' \in [Projects -> Rows]
    BY LeasedRow DEF LeaseRows, TypeOK
  <2>2. updatedBefore' \subseteq Projects \X Projects
    BY DEF LeaseRows, Touch
  <2>3. batch' \in [Workers -> SUBSET Claims]
    <3>1. {ClaimOf(p) : p \in S} \in SUBSET Claims
      BY <1>1
    <3> QED
      BY <3>1 DEF TypeOK
  <2> QED
    BY <2>1, <2>2, <2>3 DEF TypeOK, engineVars
<1>4. RowTracksProject'
  <2>1. \A p \in S : /\ row'[p] = Leased(row[p], w)
                    /\ row[p] \in Rows
                    /\ row[p].state # "absent"
    BY <1>2 DEF LeaseRows, TypeOK
  <2>2. \A p \in Projects \ S : row'[p] = row[p]
    BY DEF LeaseRows
  <2> QED
    BY <2>1, <2>2, LeasedRow DEF RowTracksProject
<1>5. ClaimsFollowProject'
  <2>1. \A p \in S : /\ ClaimOf(p).project = p
                    /\ ClaimOf(p).revision = project[p].revision
                    /\ ClaimOf(p).action = ActionFor(project[p].status)
    BY DEF ClaimOf, RowTracksProject
  <2>2. \A p \in S : project[p].revision \in Nat
    BY DEF TypeOK
  <2>3. \A v \in Workers : \A c \in batch'[v] :
          c \in batch[v] \/ \E p \in S : c = ClaimOf(p)
    <3>1. CASE batch' = [batch EXCEPT ![w] = {ClaimOf(p) : p \in S}]
      BY <3>1 DEF TypeOK
    <3> QED
      BY <3>1
  <2> QED
    BY <2>1, <2>2, <2>3 DEF ClaimsFollowProject, Outstanding
<1>6. DocumentFollowsProject'
    BY DEF DocumentFollowsProject, DocumentOK, Wanted
<1> QED
    BY <1>3, <1>4, <1>5, <1>6

\* The worker turns to one of its claims.
LEMMA ApplyCommon ==
    ASSUME CommonInv, NEW w \in Workers,
           ApplyRemoval(w) \/ ApplyUpsert(w) \/ ApplyStale(w) \/ ApplyFails(w)
    PROVE  CommonInv'
<1> USE DEF CommonInv
<1> PICK c \in batch[w], stage \in {"read", "post", "failed"},
         built \in Documents \cup {NoDocument} :
        /\ Apply(w, c, stage, built)
        /\ stage = "read" => /\ built # NoDocument
                             /\ built.revision = c.revision
                             /\ project[c.project].status = "published"
        /\ stage = "post" => /\ built = NoDocument
                             /\ \/ c.action = "remove"
                                \/ project[c.project].status # "published"
  <2>1. CASE ApplyRemoval(w)
    BY <2>1 DEF ApplyRemoval
  <2>2. CASE ApplyUpsert(w)
    <3>1. PICK c \in batch[w] :
            /\ project[c.project].status = "published"
            /\ Apply(w, c, "read", [revision |-> c.revision, content |-> 0])
      BY <2>2 DEF ApplyUpsert
    <3>2. [revision |-> c.revision, content |-> 0] \in Documents
      BY DEF TypeOK, Claims, Documents
    <3> QED
      BY <3>1, <3>2, SyncAssumption
  <2>3. CASE ApplyStale(w)
    BY <2>3 DEF ApplyStale
  <2>4. CASE ApplyFails(w)
    BY <2>4 DEF ApplyFails
  <2> QED
    BY <2>1, <2>2, <2>3, <2>4
<1> USE DEF Apply, databaseVars, engineVars
<1>1. c \in Claims /\ c.project \in Projects /\ c.revision \in Nat
  BY DEF TypeOK, Claims
<1>2. TypeOK'
  BY <1>1 DEF TypeOK
<1>3. RowTracksProject'
  BY DEF RowTracksProject
<1>4. ClaimsFollowProject'
  <2>1. \A v \in Workers : \A d \in Outstanding(v)' : d \in Outstanding(v)
    BY DEF TypeOK, Outstanding
  <2>2. \A v \in Workers : pc'[v] = "idle" <=> claim'[v] = NoClaim
    BY <1>1, SyncAssumption DEF TypeOK, ClaimsFollowProject
  <2> QED
    BY <2>1, <2>2 DEF ClaimsFollowProject
<1>5. DocumentFollowsProject'
  <2>1. DocumentOK(w)'
    <3>1. /\ claim'[w] = c /\ pc'[w] = stage /\ document'[w] = built
          /\ project' = project
      BY DEF TypeOK
    <3>2. c.revision = project[c.project].revision
            => c.action = ActionFor(project[c.project].status)
      BY DEF ClaimsFollowProject, Outstanding
    <3> QED
      BY <3>1, <3>2 DEF DocumentOK, Wanted, ActionFor
  <2>2. \A v \in Workers \ {w} : DocumentOK(v)'
    BY DEF TypeOK, DocumentFollowsProject, DocumentOK, Wanted
  <2> QED
    BY <2>1, <2>2 DEF DocumentFollowsProject
<1> QED
  BY <1>2, <1>3, <1>4, <1>5

\* The rest of the document is read, at the revision of that moment.
LEMMA ReadCommon ==
    ASSUME CommonInv, NEW w \in Workers, ReadContent(w)
    PROVE  CommonInv'
<1> USE DEF CommonInv, ReadContent, databaseVars, engineVars
<1>1. /\ claim[w].project \in Projects
      /\ project[claim[w].project].revision \in Nat
      /\ document[w] \in Documents
      /\ document[w].revision = claim[w].revision
    BY WorkingHasClaim DEF TypeOK, DocumentFollowsProject, DocumentOK
<1>2. /\ document'[w] \in Documents
      /\ document'[w] = [revision |-> claim[w].revision,
                         content |-> project[claim[w].project].revision]
      /\ \A v \in Workers \ {w} : document'[v] = document[v]
    BY <1>1 DEF TypeOK, Documents
<1>3. TypeOK'
    BY <1>2 DEF TypeOK
<1>4. RowTracksProject'
    BY DEF RowTracksProject
<1>5. ClaimsFollowProject'
    BY DEF TypeOK, ClaimsFollowProject, Outstanding
<1>6. DocumentFollowsProject'
  <2>1. DocumentOK(w)'
    <3>1. /\ pc'[w] = "post" /\ claim' = claim /\ project' = project
      BY DEF TypeOK
    <3>2. project[claim[w].project].revision = claim[w].revision
            => project[claim[w].project].status = "published"
      BY DEF DocumentFollowsProject, DocumentOK
    <3> QED
      BY <1>2, <3>1, <3>2 DEF DocumentOK, Wanted
  <2>2. \A v \in Workers \ {w} : DocumentOK(v)'
    BY <1>2 DEF TypeOK, DocumentFollowsProject, DocumentOK, Wanted
  <2> QED
    BY <2>1, <2>2 DEF DocumentFollowsProject
<1> QED
    BY <1>3, <1>4, <1>5, <1>6

\* Steps that move a working worker on without touching its claim or document,
\* or the database, keep it: posting, failing, and the engine's answers.
LEMMA AnswerCommon ==
    ASSUME CommonInv,
           UNCHANGED <<databaseVars, process, batch, claim, document>>,
           pc' \in [Workers -> {"idle", "read", "post", "wait", "failed"}],
           ahead' \in [Workers -> Nat],
           tasks' \in [Projects -> Seq(Documents \cup {NoDocument})],
           index' \in [Projects -> Documents \cup {NoDocument}],
           \A v \in Workers : \/ pc'[v] = pc[v]
                              \/ pc[v] = "post" /\ pc'[v] = "wait"
                              \/ pc[v] # "idle" /\ pc'[v] = "failed"
    PROVE  CommonInv'
<1> USE DEF CommonInv, databaseVars
<1>1. TypeOK'
    BY DEF TypeOK
<1>2. RowTracksProject'
    BY DEF RowTracksProject
<1>3. ClaimsFollowProject'
    BY DEF ClaimsFollowProject, Outstanding
<1>4. DocumentFollowsProject'
    BY DEF DocumentFollowsProject, DocumentOK, Wanted
<1> QED
    BY <1>1, <1>2, <1>3, <1>4

\* Posting, and every way an application fails.
LEMMA PostCommon ==
    ASSUME CommonInv, NEW w \in Workers,
           \/ ReadContentFails(w) \/ Post(w) \/ PostUnacknowledged(w)
           \/ PostRefused(w) \/ GiveUpWaiting(w)
    PROVE  CommonInv'
<1>0. /\ TypeOK
      /\ pc \in [Workers -> {"idle", "read", "post", "wait", "failed"}]
      /\ ahead \in [Workers -> Nat]
    BY DEF CommonInv, TypeOK
<1>1. ASSUME Accept(w)
      PROVE  /\ tasks' \in [Projects -> Seq(Documents \cup {NoDocument})]
             /\ index' \in [Projects -> Documents \cup {NoDocument}]
             /\ Len(tasks[claim[w].project]) + 1 \in Nat
  <2>1. claim[w].project \in Projects
    BY <1>1, WorkingHasClaim DEF Accept
  <2>2. /\ tasks[claim[w].project] \in Seq(Documents \cup {NoDocument})
        /\ document[w] \in Documents \cup {NoDocument}
    BY <1>0, <2>1 DEF TypeOK
  <2>3. Append(tasks[claim[w].project], document[w]) \in Seq(Documents \cup {NoDocument})
    BY <2>2
  <2> QED
    BY <1>0, <1>1, <2>1, <2>2, <2>3 DEF Accept, TypeOK
<1>2. ASSUME FailApplication(w), pc[w] # "idle",
             tasks' \in [Projects -> Seq(Documents \cup {NoDocument})],
             index' \in [Projects -> Documents \cup {NoDocument}]
      PROVE  CommonInv'
  <2>1. /\ pc' \in [Workers -> {"idle", "read", "post", "wait", "failed"}]
        /\ ahead' \in [Workers -> Nat]
        /\ \A v \in Workers : \/ pc'[v] = pc[v]
                              \/ pc[v] # "idle" /\ pc'[v] = "failed"
    <3>1. /\ pc' = [pc EXCEPT ![w] = "failed"]
          /\ ahead' = [ahead EXCEPT ![w] = 0]
          /\ pc[w] # "idle"
      BY <1>2 DEF FailApplication
    <3> QED
      BY <1>0, <3>1
  <2> QED
    BY <1>2, <2>1, AnswerCommon DEF FailApplication
<1>3. CASE Post(w)
  <2>1. /\ pc' \in [Workers -> {"idle", "read", "post", "wait", "failed"}]
        /\ ahead' \in [Workers -> Nat]
        /\ \A v \in Workers : \/ pc'[v] = pc[v]
                              \/ pc[v] = "post" /\ pc'[v] = "wait"
    <3>1. /\ pc' = [pc EXCEPT ![w] = "wait"]
          /\ ahead' = [ahead EXCEPT ![w] = Len(tasks[claim[w].project]) + 1]
          /\ pc[w] = "post"
          /\ Len(tasks[claim[w].project]) + 1 \in Nat
      BY <1>1, <1>3 DEF Post, Accept
    <3> QED
      BY <1>0, <3>1
  <2> QED
    BY <1>1, <1>3, <2>1, AnswerCommon DEF Post
<1>4. CASE PostUnacknowledged(w)
    BY <1>1, <1>2, <1>4 DEF PostUnacknowledged, Accept
<1>5. CASE ReadContentFails(w) \/ PostRefused(w) \/ GiveUpWaiting(w)
    BY <1>0, <1>2, <1>5
    DEF ReadContentFails, PostRefused, GiveUpWaiting, engineVars, TypeOK
<1> QED
    BY <1>3, <1>4, <1>5

\* A row changed without touching what it asks for keeps the common invariant.
LEMMA RowCommon ==
    ASSUME CommonInv, NEW p \in Projects, NEW r \in Rows,
           row' = [row EXCEPT ![p] = r],
           r.state = "absent" <=> row[p].state = "absent",
           r.state = "processing" <=> r.owner # NoWorker,
           r.desired = row[p].desired,
           r.action = row[p].action,
           r.indexed <= r.desired
    PROVE  row' \in [Projects -> Rows] /\ (project' = project => RowTracksProject')
BY DEF CommonInv, TypeOK, RowTracksProject

\* The worker lets go of its claim, whatever its mark did to the row.
LEMMA FinishCommon ==
    ASSUME CommonInv, NEW w \in Workers, Finish(w),
           UNCHANGED <<project, process, batch, engineVars>>,
           row' \in [Projects -> Rows],
           updatedBefore' \subseteq Projects \X Projects,
           RowTracksProject'
    PROVE  CommonInv'
<1> USE DEF CommonInv, Finish, engineVars
<1>1. TypeOK'
    BY DEF TypeOK
<1>2. ClaimsFollowProject'
    BY DEF TypeOK, ClaimsFollowProject, Outstanding
<1>3. DocumentFollowsProject'
    BY DEF TypeOK, DocumentFollowsProject, DocumentOK, Wanted
<1> QED
    BY <1>1, <1>2, <1>3

\* The marks, those that find the row still held and those that do not.
LEMMA MarkCommon ==
    ASSUME CommonInv, NEW w \in Workers,
           MarkSucceeded(w) \/ MarkFailed(w) \/ MarkLost(w)
    PROVE  CommonInv'
<1>0. TypeOK /\ RowTracksProject
    BY DEF CommonInv
<1>1. pc[w] # "idle"
    BY DEF MarkSucceeded, MarkFailed, MarkLost, TaskDone
<1>2. claim[w].project \in Projects /\ row[claim[w].project] \in Rows
    BY <1>0, <1>1, WorkingHasClaim DEF TypeOK
<1>3. ASSUME Finish(w), UNCHANGED <<row, updatedBefore>>,
             UNCHANGED <<project, process, batch, engineVars>>
      PROVE  CommonInv'
  <2>1. RowTracksProject'
    BY <1>0, <1>3 DEF RowTracksProject
  <2> QED
    BY <1>0, <1>3, <2>1, FinishCommon DEF TypeOK
<1>4. ASSUME NEW r \in {Confirmed(row[claim[w].project]),
                        Rejected(row[claim[w].project])},
             Mark(w, r)
      PROVE  CommonInv'
  <2>1. CASE HoldsClaim(w)
    <3> DEFINE p == claim[w].project
    <3>1. /\ r \in Rows /\ r.state \in {"synced", "failed"}
          /\ r.owner = NoWorker /\ r.desired = row[p].desired
          /\ r.action = row[p].action
          /\ r.indexed \in {row[p].desired, row[p].indexed}
      BY <1>2, MarkedRow
    <3>2. row' = [row EXCEPT ![p] = r] /\ row[p].state = "processing"
      BY <1>4, <2>1 DEF Mark, HoldsClaim
    <3>3. r.indexed <= r.desired
      BY <1>0, <1>2, <3>1 DEF RowTracksProject, Rows
    <3>4. row' \in [Projects -> Rows] /\ RowTracksProject'
      <4>1. project' = project
        BY <1>4 DEF Mark
      <4> QED
        BY <1>0, <1>2, <3>1, <3>2, <3>3, <4>1, RowCommon
    <3>5. updatedBefore' \subseteq Projects \X Projects
      BY <1>4, <2>1 DEF Mark, Touch
    <3> QED
      BY <1>4, <3>4, <3>5, FinishCommon DEF Mark
  <2>2. CASE ~HoldsClaim(w)
    BY <1>3, <1>4, <2>2 DEF Mark
  <2> QED
    BY <2>1, <2>2
<1>5. CASE MarkSucceeded(w)
    BY <1>4, <1>5 DEF MarkSucceeded
<1>6. CASE MarkFailed(w)
    BY <1>4, <1>6 DEF MarkFailed
<1>7. CASE MarkLost(w)
    BY <1>3, <1>7 DEF MarkLost, databaseVars
<1> QED
    BY <1>5, <1>6, <1>7

\* A lease runs out or a retry falls due.
LEMMA ClockCommon ==
    ASSUME CommonInv, NEW p \in Projects, LeaseExpires(p) \/ RetryDue(p)
    PROVE  CommonInv'
<1> USE DEF CommonInv, workerVars, engineVars
<1>1. PICK r \in Rows :
        /\ row' = [row EXCEPT ![p] = r]
        /\ r.state = row[p].state /\ r.owner = row[p].owner
        /\ r.desired = row[p].desired /\ r.action = row[p].action
        /\ r.indexed = row[p].indexed
  <2>1. row[p] \in Rows /\ row \in [Projects -> Rows]
    BY DEF TypeOK
  <2>2. CASE LeaseExpires(p)
    <3>1. row' = [row EXCEPT ![p] = [row[p] EXCEPT !.expired = TRUE]]
      BY <2>1, <2>2 DEF LeaseExpires
    <3>2. /\ [row[p] EXCEPT !.expired = TRUE] \in Rows
          /\ [row[p] EXCEPT !.expired = TRUE].state = row[p].state
          /\ [row[p] EXCEPT !.expired = TRUE].owner = row[p].owner
          /\ [row[p] EXCEPT !.expired = TRUE].desired = row[p].desired
          /\ [row[p] EXCEPT !.expired = TRUE].action = row[p].action
          /\ [row[p] EXCEPT !.expired = TRUE].indexed = row[p].indexed
      BY <2>1 DEF Rows
    <3> QED
      BY <3>1, <3>2
  <2>3. CASE RetryDue(p)
    <3>1. row' = [row EXCEPT ![p] = [row[p] EXCEPT !.due = TRUE]]
      BY <2>1, <2>3 DEF RetryDue
    <3>2. /\ [row[p] EXCEPT !.due = TRUE] \in Rows
          /\ [row[p] EXCEPT !.due = TRUE].state = row[p].state
          /\ [row[p] EXCEPT !.due = TRUE].owner = row[p].owner
          /\ [row[p] EXCEPT !.due = TRUE].desired = row[p].desired
          /\ [row[p] EXCEPT !.due = TRUE].action = row[p].action
          /\ [row[p] EXCEPT !.due = TRUE].indexed = row[p].indexed
      BY <2>1 DEF Rows
    <3> QED
      BY <3>1, <3>2
  <2> QED
    BY <2>2, <2>3
<1>2. UNCHANGED <<project, updatedBefore, workerVars, engineVars>>
  BY DEF LeaseExpires, RetryDue
<1>3. row' \in [Projects -> Rows] /\ RowTracksProject'
  <2>1. /\ r.state = "absent" <=> row[p].state = "absent"
        /\ r.state = "processing" <=> r.owner # NoWorker
        /\ r.indexed <= r.desired
    BY <1>1 DEF RowTracksProject
  <2>2. project' = project
    BY <1>2
  <2> HIDE DEF CommonInv
  <2> QED
    BY <1>1, <2>1, <2>2, RowCommon
<1>4. TypeOK'
  BY <1>2, <1>3 DEF TypeOK
<1>5. ClaimsFollowProject'
  BY <1>2 DEF ClaimsFollowProject, Outstanding
<1>6. DocumentFollowsProject'
  BY <1>2 DEF DocumentFollowsProject, DocumentOK, Wanted
<1> QED
  BY <1>3, <1>4, <1>5, <1>6

\* The engine runs or fails a task.
LEMMA EngineCommon ==
    ASSUME CommonInv, NEW p \in Projects, Engine(p)
    PROVE  CommonInv'
<1>0. /\ pc \in [Workers -> {"idle", "read", "post", "wait", "failed"}]
      /\ ahead \in [Workers -> Nat]
      /\ tasks \in [Projects -> Seq(Documents \cup {NoDocument})]
      /\ index \in [Projects -> Documents \cup {NoDocument}]
    BY DEF CommonInv, TypeOK
<1>1. /\ Dequeue(p)
      /\ UNCHANGED <<databaseVars, process, batch, claim, document>>
    BY DEF Engine, TaskSucceeds, TaskFails, Dequeue
<1>2. /\ Tail(tasks[p]) \in Seq(Documents \cup {NoDocument})
      /\ Head(tasks[p]) \in Documents \cup {NoDocument}
    BY <1>0, <1>1 DEF Dequeue
<1>3. tasks' \in [Projects -> Seq(Documents \cup {NoDocument})]
    BY <1>0, <1>1, <1>2 DEF Dequeue
<1>4. ahead' \in [Workers -> Nat]
    BY <1>0, <1>1 DEF Dequeue, Awaits
<1>5. index' \in [Projects -> Documents \cup {NoDocument}]
    BY <1>0, <1>2 DEF Engine, TaskSucceeds, TaskFails
<1>6. /\ pc' \in [Workers -> {"idle", "read", "post", "wait", "failed"}]
      /\ \A v \in Workers : \/ pc'[v] = pc[v]
                            \/ pc[v] # "idle" /\ pc'[v] = "failed"
    BY <1>0 DEF Engine, TaskSucceeds, TaskFails, Awaits
<1> QED
    BY <1>1, <1>3, <1>4, <1>5, <1>6, AnswerCommon

\* The common invariant is inductive.
LEMMA NextCommon == CommonInv /\ [Next]_vars => CommonInv'
<1> SUFFICES ASSUME CommonInv, [Next]_vars PROVE CommonInv'
    OBVIOUS
<1>1. ASSUME NEW p \in Projects,
             Edit(p) \/ LeaseExpires(p) \/ RetryDue(p) \/ Engine(p)
      PROVE  CommonInv'
    BY <1>1, EditCommon, ClockCommon, EngineCommon
<1>2. ASSUME NEW w \in Workers, Start(w) \/ Crash(w) PROVE CommonInv'
    BY <1>2, ProcessCommon
<1>3. ASSUME NEW w \in Workers, Reconcile(w) PROVE CommonInv'
    BY <1>3, ClaimCommon, ApplyCommon, ReadCommon, PostCommon, MarkCommon
    DEF Reconcile
<1>4. ASSUME NEW w \in Workers, Disturb(w) PROVE CommonInv'
    BY <1>2, <1>4, ClaimCommon, ApplyCommon, PostCommon, MarkCommon DEF Disturb
<1>5. CASE UNCHANGED vars
  <2>1. /\ UNCHANGED <<databaseVars, process, batch, claim, document>>
        /\ UNCHANGED <<pc, ahead, tasks, index>>
    BY <1>5 DEF vars, databaseVars
  <2> QED
    BY <2>1, AnswerCommon DEF CommonInv, TypeOK
<1> QED
    BY <1>1, <1>2, <1>3, <1>4, <1>5 DEF Next

\* However many processes run, every row keeps asking for what its project is,
\* every outstanding claim is a request the project made, and a built document
\* is right as long as the project stays at the claimed revision: the three
\* facts the CAS on desired_revision in the reconciler's marks relies on.
THEOREM CommonInvariant == Spec => []CommonInv
BY InitCommon, NextCommon, PTL DEF Spec

-------------------------------------------------------------------------------
(* What a step may do to a row, and the two action properties.               *)

\* Every way a row changes: a request, the clock, a claim or a mark.
RowChanges(p) ==
    \/ Edit(p) /\ row'[p].state = "pending" /\ row'[p].owner = NoWorker
    \/ row'[p] = [row[p] EXCEPT !.expired = TRUE]
    \/ row'[p] = [row[p] EXCEPT !.due = TRUE]
    \/ \E w \in Workers : Claimable(p) /\ row'[p] = Leased(row[p], w)
    \/ \E w \in Workers :
        /\ pc[w] # "idle" /\ claim[w].project = p /\ claim'[w] = NoClaim
        /\ HoldsClaim(w)
        /\ \/ row'[p] = Confirmed(row[p]) /\ TaskDone(w)
           \/ row'[p] = Rejected(row[p])

\* The steps of a worker that leave all rows alone.
LEMMA QuietSteps ==
    ASSUME NEW w \in Workers,
           \/ Start(w) \/ Crash(w) \/ ApplyRemoval(w) \/ ApplyUpsert(w)
           \/ ApplyStale(w) \/ ApplyFails(w) \/ ReadContent(w) \/ Post(w)
           \/ ReadContentFails(w) \/ PostUnacknowledged(w) \/ PostRefused(w)
           \/ GiveUpWaiting(w) \/ MarkLost(w)
    PROVE  row' = row
BY DEF Start, Crash, ApplyRemoval, ApplyUpsert, ApplyStale, ApplyFails, Apply,
    ReadContent, Post, ReadContentFails, PostUnacknowledged, PostRefused,
    GiveUpWaiting, FailApplication, MarkLost, databaseVars

\* A mark changes at most the row of its own claim, and only while it is held.
LEMMA MarkedRowOnly ==
    ASSUME CommonInv, NEW w \in Workers, NEW p \in Projects,
           MarkSucceeded(w) \/ MarkFailed(w), row'[p] # row[p]
    PROVE  RowChanges(p)
<1>1. /\ pc[w] # "idle"
      /\ \/ Mark(w, Confirmed(row[claim[w].project])) /\ TaskDone(w)
         \/ Mark(w, Rejected(row[claim[w].project]))
    BY DEF MarkSucceeded, MarkFailed, TaskDone
<1>2. claim[w].project \in Projects
    BY <1>1, WorkingHasClaim
<1>3. HoldsClaim(w) /\ claim[w].project = p
    BY <1>1, <1>2 DEF Mark, CommonInv, TypeOK
<1>4. claim'[w] = NoClaim
    BY <1>1 DEF Mark, Finish, CommonInv, TypeOK
<1>5. \/ row'[p] = Confirmed(row[p]) /\ TaskDone(w)
      \/ row'[p] = Rejected(row[p])
    BY <1>1, <1>2, <1>3 DEF Mark, CommonInv, TypeOK
<1> QED
    BY <1>1, <1>3, <1>4, <1>5 DEF RowChanges

\* Every step that changes a row changes it in one of those ways.
LEMMA RowStep ==
    ASSUME CommonInv, [Next]_vars, NEW p \in Projects, row'[p] # row[p]
    PROVE  RowChanges(p)
<1>0. row \in [Projects -> Rows] /\ row[p] \in Rows
    BY DEF CommonInv, TypeOK
<1>1. ASSUME NEW q \in Projects, Edit(q) PROVE RowChanges(p)
  <2>1. PICK r : /\ row' = [row EXCEPT ![q] = r]
                 /\ r.state = "pending" /\ r.owner = NoWorker
    BY <1>0, <1>1 DEF Edit, Create, Replace, Publish, Delete, Restore, MutateChild,
        Advance, ReindexProject, SyncUpsert
  <2>2. q = p /\ row'[p] = r
    BY <1>0, <2>1
  <2> QED
    BY <1>1, <2>1, <2>2 DEF RowChanges
<1>2. ASSUME NEW q \in Projects, LeaseExpires(q) PROVE RowChanges(p)
  <2>1. row' = [row EXCEPT ![q] = [row[q] EXCEPT !.expired = TRUE]]
    BY <1>0, <1>2 DEF LeaseExpires
  <2> QED
    BY <1>0, <2>1 DEF RowChanges
<1>3. ASSUME NEW q \in Projects, RetryDue(q) PROVE RowChanges(p)
  <2>1. row' = [row EXCEPT ![q] = [row[q] EXCEPT !.due = TRUE]]
    BY <1>0, <1>3 DEF RetryDue
  <2> QED
    BY <1>0, <2>1 DEF RowChanges
<1>4. ASSUME NEW q \in Projects, Engine(q) PROVE row' = row
    BY <1>4 DEF Engine, TaskSucceeds, TaskFails, Dequeue, databaseVars
<1>5. ASSUME NEW w \in Workers, ClaimSync(w) \/ ClaimSyncLost(w)
      PROVE  RowChanges(p)
  <2>1. PICK S \in SUBSET Projects : LeaseRows(w, S)
    BY <1>5 DEF ClaimSync, ClaimSyncLost
  <2>2. p \in S /\ row'[p] = Leased(row[p], w)
    BY <2>1 DEF LeaseRows
  <2>3. Claimable(p)
    BY <2>1, <2>2 DEF LeaseRows, FirstInLine
  <2> QED
    BY <2>2, <2>3 DEF RowChanges
<1>6. ASSUME NEW w \in Workers, Start(w) \/ Reconcile(w) \/ Disturb(w)
      PROVE  RowChanges(p)
    BY <1>5, <1>6, MarkedRowOnly, QuietSteps DEF Reconcile, Disturb
<1>7. CASE UNCHANGED vars
    BY <1>7 DEF vars
<1> QED
    BY <1>1, <1>2, <1>3, <1>4, <1>6, <1>7 DEF Next

\* However many processes run, the one that completes a row has had the engine
\* apply exactly what the project wants at that moment.
THEOREM CompletionTheorem == Spec => CompletionIsCurrent
<1>1. CommonInv /\ [Next]_vars => [Completion]_vars
  <2> SUFFICES ASSUME CommonInv, [Next]_vars, NEW p \in Projects,
                      row[p].state # "synced", row'[p].state = "synced"
               PROVE  \E w \in Workers : /\ claim[w] # NoClaim
                                         /\ claim[w].project = p
                                         /\ document[w] = Wanted(p)
                                         /\ ahead[w] = 0
    BY DEF Completion
  <2>0. row[p] \in Rows
    BY DEF CommonInv, TypeOK
  <2>1. PICK w \in Workers : /\ claim[w].project = p
                             /\ HoldsClaim(w)
                             /\ TaskDone(w)
    <3>1. RowChanges(p)
      BY RowStep
    <3>2. /\ [row[p] EXCEPT !.expired = TRUE].state = row[p].state
          /\ [row[p] EXCEPT !.due = TRUE].state = row[p].state
          /\ \A w \in Workers : Leased(row[p], w).state = "processing"
          /\ Rejected(row[p]).state = "failed"
      BY <2>0, LeasedRow, MarkedRow DEF Rows
    <3> QED
      BY <3>1, <3>2 DEF RowChanges
  <2>2. pc[w] = "wait" /\ ahead[w] = 0
    BY <2>1 DEF TaskDone
  <2>3. claim[w] \in Claims
    BY <2>2, WorkingHasClaim
  <2>4. project[p].revision = claim[w].revision
    BY <2>1 DEF HoldsClaim, CommonInv, RowTracksProject
  <2>5. document[w] = Wanted(p)
    BY <2>1, <2>2, <2>4 DEF CommonInv, DocumentFollowsProject, DocumentOK
  <2> QED
    BY <2>1, <2>2, <2>3, <2>5, SyncAssumption
<1> QED
    BY <1>1, CommonInvariant, PTL DEF Spec, CompletionIsCurrent

\* However many processes run, a row leaves its owner only by the owner's own
\* mark, by a new request, or after its lease expired.
THEOREM LeaseTheorem == Spec => LeaseRespected
<1>1. CommonInv /\ [Next]_vars => [Surrender]_vars
  <2> SUFFICES ASSUME CommonInv, [Next]_vars, NEW p \in Projects, NEW w \in Workers,
                      row[p].owner = w, row'[p].owner # w
               PROVE  \/ row'[p].state = "pending"
                      \/ row[p].expired
                      \/ /\ claim[w] # NoClaim
                         /\ claim[w].project = p
                         /\ claim'[w] = NoClaim
    BY DEF Surrender
  <2>0. row[p] \in Rows
    BY DEF CommonInv, TypeOK
  <2>1. row[p].state = "processing"
    BY SyncAssumption DEF CommonInv, RowTracksProject
  <2>2. RowChanges(p)
    BY RowStep
  <2>3. /\ [row[p] EXCEPT !.expired = TRUE].owner = row[p].owner
        /\ [row[p] EXCEPT !.due = TRUE].owner = row[p].owner
    BY <2>0 DEF Rows
  <2>4. Claimable(p) => row[p].expired
    BY <2>1 DEF Claimable
  <2>5. ASSUME NEW v \in Workers, pc[v] # "idle", claim[v].project = p,
               claim'[v] = NoClaim, HoldsClaim(v)
        PROVE  claim[w] # NoClaim /\ claim[w].project = p /\ claim'[w] = NoClaim
    <3>1. v = w
      BY <2>5 DEF HoldsClaim
    <3>2. claim[v] \in Claims
      BY <2>5, WorkingHasClaim
    <3> QED
      BY <2>5, <3>1, <3>2, SyncAssumption
  <2> QED
    BY <2>2, <2>3, <2>4, <2>5 DEF RowChanges
<1> QED
    BY <1>1, CommonInvariant, PTL DEF Spec, LeaseRespected

-------------------------------------------------------------------------------
(* When API processes do not overlap: what a row says is true of the index.  *)

\* What SingleInv adds to the common invariant.
OwnershipInv == OneProcess /\ ClaimsOwnRows
IndexInv ==
    /\ WaitsForLastTask
    /\ SyncedIsFresh
    /\ NeverBehindConfirmed
    /\ QueueNotBehindConfirmed

-------------------------------------------------------------------------------
(* Who holds what.                                                           *)

\* A worker that does anything is the one that runs; the others hold nothing.
LEMMA OthersHoldNothing ==
    ASSUME CommonInv, OwnershipInv, NEW w \in Workers, Running(w),
           NEW v \in Workers, v # w
    PROVE  /\ ~Running(v)
           /\ pc[v] = "idle"
           /\ claim[v] = NoClaim
           /\ batch[v] = {}
           /\ Outstanding(v) = {}
<1>1. ~Running(v)
    BY DEF OwnershipInv, OneProcess
<1>2. pc[v] = "idle" /\ batch[v] = {}
    BY <1>1 DEF OwnershipInv, ClaimsOwnRows, OwnsRows
<1>3. claim[v] = NoClaim
    BY <1>2 DEF CommonInv, ClaimsFollowProject
<1> QED
    BY <1>1, <1>2, <1>3 DEF Outstanding

\* The row of an outstanding claim is not synced.
LEMMA OutstandingNotSynced ==
    ASSUME OwnershipInv, NEW w \in Workers, NEW c \in Outstanding(w)
    PROVE  /\ row[c.project].state \in {"pending", "processing"}
           /\ row[c.project].indexed <= c.revision
BY DEF OwnershipInv, ClaimsOwnRows, OwnsRows

\* Steps that change rows without disturbing what workers hold: a row becomes
\* pending, or keeps its state and owner.
LEMMA OwnershipUnderRows ==
    ASSUME OwnershipInv, UNCHANGED <<process, batch, claim, pc>>,
           \A c \in UNION {Outstanding(w) : w \in Workers} :
              LET q == c.project
              IN  /\ row'[q].indexed = row[q].indexed
                  /\ \/ row'[q].state = "pending"
                     \/ row'[q].state = row[q].state /\ row'[q].owner = row[q].owner
    PROVE  OwnershipInv'
<1>1. OneProcess'
    BY DEF OwnershipInv, OneProcess, Running
<1>2. ASSUME NEW w \in Workers PROVE OwnsRows(w)'
  <2>1. /\ OwnsRows(w)
        /\ Outstanding(w)' = Outstanding(w)
        /\ Running(w)' = Running(w)
    BY DEF OwnershipInv, ClaimsOwnRows, Outstanding, Running
  <2>2. \A c \in Outstanding(w) :
            /\ row'[c.project].indexed = row[c.project].indexed
            /\ \/ row'[c.project].state = "pending"
               \/ /\ row'[c.project].state = row[c.project].state
                  /\ row'[c.project].owner = row[c.project].owner
    OBVIOUS
  <2> QED
    BY <2>1, <2>2 DEF OwnsRows
<1> QED
    BY <1>1, <1>2 DEF OwnershipInv, ClaimsOwnRows

\* Steps of a worker that keep what it holds, and change no row.
LEMMA OwnershipUnderWork ==
    ASSUME CommonInv, CommonInv', OwnershipInv, UNCHANGED <<row, process>>,
           \A w \in Workers :
              /\ Outstanding(w)' \subseteq Outstanding(w)
              /\ batch'[w] \subseteq batch[w]
              /\ claim'[w] \notin batch'[w]
              /\ ~Running(w) => pc'[w] = "idle"
    PROVE  OwnershipInv'
<1>1. OneProcess'
    BY DEF OwnershipInv, OneProcess, Running
<1>2. ASSUME NEW w \in Workers PROVE OwnsRows(w)'
  <2>1. OwnsRows(w) /\ Running(w)' = Running(w)
    BY DEF OwnershipInv, ClaimsOwnRows, Running
  <2> QED
    BY <2>1 DEF OwnsRows
<1> QED
    BY <1>1, <1>2 DEF OwnershipInv, ClaimsOwnRows

\* A claim statement hands the worker rows it now owns, one claim a project.
LEMMA OwnershipUnderClaim ==
    ASSUME CommonInv, OwnershipInv, NEW w \in Workers,
           ClaimSync(w) \/ ClaimSyncLost(w)
    PROVE  OwnershipInv'
<1> PICK S \in SUBSET Projects :
        /\ LeaseRows(w, S)
        /\ \/ batch' = [batch EXCEPT ![w] = {ClaimOf(p) : p \in S}]
           \/ batch' = batch
        /\ UNCHANGED <<process, claim, pc>>
    BY DEF ClaimSync, ClaimSyncLost, workerVars
<1>0. Running(w) /\ pc[w] = "idle" /\ batch[w] = {}
    BY DEF LeaseRows
<1>1. OneProcess'
    BY DEF OwnershipInv, OneProcess, Running
<1>2. claim[w] = NoClaim
    BY <1>0 DEF CommonInv, ClaimsFollowProject
<1>3. OwnsRows(w)'
  <2>1. \A c \in batch'[w] : \E p \in S : c = ClaimOf(p)
    <3>1. CASE batch' = [batch EXCEPT ![w] = {ClaimOf(p) : p \in S}]
      BY <3>1 DEF CommonInv, TypeOK
    <3>2. CASE batch' = batch
      BY <1>0, <3>2
    <3> QED
      BY <3>1, <3>2
  <2>2. \A c \in Outstanding(w)' : \E p \in S : c = ClaimOf(p)
    BY <1>2, <2>1 DEF Outstanding
  <2>3. \A p \in S : /\ p \in Projects
                    /\ ClaimOf(p).project = p
                    /\ ClaimOf(p).revision = row[p].desired
                    /\ ClaimOf(p) \in Claims
    BY DEF ClaimOf, CommonInv, TypeOK, Claims, Rows
  <2>4. \A p \in S : /\ row'[p].state = "processing"
                    /\ row'[p].owner = w
                    /\ row'[p].indexed = row[p].indexed
                    /\ row[p].indexed <= row[p].desired
    <3> SUFFICES ASSUME NEW p \in S
                 PROVE  /\ row'[p].state = "processing"
                        /\ row'[p].owner = w
                        /\ row'[p].indexed = row[p].indexed
                        /\ row[p].indexed <= row[p].desired
      OBVIOUS
    <3>1. row'[p] = Leased(row[p], w) /\ row[p] \in Rows
      BY DEF LeaseRows, CommonInv, TypeOK
    <3> QED
      BY <3>1, LeasedRow DEF CommonInv, RowTracksProject
  <2>5. /\ claim'[w] = NoClaim /\ Running(w)'
        /\ NoClaim \notin batch'[w]
    BY <1>0, <1>2, <2>1, <2>3, SyncAssumption DEF Running
  <2> QED
    BY <2>2, <2>3, <2>4, <2>5 DEF OwnsRows
<1>4. ASSUME NEW v \in Workers, v # w PROVE OwnsRows(v)'
  <2>1. /\ Outstanding(v)' = {} /\ batch'[v] = {} /\ claim'[v] = NoClaim
        /\ pc'[v] = "idle"
    BY <1>0, <1>4, OthersHoldNothing DEF Outstanding, CommonInv, TypeOK
  <2> QED
    BY <2>1 DEF OwnsRows
<1> QED
    BY <1>1, <1>3, <1>4 DEF OwnershipInv, ClaimsOwnRows

\* A mark touches only the row of the claim the worker then lets go of.
LEMMA OwnershipUnderMark ==
    ASSUME CommonInv, OwnershipInv, NEW w \in Workers,
           MarkSucceeded(w) \/ MarkFailed(w) \/ MarkLost(w)
    PROVE  OwnershipInv'
<1>0. /\ Running(w) /\ pc[w] # "idle" /\ Finish(w)
      /\ UNCHANGED <<process, batch>>
    BY DEF MarkSucceeded, MarkFailed, MarkLost, TaskDone, Mark
<1>1. OneProcess'
    BY <1>0 DEF OwnershipInv, OneProcess, Running
<1>2. /\ claim'[w] = NoClaim /\ pc'[w] = "idle"
      /\ \A v \in Workers \ {w} : claim'[v] = claim[v] /\ pc'[v] = pc[v]
    BY <1>0 DEF Finish, CommonInv, TypeOK
<1>3. claim[w] \in Claims /\ claim[w].project \in Projects /\ claim[w] \in Outstanding(w)
    BY <1>0, WorkingHasClaim
<1>4. \A p \in Projects : p # claim[w].project => row'[p] = row[p]
    BY <1>3 DEF MarkSucceeded, MarkFailed, MarkLost, Mark, databaseVars,
        CommonInv, TypeOK
<1>5. OwnsRows(w)'
  <2>1. OwnsRows(w)
    BY DEF OwnershipInv, ClaimsOwnRows
  <2>2. \A c \in batch[w] : /\ c \in Outstanding(w) /\ c # claim[w]
                           /\ c \in Claims /\ c.project \in Projects
    BY <2>1 DEF OwnsRows, Outstanding, CommonInv, TypeOK, Claims
  <2>3. \A c \in batch[w] : row'[c.project] = row[c.project]
    BY <1>3, <1>4, <2>1, <2>2 DEF OwnsRows
  <2>4. Outstanding(w)' = batch[w] /\ NoClaim \notin batch[w]
    BY <1>0, <1>2, <2>2, SyncAssumption DEF Outstanding
  <2> QED
    BY <1>0, <1>2, <2>1, <2>2, <2>3, <2>4 DEF OwnsRows, Running
<1>6. ASSUME NEW v \in Workers, v # w PROVE OwnsRows(v)'
  <2>1. /\ Outstanding(v)' = {} /\ batch'[v] = {} /\ claim'[v] = NoClaim
        /\ pc'[v] = "idle"
    BY <1>0, <1>2, <1>6, OthersHoldNothing DEF Outstanding
  <2> QED
    BY <2>1 DEF OwnsRows
<1> QED
    BY <1>1, <1>5, <1>6 DEF OwnershipInv, ClaimsOwnRows

\* A process starts only when none runs, and ends holding nothing.
LEMMA OwnershipUnderProcess ==
    ASSUME ~Overlapping, CommonInv, OwnershipInv, NEW w \in Workers,
           Start(w) \/ Crash(w)
    PROVE  OwnershipInv'
<1>0. TypeOK
    BY DEF CommonInv
<1>1. CASE Start(w)
  <2>1. /\ \A v \in Workers : ~Running(v)
        /\ \A v \in Workers : Running(v)' => v = w
        /\ UNCHANGED <<row, batch, claim, pc>>
    BY <1>0, <1>1 DEF Start, Running, TypeOK, databaseVars
  <2>2. ASSUME NEW v \in Workers PROVE OwnsRows(v)'
    BY <2>1 DEF OwnershipInv, ClaimsOwnRows, OwnsRows, Outstanding
  <2> QED
    BY <2>1, <2>2 DEF OwnershipInv, OneProcess, ClaimsOwnRows
<1>2. CASE Crash(w)
  <2>1. /\ \A v \in Workers : Running(v)' => Running(v)
        /\ \A v \in Workers \ {w} : Running(v) <=> Running(v)'
        /\ UNCHANGED row
    BY <1>0, <1>2 DEF Crash, Running, TypeOK, databaseVars
  <2>2. /\ batch'[w] = {} /\ claim'[w] = NoClaim /\ pc'[w] = "idle"
        /\ \A v \in Workers \ {w} : /\ batch'[v] = batch[v]
                                    /\ claim'[v] = claim[v]
                                    /\ pc'[v] = pc[v]
    BY <1>0, <1>2 DEF Crash, Finish, TypeOK
  <2>3. OwnsRows(w)'
    BY <2>2 DEF OwnsRows, Outstanding
  <2>4. ASSUME NEW v \in Workers \ {w} PROVE OwnsRows(v)'
    BY <2>1, <2>2 DEF OwnershipInv, ClaimsOwnRows, OwnsRows, Outstanding
  <2> QED
    BY <2>1, <2>3, <2>4 DEF OwnershipInv, OneProcess, ClaimsOwnRows
<1> QED
    BY <1>1, <1>2

\* A request touches one project and its row, whose confirmed revision stays.
LEMMA RequestEffect ==
    ASSUME CommonInv, NEW p \in Projects, Edit(p)
    PROVE  /\ row'[p].state = "pending"
           /\ row'[p].indexed = row[p].indexed
           /\ \A q \in Projects : q # p => row'[q] = row[q] /\ project'[q] = project[q]
           /\ UNCHANGED <<workerVars, engineVars>>
<1>0. row \in [Projects -> Rows] /\ project \in [Projects ->
            [status : Statuses, preDelete : Statuses, revision : Nat]]
    BY DEF CommonInv, TypeOK
<1>1. \E revision, action : SyncUpsert(p, revision, action)
    BY DEF Edit, Create, Replace, Publish, Delete, Restore, MutateChild, Advance,
        ReindexProject
<1>2. /\ row'[p].state = "pending"
      /\ row'[p].indexed = row[p].indexed
      /\ \A q \in Projects : q # p => row'[q] = row[q]
    BY <1>0, <1>1 DEF SyncUpsert
<1>3. /\ \A q \in Projects : q # p => project'[q] = project[q]
      /\ UNCHANGED <<workerVars, engineVars>>
    BY <1>0 DEF Edit, Create, Replace, Publish, Delete, Restore, MutateChild, Advance,
        ReindexProject
<1> QED
    BY <1>2, <1>3

\* The clock leaves state, owner and confirmed revision of every row alone.
LEMMA ClockEffect ==
    ASSUME CommonInv, NEW p \in Projects, LeaseExpires(p) \/ RetryDue(p)
    PROVE  /\ \A q \in Projects : /\ row'[q].state = row[q].state
                                  /\ row'[q].owner = row[q].owner
                                  /\ row'[q].indexed = row[q].indexed
           /\ UNCHANGED <<project, workerVars, engineVars>>
<1>0. row \in [Projects -> Rows] /\ row[p] \in Rows
    BY DEF CommonInv, TypeOK
<1>1. CASE LeaseExpires(p)
  <2>1. row' = [row EXCEPT ![p] = [row[p] EXCEPT !.expired = TRUE]]
    BY <1>0, <1>1 DEF LeaseExpires
  <2>2. LET r == [row[p] EXCEPT !.expired = TRUE]
        IN  r.state = row[p].state /\ r.owner = row[p].owner /\ r.indexed = row[p].indexed
    BY <1>0 DEF Rows
  <2> QED
    BY <1>0, <1>1, <2>1, <2>2 DEF LeaseExpires
<1>2. CASE RetryDue(p)
  <2>1. row' = [row EXCEPT ![p] = [row[p] EXCEPT !.due = TRUE]]
    BY <1>0, <1>2 DEF RetryDue
  <2>2. LET r == [row[p] EXCEPT !.due = TRUE]
        IN  r.state = row[p].state /\ r.owner = row[p].owner /\ r.indexed = row[p].indexed
    BY <1>0 DEF Rows
  <2> QED
    BY <1>0, <1>2, <2>1, <2>2 DEF RetryDue
<1> QED
    BY <1>1, <1>2

\* Ownership is inductive.
LEMMA NextOwnership ==
    ASSUME ~Overlapping, CommonInv, CommonInv', OwnershipInv, [Next]_vars
    PROVE  OwnershipInv'
<1>a. TypeOK
    BY DEF CommonInv
<1>b. ASSUME NEW w \in Workers, NEW c \in Outstanding(w) PROVE c.project \in Projects
  <2>1. c \in Claims
    BY <1>a, <1>b DEF TypeOK, Outstanding
  <2> QED
    BY <2>1 DEF Claims
<1>0. /\ TypeOK
      /\ \A w \in Workers : \A c \in Outstanding(w) : c.project \in Projects
    BY <1>a, <1>b
<1>1. ASSUME NEW p \in Projects, Edit(p) PROVE OwnershipInv'
    BY <1>0, <1>1, RequestEffect, OwnershipUnderRows DEF workerVars
<1>2. ASSUME NEW p \in Projects, LeaseExpires(p) \/ RetryDue(p) PROVE OwnershipInv'
    BY <1>0, <1>2, ClockEffect, OwnershipUnderRows DEF workerVars
<1>3. ASSUME NEW p \in Projects, Engine(p) PROVE OwnershipInv'
  <2>1. /\ UNCHANGED <<row, process, batch, claim>>
        /\ \A w \in Workers : pc[w] = "idle" => pc'[w] = "idle"
    BY <1>0, <1>3 DEF Engine, TaskSucceeds, TaskFails, Dequeue, Awaits, databaseVars,
        TypeOK
  <2> QED
    BY <2>1, OwnershipUnderWork DEF OwnershipInv, ClaimsOwnRows, OwnsRows, Outstanding
<1>4. ASSUME NEW w \in Workers,
             ApplyRemoval(w) \/ ApplyUpsert(w) \/ ApplyStale(w) \/ ApplyFails(w)
      PROVE  OwnershipInv'
  <2>1. PICK c, stage, built : c \in batch[w] /\ Apply(w, c, stage, built)
    BY <1>4 DEF ApplyRemoval, ApplyUpsert, ApplyStale, ApplyFails
  <2>2. claim[w] = NoClaim
    BY <2>1 DEF Apply, CommonInv, ClaimsFollowProject
  <2>3. /\ c \in batch[w] /\ Running(w)
        /\ batch'[w] = batch[w] \ {c} /\ claim'[w] = c
        /\ \A v \in Workers \ {w} : /\ batch'[v] = batch[v]
                                    /\ claim'[v] = claim[v]
                                    /\ pc'[v] = pc[v]
        /\ UNCHANGED <<row, process>>
    BY <1>0, <2>1 DEF Apply, TypeOK, databaseVars
  <2> QED
    BY <2>2, <2>3, OwnershipUnderWork
    DEF OwnershipInv, ClaimsOwnRows, OwnsRows, Outstanding
<1>5. ASSUME NEW w \in Workers,
             \/ ReadContent(w) \/ ReadContentFails(w) \/ Post(w)
             \/ PostUnacknowledged(w) \/ PostRefused(w) \/ GiveUpWaiting(w)
      PROVE  OwnershipInv'
  <2>1. /\ UNCHANGED <<row, process, batch, claim>>
        /\ Running(w)
        /\ \A v \in Workers \ {w} : pc'[v] = pc[v]
    BY <1>0, <1>5 DEF ReadContent, ReadContentFails, Post, PostUnacknowledged,
        PostRefused, GiveUpWaiting, FailApplication, Accept, databaseVars, TypeOK
  <2> QED
    BY <2>1, OwnershipUnderWork DEF OwnershipInv, ClaimsOwnRows, OwnsRows, Outstanding
<1>6. CASE UNCHANGED vars
  <2>1. UNCHANGED <<row, process, batch, claim, pc>>
    BY <1>6 DEF vars
  <2> QED
    BY <2>1, OwnershipUnderWork DEF OwnershipInv, ClaimsOwnRows, OwnsRows, Outstanding
<1> QED
    BY <1>1, <1>2, <1>3, <1>4, <1>5, <1>6, OwnershipUnderClaim, OwnershipUnderMark,
       OwnershipUnderProcess
    DEF Next, Reconcile, Disturb

-------------------------------------------------------------------------------
(* What the rows say of the index.                                           *)

\* Steps the engine has no part in, that confirm nothing and change no project
\* whose row still says synced.
LEMMA IndexUntouched ==
    ASSUME IndexInv, UNCHANGED engineVars,
           \A p \in Projects :
              /\ row'[p].indexed = row[p].indexed
              /\ row'[p].state = "synced" =>
                    row[p].state = "synced" /\ project'[p] = project[p],
           \A w \in Workers : pc'[w] = "wait" =>
              /\ pc[w] = "wait"
              /\ claim'[w] = claim[w]
              /\ document'[w] = document[w]
              /\ ahead'[w] = ahead[w]
    PROVE  IndexInv'
<1>0. tasks' = tasks /\ index' = index
    BY DEF engineVars
<1>1. WaitsForLastTask'
    BY <1>0 DEF IndexInv, WaitsForLastTask, WaitsForYoungest
<1>2. SyncedIsFresh'
    BY <1>0 DEF IndexInv, SyncedIsFresh, Wanted
<1>3. NeverBehindConfirmed'
    BY <1>0 DEF IndexInv, NeverBehindConfirmed
<1>4. QueueNotBehindConfirmed'
    BY <1>0 DEF IndexInv, QueueNotBehindConfirmed
<1> QED
    BY <1>1, <1>2, <1>3, <1>4 DEF IndexInv

\* The engine accepts a task of the one worker that runs: the row of its claim
\* is not synced and confirms nothing newer than the document.
LEMMA IndexUnderPost ==
    ASSUME CommonInv, OwnershipInv, IndexInv, NEW w \in Workers,
           Post(w) \/ PostUnacknowledged(w)
    PROVE  IndexInv'
<1> DEFINE p == claim[w].project
<1>0. /\ TypeOK
      /\ Running(w) /\ pc[w] = "post"
      /\ tasks' = [tasks EXCEPT ![p] = Append(@, document[w])]
      /\ UNCHANGED <<databaseVars, claim, document, index>>
    BY DEF CommonInv, Post, PostUnacknowledged, Accept, FailApplication
<1>1. p \in Projects /\ claim[w] \in Outstanding(w)
    BY <1>0, WorkingHasClaim
<1>2. row[p].state # "synced" /\ row[p].indexed <= claim[w].revision
    BY <1>1, OutstandingNotSynced
<1>3. document[w] # NoDocument => document[w].revision = claim[w].revision
    BY <1>0 DEF CommonInv, DocumentFollowsProject, DocumentOK
<1>4. /\ tasks[p] \in Seq(Documents \cup {NoDocument})
      /\ document[w] \in Documents \cup {NoDocument}
      /\ tasks'[p] = Append(tasks[p], document[w])
      /\ \A q \in Projects : q # p => tasks'[q] = tasks[q]
    BY <1>0, <1>1 DEF TypeOK
<1>5. /\ Len(tasks'[p]) = Len(tasks[p]) + 1
      /\ Len(tasks[p]) \in Nat
      /\ tasks'[p] # <<>>
      /\ tasks'[p][Len(tasks[p]) + 1] = document[w]
      /\ \A i \in 1 .. Len(tasks[p]) : tasks'[p][i] = tasks[p][i]
    BY <1>4
<1>6. WaitsForLastTask'
  <2>1. ASSUME NEW v \in Workers, v # w PROVE pc'[v] = "idle"
    <3>1. pc'[v] = pc[v]
      BY <1>0, <2>1 DEF Post, PostUnacknowledged, FailApplication, TypeOK
    <3> QED
      BY <1>0, <2>1, <3>1, OthersHoldNothing
  <2>2. pc'[w] = "wait" => ahead'[w] = Len(tasks[p]) + 1
    BY <1>0 DEF Post, PostUnacknowledged, FailApplication, TypeOK
  <2>3. WaitsForYoungest(w)'
    BY <1>0, <1>5, <2>2 DEF WaitsForYoungest
  <2> QED
    BY <2>1, <2>3 DEF WaitsForLastTask, WaitsForYoungest
<1>7. SyncedIsFresh'
    BY <1>0, <1>2, <1>4 DEF IndexInv, SyncedIsFresh, Wanted, databaseVars
<1>8. NeverBehindConfirmed'
    BY <1>0 DEF IndexInv, NeverBehindConfirmed, databaseVars
<1>9. QueueNotBehindConfirmed'
  <2>1. ASSUME NEW i \in 1 .. Len(tasks'[p]), tasks'[p][i] # NoDocument
        PROVE  tasks'[p][i].revision >= row[p].indexed
    <3>1. CASE i = Len(tasks[p]) + 1
      <4>1. claim[w].revision \in Nat /\ row[p].indexed \in Nat
        BY <1>0, <1>1, WorkingHasClaim DEF TypeOK, Rows
      <4> QED
        BY <1>2, <1>3, <1>5, <2>1, <3>1, <4>1
    <3>2. CASE i \in 1 .. Len(tasks[p])
      <4>1. tasks[p][i] # NoDocument /\ p \in Projects
        BY <1>1, <1>5, <2>1, <3>2
      <4>2. tasks[p][i].revision >= row[p].indexed
        BY <1>0, <3>2, <4>1 DEF IndexInv, QueueNotBehindConfirmed
      <4> QED
        BY <1>5, <3>2, <4>2
    <3> QED
      BY <1>5, <3>1, <3>2
  <2> QED
    BY <1>0, <1>4, <2>1 DEF IndexInv, QueueNotBehindConfirmed, databaseVars
<1> QED
    BY <1>6, <1>7, <1>8, <1>9 DEF IndexInv

\* A mark confirms the row only with its task done: the queue of the project is
\* empty and the index holds the document, which is what the project wants.
LEMMA IndexUnderConfirmation ==
    ASSUME CommonInv, OwnershipInv, IndexInv, NEW w \in Workers,
           MarkSucceeded(w), HoldsClaim(w)
    PROVE  IndexInv'
<1> DEFINE p == claim[w].project
<1>0. /\ TypeOK
      /\ Running(w) /\ pc[w] = "wait" /\ ahead[w] = 0
      /\ row' = [row EXCEPT ![p] = Confirmed(row[p])]
      /\ Finish(w)
      /\ UNCHANGED <<project, tasks, index>>
    BY DEF CommonInv, MarkSucceeded, TaskDone, Mark, engineVars
<1>1. p \in Projects /\ row[p] \in Rows
    BY <1>0, WorkingHasClaim DEF TypeOK
<1>2. project[p].revision = claim[w].revision /\ row[p].desired = claim[w].revision
    BY <1>1 DEF HoldsClaim, CommonInv, RowTracksProject
<1>3. document[w] = Wanted(p)
    BY <1>0, <1>2 DEF CommonInv, DocumentFollowsProject, DocumentOK
<1>4. tasks[p] = <<>> /\ index[p] = document[w]
  <2>1. tasks[p] \in Seq(Documents \cup {NoDocument})
    BY <1>0, <1>1 DEF TypeOK
  <2>2. Len(tasks[p]) = 0
    BY <1>0 DEF IndexInv, WaitsForLastTask, WaitsForYoungest
  <2>3. tasks[p] = <<>>
    BY <2>1, <2>2
  <2> QED
    BY <1>0, <2>3 DEF IndexInv, WaitsForLastTask, WaitsForYoungest
<1>5. /\ row'[p].indexed = project[p].revision
      /\ \A q \in Projects : q # p => row'[q] = row[q]
    BY <1>0, <1>1, <1>2, MarkedRow DEF TypeOK
<1>6. WaitsForLastTask'
  <2>1. ASSUME NEW v \in Workers PROVE pc'[v] = "idle"
    BY <1>0, <2>1, OthersHoldNothing DEF Finish, TypeOK
  <2> QED
    BY <2>1 DEF WaitsForLastTask, WaitsForYoungest
<1>7. SyncedIsFresh'
    BY <1>0, <1>3, <1>4, <1>5 DEF IndexInv, SyncedIsFresh, Wanted
<1>8. NeverBehindConfirmed'
  <2>1. index[p] # NoDocument => index[p].revision = project[p].revision
    BY <1>3, <1>4 DEF Wanted
  <2>2. project[p].revision \in Nat
    BY <1>0, <1>1 DEF TypeOK
  <2> QED
    BY <1>0, <1>5, <2>1, <2>2 DEF IndexInv, NeverBehindConfirmed
<1>9. QueueNotBehindConfirmed'
  <2>1. 1 .. Len(tasks[p]) = {}
    BY <1>4
  <2> QED
    BY <1>0, <1>5, <2>1 DEF IndexInv, QueueNotBehindConfirmed
<1> QED
    BY <1>6, <1>7, <1>8, <1>9 DEF IndexInv

\* What is left of a queue when its first element leaves.
LEMMA TailFacts ==
    ASSUME NEW T, NEW s \in Seq(T), s # <<>>
    PROVE  /\ Len(s) \in Nat \ {0}
           /\ Len(Tail(s)) = Len(s) - 1
           /\ Head(s) = s[1]
           /\ \A i \in 1 .. Len(s) - 1 : Tail(s)[i] = s[i + 1]
           /\ Len(s) = 1 => Tail(s) = <<>>
           /\ Len(s) # 1 => Tail(s) # <<>> /\ Tail(s)[Len(s) - 1] = s[Len(s)]
<1>1. /\ Len(s) \in Nat \ {0}
      /\ Tail(s) \in Seq(T)
      /\ Len(Tail(s)) = Len(s) - 1
      /\ Head(s) = s[1]
      /\ \A i \in 1 .. Len(s) - 1 : Tail(s)[i] = s[i + 1]
    OBVIOUS
<1>2. ASSUME Len(s) # 1 PROVE Tail(s) # <<>> /\ Tail(s)[Len(s) - 1] = s[Len(s)]
  <2>1. Len(s) - 1 \in 1 .. Len(s) - 1 /\ (Len(s) - 1) + 1 = Len(s)
    BY <1>1, <1>2
  <2>2. Tail(s)[Len(s) - 1] = s[(Len(s) - 1) + 1]
    BY <1>1, <2>1
  <2>3. Tail(s) # <<>>
    <3>1. Len(Tail(s)) # 0
      BY <1>1, <1>2
    <3>2. Len(<< >>) = 0
      BY EmptySeq
    <3> QED
      BY <3>1, <3>2, Zenon
  <2> QED
    BY <2>1, <2>2, <2>3
<1>3. ASSUME Len(s) = 1 PROVE Tail(s) = <<>>
  <2>1. Len(Tail(s)) = 0
    BY <1>1, <1>3
  <2> QED
    BY <1>1, <2>1, EmptySeq
<1> QED
    BY <1>1, <1>2, <1>3

\* The engine runs or fails the oldest task of a project that is not synced.
LEMMA IndexUnderEngine ==
    ASSUME CommonInv, IndexInv, NEW p \in Projects, Engine(p)
    PROVE  IndexInv'
<1>0. /\ TypeOK
      /\ Dequeue(p)
      /\ UNCHANGED <<databaseVars, claim, document>>
      /\ \/ index' = [index EXCEPT ![p] = Head(tasks[p])] /\ pc' = pc
         \/ index' = index /\ TaskFails(p)
    BY DEF CommonInv, Engine, TaskSucceeds, TaskFails, Dequeue
<1>1. /\ tasks[p] \in Seq(Documents \cup {NoDocument}) /\ tasks[p] # <<>>
      /\ tasks'[p] = Tail(tasks[p])
      /\ \A q \in Projects : q # p => tasks'[q] = tasks[q] /\ index'[q] = index[q]
      /\ index'[p] = Head(tasks[p]) \/ index'[p] = index[p]
    BY <1>0 DEF Dequeue, TypeOK
<1>2. /\ Len(tasks[p]) \in Nat \ {0}
      /\ Len(Tail(tasks[p])) = Len(tasks[p]) - 1
      /\ Head(tasks[p]) = tasks[p][1]
      /\ \A i \in 1 .. Len(tasks[p]) - 1 : Tail(tasks[p])[i] = tasks[p][i + 1]
      /\ Len(tasks[p]) = 1 => Tail(tasks[p]) = <<>>
      /\ Len(tasks[p]) # 1 =>
            /\ Tail(tasks[p]) # <<>>
            /\ Tail(tasks[p])[Len(tasks[p]) - 1] = tasks[p][Len(tasks[p])]
    BY <1>1, TailFacts
<1>3. row[p].state # "synced" /\ row' = row
    BY <1>0, <1>1 DEF IndexInv, SyncedIsFresh, databaseVars
<1>4. ASSUME NEW v \in Workers PROVE WaitsForYoungest(v)'
  <2> SUFFICES ASSUME pc'[v] = "wait" PROVE WaitsForYoungest(v)'
    BY DEF WaitsForYoungest
  <2>1. pc[v] = "wait" /\ (pc' # pc => ~(Awaits(v, p) /\ ahead[v] = 1))
    BY <1>0 DEF TaskFails
  <2>2. WaitsForYoungest(v) /\ claim[v].project \in Projects
    BY <2>1, WorkingHasClaim DEF IndexInv, WaitsForLastTask
  <2>3. CASE claim[v].project # p
    <3>1. ahead'[v] = ahead[v]
      BY <1>0, <2>3 DEF Dequeue, Awaits
    <3> QED
      BY <1>0, <1>1, <2>1, <2>2, <2>3, <3>1 DEF WaitsForYoungest
  <2>4. CASE claim[v].project = p
    <3>1. /\ ahead[v] = Len(tasks[p])
          /\ tasks[p][Len(tasks[p])] = document[v]
      BY <1>1, <2>1, <2>2, <2>4 DEF WaitsForYoungest
    <3>2. Awaits(v, p) /\ ahead'[v] = Len(tasks[p]) - 1
      BY <1>0, <1>2, <2>1, <2>4, <3>1 DEF Dequeue, Awaits
    <3>3. CASE Len(tasks[p]) = 1
      <4>1. tasks'[p] = <<>> /\ index'[p] = Head(tasks[p])
        <5>1. ~TaskFails(p)
          BY <3>1, <3>2, <3>3 DEF TaskFails
        <5>2. index'[p] = Head(tasks[p])
          BY <1>0, <5>1 DEF TypeOK
        <5> QED
          BY <1>1, <1>2, <3>3, <5>2
      <4>2. ahead'[v] = Len(tasks'[p]) /\ index'[p] = document[v]
        BY <1>1, <1>2, <3>1, <3>2, <3>3, <4>1
      <4> QED
        BY <1>0, <2>4, <4>1, <4>2 DEF WaitsForYoungest
    <3>4. CASE Len(tasks[p]) # 1
      <4>1. /\ ahead'[v] = Len(tasks'[p])
            /\ tasks'[p] # <<>>
            /\ tasks'[p][Len(tasks'[p])] = document[v]
        BY <1>1, <1>2, <3>1, <3>2, <3>4
      <4> QED
        BY <1>0, <2>4, <4>1 DEF WaitsForYoungest
    <3> QED
      BY <3>3, <3>4
  <2> QED
    BY <2>3, <2>4
<1>5. SyncedIsFresh'
    BY <1>0, <1>1, <1>3 DEF IndexInv, SyncedIsFresh, Wanted, databaseVars
<1>6. NeverBehindConfirmed'
  <2>1. index'[p] # NoDocument => index'[p].revision >= row[p].indexed
    BY <1>1, <1>2 DEF IndexInv, NeverBehindConfirmed, QueueNotBehindConfirmed
  <2> QED
    BY <1>1, <1>3, <2>1 DEF IndexInv, NeverBehindConfirmed
<1>7. QueueNotBehindConfirmed'
  <2>1. ASSUME NEW i \in 1 .. Len(tasks'[p]), tasks'[p][i] # NoDocument
        PROVE  tasks'[p][i].revision >= row[p].indexed
    <3>1. i + 1 \in 1 .. Len(tasks[p]) /\ tasks'[p][i] = tasks[p][i + 1]
      BY <1>1, <1>2
    <3> QED
      BY <2>1, <3>1 DEF IndexInv, QueueNotBehindConfirmed
  <2> QED
    BY <1>1, <1>3, <2>1 DEF IndexInv, QueueNotBehindConfirmed
<1> QED
    BY <1>4, <1>5, <1>6, <1>7 DEF IndexInv, WaitsForLastTask

\* A claim leaves confirmed revisions alone and makes no row synced.
LEMMA IndexUnderClaim ==
    ASSUME CommonInv, IndexInv, NEW w \in Workers, ClaimSync(w) \/ ClaimSyncLost(w)
    PROVE  IndexInv'
<1> PICK S \in SUBSET Projects :
        /\ LeaseRows(w, S)
        /\ UNCHANGED <<project, claim, pc, document, ahead, engineVars>>
    BY DEF ClaimSync, ClaimSyncLost, workerVars
<1>1. ASSUME NEW p \in Projects
      PROVE  /\ row'[p].indexed = row[p].indexed
             /\ row'[p].state = "synced" => row[p].state = "synced"
  <2>1. row'[p] \in {row[p], Leased(row[p], w)} /\ row[p] \in Rows
    BY DEF LeaseRows, CommonInv, TypeOK
  <2> QED
    BY <2>1, LeasedRow
<1> QED
    BY <1>1, IndexUntouched DEF LeaseRows

\* A failure mark, and a mark that finds the row taken or asked for anew.
LEMMA IndexUnderOtherMarks ==
    ASSUME CommonInv, IndexInv, NEW w \in Workers,
           \/ MarkSucceeded(w) /\ ~HoldsClaim(w)
           \/ MarkFailed(w)
           \/ MarkLost(w)
    PROVE  IndexInv'
<1>0. TypeOK
    BY DEF CommonInv
<1>1. /\ Finish(w) /\ pc[w] # "idle"
      /\ UNCHANGED <<project, engineVars>>
      /\ row' \in {row, [row EXCEPT ![claim[w].project] =
                            Rejected(row[claim[w].project])]}
    BY DEF MarkSucceeded, MarkFailed, MarkLost, Mark, TaskDone, databaseVars
<1>2. ASSUME NEW p \in Projects
      PROVE  /\ row'[p].indexed = row[p].indexed
             /\ row'[p].state = "synced" => row[p].state = "synced"
  <2>1. row'[p] \in {row[p], Rejected(row[p])} /\ row[p] \in Rows
    BY <1>0, <1>1 DEF TypeOK
  <2> QED
    BY <2>1, MarkedRow
<1>3. \A v \in Workers : pc'[v] = "wait" =>
          /\ pc[v] = "wait"
          /\ claim'[v] = claim[v]
          /\ document'[v] = document[v]
          /\ ahead'[v] = ahead[v]
    BY <1>0, <1>1 DEF Finish, TypeOK
<1> QED
    BY <1>1, <1>2, <1>3, IndexUntouched

\* Starting and ending, turning to a claim, reading, and failing on the way.
LEMMA IndexUnderWork ==
    ASSUME CommonInv, IndexInv, NEW w \in Workers,
           \/ Start(w) \/ Crash(w) \/ ApplyRemoval(w) \/ ApplyUpsert(w)
           \/ ApplyStale(w) \/ ApplyFails(w) \/ ReadContent(w)
           \/ ReadContentFails(w) \/ PostRefused(w) \/ GiveUpWaiting(w)
    PROVE  IndexInv'
<1>0. TypeOK
    BY DEF CommonInv
<1>1. UNCHANGED <<databaseVars, engineVars>>
    BY DEF Start, Crash, ApplyRemoval, ApplyUpsert, ApplyStale, ApplyFails, Apply,
        ReadContent, ReadContentFails, PostRefused, GiveUpWaiting, FailApplication
<1>2. \A v \in Workers : pc'[v] = "wait" =>
          /\ pc[v] = "wait"
          /\ claim'[v] = claim[v]
          /\ document'[v] = document[v]
          /\ ahead'[v] = ahead[v]
  <2>1. CASE Start(w)
    BY <2>1 DEF Start
  <2>2. CASE Crash(w)
    BY <1>0, <2>2 DEF Crash, Finish, TypeOK
  <2>3. CASE ApplyRemoval(w) \/ ApplyUpsert(w) \/ ApplyStale(w) \/ ApplyFails(w)
    <3>1. PICK c, stage, built :
            /\ c \in batch[w]
            /\ stage \in {"read", "post", "failed"}
            /\ Apply(w, c, stage, built)
      BY <2>3 DEF ApplyRemoval, ApplyUpsert, ApplyStale, ApplyFails
    <3> QED
      BY <1>0, <3>1 DEF Apply, TypeOK
  <2>4. CASE ReadContent(w)
    BY <1>0, <2>4 DEF ReadContent, TypeOK
  <2>5. CASE ReadContentFails(w) \/ PostRefused(w) \/ GiveUpWaiting(w)
    BY <1>0, <2>5 DEF ReadContentFails, PostRefused, GiveUpWaiting, FailApplication,
        TypeOK
  <2> QED
    BY <2>1, <2>2, <2>3, <2>4, <2>5
<1> QED
    BY <1>1, <1>2, IndexUntouched DEF databaseVars

\* What the rows say of the index is inductive, next to who holds what.
LEMMA NextIndex ==
    ASSUME CommonInv, OwnershipInv, IndexInv, [Next]_vars
    PROVE  IndexInv'
<1>1. ASSUME NEW p \in Projects, Edit(p) PROVE IndexInv'
  <2>1. ASSUME NEW q \in Projects
        PROVE  /\ row'[q].indexed = row[q].indexed
               /\ row'[q].state = "synced" =>
                     row[q].state = "synced" /\ project'[q] = project[q]
    BY <1>1, RequestEffect
  <2>2. UNCHANGED <<workerVars, engineVars>>
    BY <1>1, RequestEffect
  <2> QED
    BY <2>1, <2>2, IndexUntouched DEF workerVars
<1>2. ASSUME NEW p \in Projects, LeaseExpires(p) \/ RetryDue(p) PROVE IndexInv'
    BY <1>2, ClockEffect, IndexUntouched DEF workerVars
<1>3. ASSUME NEW p \in Projects, Engine(p) PROVE IndexInv'
    BY <1>3, IndexUnderEngine
<1>4. ASSUME NEW w \in Workers, MarkSucceeded(w) PROVE IndexInv'
    BY <1>4, IndexUnderConfirmation, IndexUnderOtherMarks
<1>5. ASSUME NEW w \in Workers, Start(w) \/ Reconcile(w) \/ Disturb(w) PROVE IndexInv'
    BY <1>4, <1>5, IndexUnderClaim, IndexUnderWork, IndexUnderPost,
       IndexUnderOtherMarks
    DEF Reconcile, Disturb
<1>6. CASE UNCHANGED vars
  <2>1. UNCHANGED <<project, row, claim, pc, document, ahead, engineVars>>
    BY <1>6 DEF vars, engineVars
  <2> QED
    BY <2>1, IndexUntouched
<1> QED
    BY <1>1, <1>2, <1>3, <1>5, <1>6 DEF Next

-------------------------------------------------------------------------------
(* The theorems.                                                             *)

\* Before anything happens no row is claimed or synced and no task is queued.
LEMMA InitSingle == Init => OwnershipInv /\ IndexInv
<1> SUFFICES ASSUME Init PROVE OwnershipInv /\ IndexInv
    OBVIOUS
<1>1. OwnershipInv
    BY DEF Init, OwnershipInv, OneProcess, Running, ClaimsOwnRows, OwnsRows, Outstanding
<1>2. SyncedIsFresh /\ WaitsForLastTask /\ NeverBehindConfirmed
    BY DEF Init, SyncedIsFresh, WaitsForLastTask, WaitsForYoungest, NeverBehindConfirmed
<1>3. QueueNotBehindConfirmed
  <2>1. \A p \in Projects : 1 .. Len(tasks[p]) = {}
    BY DEF Init
  <2> QED
    BY <2>1 DEF QueueNotBehindConfirmed
<1> QED
    BY <1>1, <1>2, <1>3 DEF IndexInv

\* When API processes do not overlap, the whole inductive invariant holds: the
\* running worker owns the rows it works on, and waits for the youngest task.
THEOREM SingleInvariant == ASSUME ~Overlapping PROVE Spec => []SingleInv
<1>1. Init => OwnershipInv /\ IndexInv
    BY InitSingle
<1>2. CommonInv /\ CommonInv' /\ OwnershipInv /\ IndexInv /\ [Next]_vars
        => (OwnershipInv /\ IndexInv)'
    BY NextOwnership, NextIndex
<1>3. CommonInv /\ OwnershipInv /\ IndexInv => SingleInv
    BY DEF SingleInv, OwnershipInv, IndexInv
<1> QED
    BY <1>1, <1>2, <1>3, CommonInvariant, PTL DEF Spec

\* With one process at a time a synced row is true: no task is left for the
\* project, and searches find exactly its committed, published content.
THEOREM SyncedIsFreshTheorem == ASSUME ~Overlapping PROVE Spec => []SyncedIsFresh
<1>1. SingleInv => SyncedIsFresh
    BY DEF SingleInv
<1> QED
    BY <1>1, SingleInvariant, PTL

\* With one process at a time no late task takes searches back behind a
\* revision the row says is indexed.
THEOREM NeverBehindTheorem == ASSUME ~Overlapping PROVE Spec => []NeverBehindConfirmed
<1>1. SingleInv => NeverBehindConfirmed
    BY DEF SingleInv
<1> QED
    BY <1>1, SingleInvariant, PTL

-------------------------------------------------------------------------------
(* The outbox implements the search view when API processes do not overlap.  *)

\* What d says of p was read from committed revisions, the first query first.
Snapshot(d, p) ==
    d # NoDocument =>
        /\ 1 <= d.revision
        /\ d.revision <= d.content
        /\ d.content <= project[p].revision

\* Every document on its way to the index, in a worker's hands or in the
\* engine's queue, is a snapshot of its project.
SnapshotInv ==
    /\ \A p \in Projects : project[p].status # "none" => project[p].revision >= 1
    /\ \A p \in Projects : \A i \in 1 .. Len(tasks[p]) : Snapshot(tasks[p][i], p)
    /\ \A w \in Workers :
        /\ pc[w] = "read" => 1 <= document[w].revision
        /\ pc[w] \in {"post", "wait"} => Snapshot(document[w], claim[w].project)

-------------------------------------------------------------------------------
(* Documents are snapshots.                                                  *)

\* A later revision of the project leaves a snapshot a snapshot.
LEMMA SnapshotStays ==
    ASSUME TypeOK, TypeOK', NEW p \in Projects, NEW d \in Documents \cup {NoDocument},
           Snapshot(d, p), project[p].revision <= project'[p].revision
    PROVE  Snapshot(d, p)'
<1>1. project[p].revision \in Nat /\ project'[p].revision \in Nat
    BY DEF TypeOK
<1>2. d # NoDocument => d.revision \in Nat /\ d.content \in Nat
    BY DEF Documents
<1> QED
    BY <1>1, <1>2 DEF Snapshot

\* Steps after which every queued task and every document in hand was there.
LEMMA SnapshotsKept ==
    ASSUME CommonInv, CommonInv', SnapshotInv, UNCHANGED project,
           \A p \in Projects : \A i \in 1 .. Len(tasks'[p]) :
              \E j \in 1 .. Len(tasks[p]) : tasks'[p][i] = tasks[p][j],
           \A w \in Workers : pc'[w] \in {"read", "post", "wait"} =>
              /\ pc'[w] = pc[w] \/ (pc'[w] = "wait" /\ pc[w] = "post")
              /\ claim'[w] = claim[w]
              /\ document'[w] = document[w]
    PROVE  SnapshotInv'
<1>1. \A p \in Projects : \A i \in 1 .. Len(tasks'[p]) : Snapshot(tasks[p][i], p)'
    BY DEF SnapshotInv, Snapshot
<1>2. ASSUME NEW w \in Workers
      PROVE  /\ pc'[w] = "read" => 1 <= document'[w].revision
             /\ pc'[w] \in {"post", "wait"} => Snapshot(document[w], claim[w].project)'
    BY DEF SnapshotInv, Snapshot
<1> QED
    BY <1>1, <1>2 DEF SnapshotInv

\* A request moves one project to a newer revision and leaves documents alone.
LEMMA SnapshotsUnderEdit ==
    ASSUME CommonInv, CommonInv', SnapshotInv, NEW p \in Projects, Edit(p)
    PROVE  SnapshotInv'
<1>0. TypeOK /\ TypeOK'
    BY DEF CommonInv
<1>1. /\ \A q \in Projects : q # p => project'[q] = project[q]
      /\ UNCHANGED <<workerVars, engineVars>>
    BY RequestEffect
<1>2. /\ project[p].revision <= project'[p].revision
      /\ project'[p].status # "none" => project'[p].revision >= 1
  <2>0. project[p].revision \in Nat
    BY <1>0 DEF TypeOK
  <2>1. CASE ReindexProject(p)
    BY <2>0, <2>1 DEF ReindexProject, SnapshotInv
  <2>2. CASE \E status, preDelete : Advance(p, status, preDelete)
    <3>1. project'[p].revision = project[p].revision + 1
      BY <1>0, <2>2 DEF Advance, TypeOK
    <3> QED
      BY <2>0, <3>1
  <2> QED
    BY <2>1, <2>2 DEF Edit, Create, Replace, Publish, Delete, Restore, MutateChild
<1>3. \A q \in Projects : project[q].revision <= project'[q].revision
  <2>1. \A q \in Projects : project[q].revision \in Nat
    BY <1>0 DEF TypeOK
  <2> QED
    BY <1>1, <1>2, <2>1
<1>4. ASSUME NEW q \in Projects, NEW i \in 1 .. Len(tasks'[q])
      PROVE  Snapshot(tasks[q][i], q)'
  <2>1. tasks[q] \in Seq(Documents \cup {NoDocument}) /\ tasks' = tasks
    BY <1>0, <1>1 DEF TypeOK, engineVars
  <2>2. tasks[q][i] \in Documents \cup {NoDocument} /\ Snapshot(tasks[q][i], q)
    BY <2>1 DEF SnapshotInv
  <2>3. DEFINE d == tasks[q][i]
  <2>4. Snapshot(d, q)'
    BY <1>0, <1>3, <2>1, <2>2 DEF Snapshot, TypeOK, Documents
  <2> QED
    BY <2>1, <2>4 DEF Snapshot
<1>5. ASSUME NEW w \in Workers, pc'[w] \in {"post", "wait"}
      PROVE  Snapshot(document[w], claim[w].project)'
  <2>1. UNCHANGED <<pc, claim, document>> /\ pc[w] \in {"post", "wait"}
    BY <1>1, <1>5 DEF workerVars
  <2>2. claim[w].project \in Projects /\ document[w] \in Documents \cup {NoDocument}
    BY <1>0, <2>1, WorkingHasClaim DEF TypeOK
  <2>3. Snapshot(document[w], claim[w].project)
    BY <2>1 DEF SnapshotInv
  <2> QED
    BY <1>0, <1>3, <2>1, <2>2, <2>3 DEF Snapshot, TypeOK, Documents
<1>6. ASSUME NEW w \in Workers, pc'[w] = "read" PROVE 1 <= document'[w].revision
    BY <1>1, <1>6 DEF SnapshotInv, workerVars
<1>7. \A q \in Projects : project'[q].status # "none" => project'[q].revision >= 1
    BY <1>1, <1>2 DEF SnapshotInv
<1> QED
    BY <1>4, <1>5, <1>6, <1>7 DEF SnapshotInv

\* The first query of a build returns a committed revision, at least the first.
LEMMA SnapshotsUnderApply ==
    ASSUME CommonInv, CommonInv', SnapshotInv, NEW w \in Workers,
           ApplyRemoval(w) \/ ApplyUpsert(w) \/ ApplyStale(w) \/ ApplyFails(w)
    PROVE  SnapshotInv'
<1>0. TypeOK
    BY DEF CommonInv
<1> PICK c, stage, built :
        /\ c \in batch[w]
        /\ Apply(w, c, stage, built)
        /\ \/ stage = "failed"
           \/ stage = "post" /\ built = NoDocument
           \/ /\ stage = "read" /\ built = [revision |-> c.revision, content |-> 0]
              /\ project[c.project].status = "published"
              /\ project[c.project].revision = c.revision
    BY DEF ApplyRemoval, ApplyUpsert, ApplyStale, ApplyFails
<1>1. /\ pc'[w] = stage /\ document'[w] = built
      /\ UNCHANGED <<project, tasks>>
      /\ \A v \in Workers \ {w} : /\ pc'[v] = pc[v]
                                  /\ claim'[v] = claim[v]
                                  /\ document'[v] = document[v]
    BY <1>0 DEF Apply, TypeOK, databaseVars, engineVars
<1>2. c.project \in Projects
    BY <1>0 DEF TypeOK, Claims
<1>3. stage = "read" => 1 <= built.revision
    BY <1>2 DEF SnapshotInv
<1>4. stage \in {"post", "wait"} => Snapshot(document[w], claim[w].project)'
    BY <1>1 DEF Snapshot
<1>5. \A p \in Projects : \A i \in 1 .. Len(tasks'[p]) : Snapshot(tasks[p][i], p)'
    BY <1>1 DEF SnapshotInv, Snapshot
<1>6. \A v \in Workers \ {w} :
          /\ pc'[v] = "read" => 1 <= document'[v].revision
          /\ pc'[v] \in {"post", "wait"} => Snapshot(document[v], claim[v].project)'
    BY <1>1 DEF SnapshotInv, Snapshot
<1> QED
    BY <1>1, <1>3, <1>4, <1>5, <1>6 DEF SnapshotInv

\* The last query reads nothing older than the first did.
LEMMA SnapshotsUnderReadContent ==
    ASSUME CommonInv, SnapshotInv, NEW w \in Workers, ReadContent(w)
    PROVE  SnapshotInv'
<1>0. TypeOK /\ pc[w] = "read"
    BY DEF CommonInv, ReadContent
<1> DEFINE p == claim[w].project
           d == [document[w] EXCEPT !.content = project[p].revision]
<1>1. p \in Projects /\ claim[w] \in Claims /\ claim[w] \in Outstanding(w)
    BY <1>0, WorkingHasClaim
<1>2. /\ document[w] \in Documents
      /\ document[w].revision = claim[w].revision
      /\ claim[w].revision <= project[p].revision
      /\ 1 <= document[w].revision
    BY <1>0, <1>1 DEF TypeOK, CommonInv, DocumentFollowsProject, DocumentOK,
        ClaimsFollowProject, SnapshotInv
<1>3. /\ document'[w] = d /\ pc'[w] = "post"
      /\ UNCHANGED <<project, tasks, claim>>
      /\ \A v \in Workers \ {w} : pc'[v] = pc[v] /\ document'[v] = document[v]
    BY <1>0, <1>2 DEF ReadContent, TypeOK, databaseVars, engineVars
<1>4. /\ document'[w].revision = document[w].revision
      /\ document'[w].content = project[p].revision
    BY <1>2, <1>3 DEF Documents
<1>5. Snapshot(document[w], claim[w].project)'
  <2>1. project[p].revision \in Nat
    BY <1>0, <1>1 DEF TypeOK
  <2> QED
    BY <1>2, <1>3, <1>4, <2>1 DEF Snapshot
<1>6. \A q \in Projects : \A i \in 1 .. Len(tasks'[q]) : Snapshot(tasks[q][i], q)'
    BY <1>3 DEF SnapshotInv, Snapshot
<1>7. \A v \in Workers \ {w} :
          /\ pc'[v] = "read" => 1 <= document'[v].revision
          /\ pc'[v] \in {"post", "wait"} => Snapshot(document[v], claim[v].project)'
    BY <1>3 DEF SnapshotInv, Snapshot
<1> QED
    BY <1>3, <1>5, <1>6, <1>7 DEF SnapshotInv

\* The engine accepts the document in hand behind the tasks it already holds.
LEMMA SnapshotsUnderPost ==
    ASSUME CommonInv, SnapshotInv, NEW w \in Workers, Post(w) \/ PostUnacknowledged(w)
    PROVE  SnapshotInv'
<1>0. TypeOK /\ Accept(w) /\ pc[w] = "post"
    BY DEF CommonInv, Post, PostUnacknowledged, Accept
<1> DEFINE p == claim[w].project
<1>1. /\ p \in Projects
      /\ tasks[p] \in Seq(Documents \cup {NoDocument})
      /\ document[w] \in Documents \cup {NoDocument}
    BY <1>0, WorkingHasClaim DEF TypeOK
<1>2. /\ tasks' = [tasks EXCEPT ![p] = Append(tasks[p], document[w])]
      /\ UNCHANGED <<project, claim, document>>
      /\ pc'[w] \in {"wait", "failed"}
      /\ \A v \in Workers \ {w} : pc'[v] = pc[v]
    BY <1>0 DEF Post, PostUnacknowledged, Accept, FailApplication, TypeOK, databaseVars
<1>3. Snapshot(document[w], p)
    BY <1>0 DEF SnapshotInv
<1>4. ASSUME NEW i \in 1 .. Len(tasks'[p]) PROVE Snapshot(tasks[p][i], p)'
  <2>1. tasks'[p] = Append(tasks[p], document[w])
    BY <1>0, <1>1, <1>2 DEF TypeOK
  <2>2. i \in 1 .. Len(tasks[p]) \/ tasks'[p][i] = document[w]
    BY <1>1, <2>1
  <2>3. i \in 1 .. Len(tasks[p]) => tasks'[p][i] = tasks[p][i]
    BY <1>1, <2>1
  <2> QED
    BY <1>1, <1>2, <1>3, <2>2, <2>3 DEF SnapshotInv, Snapshot
<1>5. ASSUME NEW q \in Projects, q # p, NEW i \in 1 .. Len(tasks'[q])
      PROVE  Snapshot(tasks[q][i], q)'
  <2>1. tasks'[q] = tasks[q]
    BY <1>0, <1>2, <1>5 DEF TypeOK
  <2> QED
    BY <1>2, <1>5, <2>1 DEF SnapshotInv, Snapshot
<1>6. \A v \in Workers :
          /\ pc'[v] = "read" => 1 <= document'[v].revision
          /\ pc'[v] \in {"post", "wait"} => Snapshot(document[v], claim[v].project)'
    BY <1>2, <1>3 DEF SnapshotInv, Snapshot
<1> QED
    BY <1>2, <1>4, <1>5, <1>6 DEF SnapshotInv

\* Every other step only lets go of documents or takes tasks off the queue.
LEMMA SnapshotsUnderOther ==
    ASSUME CommonInv, CommonInv', SnapshotInv,
           \/ \E p \in Projects : LeaseExpires(p) \/ RetryDue(p) \/ Engine(p)
           \/ \E w \in Workers :
                \/ Start(w) \/ Crash(w) \/ ClaimSync(w) \/ ClaimSyncLost(w)
                \/ ReadContentFails(w) \/ PostRefused(w) \/ GiveUpWaiting(w)
                \/ MarkSucceeded(w) \/ MarkFailed(w) \/ MarkLost(w)
           \/ UNCHANGED vars
    PROVE  SnapshotInv'
<1>0. TypeOK
    BY DEF CommonInv
<1>1. UNCHANGED project
    BY DEF LeaseExpires, RetryDue, Engine, TaskSucceeds, TaskFails, Dequeue, Start,
        Crash, ClaimSync, ClaimSyncLost, ReadContentFails, PostRefused, GiveUpWaiting,
        FailApplication, MarkSucceeded, MarkFailed, MarkLost, Mark, databaseVars, vars
<1>2. \A v \in Workers : pc'[v] \in {"read", "post", "wait"} =>
          pc'[v] = pc[v] /\ claim'[v] = claim[v] /\ document'[v] = document[v]
  <2>1. CASE \E p \in Projects : LeaseExpires(p) \/ RetryDue(p) \/ Engine(p)
    BY <2>1 DEF LeaseExpires, RetryDue, Engine, TaskSucceeds, TaskFails, Dequeue,
        workerVars
  <2>2. ASSUME NEW w \in Workers,
               \/ Start(w) \/ ClaimSync(w) \/ ClaimSyncLost(w)
               \/ ReadContentFails(w) \/ PostRefused(w) \/ GiveUpWaiting(w)
        PROVE  \A v \in Workers : pc'[v] \in {"read", "post", "wait"} =>
                  pc'[v] = pc[v] /\ claim'[v] = claim[v] /\ document'[v] = document[v]
    BY <1>0, <2>2 DEF Start, ClaimSync, ClaimSyncLost, ReadContentFails, PostRefused,
        GiveUpWaiting, FailApplication, workerVars, TypeOK
  <2>3. ASSUME NEW w \in Workers, Finish(w)
        PROVE  \A v \in Workers : pc'[v] \in {"read", "post", "wait"} =>
                  pc'[v] = pc[v] /\ claim'[v] = claim[v] /\ document'[v] = document[v]
    BY <1>0, <2>3 DEF Finish, TypeOK
  <2>4. ASSUME NEW w \in Workers,
               Crash(w) \/ MarkSucceeded(w) \/ MarkFailed(w) \/ MarkLost(w)
        PROVE  Finish(w)
    BY <2>4 DEF Crash, MarkSucceeded, MarkFailed, MarkLost, Mark
  <2>5. CASE UNCHANGED vars
    BY <2>5 DEF vars
  <2> QED
    BY <2>1, <2>2, <2>3, <2>4, <2>5
<1>3. ASSUME NEW q \in Projects, NEW i \in 1 .. Len(tasks'[q])
      PROVE  \E j \in 1 .. Len(tasks[q]) : tasks'[q][i] = tasks[q][j]
  <2>0. tasks[q] \in Seq(Documents \cup {NoDocument})
    BY <1>0 DEF TypeOK
  <2>1. CASE tasks'[q] = tasks[q]
    BY <2>1
  <2>2. CASE tasks[q] # <<>> /\ tasks'[q] = Tail(tasks[q])
    <3>1. /\ Len(tasks[q]) \in Nat \ {0}
          /\ Len(tasks'[q]) = Len(tasks[q]) - 1
          /\ \A k \in 1 .. Len(tasks[q]) - 1 : tasks'[q][k] = tasks[q][k + 1]
      BY <2>0, <2>2, TailFacts
    <3>2. i + 1 \in 1 .. Len(tasks[q]) /\ tasks'[q][i] = tasks[q][i + 1]
      BY <3>1
    <3> QED
      BY <3>2
  <2>3. \/ UNCHANGED tasks
        \/ \E p \in Projects : Dequeue(p)
    BY DEF LeaseExpires, RetryDue, Engine, TaskSucceeds, TaskFails, Start,
        Crash, ClaimSync, ClaimSyncLost, ReadContentFails, PostRefused, GiveUpWaiting,
        MarkSucceeded, MarkFailed, MarkLost, Mark, engineVars, vars
  <2>4. ASSUME NEW p \in Projects, Dequeue(p)
        PROVE  \/ tasks'[q] = tasks[q]
               \/ tasks[q] # <<>> /\ tasks'[q] = Tail(tasks[q])
    BY <1>0, <2>4 DEF Dequeue, TypeOK
  <2> QED
    BY <2>1, <2>2, <2>3, <2>4
<1> QED
    BY <1>1, <1>2, <1>3, SnapshotsKept

\* Documents on their way are snapshots, however many processes there are.
LEMMA NextSnapshots ==
    ASSUME CommonInv, CommonInv', SnapshotInv, [Next]_vars
    PROVE  SnapshotInv'
BY SnapshotsUnderEdit, SnapshotsUnderApply, SnapshotsUnderReadContent,
   SnapshotsUnderPost, SnapshotsUnderOther
DEF Next, Reconcile, Disturb

-------------------------------------------------------------------------------
(* Every step of the outbox is a step of the view, or invisible to it.       *)

\* The view sees revisions, published content, the index and settled rows.
LEMMA InvisibleStep ==
    ASSUME UNCHANGED <<project, index>>,
           \A p \in Projects : row'[p].state = "synced" <=> row[p].state = "synced"
    PROVE  UNCHANGED View!vars
<1>1. [p \in Projects |-> project'[p].revision] = [p \in Projects |-> project[p].revision]
    OBVIOUS
<1>2. [p \in Projects |-> Wanted(p)]' = [p \in Projects |-> Wanted(p)]
    BY DEF Wanted
<1>3. [p \in Projects |-> row'[p].state = "synced"]
        = [p \in Projects |-> row[p].state = "synced"]
    BY Zenon
<1> QED
    BY <1>1, <1>2, <1>3 DEF View!vars

\* A request leaves the row of its project unsettled, the other rows as they were.
LEMMA UnsettledByRequest ==
    ASSUME NEW p \in Projects, row'[p].state # "synced",
           \A q \in Projects : q # p => row'[q] = row[q]
    PROVE  [q \in Projects |-> row'[q].state = "synced"]
             = [[q \in Projects |-> row[q].state = "synced"] EXCEPT ![p] = FALSE]
BY Zenon

\* A transaction that raises the revision commits; asking again only reopens.
LEMMA RequestIsCommitOrReopen ==
    ASSUME CommonInv, NEW p \in Projects, Edit(p)
    PROVE  View!Next
<1>0. TypeOK /\ project[p].revision \in Nat
    BY DEF CommonInv, TypeOK
<1>1. /\ row'[p].state = "pending"
      /\ \A q \in Projects : q # p => row'[q] = row[q] /\ project'[q] = project[q]
      /\ index' = index
    BY RequestEffect DEF engineVars
<1>2. [q \in Projects |-> row'[q].state = "synced"]
        = [[q \in Projects |-> row[q].state = "synced"] EXCEPT ![p] = FALSE]
    BY <1>1, UnsettledByRequest
<1>3. CASE ReindexProject(p)
  <2>1. project' = project
    BY <1>3 DEF ReindexProject
  <2>2. View!Reopen(p)
    BY <1>1, <1>2, <2>1 DEF View!Reopen, Wanted
  <2> QED
    BY <2>2 DEF View!Next
<1>4. CASE \E status, preDelete : Advance(p, status, preDelete)
  <2>1. project'[p].revision = project[p].revision + 1
    BY <1>0, <1>4 DEF Advance, TypeOK
  <2>2. [q \in Projects |-> project'[q].revision]
          = [[q \in Projects |-> project[q].revision] EXCEPT
                ![p] = project[p].revision + 1]
    BY <1>1, <2>1
  <2>3. Wanted(p)' \in {NoDocument, [revision |-> project[p].revision + 1,
                                    content |-> project[p].revision + 1]}
    BY <2>1 DEF Wanted
  <2>4. [q \in Projects |-> Wanted(q)]'
          = [[q \in Projects |-> Wanted(q)] EXCEPT ![p] = Wanted(p)']
    BY <1>1 DEF Wanted
  <2>5. View!Commit(p)
    BY <1>1, <1>2, <2>2, <2>3, <2>4 DEF View!Commit
  <2> QED
    BY <2>5 DEF View!Next
<1> QED
    BY <1>3, <1>4 DEF Edit, Create, Replace, Publish, Delete, Restore, MutateChild

\* A mark that finds its claim still held settles the project, which the index
\* shows as it is.
LEMMA ConfirmationSettles ==
    ASSUME CommonInv, OwnershipInv, IndexInv, IndexInv', NEW w \in Workers,
           MarkSucceeded(w), HoldsClaim(w)
    PROVE  View!Next
<1> PICK p \in Projects : claim[w].project = p
  <2>1. pc[w] # "idle"
    BY DEF MarkSucceeded, TaskDone
  <2> QED
    BY <2>1, WorkingHasClaim
<1>0. /\ TypeOK
      /\ pc[w] = "wait"
      /\ row' = [row EXCEPT ![p] = Confirmed(row[p])]
      /\ UNCHANGED <<project, index>>
    BY DEF CommonInv, MarkSucceeded, TaskDone, Mark, engineVars
<1>1. row[p] \in Rows
    BY <1>0 DEF TypeOK
<1>2. /\ row'[p].state = "synced"
      /\ \A q \in Projects : q # p => row'[q] = row[q]
  <2>1. row'[p] = Confirmed(row[p])
    BY <1>0, <1>1 DEF TypeOK
  <2>2. Confirmed(row[p]).state = "synced"
    BY <1>1 DEF Confirmed, Rows
  <2> QED
    BY <1>0, <1>1, <2>1, <2>2 DEF TypeOK
<1>3. index[p] = Wanted(p)
    BY <1>0, <1>1, <1>2 DEF IndexInv, SyncedIsFresh, Wanted
<1>4. [q \in Projects |-> row'[q].state = "synced"]
        = [[q \in Projects |-> row[q].state = "synced"] EXCEPT ![p] = TRUE]
    BY <1>1, <1>2, Zenon
<1>5. View!Settle(p)
    BY <1>0, <1>1, <1>3, <1>4 DEF View!Settle, Wanted
<1> QED
    BY <1>5 DEF View!Next

\* The engine runs tasks only for projects that are not settled, and each one
\* shows a snapshot of its project or nothing.
LEMMA TaskShows ==
    ASSUME CommonInv, IndexInv, SnapshotInv, NEW p \in Projects, TaskSucceeds(p)
    PROVE  View!Next
<1>0. TypeOK
    BY DEF CommonInv
<1>1. /\ tasks[p] \in Seq(Documents \cup {NoDocument}) /\ tasks[p] # <<>>
      /\ index' = [index EXCEPT ![p] = Head(tasks[p])]
      /\ UNCHANGED <<project, row>>
    BY <1>0 DEF TaskSucceeds, Dequeue, databaseVars, TypeOK
<1>2. row[p].state # "synced"
    BY <1>1 DEF IndexInv, SyncedIsFresh
<1>3. /\ Head(tasks[p]) \in Documents \cup {NoDocument}
      /\ Snapshot(Head(tasks[p]), p)
  <2>1. 1 \in 1 .. Len(tasks[p]) /\ Head(tasks[p]) = tasks[p][1]
    BY <1>1, TailFacts
  <2> QED
    BY <1>1, <2>1 DEF SnapshotInv
<1>4. Head(tasks[p]) \in View!Snapshots(p) \cup {NoDocument}
  <2> SUFFICES ASSUME Head(tasks[p]) # NoDocument
               PROVE  Head(tasks[p]) \in View!Snapshots(p)
    OBVIOUS
  <2> DEFINE d == Head(tasks[p])
  <2>1. d \in Documents /\ project[p].revision \in Nat
    BY <1>0, <1>3 DEF TypeOK
  <2>2. /\ d.revision \in 1 .. project[p].revision
        /\ d.content \in 1 .. project[p].revision
        /\ d.revision <= d.content
    BY <1>3, <2>1 DEF Snapshot, Documents
  <2>3. d = [revision |-> d.revision, content |-> d.content]
    BY <2>1 DEF Documents
  <2>4. d \in [revision : 1 .. project[p].revision, content : 1 .. project[p].revision]
    BY <2>2, <2>3
  <2> QED
    BY <2>2, <2>4 DEF View!Snapshots
<1>5. View!Show(p)
    BY <1>1, <1>2, <1>4 DEF View!Show, Wanted
<1> QED
    BY <1>5 DEF View!Next

\* Claims, marks that confirm nothing, the clock and work in hand are invisible.
LEMMA OtherStepsInvisible ==
    ASSUME CommonInv,
           \/ \E p \in Projects : LeaseExpires(p) \/ RetryDue(p) \/ TaskFails(p)
           \/ \E w \in Workers :
                \/ Start(w) \/ Disturb(w) \/ ClaimSync(w)
                \/ ApplyRemoval(w) \/ ApplyUpsert(w) \/ ApplyStale(w)
                \/ ReadContent(w) \/ Post(w) \/ MarkFailed(w)
                \/ MarkSucceeded(w) /\ ~HoldsClaim(w)
           \/ UNCHANGED vars
    PROVE  UNCHANGED View!vars
<1>0. TypeOK
    BY DEF CommonInv
<1>1. ASSUME NEW p \in Projects, LeaseExpires(p) \/ RetryDue(p)
      PROVE  UNCHANGED View!vars
    BY <1>1, ClockEffect, InvisibleStep DEF engineVars
<1>2. ASSUME NEW p \in Projects, TaskFails(p) PROVE UNCHANGED View!vars
    BY <1>2, InvisibleStep DEF TaskFails, Dequeue, databaseVars
<1>3. ASSUME NEW w \in Workers, ClaimSync(w) \/ ClaimSyncLost(w)
      PROVE  UNCHANGED View!vars
  <2> PICK S \in SUBSET Projects : LeaseRows(w, S) /\ UNCHANGED <<project, engineVars>>
    BY <1>3 DEF ClaimSync, ClaimSyncLost
  <2>1. ASSUME NEW p \in Projects
        PROVE  row'[p].state = "synced" <=> row[p].state = "synced"
    <3>1. CASE p \in S
      <4>1. row'[p] = Leased(row[p], w) /\ row[p] \in Rows
        BY <1>0, <3>1 DEF LeaseRows, TypeOK
      <4>2. row'[p].state = "processing"
        BY <4>1, LeasedRow
      <4>3. row[p].state # "synced"
        BY <3>1 DEF LeaseRows, FirstInLine, Claimable
      <4> QED
        BY <4>2, <4>3
    <3>2. CASE p \notin S
      BY <3>2 DEF LeaseRows
    <3> QED
      BY <3>1, <3>2
  <2> QED
    BY <2>1, InvisibleStep DEF engineVars
<1>4. ASSUME NEW w \in Workers,
             \/ MarkSucceeded(w) /\ ~HoldsClaim(w)
             \/ MarkFailed(w)
             \/ MarkLost(w)
      PROVE  UNCHANGED View!vars
  <2>1. UNCHANGED <<project, index>>
    BY <1>4 DEF MarkSucceeded, MarkFailed, MarkLost, Mark, databaseVars, engineVars
  <2>2. \/ row' = row
        \/ /\ HoldsClaim(w) /\ pc[w] = "failed"
           /\ row' = [row EXCEPT ![claim[w].project] =
                         Rejected(row[claim[w].project])]
    BY <1>4 DEF MarkSucceeded, MarkFailed, MarkLost, Mark, databaseVars
  <2>3. ASSUME NEW p \in Projects
        PROVE  row'[p].state = "synced" <=> row[p].state = "synced"
    <3>1. CASE row' = row
      BY <3>1
    <3>2. CASE /\ HoldsClaim(w) /\ pc[w] = "failed"
               /\ row' = [row EXCEPT ![claim[w].project] =
                             Rejected(row[claim[w].project])]
      <4>1. CASE p = claim[w].project
        <5>1. row'[p] = Rejected(row[p]) /\ row[p] \in Rows
          BY <1>0, <3>2, <4>1 DEF TypeOK
        <5>2. row'[p].state = "failed"
          BY <5>1 DEF Rejected, Rows
        <5>3. row[p].state = "processing"
          BY <3>2, <4>1 DEF HoldsClaim
        <5> QED
          BY <5>2, <5>3
      <4>2. CASE p # claim[w].project
        BY <1>0, <3>2, <4>2 DEF TypeOK
      <4> QED
        BY <4>1, <4>2
    <3> QED
      BY <2>2, <3>1, <3>2
  <2> QED
    BY <2>1, <2>3, InvisibleStep
<1>5. ASSUME NEW w \in Workers,
             \/ Start(w) \/ Crash(w) \/ ApplyRemoval(w) \/ ApplyUpsert(w)
             \/ ApplyStale(w) \/ ApplyFails(w) \/ ReadContent(w)
             \/ ReadContentFails(w) \/ Post(w) \/ PostUnacknowledged(w)
             \/ PostRefused(w) \/ GiveUpWaiting(w)
      PROVE  UNCHANGED View!vars
  <2>1. UNCHANGED <<project, row, index>>
    BY <1>5 DEF Start, Crash, ApplyRemoval, ApplyUpsert, ApplyStale, ApplyFails, Apply,
        ReadContent, ReadContentFails, Post, PostUnacknowledged, Accept, PostRefused,
        GiveUpWaiting, FailApplication, databaseVars, engineVars
  <2> QED
    BY <2>1, InvisibleStep
<1>6. CASE UNCHANGED vars
    BY <1>6, InvisibleStep DEF vars
<1> QED
    BY <1>1, <1>2, <1>3, <1>4, <1>5, <1>6 DEF Disturb

\* A step taken under the invariants is a step of the view or a stutter.
LEMMA StepRefines ==
    ASSUME CommonInv, OwnershipInv, IndexInv, IndexInv', SnapshotInv, [Next]_vars
    PROVE  [View!Next]_(View!vars)
<1>1. ASSUME NEW p \in Projects, Edit(p) \/ LeaseExpires(p) \/ RetryDue(p) \/ Engine(p)
      PROVE  View!Next \/ UNCHANGED View!vars
    BY <1>1, RequestIsCommitOrReopen, TaskShows, OtherStepsInvisible DEF Engine
<1>2. ASSUME NEW w \in Workers, Start(w) \/ Reconcile(w) \/ Disturb(w)
      PROVE  View!Next \/ UNCHANGED View!vars
    BY <1>2, ConfirmationSettles, OtherStepsInvisible DEF Reconcile
<1>3. CASE UNCHANGED vars
    BY <1>3, OtherStepsInvisible
<1> QED
    BY <1>1, <1>2, <1>3 DEF Next

\* Before anything happens no project has a revision and none is settled.
LEMMA InitRefines == Init => View!Init /\ SnapshotInv
<1> SUFFICES ASSUME Init PROVE View!Init /\ SnapshotInv
    OBVIOUS
<1>1. /\ [p \in Projects |-> project[p].revision] = [p \in Projects |-> 0]
      /\ [p \in Projects |-> Wanted(p)] = [p \in Projects |-> NoDocument]
      /\ index = [p \in Projects |-> NoDocument]
    BY DEF Init, Wanted
<1>2. [p \in Projects |-> row[p].state = "synced"] = [p \in Projects |-> FALSE]
  <2>1. \A p \in Projects : row[p].state # "synced"
    BY DEF Init
  <2> QED
    BY <2>1, Zenon
<1>3. SnapshotInv
    BY DEF Init, SnapshotInv
<1> QED
    BY <1>1, <1>2, <1>3 DEF View!Init

\* When API processes do not overlap, the outbox implements the search view:
\* searches of a settled project never move, and the others only ever show
\* snapshots of committed revisions.
THEOREM Refinement == ASSUME ~Overlapping PROVE Spec => ImplementsView
<1>1. Init => OwnershipInv /\ IndexInv /\ View!Init /\ SnapshotInv
    BY InitSingle, InitRefines
<1>2. CommonInv /\ CommonInv' /\ OwnershipInv /\ IndexInv /\ [Next]_vars
        => (OwnershipInv /\ IndexInv)'
    BY NextOwnership, NextIndex
<1>3. CommonInv /\ CommonInv' /\ SnapshotInv /\ [Next]_vars => SnapshotInv'
    BY NextSnapshots
<1>4. CommonInv /\ OwnershipInv /\ IndexInv /\ IndexInv' /\ SnapshotInv /\ [Next]_vars
        => [View!Next]_(View!vars)
    BY StepRefines
<1> QED
    BY <1>1, <1>2, <1>3, <1>4, CommonInvariant, PTL DEF Spec, ImplementsView, View!Spec
===============================================================================
