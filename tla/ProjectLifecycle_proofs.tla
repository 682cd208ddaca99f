----------------------- MODULE ProjectLifecycle_proofs -----------------------
(***************************************************************************)
(* Proofs about one project, for any number of administrators and any      *)
(* contents, links and images, and about the catalogs it refers to, for    *)
(* any source files.                                                       *)
(***************************************************************************)
EXTENDS ProjectLifecycle, CatalogSync, FiniteSetTheorems, WellFoundedInduction, TLAPS

RowStates ==
    [status : {"absent", "draft", "published", "deleted"},
     pre : {"none", "draft", "published"}, revision : Nat, publishedAt : Nat,
     deleted : BOOLEAN, content : Contents \cup {"none"}]

Views == [revision : Nat, seen : Seq(Contents \cup {"none"})]

\* What the columns of a project say of a row.
ColumnsAgree(r) ==
    /\ r.status = "absent" => r = Absent
    /\ r.status = "draft" => r.pre = "none" /\ r.publishedAt = 0 /\ r.deleted = FALSE
    /\ r.status = "published" =>
          r.pre = "none" /\ r.publishedAt # 0 /\ r.deleted = FALSE
    /\ r.status = "deleted" =>
          /\ r.deleted = TRUE
          /\ \/ r.pre = "draft" /\ r.publishedAt = 0
             \/ r.pre = "published" /\ r.publishedAt # 0

RowInv == row \in RowStates /\ ColumnsAgree(row)

\* Nobody has read a revision that is not yet there, and who has read the
\* present revision has read the present content, in every query.
ReadingInv ==
    /\ view \in [Editors -> Views]
    /\ \A e \in Editors :
          /\ view[e].revision <= row.revision
          /\ view[e].seen # << >> => row.status # "absent"
          /\ view[e].revision = row.revision =>
                \A i \in DOMAIN view[e].seen : view[e].seen[i] = row.content

\* Who is in the middle of a change has read the project to the end, and a
\* title in it if the change is a deletion.
DeletingInv ==
    /\ pc \in [Editors -> {"ready", "deleting", "uploading"}]
    /\ \A e \in Editors :
          /\ pc[e] # "ready" => Complete(view[e])
          /\ pc[e] = "deleting" => view[e].seen[1] \notin Untitled

EditInv == RowInv /\ ReadingInv /\ DeletingInv

\* How a step may move the row: not at all, or by one revision, with the
\* publication date kept once it is set.
RowMoves ==
    \/ row' = row
    \/ /\ row'.revision = row.revision + 1 /\ row'.status # "absent"
       /\ row.publishedAt # 0 => row'.publishedAt = row.publishedAt

-------------------------------------------------------------------------------
(* What the operators of the model return.                                   *)

\* There are four queries.
LEMMA FourQueries == Len(Queries) = 4 /\ DOMAIN Queries = 1 .. 4
BY DEF Queries

\* A committed change raises the revision and leaves the other columns as the
\* change made them.
LEMMA CommittedRow ==
    ASSUME row \in RowStates, NEW r \in RowStates, NEW event, Committed(r, event)
    PROVE  /\ row' \in RowStates
           /\ row'.revision = row.revision + 1
           /\ row'.status = r.status /\ row'.pre = r.pre
           /\ row'.publishedAt = r.publishedAt /\ row'.deleted = r.deleted
           /\ row'.content = r.content
<1>1. row' = [r EXCEPT !.revision = row.revision + 1]
    BY DEF Committed
<1>2. row.revision + 1 \in Nat
    BY DEF RowStates
<1> QED
    BY <1>1, <1>2 DEF RowStates

\* A committed change of a row that is there, whose columns agree.
LEMMA CommittedMoves ==
    ASSUME RowInv, NEW r \in RowStates, NEW event, Committed(r, event),
           r.status # "absent", ColumnsAgree(r),
           row.publishedAt # 0 => r.publishedAt = row.publishedAt
    PROVE  RowInv' /\ RowMoves /\ row'.revision = row.revision + 1
<1>1. /\ row' \in RowStates
      /\ row'.revision = row.revision + 1
      /\ row'.status = r.status /\ row'.pre = r.pre
      /\ row'.publishedAt = r.publishedAt /\ row'.deleted = r.deleted
    BY CommittedRow DEF RowInv
<1>2. ColumnsAgree(row)'
    BY <1>1 DEF ColumnsAgree
<1> QED
    BY <1>1, <1>2 DEF RowInv, RowMoves

\* A row that is there keeps its columns when its content changes.
LEMMA NewContent ==
    ASSUME NEW r \in RowStates, ColumnsAgree(r), r.status # "absent",
           NEW c \in Contents
    PROVE  LET x == WithChildren(r, c)
           IN  /\ x \in RowStates /\ ColumnsAgree(x)
               /\ x.status = r.status /\ x.publishedAt = r.publishedAt
BY DEF WithChildren, RowStates, ColumnsAgree

\* The row of a new project.
LEMMA NewProject ==
    ASSUME NEW c \in Contents
    PROVE  LET x == WithChildren([Absent EXCEPT !.status = "draft"], c)
           IN  x \in RowStates /\ ColumnsAgree(x) /\ x.status = "draft"
BY DEF WithChildren, RowStates, ColumnsAgree, Absent

\* Publication.
LEMMA Published ==
    ASSUME NEW r \in RowStates, ColumnsAgree(r), r.status = "draft"
    PROVE  LET x == [r EXCEPT !.status = "published", !.publishedAt = r.revision + 1]
           IN  x \in RowStates /\ ColumnsAgree(x) /\ x.status = "published"
<1>1. r.revision + 1 \in Nat /\ r.revision + 1 # 0
    BY DEF RowStates
<1> QED
    BY <1>1 DEF RowStates, ColumnsAgree

\* Restoration.
LEMMA Restored ==
    ASSUME NEW r \in RowStates, ColumnsAgree(r), r.status = "deleted"
    PROVE  LET x == [r EXCEPT !.status = r.pre, !.pre = "none", !.deleted = FALSE]
           IN  /\ x \in RowStates /\ ColumnsAgree(x) /\ x.status # "absent"
               /\ x.publishedAt = r.publishedAt
BY DEF RowStates, ColumnsAgree

\* Deletion.
LEMMA Deleted ==
    ASSUME NEW r \in RowStates, ColumnsAgree(r), r.status \in Live
    PROVE  LET x == [r EXCEPT !.status = "deleted", !.pre = r.status, !.deleted = TRUE]
           IN  /\ x \in RowStates /\ ColumnsAgree(x) /\ x.status # "absent"
               /\ x.publishedAt = r.publishedAt
BY DEF RowStates, ColumnsAgree, Live

-------------------------------------------------------------------------------
(* How each action moves the row.                                            *)

\* A guarded change: the conflict changes nothing; an accepted one met the
\* revision its sender had read, in a status it allows.
LEMMA GuardedMoves ==
    ASSUME RowInv, NEW e, NEW op, NEW statuses, NEW r, NEW event,
           Guarded(e, op, statuses, r, event),
           row.status \in statuses =>
               /\ r \in RowStates /\ ColumnsAgree(r) /\ r.status # "absent"
               /\ row.publishedAt # 0 => r.publishedAt = row.publishedAt
    PROVE  /\ RowInv' /\ RowMoves /\ view' = view /\ links' = links /\ logos' = logos
           /\ row' # row => row.revision = view[e].revision
           /\ answer' \in {[by |-> e, op |-> op, result |-> result] :
                              result \in {"ok", "conflict"}}
<1>1. /\ view' = view /\ links' = links /\ logos' = logos
      /\ \/ /\ row.revision = view[e].revision /\ row.status \in statuses
            /\ Committed(r, event) /\ Answer(e, op, "ok")
         \/ row' = row /\ Answer(e, op, "conflict")
    BY DEF Guarded
<1>2. answer' \in {[by |-> e, op |-> op, result |-> result] :
                      result \in {"ok", "conflict"}}
    BY <1>1 DEF Answer
<1>3. CASE row' = row
    BY <1>1, <1>2, <1>3 DEF RowInv, RowMoves, RowStates, ColumnsAgree
<1>4. CASE /\ row.revision = view[e].revision /\ row.status \in statuses
           /\ Committed(r, event)
    BY <1>1, <1>2, <1>4, CommittedMoves
<1> QED
    BY <1>1, <1>3, <1>4

\* Creation.
LEMMA CreateMoves ==
    ASSUME RowInv, NEW e \in Editors, Create(e)
    PROVE  /\ RowInv' /\ RowMoves /\ view' = view /\ pc' = pc
           /\ links' = links /\ logos' = logos /\ answer'.op = "create"
<1>1. row = Absent /\ row \in RowStates
    BY DEF Create, RowInv, ColumnsAgree
<1>2. /\ view' = view /\ pc' = pc /\ links' = links /\ logos' = logos
      /\ answer'.op = "create"
    BY DEF Create, Answer
<1>3. CASE row' = row
    BY <1>2, <1>3 DEF RowInv, RowMoves
<1>4. CASE row' # row
  <2>1. PICK c \in Contents :
          Committed(WithChildren([Absent EXCEPT !.status = "draft"], c), "created")
    BY <1>4 DEF Create
  <2>2. row.publishedAt = 0
    BY <1>1 DEF Absent
  <2> QED
    BY <1>2, <2>1, <2>2, NewProject, CommittedMoves
<1> QED
    BY <1>3, <1>4

\* Replacement: an accepted one meets a sender who has read to the end.
LEMMA ReplaceMoves ==
    ASSUME RowInv, NEW e \in Editors, Replace(e)
    PROVE  /\ RowInv' /\ RowMoves /\ view' = view /\ pc' = pc
           /\ links' = links /\ logos' = logos
           /\ row' # row => Complete(view[e]) /\ row.revision = view[e].revision
           /\ answer'.op = "replace" /\ answer'.by = e
<1>1. PICK c \in Contents :
        IF ValidInput(c)
        THEN Guarded(e, "replace", Live, WithChildren(row, c), "updated")
        ELSE Nothing /\ Answer(e, "replace", "invalid") /\ UNCHANGED view
    BY DEF Replace
<1>2. pc' = pc /\ Complete(view[e])
    BY DEF Replace, MayChange
<1>3. CASE Nothing /\ Answer(e, "replace", "invalid") /\ UNCHANGED view
    BY <1>2, <1>3 DEF Nothing, Answer, RowInv, RowMoves
<1>4. CASE Guarded(e, "replace", Live, WithChildren(row, c), "updated")
  <2>1. row.status \in Live =>
          LET x == WithChildren(row, c)
          IN  /\ x \in RowStates /\ ColumnsAgree(x) /\ x.status # "absent"
              /\ x.publishedAt = row.publishedAt
    BY NewContent DEF RowInv, Live
  <2> QED
    BY <1>2, <1>4, <2>1, GuardedMoves
<1> QED
    BY <1>1, <1>3, <1>4

\* Publication and restoration.
LEMMA TransitionMoves ==
    ASSUME RowInv, NEW e \in Editors, Publish(e) \/ Restore(e)
    PROVE  /\ RowInv' /\ RowMoves /\ view' = view /\ pc' = pc
           /\ links' = links /\ logos' = logos
           /\ answer'.op \in {"publish", "restore"}
<1>1. CASE Publish(e)
  <2> DEFINE r == [row EXCEPT !.status = "published", !.publishedAt = row.revision + 1]
  <2>1. Guarded(e, "publish", {"draft"}, r, "publish") /\ pc' = pc
    BY <1>1 DEF Publish, PublishProject
  <2>2. row.status \in {"draft"} =>
          /\ r \in RowStates /\ ColumnsAgree(r) /\ r.status # "absent"
          /\ row.publishedAt # 0 => r.publishedAt = row.publishedAt
    BY Published DEF RowInv, ColumnsAgree
  <2> HIDE DEF r
  <2>3. /\ RowInv' /\ RowMoves /\ view' = view /\ links' = links /\ logos' = logos
        /\ row' # row => row.revision = view[e].revision
        /\ answer' \in {[by |-> e, op |-> "publish", result |-> result] :
                           result \in {"ok", "conflict"}}
      BY <2>1, <2>2, GuardedMoves
  <2> QED
    BY <2>1, <2>3
<1>2. CASE Restore(e)
  <2> DEFINE r == [row EXCEPT !.status = row.pre, !.pre = "none", !.deleted = FALSE]
  <2>1. Guarded(e, "restore", {"deleted"}, r, "restore") /\ pc' = pc
    BY <1>2 DEF Restore, RestoreProject
  <2>2. row.status \in {"deleted"} =>
          /\ r \in RowStates /\ ColumnsAgree(r) /\ r.status # "absent"
          /\ r.publishedAt = row.publishedAt
    BY Restored DEF RowInv
  <2> HIDE DEF r
  <2>3. /\ RowInv' /\ RowMoves /\ view' = view /\ links' = links /\ logos' = logos
        /\ row' # row => row.revision = view[e].revision
        /\ answer' \in {[by |-> e, op |-> "restore", result |-> result] :
                           result \in {"ok", "conflict"}}
      BY <2>1, <2>2, GuardedMoves
  <2> QED
    BY <2>1, <2>3
<1> QED
    BY <1>1, <1>2

\* Deletion.
LEMMA DeleteMoves ==
    ASSUME RowInv, pc \in [Editors -> {"ready", "deleting", "uploading"}],
           NEW e \in Editors, Delete(e)
    PROVE  /\ RowInv' /\ RowMoves /\ view' = view
           /\ links' = links /\ logos' = logos
           /\ pc' = [pc EXCEPT ![e] = "ready"] /\ pc[e] = "deleting"
           /\ row' # row => row.revision = view[e].revision
           /\ answer'.op = "delete" /\ answer'.by = e
<1> DEFINE r == [row EXCEPT !.status = "deleted", !.pre = row.status, !.deleted = TRUE]
<1>1. /\ Guarded(e, "delete", Live, r, "deleted")
      /\ pc' = [pc EXCEPT ![e] = "ready"] /\ pc[e] = "deleting"
    BY DEF Delete, DeleteProject
<1>2. row.status \in Live =>
        /\ r \in RowStates /\ ColumnsAgree(r) /\ r.status # "absent"
        /\ r.publishedAt = row.publishedAt
    BY Deleted DEF RowInv
<1> HIDE DEF r
<1>3. /\ RowInv' /\ RowMoves /\ view' = view /\ links' = links /\ logos' = logos
      /\ row' # row => row.revision = view[e].revision
      /\ answer' \in {[by |-> e, op |-> "delete", result |-> result] :
                         result \in {"ok", "conflict"}}
    BY <1>1, <1>2, GuardedMoves
<1> QED
    BY <1>1, <1>3

\* A change of links or logo raises the revision of a project that is there.
LEMMA ChildMoves ==
    ASSUME RowInv, NEW event, Committed(row, event), row.status # "absent"
    PROVE  RowInv' /\ RowMoves /\ row'.revision = row.revision + 1
BY CommittedMoves DEF RowInv

\* Whoever has read the project to the end has read a row that is there.
LEMMA ReaderSawRow ==
    ASSUME EditInv, NEW e \in Editors, Complete(view[e])
    PROVE  row.status # "absent"
<1>1. Len(view[e].seen) = 4
    BY FourQueries DEF Complete
<1>2. view[e].seen # << >>
    BY <1>1
<1> QED
    BY <1>2 DEF EditInv, ReadingInv

\* Repository links.
LEMMA LinksMove ==
    ASSUME EditInv, NEW e \in Editors, ReplaceLinks(e)
    PROVE  /\ RowInv' /\ RowMoves /\ view' = view /\ pc' = pc /\ logos' = logos
           /\ links' # links => row'.revision = row.revision + 1
           /\ answer'.op = "links"
<1>1. PICK inputs \in Links :
        IF ~Validate(inputs)
        THEN UNCHANGED <<row, sync, log, links>> /\ Answer(e, "links", "invalid")
        ELSE /\ Answer(e, "links", LockAnswer(e))
             /\ IF LockAnswer(e) = "ok" /\ links # Normalized(inputs)
                THEN links' = Normalized(inputs) /\ AdvanceAfterLinks
                ELSE UNCHANGED <<row, sync, log, links>>
    BY DEF ReplaceLinks
<1>2. view' = view /\ pc' = pc /\ logos' = logos /\ row.status # "absent" /\ RowInv
    BY ReaderSawRow DEF ReplaceLinks, MayChange, EditInv
<1>3. answer'.op = "links"
    BY <1>1 DEF Answer
<1>4. CASE Committed(row, "links")
    BY <1>2, <1>3, <1>4, ChildMoves
<1>5. CASE row' = row /\ links' = links
    BY <1>2, <1>3, <1>5 DEF RowInv, RowMoves
<1> QED
    BY <1>1, <1>4, <1>5 DEF AdvanceAfterLinks

\* The end of an upload.
LEMMA UploadMoves ==
    ASSUME EditInv, NEW e \in Editors, UploadLogo(e)
    PROVE  /\ RowInv' /\ RowMoves /\ view' = view /\ links' = links
           /\ pc' = [pc EXCEPT ![e] = "ready"]
           /\ logos' # logos => row'.revision = row.revision + 1
           /\ answer'.op = "upload"
<1>1. /\ view' = view /\ links' = links /\ pc' = [pc EXCEPT ![e] = "ready"]
      /\ answer'.op = "upload"
    BY DEF UploadLogo, Answer
<1>2. row.status # "absent" /\ RowInv
    BY ReaderSawRow DEF UploadLogo, EditInv, DeletingInv
<1>3. CASE Committed(row, "logo")
    BY <1>1, <1>2, <1>3, ChildMoves
<1>4. CASE row' = row /\ logos' = logos
    BY <1>1, <1>2, <1>4 DEF RowInv, RowMoves
<1> QED
    BY <1>3, <1>4 DEF UploadLogo

\* Removal of the logo.
LEMMA RemoveMoves ==
    ASSUME EditInv, NEW e \in Editors, RemoveLogo(e)
    PROVE  /\ RowInv' /\ RowMoves /\ view' = view /\ links' = links /\ pc' = pc
           /\ logos' # logos => row'.revision = row.revision + 1
           /\ answer'.op = "remove"
<1>1. view' = view /\ links' = links /\ pc' = pc /\ answer'.op = "remove"
    BY DEF RemoveLogo, Answer
<1>2. row.status # "absent" /\ RowInv
    BY ReaderSawRow DEF RemoveLogo, MayChange, EditInv
<1>3. CASE Committed(row, "logo_removed")
    BY <1>1, <1>2, <1>3, ChildMoves
<1>4. CASE row' = row /\ logos' = logos
    BY <1>1, <1>2, <1>4 DEF RowInv, RowMoves
<1> QED
    BY <1>3, <1>4 DEF RemoveLogo

\* The other steps leave the project alone.
Quiet(e) == ConfirmDelete(e) \/ PutLogo(e) \/ UploadFails(e)

\* They give no answer to a change, and only a confirmation starts a deletion.
LEMMA QuietMoves ==
    ASSUME NEW e \in Editors, Quiet(e) \/ ServeLogo
    PROVE  /\ row' = row /\ view' = view /\ links' = links /\ logos' = logos
BY DEF Quiet, ConfirmDelete, Nothing, PutLogo, UploadFails, ServeLogo

\* A query adds what the project says now; a new reading starts anew.
LEMMA ReadMoves ==
    ASSUME EditInv, NEW e \in Editors, Read(e)
    PROVE  /\ row' = row /\ links' = links /\ logos' = logos /\ pc' = pc
           /\ pc[e] = "ready" /\ ReadingInv'
           /\ \A d \in Editors \ {e} : view'[d] = view[d]
<1>1. /\ row' = row /\ links' = links /\ logos' = logos /\ pc' = pc /\ pc[e] = "ready"
      /\ row.status # "absent"
    BY DEF Read, Nothing
<1>2. /\ view \in [Editors -> Views]
      /\ row.revision \in Nat /\ row.content \in Contents \cup {"none"}
    BY DEF EditInv, ReadingInv, RowInv, RowStates
<1>3. PICK v : /\ view' = [view EXCEPT ![e] = v]
               /\ \/ v = FromRecord
                  \/ v = [revision |-> view[e].revision,
                          seen |-> Append(view[e].seen, row.content)]
  <2>1. CASE view[e] = NoView \/ Complete(view[e])
    <3>1. view' = [view EXCEPT ![e] = FromRecord]
      BY <2>1 DEF Read
    <3> QED
      BY <3>1
  <2>2. CASE ~(view[e] = NoView \/ Complete(view[e]))
    <3>1. view' = [view EXCEPT ![e] = [revision |-> view[e].revision,
                                       seen |-> Append(view[e].seen, row.content)]]
      BY <2>2 DEF Read
    <3> QED
      BY <3>1
  <2> QED
    BY <2>1, <2>2
<1>4. /\ v \in Views /\ v.revision <= row.revision
      /\ v.revision = row.revision => \A i \in DOMAIN v.seen : v.seen[i] = row.content
  <2>1. CASE v = FromRecord
    <3>1. v.revision = row.revision /\ v.seen = <<row.content>>
      BY <2>1 DEF FromRecord
    <3>2. v \in Views
      BY <1>2, <2>1 DEF FromRecord, Views
    <3> QED
      BY <1>2, <3>1, <3>2
  <2>2. CASE v = [revision |-> view[e].revision,
                  seen |-> Append(view[e].seen, row.content)]
    <3>1. view[e] \in Views /\ view[e].revision <= row.revision
      BY DEF EditInv, ReadingInv
    <3>2. /\ view[e].revision = row.revision =>
                \A i \in DOMAIN view[e].seen : view[e].seen[i] = row.content
      BY DEF EditInv, ReadingInv
    <3>3. PICK s \in Seq(Contents \cup {"none"}) : s = view[e].seen
      BY <3>1 DEF Views
    <3>4. v \in Views /\ v.revision = view[e].revision /\ v.seen = Append(s, row.content)
      <4>1. Append(s, row.content) \in Seq(Contents \cup {"none"})
        BY <1>2, <3>3
      <4>2. v = [revision |-> view[e].revision, seen |-> Append(s, row.content)]
        BY <2>2, <3>3
      <4> QED
        BY <3>1, <4>1, <4>2 DEF Views
    <3>5. /\ DOMAIN s = 1 .. Len(s) /\ DOMAIN v.seen = 1 .. Len(s) + 1
          /\ \A i \in 1 .. Len(s) : v.seen[i] = s[i]
          /\ v.seen[Len(s) + 1] = row.content /\ Len(s) \in Nat
      BY <1>2, <3>3, <3>4
    <3>6. \A i \in 1 .. Len(s) + 1 : i \in 1 .. Len(s) \/ i = Len(s) + 1
      BY <3>5
    <3> QED
      BY <3>1, <3>2, <3>3, <3>4, <3>5, <3>6
  <2> QED
    BY <1>3, <2>1, <2>2
<1>5. /\ view' \in [Editors -> Views] /\ view'[e] = v
      /\ \A d \in Editors \ {e} : view'[d] = view[d]
    BY <1>2, <1>3, <1>4
<1>6. ReadingInv'
  <2> SUFFICES ASSUME NEW d \in Editors
               PROVE  /\ view'[d].revision <= row'.revision
                      /\ view'[d].seen # << >> => row'.status # "absent"
                      /\ view'[d].revision = row'.revision =>
                            \A i \in DOMAIN view'[d].seen :
                                view'[d].seen[i] = row'.content
    BY <1>5 DEF ReadingInv
  <2>1. CASE d = e
    BY <1>1, <1>4, <1>5, <2>1
  <2>2. CASE d # e
    BY <1>1, <1>5, <2>2 DEF EditInv, ReadingInv
  <2> QED
    BY <2>1, <2>2
<1> QED
    BY <1>1, <1>5, <1>6

\* Moving the row makes what others have read stale, and never wrong.
LEMMA ReadingsGoStale ==
    ASSUME EditInv, view' = view, RowMoves
    PROVE  ReadingInv'
<1>1. row.revision \in Nat /\ view \in [Editors -> Views]
    BY DEF EditInv, RowInv, RowStates, ReadingInv
<1>2. CASE row' = row
    BY <1>2 DEF EditInv, ReadingInv
<1>3. CASE row'.revision = row.revision + 1 /\ row'.status # "absent"
  <2>1. \A e \in Editors : view[e].revision \in Nat /\ view[e].revision <= row.revision
    BY <1>1 DEF EditInv, ReadingInv, Views
  <2> QED
    BY <1>1, <1>3, <2>1 DEF ReadingInv
<1> QED
    BY <1>2, <1>3 DEF RowMoves

\* The confirmation starts a deletion, the transactions end what was started.
LEMMA DeletingKept ==
    ASSUME EditInv, NEW e \in Editors, view' = view,
           \/ pc' = pc
           \/ pc' = [pc EXCEPT ![e] = "ready"]
           \/ pc' = [pc EXCEPT ![e] = "uploading"] /\ Complete(view[e])
           \/ /\ pc' = [pc EXCEPT ![e] = "deleting"]
              /\ Complete(view[e]) /\ view[e].seen[1] \notin Untitled
    PROVE  DeletingInv'
BY DEF EditInv, DeletingInv, Complete

\* What the handlers that start something do to where their sender is.
LEMMA QuietPlaces ==
    ASSUME EditInv, NEW e \in Editors, Quiet(e)
    PROVE  DeletingInv'
<1>1. view' = view
    BY QuietMoves
<1>2. CASE ConfirmDelete(e)
  <2>1. Complete(view[e])
    BY <1>2 DEF ConfirmDelete, MayChange
  <2>2. \/ pc' = pc
        \/ /\ pc' = [pc EXCEPT ![e] = "deleting"]
           /\ view[e].seen[1] \notin Untitled
    BY <1>2 DEF ConfirmDelete, MatchesConfirmation
  <2> QED
    BY <1>1, <2>1, <2>2, DeletingKept
<1>3. CASE PutLogo(e)
  <2>1. Complete(view[e]) /\ pc' = [pc EXCEPT ![e] = "uploading"]
    BY <1>3 DEF PutLogo, MayChange
  <2> QED
    BY <1>1, <2>1, DeletingKept
<1>4. CASE UploadFails(e)
    BY <1>1, <1>4, DeletingKept DEF UploadFails
<1> QED
    BY <1>2, <1>3, <1>4 DEF Quiet

-------------------------------------------------------------------------------
(* The invariant, and what every step does to the row.                       *)

\* There is no project and nobody has read one.
LEMMA InitEdit == Init => EditInv
<1> SUFFICES ASSUME Init PROVE EditInv
    OBVIOUS
<1>1. RowInv
    BY DEF Init, RowInv, RowStates, ColumnsAgree, Absent
<1>2. ReadingInv
  <2>1. NoView \in Views /\ NoView.revision = 0 /\ NoView.seen = << >>
    BY DEF NoView, Views
  <2>2. row.revision = 0
    BY DEF Init, Absent
  <2> QED
    BY <2>1, <2>2 DEF Init, ReadingInv
<1>3. DeletingInv
    BY DEF Init, DeletingInv
<1> QED
    BY <1>1, <1>2, <1>3 DEF EditInv

\* The links and the logos only change with a new revision.
ChildrenMove ==
    links' # links \/ logos' # logos => row'.revision = row.revision + 1

\* One step of the project.
LEMMA NextEdit ==
    ASSUME EditInv, Next
    PROVE  EditInv' /\ RowMoves /\ ChildrenMove
<1>1. RowInv /\ pc \in [Editors -> {"ready", "deleting", "uploading"}]
    BY DEF EditInv, DeletingInv
<1>2. ASSUME NEW e \in Editors, RowInv', RowMoves, ChildrenMove, view' = view,
             pc' = pc \/ pc' = [pc EXCEPT ![e] = "ready"]
      PROVE  EditInv' /\ RowMoves /\ ChildrenMove
    BY <1>2, ReadingsGoStale, DeletingKept DEF EditInv
<1>3. ASSUME NEW e \in Editors, Create(e)
      PROVE  EditInv' /\ RowMoves /\ ChildrenMove
    BY <1>1, <1>2, <1>3, CreateMoves DEF ChildrenMove
<1>4. ASSUME NEW e \in Editors, Replace(e)
      PROVE  EditInv' /\ RowMoves /\ ChildrenMove
    BY <1>1, <1>2, <1>4, ReplaceMoves DEF ChildrenMove
<1>5. ASSUME NEW e \in Editors, Publish(e) \/ Restore(e)
      PROVE  EditInv' /\ RowMoves /\ ChildrenMove
    BY <1>1, <1>2, <1>5, TransitionMoves DEF ChildrenMove
<1>6. ASSUME NEW e \in Editors, Delete(e)
      PROVE  EditInv' /\ RowMoves /\ ChildrenMove
    BY <1>1, <1>2, <1>6, DeleteMoves DEF ChildrenMove
<1>7. ASSUME NEW e \in Editors, ReplaceLinks(e)
      PROVE  EditInv' /\ RowMoves /\ ChildrenMove
    BY <1>2, <1>7, LinksMove DEF ChildrenMove
<1>8. ASSUME NEW e \in Editors, UploadLogo(e)
      PROVE  EditInv' /\ RowMoves /\ ChildrenMove
    BY <1>2, <1>8, UploadMoves DEF ChildrenMove
<1>9. ASSUME NEW e \in Editors, RemoveLogo(e)
      PROVE  EditInv' /\ RowMoves /\ ChildrenMove
    BY <1>2, <1>9, RemoveMoves DEF ChildrenMove
<1>10. ASSUME NEW e \in Editors, Read(e)
       PROVE  EditInv' /\ RowMoves /\ ChildrenMove
  <2>1. /\ row' = row /\ links' = links /\ logos' = logos /\ pc' = pc
        /\ pc[e] = "ready" /\ ReadingInv'
        /\ \A d \in Editors \ {e} : view'[d] = view[d]
    BY <1>10, ReadMoves
  <2>2. RowInv' /\ RowMoves /\ ChildrenMove
    BY <1>1, <2>1 DEF RowInv, RowMoves, ChildrenMove
  <2>3. DeletingInv'
    BY <2>1 DEF EditInv, DeletingInv, Complete
  <2> QED
    BY <2>1, <2>2, <2>3 DEF EditInv
<1>11. ASSUME NEW e \in Editors, Quiet(e)
       PROVE  EditInv' /\ RowMoves /\ ChildrenMove
  <2>1. row' = row /\ view' = view /\ links' = links /\ logos' = logos
    BY <1>11, QuietMoves
  <2>2. RowInv' /\ RowMoves /\ ChildrenMove
    BY <1>1, <2>1 DEF RowInv, RowMoves, ChildrenMove
  <2> QED
    BY <1>11, <2>1, <2>2, ReadingsGoStale, QuietPlaces DEF EditInv
<1>12. CASE ServeLogo
  <2>1. row' = row /\ view' = view /\ links' = links /\ logos' = logos /\ pc' = pc
    BY <1>12 DEF ServeLogo
  <2>2. RowInv' /\ RowMoves /\ ChildrenMove
    BY <1>1, <2>1 DEF RowInv, RowMoves, ChildrenMove
  <2> QED
    BY <2>1, <2>2, ReadingsGoStale DEF EditInv, DeletingInv, Complete
<1> QED
    BY <1>3, <1>4, <1>5, <1>6, <1>7, <1>8, <1>9, <1>10, <1>11, <1>12 DEF Next, Quiet

\* A step that changes nothing keeps the invariant.
LEMMA EditStutter ==
    ASSUME EditInv, UNCHANGED vars
    PROVE  EditInv' /\ RowMoves /\ ChildrenMove
BY DEF EditInv, vars, RowInv, ReadingInv, DeletingInv, Complete, RowMoves,
       ChildrenMove

\* However many administrators work on the project, what one of them has read
\* is the project as it is, or is recognized as old by its revision.
THEOREM EditInvariant == Spec => []EditInv
<1>1. EditInv /\ [Next]_vars => EditInv'
    BY NextEdit, EditStutter
<1> QED
    BY <1>1, InitEdit, PTL DEF Spec

\* The CHECK constraint over the status columns never stops a change.
THEOREM StatusColumnsTheorem == Spec => []StatusColumnsAgree
<1>1. EditInv => StatusColumnsAgree
  <2> SUFFICES ASSUME RowInv PROVE StatusColumnsAgree
    BY DEF EditInv
  <2>1. /\ row.status \in {"absent", "draft", "published", "deleted"}
        /\ row.deleted \in BOOLEAN
    BY DEF RowInv, RowStates
  <2> QED
    BY <2>1 DEF RowInv, ColumnsAgree, StatusColumnsAgree
<1> QED
    BY <1>1, EditInvariant, PTL

\* Every change of the project, its links or its logo raises the revision.
THEOREM RevisionTheorem == Spec => EveryChangeIsARevision
<1>1. EditInv /\ [Next]_vars =>
        [<<links, logos, row>>' # <<links, logos, row>> =>
            row'.revision = row.revision + 1]_vars
    BY NextEdit, EditStutter DEF RowMoves, ChildrenMove
<1> QED
    BY <1>1, EditInvariant, PTL DEF Spec, EveryChangeIsARevision

\* The publication date is set once.
THEOREM PublishedOnceTheorem == Spec => PublishedOnce
<1>1. EditInv /\ [Next]_vars =>
        [row.publishedAt # 0 => row'.publishedAt = row.publishedAt]_vars
    BY NextEdit, EditStutter DEF RowMoves
<1> QED
    BY <1>1, EditInvariant, PTL DEF Spec, PublishedOnce

\* Whose step a committed replacement or deletion is.
LEMMA WhoCommits ==
    ASSUME EditInv, Next, NEW e \in Editors, NEW op \in {"replace", "delete"},
           Commits(e, op)
    PROVE  (op = "replace" /\ Replace(e)) \/ (op = "delete" /\ Delete(e))
<1>0. /\ RowInv /\ pc \in [Editors -> {"ready", "deleting", "uploading"}]
      /\ row' # row /\ answer'.op = op /\ answer'.by = e
    BY DEF Commits, EditInv, DeletingInv
<1>1. ASSUME NEW d \in Editors, Create(d) PROVE FALSE
    BY <1>0, <1>1, CreateMoves
<1>2. ASSUME NEW d \in Editors, Read(d) PROVE FALSE
    BY <1>0, <1>2, ReadMoves
<1>3. ASSUME NEW d \in Editors, Publish(d) \/ Restore(d) PROVE FALSE
    BY <1>0, <1>3, TransitionMoves
<1>4. ASSUME NEW d \in Editors, ReplaceLinks(d) PROVE FALSE
    BY <1>0, <1>4, LinksMove
<1>5. ASSUME NEW d \in Editors, UploadLogo(d) PROVE FALSE
    BY <1>0, <1>5, UploadMoves
<1>6. ASSUME NEW d \in Editors, RemoveLogo(d) PROVE FALSE
    BY <1>0, <1>6, RemoveMoves
<1>7. ASSUME NEW d \in Editors, Quiet(d) PROVE FALSE
    BY <1>0, <1>7, QuietMoves
<1>8. ASSUME ServeLogo PROVE FALSE
    BY <1>0, <1>8 DEF ServeLogo
<1>9. ASSUME NEW d \in Editors, Replace(d) PROVE op = "replace" /\ d = e
    BY <1>0, <1>9, ReplaceMoves
<1>10. ASSUME NEW d \in Editors, Delete(d) PROVE op = "delete" /\ d = e
    BY <1>0, <1>10, DeleteMoves
<1> QED
    BY <1>1, <1>2, <1>3, <1>4, <1>5, <1>6, <1>7, <1>8, <1>9, <1>10 DEF Next, Quiet

\* No update is lost: an accepted replacement replaces exactly what its sender
\* had seen in every one of the four queries.
THEOREM NoLostUpdate == Spec => EditsReplaceWhatWasSeen
<1>1. EditInv /\ [Next]_vars =>
        [\A e \in Editors : Commits(e, "replace") =>
            \A i \in DOMAIN Queries : view[e].seen[i] = row.content]_vars
  <2> SUFFICES ASSUME EditInv, Next, NEW e \in Editors, Commits(e, "replace"),
                      NEW i \in DOMAIN Queries
               PROVE  view[e].seen[i] = row.content
    OBVIOUS
  <2>1. Replace(e) /\ row' # row /\ RowInv
    BY WhoCommits DEF Commits, EditInv
  <2>2. Complete(view[e]) /\ row.revision = view[e].revision
    BY <2>1, ReplaceMoves
  <2>3. view[e].seen \in Seq(Contents \cup {"none"}) /\ i \in DOMAIN view[e].seen
    BY <2>2, FourQueries DEF EditInv, ReadingInv, Views, Complete
  <2> QED
    BY <2>2, <2>3 DEF EditInv, ReadingInv
<1> QED
    BY <1>1, EditInvariant, PTL DEF Spec, EditsReplaceWhatWasSeen

\* A project is deleted under the title that was confirmed, although the
\* confirmation is compared before the transaction.
THEOREM ConfirmedTheorem == Spec => DeletionWasConfirmed
<1>1. EditInv /\ [Next]_vars =>
        [\A e \in Editors : Commits(e, "delete") =>
            /\ view[e].seen[1] = row.content
            /\ row.content \notin Untitled]_vars
  <2> SUFFICES ASSUME EditInv, Next, NEW e \in Editors, Commits(e, "delete")
               PROVE  view[e].seen[1] = row.content /\ row.content \notin Untitled
    OBVIOUS
  <2>1. Delete(e) /\ row' # row /\ RowInv
    BY WhoCommits DEF Commits, EditInv
  <2>2. row.revision = view[e].revision /\ pc[e] = "deleting"
    BY <2>1, DeleteMoves DEF EditInv, DeletingInv
  <2>3. Complete(view[e]) /\ view[e].seen[1] \notin Untitled
    BY <2>2 DEF EditInv, DeletingInv
  <2>4. 1 \in DOMAIN view[e].seen
    BY <2>3, FourQueries DEF EditInv, ReadingInv, Views, Complete
  <2> QED
    BY <2>2, <2>3, <2>4 DEF EditInv, ReadingInv
<1> QED
    BY <1>1, EditInvariant, PTL DEF Spec, DeletionWasConfirmed

-------------------------------------------------------------------------------
(* Logos.                                                                    *)

Objects ==
    [key : Nat \ {0}, image : Images, owner : Editors \cup {"row", "removed"}]
LogoRows ==
    [revision : Nat \ {0}, status : {"active", "deleted"}, key : Nat \ {0}]

\* Every object has a key of its own, and every upload its object.
StoredInv ==
    /\ IsFiniteSet(stored) /\ stored \subseteq Objects
    /\ \A o \in stored : o.key <= Cardinality(stored)
    /\ \A o, p \in stored : o.key = p.key => o = p
    /\ \A e \in Editors : pc[e] = "uploading" => \E o \in stored : o.owner = e

\* One logo has the highest revision; an active one is above all others.
LogosInv ==
    /\ logos \subseteq LogoRows
    /\ logos # {} => \E m \in logos : \A l \in logos : l.revision <= m.revision
    /\ \A l \in Active, m \in logos : m # l => m.revision < l.revision

\* What was served is not above the logos there have been, and is what the
\* active logo shows if it has its version.
ServedInv ==
    /\ served \subseteq [version : Nat, image : Images]
    /\ \A s \in served : \E l \in logos : s.version <= l.revision
    /\ \A s \in served, l \in Active, o \in stored :
          s.version = l.revision /\ o.key = l.key => s.image = o.image
    /\ \A s, t \in served : s.version = t.version => s = t

LogoInv ==
    /\ pc \in [Editors -> {"ready", "deleting", "uploading"}]
    /\ StoredInv /\ LogosInv /\ ServedInv
    /\ \A l \in logos : l.key <= Cardinality(stored)

\* Retiring leaves no active logo and lowers no revision, and one of the
\* retired has the highest.
LEMMA RetiredAreDeleted ==
    ASSUME LogosInv
    PROVE  /\ RetiredLogos \subseteq LogoRows
           /\ \A r \in RetiredLogos : r.status = "deleted"
           /\ \A r \in RetiredLogos : \E l \in logos : r.key = l.key
           /\ \A l \in logos : \E r \in RetiredLogos : l.revision <= r.revision
           /\ RetiredLogos # {} =>
                \E m \in RetiredLogos : \A r \in RetiredLogos : r.revision <= m.revision
<1>1. /\ logos \subseteq LogoRows
      /\ logos # {} => \E m \in logos : \A l \in logos : l.revision <= m.revision
      /\ \A l \in Active, m \in logos : m # l => m.revision < l.revision
    BY DEF LogosInv
<1>2. CASE Active = {}
  <2>1. RetiredLogos = logos
    BY <1>2 DEF RetiredLogos, SoftDeleted
  <2>2. \A l \in logos : l.status = "deleted"
    BY <1>1, <1>2 DEF Active, LogoRows
  <2>3. \A l \in logos : l.revision \in Nat
    BY <1>1 DEF LogoRows
  <2> QED
    BY <1>1, <2>1, <2>2, <2>3
<1>3. CASE Active # {}
  <2>1. PICK a \in Active : a \in logos /\ a \in LogoRows
    BY <1>1, <1>3 DEF Active
  <2>2. PICK b : b = [a EXCEPT !.status = "deleted", !.revision = @ + 1]
    OBVIOUS
  <2>3. /\ b \in LogoRows /\ b.status = "deleted" /\ b.revision = a.revision + 1
        /\ b.key = a.key
    <3>1. b = [a EXCEPT !.status = "deleted", !.revision = a.revision + 1]
      BY <2>2
    <3>2. a \in LogoRows /\ a.revision + 1 \in Nat \ {0}
      BY <2>1 DEF LogoRows
    <3> QED
      BY <3>1, <3>2 DEF LogoRows
  <2>4. Active = {a}
    <3> SUFFICES ASSUME NEW c \in Active, c # a PROVE FALSE
      BY <2>1
    <3>1. c \in logos /\ c \in LogoRows
      BY <1>1 DEF Active
    <3> QED
      BY <1>1, <2>1, <3>1 DEF LogoRows
  <2>5. RetiredLogos = (logos \ {a}) \cup {b}
    BY <2>2, <2>4 DEF RetiredLogos, SoftDeleted
  <2>6. \A r \in logos \ {a} : r.status = "deleted" /\ r.revision < a.revision
    BY <1>1, <2>1, <2>4 DEF Active, LogoRows
  <2>7. a.revision \in Nat /\ \A r \in logos : r.revision \in Nat
    BY <1>1, <2>1 DEF LogoRows
  <2>8. \A r \in RetiredLogos : r.status = "deleted" /\ r.revision <= b.revision
    BY <2>3, <2>5, <2>6, <2>7
  <2>9. \A l \in logos : l.revision <= b.revision
    BY <2>3, <2>6, <2>7
  <2> QED
    BY <1>1, <2>1, <2>3, <2>5, <2>8, <2>9
<1> QED
    BY <1>2, <1>3

\* The next revision is above those of all the rows there have been.
LEMMA NextRevisionIsNew ==
    ASSUME NEW rows \in SUBSET LogoRows,
           rows # {} => \E m \in rows : \A r \in rows : r.revision <= m.revision
    PROVE  /\ NextLogoRevision(rows) \in Nat \ {0}
           /\ \A r \in rows : r.revision < NextLogoRevision(rows)
<1> DEFINE S == {0} \cup {r.revision : r \in rows}
<1>1. S \subseteq Nat
    BY DEF LogoRows
<1>2. \E x \in S : \A y \in S : x >= y
  <2>1. CASE rows = {}
    BY <2>1
  <2>2. CASE rows # {}
    <3>1. PICK m \in rows : \A r \in rows : r.revision <= m.revision
      BY <2>2
    <3>2. m.revision \in S /\ \A y \in S : m.revision >= y
      BY <1>1, <3>1 DEF LogoRows
    <3> QED
      BY <3>2
  <2> QED
    BY <2>1, <2>2
<1>3. Max(S) \in S /\ \A y \in S : Max(S) >= y
    BY <1>2 DEF Max
<1>4. NextLogoRevision(rows) = 1 + Max(S)
    BY DEF NextLogoRevision
<1>5. \A r \in rows : r.revision \in S
    OBVIOUS
<1> HIDE DEF S
<1>6. Max(S) \in Nat
    BY <1>1, <1>3
<1>7. \A r \in rows : r.revision \in Nat /\ r.revision <= Max(S)
    BY <1>1, <1>3, <1>5
<1> QED
    BY <1>4, <1>6, <1>7

\* Handing an object over keeps its key and its image.
LEMMA ObjectsAreHandedOver ==
    ASSUME StoredInv, NEW e \in Editors, pc[e] = "uploading",
           NEW owner \in {"row", "removed"}, stored' = HandedTo(e, owner)
    PROVE  /\ IsFiniteSet(stored') /\ stored' \subseteq Objects
           /\ Cardinality(stored') = Cardinality(stored)
           /\ Written(e) \in stored /\ Written(e).key \in Nat \ {0}
           /\ \A o \in stored' : \E p \in stored : o.key = p.key /\ o.image = p.image
           /\ \A o, p \in stored' : o.key = p.key => o = p
           /\ \A o \in stored : o.owner # e => o \in stored'
<1>1. PICK w \in stored : w = Written(e) /\ w.owner = e
    BY DEF StoredInv, Written
<1>2. PICK x : x = [w EXCEPT !.owner = owner]
    OBVIOUS
<1>3. stored' = (stored \ {w}) \cup {x}
    BY <1>1, <1>2 DEF HandedTo
<1>4. w \in Objects /\ x \in Objects /\ x.key = w.key /\ x.image = w.image
    BY <1>1, <1>2 DEF StoredInv, Objects
<1>5. \A o \in stored \ {w} : o.key # w.key
    BY <1>1 DEF StoredInv
<1>6. x \notin stored \ {w}
    BY <1>4, <1>5
<1>7. /\ IsFiniteSet(stored \ {w}) /\ Cardinality(stored) \in Nat
      /\ Cardinality(stored \ {w}) = Cardinality(stored) - 1
    BY <1>1, FS_RemoveElement, FS_CardinalityType DEF StoredInv
<1>8. /\ IsFiniteSet(stored') /\ Cardinality(stored') = Cardinality(stored)
  <2>1. PICK rest : rest = stored \ {w}
    OBVIOUS
  <2>2. /\ IsFiniteSet(rest \cup {x})
        /\ Cardinality(rest \cup {x}) = Cardinality(rest) + 1
    BY <1>6, <1>7, <2>1, FS_AddElement
  <2>3. stored' = rest \cup {x} /\ Cardinality(rest) = Cardinality(stored) - 1
    BY <1>3, <1>7, <2>1
  <2> QED
    BY <1>7, <2>2, <2>3
<1>9. stored' \subseteq Objects /\ w.key \in Nat
    BY <1>3, <1>4 DEF StoredInv, Objects
<1>10. \A o \in stored' : \E p \in stored : o.key = p.key /\ o.image = p.image
    BY <1>1, <1>3, <1>4
<1>11. \A o, p \in stored' : o.key = p.key => o = p
    BY <1>3, <1>4, <1>5 DEF StoredInv
<1>12. \A o \in stored : o.owner # e => o \in stored'
    BY <1>1, <1>3
<1>13. w.key \in Nat \ {0}
    BY <1>4 DEF Objects
<1> QED
    BY <1>1, <1>8, <1>9, <1>10, <1>11, <1>12, <1>13

\* No upload starts in a step that leaves the objects alone.
LEMMA StoredKept ==
    ASSUME LogoInv, NEW e \in Editors, NEW place \in {"ready", "deleting"},
           stored' = stored, pc' = pc \/ pc' = [pc EXCEPT ![e] = place]
    PROVE  /\ pc' \in [Editors -> {"ready", "deleting", "uploading"}]
           /\ StoredInv'
BY DEF LogoInv, StoredInv

\* Steps that have nothing to do with logos.
LEMMA OtherSteps ==
    ASSUME LogoInv, NEW e \in Editors,
           \/ Create(e) \/ Read(e) \/ Replace(e) \/ Publish(e) \/ Restore(e)
           \/ ConfirmDelete(e) \/ Delete(e) \/ ReplaceLinks(e)
    PROVE  LogoInv'
<1>1. stored' = stored /\ logos' = logos /\ served' = served
    BY DEF Create, Read, Replace, Publish, PublishProject, Restore, RestoreProject,
           ConfirmDelete, Delete, DeleteProject, ReplaceLinks, Nothing, Guarded
<1>2. \/ pc' = pc \/ pc' = [pc EXCEPT ![e] = "ready"]
      \/ pc' = [pc EXCEPT ![e] = "deleting"]
    BY DEF Create, Read, Replace, Publish, Restore, ConfirmDelete, Delete,
           ReplaceLinks
<1>3. pc' \in [Editors -> {"ready", "deleting", "uploading"}] /\ StoredInv'
    BY <1>1, <1>2, StoredKept
<1>4. LogosInv' /\ ServedInv'
    BY <1>1 DEF LogoInv, LogosInv, ServedInv, Active
<1> QED
    BY <1>1, <1>3, <1>4 DEF LogoInv

\* An upload writes an object under a key of its own.
LEMMA PutKeepsLogos ==
    ASSUME LogoInv, NEW e \in Editors, PutLogo(e)
    PROVE  LogoInv'
<1>1. PICK i \in Images :
        stored' = stored \cup {[key |-> 1 + Cardinality(stored), image |-> i,
                                owner |-> e]}
    BY DEF PutLogo
<1>2. PICK x : x = [key |-> 1 + Cardinality(stored), image |-> i, owner |-> e]
    OBVIOUS
<1>3. /\ IsFiniteSet(stored) /\ Cardinality(stored) \in Nat
      /\ stored \subseteq Objects /\ \A o \in stored : o.key <= Cardinality(stored)
    BY FS_CardinalityType DEF LogoInv, StoredInv
<1>4. x \in Objects /\ x.key = 1 + Cardinality(stored) /\ x.owner = e /\ x \notin stored
    BY <1>2, <1>3 DEF Objects
<1>5. /\ IsFiniteSet(stored') /\ Cardinality(stored') = Cardinality(stored) + 1
    BY <1>1, <1>2, <1>3, <1>4, FS_AddElement
<1>6. pc' \in [Editors -> {"ready", "deleting", "uploading"}] /\ logos' = logos
      /\ served' = served /\ pc' = [pc EXCEPT ![e] = "uploading"]
    BY DEF PutLogo, LogoInv
<1>7. StoredInv'
  <2>1. \A o \in stored' : o \in stored \/ o = x
    BY <1>1, <1>2
  <2>2. stored' \subseteq Objects /\ \A o \in stored' : o.key <= Cardinality(stored')
    BY <1>3, <1>4, <1>5, <2>1 DEF Objects
  <2>3. \A o, p \in stored' : o.key = p.key => o = p
    BY <1>3, <1>4, <2>1 DEF LogoInv, StoredInv, Objects
  <2>4. \A d \in Editors : pc'[d] = "uploading" => \E o \in stored' : o.owner = d
    BY <1>1, <1>2, <1>4, <1>6 DEF LogoInv, StoredInv
  <2> QED
    BY <1>5, <2>2, <2>3, <2>4 DEF StoredInv
<1>8. LogosInv' /\ ServedInv'
  <2>1. \A o \in stored' : o \in stored \/ o.key = 1 + Cardinality(stored)
    BY <1>1, <1>2, <1>4
  <2>2. \A l \in Active : l.key # 1 + Cardinality(stored)
    BY <1>3 DEF Active, LogoInv, LogosInv, LogoRows
  <2> QED
    BY <1>6, <2>1, <2>2 DEF LogoInv, LogosInv, ServedInv, Active
<1>9. \A l \in logos' : l.key <= Cardinality(stored')
    BY <1>3, <1>5, <1>6 DEF LogoInv, LogosInv, LogoRows
<1> QED
    BY <1>6, <1>7, <1>8, <1>9 DEF LogoInv

\* The end of an upload, accepted or not, hands its object over and no other.
LEMMA HandingOverKeeps ==
    ASSUME LogoInv, NEW e \in Editors, pc[e] = "uploading",
           NEW owner \in {"row", "removed"}, stored' = HandedTo(e, owner),
           pc' = [pc EXCEPT ![e] = "ready"]
    PROVE  /\ StoredInv' /\ pc' \in [Editors -> {"ready", "deleting", "uploading"}]
           /\ Cardinality(stored') = Cardinality(stored)
           /\ Written(e) \in stored /\ Written(e).key \in Nat \ {0}
           /\ \A o \in stored' : \E p \in stored : o.key = p.key /\ o.image = p.image
<1>1. /\ IsFiniteSet(stored') /\ stored' \subseteq Objects
      /\ Cardinality(stored') = Cardinality(stored)
      /\ Written(e) \in stored /\ Written(e).key \in Nat \ {0}
      /\ \A o \in stored' : \E p \in stored : o.key = p.key /\ o.image = p.image
      /\ \A o, p \in stored' : o.key = p.key => o = p
      /\ \A o \in stored : o.owner # e => o \in stored'
    BY ObjectsAreHandedOver DEF LogoInv
<1>2. \A o \in stored' : o.key <= Cardinality(stored')
    BY <1>1 DEF LogoInv, StoredInv
<1>3. pc' \in [Editors -> {"ready", "deleting", "uploading"}]
    BY DEF LogoInv
<1>4. ASSUME NEW d \in Editors, pc'[d] = "uploading"
      PROVE  \E o \in stored' : o.owner = d
  <2>1. d # e /\ pc[d] = "uploading"
    BY <1>4 DEF LogoInv
  <2>2. PICK o \in stored : o.owner = d
    BY <2>1 DEF LogoInv, StoredInv
  <2> QED
    BY <1>1, <2>1, <2>2
<1> QED
    BY <1>1, <1>2, <1>3, <1>4 DEF StoredInv

\* A failed or refused upload.
LEMMA AbortKeepsLogos ==
    ASSUME LogoInv, NEW e \in Editors, pc[e] = "uploading",
           NEW owner \in {"row", "removed"}, stored' = HandedTo(e, owner),
           pc' = [pc EXCEPT ![e] = "ready"], logos' = logos, served' = served
    PROVE  LogoInv'
<1>1. /\ StoredInv' /\ pc' \in [Editors -> {"ready", "deleting", "uploading"}]
      /\ Cardinality(stored') = Cardinality(stored)
      /\ \A o \in stored' : \E p \in stored : o.key = p.key /\ o.image = p.image
    BY HandingOverKeeps
<1>2. LogosInv' /\ \A l \in logos' : l.key <= Cardinality(stored')
    BY <1>1 DEF LogoInv, LogosInv, Active
<1>3. ServedInv'
    BY <1>1 DEF LogoInv, ServedInv, Active
<1> QED
    BY <1>1, <1>2, <1>3 DEF LogoInv

\* A removed logo is retired.
LEMMA RemoveKeepsLogos ==
    ASSUME LogoInv, NEW e \in Editors, RemoveLogo(e)
    PROVE  LogoInv'
<1>1. stored' = stored /\ served' = served /\ pc' = pc
    BY DEF RemoveLogo
<1>2. pc' \in [Editors -> {"ready", "deleting", "uploading"}] /\ StoredInv'
    BY <1>1 DEF LogoInv, StoredInv
<1>3. CASE logos' = logos
    BY <1>1, <1>2, <1>3 DEF LogoInv, LogosInv, ServedInv, Active
<1>4. CASE logos' = RetiredLogos
  <2>1. /\ RetiredLogos \subseteq LogoRows
        /\ \A r \in RetiredLogos : r.status = "deleted"
        /\ \A r \in RetiredLogos : \E l \in logos : r.key = l.key
        /\ \A l \in logos : \E r \in RetiredLogos : l.revision <= r.revision
        /\ RetiredLogos # {} =>
             \E m \in RetiredLogos : \A r \in RetiredLogos : r.revision <= m.revision
    BY RetiredAreDeleted DEF LogoInv
  <2>2. Active' = {}
    BY <1>4, <2>1 DEF Active
  <2>3. LogosInv'
    BY <1>4, <2>1, <2>2 DEF LogosInv
  <2>4. \A s \in served' : \E l \in logos' : s.version <= l.revision
    <3> SUFFICES ASSUME NEW s \in served PROVE \E r \in RetiredLogos : s.version <= r.revision
      BY <1>1, <1>4
    <3>1. PICK l \in logos : s.version <= l.revision
      BY DEF LogoInv, ServedInv
    <3>2. PICK r \in RetiredLogos : l.revision <= r.revision
      BY <2>1
    <3>3. s.version \in Nat /\ l.revision \in Nat /\ r.revision \in Nat
      BY <2>1 DEF LogoInv, LogosInv, LogoRows, ServedInv
    <3> QED
      BY <3>1, <3>2, <3>3
  <2>5. ServedInv'
    BY <1>1, <2>2, <2>4 DEF LogoInv, ServedInv
  <2>6. \A l \in logos' : l.key <= Cardinality(stored')
    BY <1>1, <1>4, <2>1 DEF LogoInv
  <2> QED
    BY <1>2, <2>3, <2>5, <2>6 DEF LogoInv
<1> QED
    BY <1>3, <1>4 DEF RemoveLogo

\* A new logo is above all there have been, so nothing was served as it.
LEMMA UploadKeepsLogos ==
    ASSUME LogoInv, NEW e \in Editors, UploadLogo(e)
    PROVE  LogoInv'
<1>1. /\ pc[e] = "uploading" /\ pc' = [pc EXCEPT ![e] = "ready"] /\ served' = served
    BY DEF UploadLogo
<1>2. CASE LockAnswer(e) # "ok"
    BY <1>1, <1>2, AbortKeepsLogos DEF UploadLogo
<1>3. CASE LockAnswer(e) = "ok"
  <2>1. /\ logos' = RetiredLogos \cup
                       {[revision |-> NextLogoRevision(RetiredLogos),
                         status |-> "active", key |-> Written(e).key]}
        /\ stored' = HandedTo(e, "row")
    BY <1>3 DEF UploadLogo
  <2>2. /\ StoredInv' /\ pc' \in [Editors -> {"ready", "deleting", "uploading"}]
        /\ Cardinality(stored') = Cardinality(stored)
        /\ Written(e) \in stored /\ Written(e).key \in Nat \ {0}
        /\ Written(e).key <= Cardinality(stored)
    BY <1>1, <2>1, HandingOverKeeps DEF LogoInv, StoredInv
  <2>3. /\ RetiredLogos \subseteq LogoRows
        /\ \A r \in RetiredLogos : r.status = "deleted"
        /\ \A r \in RetiredLogos : \E l \in logos : r.key = l.key
        /\ \A l \in logos : \E r \in RetiredLogos : l.revision <= r.revision
        /\ RetiredLogos # {} =>
             \E m \in RetiredLogos : \A r \in RetiredLogos : r.revision <= m.revision
    BY RetiredAreDeleted DEF LogoInv
  <2>4. PICK n \in Nat \ {0} : /\ n = NextLogoRevision(RetiredLogos)
                               /\ \A r \in RetiredLogos : r.revision < n
    BY <2>3, NextRevisionIsNew
  <2>5. PICK x : x = [revision |-> n, status |-> "active", key |-> Written(e).key]
    OBVIOUS
  <2>6. /\ x \in LogoRows /\ x.status = "active" /\ x.revision = n
        /\ x.key = Written(e).key
    BY <2>2, <2>5 DEF LogoRows
  <2>7. logos' = RetiredLogos \cup {x}
    BY <2>1, <2>4, <2>5
  <2>8. Active' = {x}
    BY <2>3, <2>6, <2>7 DEF Active
  <2>9. LogosInv'
    <3>1. logos' \subseteq LogoRows /\ \A l \in logos' : l.revision <= x.revision
      BY <2>3, <2>4, <2>6, <2>7 DEF LogoRows
    <3>2. \A m \in logos' : m # x => m.revision < x.revision
      BY <2>4, <2>6, <2>7
    <3>3. x \in logos'
      BY <2>7
    <3> QED
      BY <2>8, <3>1, <3>2, <3>3 DEF LogosInv
  <2>10. ASSUME NEW s \in served
         PROVE  s.version < n /\ \E r \in RetiredLogos : s.version <= r.revision
    <3>1. PICK l \in logos : s.version <= l.revision
      BY DEF LogoInv, ServedInv
    <3>2. PICK r \in RetiredLogos : l.revision <= r.revision
      BY <2>3
    <3>3. s.version \in Nat /\ l.revision \in Nat /\ r.revision \in Nat
      BY <2>3 DEF LogoInv, LogosInv, LogoRows, ServedInv
    <3> QED
      BY <2>4, <3>1, <3>2, <3>3
  <2>11. ServedInv'
    <3>1. \A s \in served' : \E l \in logos' : s.version <= l.revision
      BY <1>1, <2>7, <2>10
    <3>2. \A s \in served', l \in Active' : s.version # l.revision
      BY <1>1, <2>4, <2>6, <2>8, <2>10 DEF LogoInv, ServedInv
    <3> QED
      BY <1>1, <3>1, <3>2 DEF LogoInv, ServedInv
  <2>12. \A l \in logos' : l.key <= Cardinality(stored')
    BY <2>2, <2>3, <2>6, <2>7 DEF LogoInv
  <2> QED
    BY <2>2, <2>9, <2>11, <2>12 DEF LogoInv
<1> QED
    BY <1>2, <1>3

\* Serving a version records what the active logo shows.
LEMMA ServeKeepsLogos ==
    ASSUME LogoInv, ServeLogo
    PROVE  LogoInv'
<1>1. /\ pc' = pc /\ logos' = logos /\ stored' = stored
    BY DEF ServeLogo
<1>2. PICK version \in {l.revision : l \in logos} : \E l \in OpenActive(version) :
        \E o \in stored :
            /\ o.key = l.key
            /\ served' = served \cup {[version |-> version, image |-> o.image]}
    BY DEF ServeLogo
<1>3. PICK l \in Active : l.revision = version /\ \E o \in stored :
            /\ o.key = l.key
            /\ served' = served \cup {[version |-> version, image |-> o.image]}
    BY <1>2 DEF OpenActive
<1>4. PICK o \in stored :
            /\ o.key = l.key
            /\ served' = served \cup {[version |-> version, image |-> o.image]}
    BY <1>3
<1>5. PICK x : x = [version |-> version, image |-> o.image]
    OBVIOUS
<1>6. l \in logos /\ l.revision \in Nat /\ o.image \in Images
    BY DEF Active, LogoInv, LogosInv, LogoRows, StoredInv, Objects
<1>7. x \in [version : Nat, image : Images] /\ x.version = l.revision /\ x.image = o.image
    BY <1>3, <1>5, <1>6
<1>8. StoredInv' /\ LogosInv' /\ Active' = Active
    BY <1>1 DEF LogoInv, StoredInv, LogosInv, Active
<1>9. \A m \in Active : m = l
  <2> SUFFICES ASSUME NEW m \in Active, m # l PROVE FALSE
    OBVIOUS
  <2>1. m \in logos /\ m.revision \in Nat
    BY DEF Active, LogoInv, LogosInv, LogoRows
  <2> QED
    BY <1>6, <2>1 DEF LogoInv, LogosInv
<1>10. ServedInv'
  <2>1. \A s \in served' : s \in served \/ s = x
    BY <1>4, <1>5
  <2>2. \A s \in served : s.version = l.revision => s = x
    <3> SUFFICES ASSUME NEW s \in served, s.version = l.revision PROVE s = x
      OBVIOUS
    <3>1. s.image = o.image
      BY <1>4 DEF LogoInv, ServedInv
    <3> QED
      BY <1>7, <3>1 DEF LogoInv, ServedInv
  <2>3. \A p \in stored : p.key = l.key => p = o
    BY <1>4 DEF LogoInv, StoredInv
  <2>4. served' \subseteq [version : Nat, image : Images]
    BY <1>7, <2>1 DEF LogoInv, ServedInv
  <2>5. \A s \in served' : \E m \in logos' : s.version <= m.revision
    BY <1>1, <1>6, <1>7, <2>1 DEF LogoInv, ServedInv
  <2>6. \A s \in served', m \in Active', p \in stored' :
          s.version = m.revision /\ p.key = m.key => s.image = p.image
    BY <1>1, <1>7, <1>8, <1>9, <2>1, <2>3 DEF LogoInv, ServedInv
  <2>7. \A s, t \in served' : s.version = t.version => s = t
    BY <1>7, <2>1, <2>2 DEF LogoInv, ServedInv
  <2> QED
    BY <2>4, <2>5, <2>6, <2>7 DEF ServedInv
<1> QED
    BY <1>1, <1>8, <1>10 DEF LogoInv

\* Nothing is stored and nothing was served.
LEMMA InitLogos == Init => LogoInv
BY FS_EmptySet DEF Init, LogoInv, StoredInv, LogosInv, ServedInv, Active

\* One step of the logos.
LEMMA NextLogo ==
    ASSUME LogoInv, [Next]_vars
    PROVE  LogoInv'
<1>1. ASSUME NEW e \in Editors, UploadFails(e) PROVE LogoInv'
    BY <1>1, AbortKeepsLogos DEF UploadFails
<1>2. CASE UNCHANGED vars
    BY <1>2 DEF vars, LogoInv, StoredInv, LogosInv, ServedInv, Active
<1> QED
    BY <1>1, <1>2, OtherSteps, PutKeepsLogos, UploadKeepsLogos, RemoveKeepsLogos,
       ServeKeepsLogos DEF Next

\* A version of a logo names one image for good, and no project has two logos.
THEOREM VersionTheorem == Spec => []VersionNamesOneImage
<1>1. LogoInv /\ [Next]_vars => LogoInv'
    BY NextLogo
<1>2. LogoInv => VersionNamesOneImage
  <2> SUFFICES ASSUME LogoInv PROVE Cardinality(Active) <= 1
    BY DEF VersionNamesOneImage, LogoInv, ServedInv
  <2>1. \A l, m \in Active : l = m
    <3> SUFFICES ASSUME NEW l \in Active, NEW m \in Active, l # m PROVE FALSE
      OBVIOUS
    <3>1. /\ l \in logos /\ m \in logos /\ l.revision \in Nat /\ m.revision \in Nat
      BY DEF Active, LogoInv, LogosInv, LogoRows
    <3> QED
      BY <3>1 DEF LogoInv, LogosInv
  <2>2. CASE Active = {}
    BY <2>2, FS_EmptySet
  <2>3. CASE Active # {}
    <3>1. PICK l : Active = {l}
      BY <2>1, <2>3
    <3> QED
      BY <3>1, FS_Singleton
  <2> QED
    BY <2>2, <2>3
<1> QED
    BY <1>1, <1>2, InitLogos, PTL DEF Spec

-------------------------------------------------------------------------------
(* Repository links.                                                         *)

\* What the unique indexes and the handlers that show links expect of a list.
Fits(list) ==
    /\ \A i, j \in DOMAIN list : i # j =>
         /\ list[i].url # list[j].url
         /\ ~(list[i].primary /\ list[j].primary)
    /\ list # << >> => \E i \in DOMAIN list : list[i].primary

\* Validation lets through what fits.
LEMMA ValidLinksFit ==
    ASSUME NEW inputs \in Links, Validate(inputs)
    PROVE  Fits(Normalized(inputs))
<1>1. PICK list : list = Normalized(inputs)
    OBVIOUS
<1>2. inputs \in Seq([url : DOMAIN Canonical, primary : BOOLEAN])
    BY LinksAssumption
<1>3. DOMAIN list = 1 .. Len(inputs) /\ Len(inputs) \in Nat
    BY <1>1, <1>2 DEF Normalized
<1>4. /\ \A i, j \in DOMAIN list : i # j => list[i].url # list[j].url
      /\ inputs # << >> => Cardinality({i \in DOMAIN list : list[i].primary}) = 1
    BY <1>1 DEF Validate
<1>5. list # << >> => inputs # << >>
  <2> SUFFICES ASSUME inputs = << >> PROVE list = << >>
    OBVIOUS
  <2>1. list = [i \in DOMAIN inputs |-> [inputs[i] EXCEPT !.url = Canonical[@]]]
    BY <1>1 DEF Normalized
  <2> QED
    BY <2>1
<1>6. CASE inputs = << >>
    BY <1>3, <1>4, <1>5, <1>6, <1>1 DEF Fits
<1>7. CASE inputs # << >>
  <2>1. PICK P \in SUBSET (1 .. Len(inputs)) : P = {i \in DOMAIN list : list[i].primary}
    BY <1>3
  <2>2. IsFiniteSet(P) /\ Cardinality(P) = 1
    <3>1. IsFiniteSet(1 .. Len(inputs))
      BY <1>3, FS_Interval
    <3>2. IsFiniteSet(P)
      BY <3>1, FS_Subset
    <3>3. Cardinality(P) = 1
      BY <1>4, <1>7, <2>1
    <3> QED
      BY <3>2, <3>3
  <2>3. PICK x : P = {x}
    BY <2>2, FS_Singleton
  <2>4. \A i \in DOMAIN list : list[i].primary => i = x
    BY <2>1, <2>3
  <2>5. x \in DOMAIN list /\ list[x].primary
    BY <2>1, <2>3
  <2> QED
    BY <1>1, <1>4, <2>4, <2>5 DEF Fits
<1> QED
    BY <1>6, <1>7

\* Every accepted set of links fits the indexes it is inserted under.
THEOREM LinksTheorem == Spec => []LinksFitTheirTable
<1>1. Init => Fits(links)
    BY DEF Init, Fits
<1>2. Fits(links) /\ [Next]_vars => Fits(links)'
  <2> SUFFICES ASSUME Fits(links), [Next]_vars PROVE Fits(links)'
    OBVIOUS
  <2>1. CASE links' = links
    BY <2>1 DEF Fits
  <2>2. ASSUME NEW e \in Editors, ReplaceLinks(e) PROVE Fits(links)'
    <3>1. CASE links' = links
      BY <2>1, <3>1
    <3>2. CASE links' # links
      <4>1. PICK inputs \in Links : Validate(inputs) /\ links' = Normalized(inputs)
        BY <2>2, <3>2 DEF ReplaceLinks
      <4> QED
        BY <4>1, ValidLinksFit DEF Fits
    <3> QED
      BY <3>1, <3>2
  <2>3. ASSUME NEW e \in Editors,
               \/ Create(e) \/ Read(e) \/ Replace(e) \/ Publish(e) \/ Restore(e)
               \/ ConfirmDelete(e) \/ Delete(e)
        PROVE  links' = links
    BY <2>3 DEF Create, Read, Replace, Publish, PublishProject, Restore,
                RestoreProject, ConfirmDelete, Delete, DeleteProject, Nothing, Guarded
  <2>4. ASSUME NEW e \in Editors,
               PutLogo(e) \/ UploadLogo(e) \/ UploadFails(e) \/ RemoveLogo(e)
        PROVE  links' = links
    BY <2>4 DEF PutLogo, UploadLogo, UploadFails, RemoveLogo
  <2> QED
    BY <2>1, <2>2, <2>3, <2>4 DEF Next, ServeLogo, vars
<1>3. Fits(links) => LinksFitTheirTable
    BY DEF Fits, LinksFitTheirTable
<1> QED
    BY <1>1, <1>2, <1>3, PTL DEF Spec

-------------------------------------------------------------------------------
(* The types, and who owns what is stored.                                   *)

\* Nothing is read that was not accepted, and no change begins at the last
\* revision.
RowBounds ==
    /\ row.revision <= MaxRevision
    /\ row.status # "absent" => row.content \in Contents \ Refused
    /\ row.content \in (Contents \ Refused) \cup {"none"}
    /\ log \in Seq(EventTypes)
ViewBounds ==
    \A e \in Editors :
        /\ pc[e] # "ready" => view[e].revision < MaxRevision
        /\ view[e].seen \in Seq(Contents) /\ Len(view[e].seen) <= 4
BoundsInv == RowBounds /\ ViewBounds

\* The keys count the uploads, and an administrator owns the one object of an
\* upload under way.
OwnersInv ==
    /\ Cardinality(stored) <= MaxUploads
    /\ \A k \in 1 .. Cardinality(stored) : \E o \in stored : o.key = k
    /\ \A o \in stored : o.owner \in Editors =>
          /\ pc[o.owner] = "uploading"
          /\ \A p \in stored : p.owner = o.owner => p = o

TypeInv == EditInv /\ LogoInv /\ BoundsInv /\ OwnersInv

\* The first state.
LEMMA InitTypes == Init => TypeInv
<1> SUFFICES ASSUME Init PROVE BoundsInv /\ OwnersInv
    BY InitEdit, InitLogos DEF TypeInv
<1>1. BoundsInv
  <2>1. << >> \in Seq(Contents) /\ Len(<< >>) <= 4 /\ << >> \in Seq(EventTypes)
    OBVIOUS
  <2>2. 0 <= MaxRevision
    BY BoundsAssumption
  <2> QED
    <3>1. row.revision = 0 /\ row.status = "absent" /\ row.content = "none"
      BY DEF Init, Absent
    <3>2. log = << >> /\ \A e \in Editors : pc[e] = "ready" /\ view[e].seen = << >>
      BY DEF Init, NoView
    <3> QED
      BY <2>1, <2>2, <3>1, <3>2 DEF BoundsInv, RowBounds, ViewBounds
<1>2. OwnersInv
    BY FS_EmptySet, BoundsAssumption DEF Init, OwnersInv
<1> QED
    BY <1>1, <1>2

\* Objects, uploads and places stay: so do their owners.
LEMMA OwnersKept ==
    ASSUME OwnersInv, stored' = stored, pc \in [Editors -> {"ready", "deleting", "uploading"}],
           \/ pc' = pc
           \/ \E e \in Editors : /\ pc[e] # "uploading"
                                 /\ \E place : pc' = [pc EXCEPT ![e] = place]
    PROVE  OwnersInv'
<1>1. \A e \in Editors : pc[e] = "uploading" => pc'[e] = "uploading"
    OBVIOUS
<1> QED
    BY <1>1 DEF OwnersInv

\* A new object goes to who has none.
LEMMA PutKeepsOwners ==
    ASSUME LogoInv, OwnersInv, NEW e \in Editors, PutLogo(e)
    PROVE  OwnersInv'
<1>1. PICK x \in [key : Nat, image : Images, owner : Editors] :
        /\ x.key = 1 + Cardinality(stored) /\ x.owner = e
        /\ stored' = stored \cup {x}
  <2>1. PICK i \in Images :
          stored' = stored \cup {[key |-> 1 + Cardinality(stored), image |-> i,
                                  owner |-> e]}
    BY DEF PutLogo
  <2>2. 1 + Cardinality(stored) \in Nat
    BY FS_CardinalityType DEF LogoInv, StoredInv
  <2> QED
    BY <2>1, <2>2
<1>2. /\ IsFiniteSet(stored) /\ Cardinality(stored) \in Nat
      /\ Cardinality(stored) < MaxUploads
      /\ pc[e] = "ready" /\ pc' = [pc EXCEPT ![e] = "uploading"]
      /\ pc \in [Editors -> {"ready", "deleting", "uploading"}]
    BY FS_CardinalityType DEF LogoInv, StoredInv, PutLogo, MayChange
<1>3. x \notin stored
    BY <1>1, <1>2 DEF LogoInv, StoredInv
<1>4. Cardinality(stored') = Cardinality(stored) + 1
    BY <1>1, <1>2, <1>3, FS_AddElement
<1>5. Cardinality(stored') <= MaxUploads
    BY <1>2, <1>4, BoundsAssumption
<1>6. \A k \in 1 .. Cardinality(stored') : \E o \in stored' : o.key = k
  <2> SUFFICES ASSUME NEW k \in 1 .. Cardinality(stored')
               PROVE  \E o \in stored' : o.key = k
    OBVIOUS
  <2>1. k \in 1 .. Cardinality(stored) \/ k = 1 + Cardinality(stored)
    BY <1>2, <1>4
  <2> QED
    BY <1>1, <2>1 DEF OwnersInv
<1>7. \A o \in stored : o.owner # e
    BY <1>2 DEF OwnersInv
<1>8. ASSUME NEW o \in stored', o.owner \in Editors
      PROVE  /\ pc'[o.owner] = "uploading"
             /\ \A p \in stored' : p.owner = o.owner => p = o
  <2>1. CASE o = x
    BY <1>1, <1>2, <1>7, <2>1
  <2>2. CASE o # x
    BY <1>1, <1>2, <1>7, <1>8, <2>2 DEF OwnersInv
  <2> QED
    BY <2>1, <2>2
<1> QED
    BY <1>5, <1>6, <1>8 DEF OwnersInv

\* The end of an upload leaves its administrator without an object.
LEMMA HandingOverKeepsOwners ==
    ASSUME LogoInv, OwnersInv, NEW e \in Editors, pc[e] = "uploading",
           NEW owner \in {"row", "removed"}, stored' = HandedTo(e, owner),
           pc' = [pc EXCEPT ![e] = "ready"]
    PROVE  OwnersInv'
<1>1. PICK w \in stored : w = Written(e) /\ w.owner = e
    BY DEF LogoInv, StoredInv, Written
<1>2. PICK x : x = [w EXCEPT !.owner = owner]
    OBVIOUS
<1>3. stored' = (stored \ {w}) \cup {x}
    BY <1>1, <1>2 DEF HandedTo
<1>4. x.key = w.key /\ x.owner = owner /\ owner \notin Editors
    BY <1>1, <1>2, EditorsAssumption DEF LogoInv, StoredInv, Objects
<1>5. Cardinality(stored') = Cardinality(stored)
    BY HandingOverKeeps
<1>6. \A o \in stored : \E p \in stored' : p.key = o.key
    BY <1>3, <1>4
<1>7. ASSUME NEW o \in stored', o.owner \in Editors
      PROVE  /\ pc'[o.owner] = "uploading"
             /\ \A p \in stored' : p.owner = o.owner => p = o
  <2>1. o \in stored /\ o # w
    BY <1>3, <1>4, <1>7
  <2>2. o.owner # e
    BY <1>1, <2>1 DEF OwnersInv
  <2>3. \A p \in stored' : p.owner = o.owner => p \in stored
    BY <1>3, <1>4, <1>7
  <2> QED
    BY <1>7, <2>1, <2>2, <2>3 DEF OwnersInv, LogoInv
<1> QED
    BY <1>5, <1>6, <1>7 DEF OwnersInv

\* One step of the objects.
LEMMA NextOwners ==
    ASSUME LogoInv, OwnersInv, [Next]_vars
    PROVE  OwnersInv'
<1>1. pc \in [Editors -> {"ready", "deleting", "uploading"}]
    BY DEF LogoInv
<1>2. ASSUME NEW e \in Editors,
             \/ Create(e) \/ Read(e) \/ Replace(e) \/ Publish(e) \/ Restore(e)
             \/ ReplaceLinks(e) \/ RemoveLogo(e)
      PROVE  OwnersInv'
  <2>1. stored' = stored /\ pc' = pc
    BY <1>2 DEF Create, Read, Replace, Publish, PublishProject, Restore,
                RestoreProject, ReplaceLinks, RemoveLogo, Nothing, Guarded
  <2> QED
    BY <1>1, <2>1, OwnersKept
<1>3. ASSUME NEW e \in Editors, ConfirmDelete(e) \/ Delete(e)
      PROVE  OwnersInv'
  <2>1. stored' = stored /\ pc[e] # "uploading"
    BY <1>3 DEF ConfirmDelete, MayChange, Delete, DeleteProject, Guarded, Nothing
  <2>2. pc' = pc \/ \E place : pc' = [pc EXCEPT ![e] = place]
    BY <1>3 DEF ConfirmDelete, Delete
  <2> QED
    BY <1>1, <2>1, <2>2, OwnersKept
<1>4. ASSUME NEW e \in Editors, UploadLogo(e) \/ UploadFails(e)
      PROVE  OwnersInv'
  <2>1. /\ pc[e] = "uploading" /\ pc' = [pc EXCEPT ![e] = "ready"]
        /\ \E owner \in {"row", "removed"} : stored' = HandedTo(e, owner)
    BY <1>4 DEF UploadLogo, UploadFails
  <2> QED
    BY <2>1, HandingOverKeepsOwners
<1>5. CASE ServeLogo
    BY <1>1, <1>5, OwnersKept DEF ServeLogo
<1>6. CASE UNCHANGED vars
    BY <1>1, <1>6, OwnersKept DEF vars
<1> QED
    BY <1>2, <1>3, <1>4, <1>5, <1>6, PutKeepsOwners DEF Next

\* A committed change logs one event, and keeps the row within its bounds.
LEMMA CommittedBounds ==
    ASSUME RowInv, RowBounds, NEW r \in RowStates, NEW event \in EventTypes,
           Committed(r, event), row.revision < MaxRevision,
           r.content \in Contents \ Refused
    PROVE  RowBounds'
<1>1. /\ row'.revision = row.revision + 1 /\ row'.content = r.content
      /\ row.revision \in Nat
    BY CommittedRow DEF RowInv, RowStates
<1>2. log' = Append(log, event) /\ log \in Seq(EventTypes)
    BY DEF Committed, RowBounds
<1>3. log' \in Seq(EventTypes)
    BY <1>2
<1>4. row'.revision <= MaxRevision
    BY <1>1, BoundsAssumption
<1> QED
    BY <1>1, <1>3, <1>4 DEF RowBounds

\* A change that is guarded by the revision its sender read.
LEMMA GuardedBounds ==
    ASSUME RowInv, RowBounds, NEW e \in Editors, NEW op, NEW statuses, NEW r,
           NEW event \in EventTypes, Guarded(e, op, statuses, r, event),
           view[e].revision < MaxRevision,
           row.status \in statuses =>
               r \in RowStates /\ r.content \in Contents \ Refused
    PROVE  RowBounds'
<1>1. CASE UNCHANGED <<row, sync, log>>
    BY <1>1 DEF RowBounds
<1>2. CASE /\ row.revision = view[e].revision /\ row.status \in statuses
           /\ Committed(r, event)
    BY <1>2, CommittedBounds
<1> QED
    BY <1>1, <1>2 DEF Guarded

\* Who may change the project has not read its last revision.
LEMMA ChangersAreBound ==
    ASSUME EditInv, NEW e \in Editors, MayChange(e)
    PROVE  /\ view[e].revision < MaxRevision /\ row.revision < MaxRevision
           /\ row.status # "absent" /\ pc[e] = "ready"
<1>1. /\ view[e].revision <= row.revision /\ row.revision < MaxRevision
      /\ view[e].revision \in Nat /\ row.revision \in Nat
    BY DEF EditInv, RowInv, ReadingInv, RowStates, Views, MayChange
<1> QED
    BY <1>1, ReaderSawRow, BoundsAssumption DEF MayChange

\* The guarded changes.
LEMMA EditsKeepBounds ==
    ASSUME EditInv, BoundsInv, NEW e \in Editors,
           Replace(e) \/ Publish(e) \/ Restore(e) \/ Delete(e)
    PROVE  RowBounds'
<1>1. RowInv /\ RowBounds
    BY DEF EditInv, BoundsInv
<1>2. view[e].revision < MaxRevision
    BY ChangersAreBound DEF Replace, Publish, Restore, Delete, BoundsInv, ViewBounds
<1>3. row.status \in Live \cup {"deleted"} =>
        row \in RowStates /\ row.content \in Contents \ Refused
    BY <1>1 DEF RowInv, RowBounds, Live
<1>4. CASE Replace(e)
  <2>1. PICK c \in Contents :
          IF ValidInput(c)
          THEN Guarded(e, "replace", Live, WithChildren(row, c), "updated")
          ELSE Nothing /\ Answer(e, "replace", "invalid") /\ UNCHANGED view
    BY <1>4 DEF Replace
  <2>2. CASE Nothing
    BY <1>1, <2>2 DEF Nothing, RowBounds
  <2>3. CASE ValidInput(c) /\ Guarded(e, "replace", Live, WithChildren(row, c), "updated")
    <3> DEFINE r == WithChildren(row, c)
    <3>1. row.status \in Live => r \in RowStates /\ r.content \in Contents \ Refused
      BY <1>3, <2>3 DEF WithChildren, ValidInput, RowStates
    <3>2. Guarded(e, "replace", Live, r, "updated") /\ "updated" \in EventTypes
      BY <2>3 DEF EventTypes
    <3> HIDE DEF r
    <3> QED
      BY <1>1, <1>2, <3>1, <3>2, GuardedBounds
  <2> QED
    BY <2>1, <2>2, <2>3
<1>5. CASE Publish(e)
  <2> DEFINE r == [row EXCEPT !.status = "published", !.publishedAt = row.revision + 1]
  <2>1. Guarded(e, "publish", {"draft"}, r, "publish") /\ "publish" \in EventTypes
    BY <1>5 DEF Publish, PublishProject, EventTypes
  <2>2. row.status \in {"draft"} => r \in RowStates /\ r.content = row.content
    BY <1>1, Published DEF RowInv, RowStates
  <2> HIDE DEF r
  <2> QED
    BY <1>1, <1>2, <1>3, <2>1, <2>2, GuardedBounds DEF Live
<1>6. CASE Restore(e)
  <2> DEFINE r == [row EXCEPT !.status = row.pre, !.pre = "none", !.deleted = FALSE]
  <2>1. Guarded(e, "restore", {"deleted"}, r, "restore") /\ "restore" \in EventTypes
    BY <1>6 DEF Restore, RestoreProject, EventTypes
  <2>2. row.status \in {"deleted"} => r \in RowStates /\ r.content = row.content
    BY <1>1, Restored DEF RowInv, RowStates
  <2> HIDE DEF r
  <2> QED
    BY <1>1, <1>2, <1>3, <2>1, <2>2, GuardedBounds
<1>7. CASE Delete(e)
  <2> DEFINE r == [row EXCEPT !.status = "deleted", !.pre = row.status, !.deleted = TRUE]
  <2>1. Guarded(e, "delete", Live, r, "deleted") /\ "deleted" \in EventTypes
    BY <1>7 DEF Delete, DeleteProject, EventTypes
  <2>2. row.status \in Live => r \in RowStates /\ r.content = row.content
    BY <1>1, Deleted DEF RowInv, RowStates
  <2> HIDE DEF r
  <2> QED
    BY <1>1, <1>2, <1>3, <2>1, <2>2, GuardedBounds
<1> QED
    BY <1>4, <1>5, <1>6, <1>7

\* Creation, and the changes of links and logo.
LEMMA OthersKeepBounds ==
    ASSUME EditInv, BoundsInv, NEW e \in Editors,
           Create(e) \/ ReplaceLinks(e) \/ UploadLogo(e) \/ RemoveLogo(e)
    PROVE  RowBounds'
<1>1. RowInv /\ RowBounds
    BY DEF EditInv, BoundsInv
<1>2. CASE UNCHANGED <<row, sync, log>>
    BY <1>1, <1>2 DEF RowBounds
<1>3. CASE Create(e)
  <2> DEFINE r(c) == WithChildren([Absent EXCEPT !.status = "draft"], c)
  <2>1. PICK c \in Contents :
          \/ UNCHANGED <<row, sync, log>>
          \/ ValidInput(c) /\ Committed(r(c), "created")
    BY <1>3 DEF Create
  <2>2. r(c) \in RowStates /\ r(c).content = c
    BY NewProject DEF WithChildren, Absent
  <2>3. row.revision < MaxRevision
    <3>1. row.revision = 0
      BY <1>1, <1>3 DEF Create, RowInv, ColumnsAgree, Absent
    <3> QED
      BY <3>1, BoundsAssumption
  <2>4. "created" \in EventTypes
    BY DEF EventTypes
  <2> HIDE DEF r
  <2>5. CASE ValidInput(c) /\ Committed(r(c), "created")
    <3>1. PICK x : x = r(c)
      OBVIOUS
    <3>2. /\ x \in RowStates /\ x.content \in Contents \ Refused
          /\ Committed(x, "created")
      BY <2>2, <2>5, <3>1 DEF ValidInput
    <3> QED
      BY <1>1, <2>3, <2>4, <3>2, CommittedBounds
  <2> QED
    BY <1>2, <2>1, <2>5
<1>4. ASSUME ReplaceLinks(e) \/ UploadLogo(e) \/ RemoveLogo(e),
             NEW event \in EventTypes, Committed(row, event)
      PROVE  RowBounds'
  <2>1. row.revision < MaxRevision /\ row.status # "absent"
    <3>1. CASE ReplaceLinks(e) \/ RemoveLogo(e)
      BY <3>1, ChangersAreBound DEF ReplaceLinks, RemoveLogo
    <3>2. CASE UploadLogo(e)
      <4>1. row' # row
        <5>1. row'.revision = row.revision + 1 /\ row.revision \in Nat
          BY <1>1, <1>4, CommittedRow DEF RowInv, RowStates
        <5> QED
          BY <5>1
      <4>2. row.revision = view[e].revision
        BY <3>2, <4>1 DEF UploadLogo, LockAnswer
      <4>3. view[e].revision < MaxRevision /\ Complete(view[e])
        BY <3>2 DEF UploadLogo, BoundsInv, ViewBounds, EditInv, DeletingInv
      <4> QED
        BY <4>2, <4>3, ReaderSawRow
    <3> QED
      BY <1>4, <3>1, <3>2
  <2> QED
    BY <1>1, <1>4, <2>1, CommittedBounds DEF RowInv, RowBounds
<1>5. ReplaceLinks(e) \/ UploadLogo(e) \/ RemoveLogo(e) =>
        \/ UNCHANGED <<row, sync, log>>
        \/ \E event \in {"links", "logo", "logo_removed"} : Committed(row, event)
    BY DEF ReplaceLinks, UploadLogo, RemoveLogo, AdvanceAfterLinks
<1>6. {"links", "logo", "logo_removed"} \subseteq EventTypes
    BY DEF EventTypes
<1> QED
    BY <1>2, <1>3, <1>4, <1>5, <1>6

\* Reading adds what the row says, at most four times.
LEMMA ReadKeepsBounds ==
    ASSUME EditInv, BoundsInv, NEW e \in Editors, Read(e)
    PROVE  RowBounds' /\ ViewBounds'
<1>1. /\ row' = row /\ log' = log /\ pc' = pc /\ pc[e] = "ready"
      /\ row.content \in Contents
    BY DEF Read, Nothing, BoundsInv, RowBounds
<1>2. view \in [Editors -> Views] /\ view[e].seen \in Seq(Contents) /\ Len(view[e].seen) <= 4
    BY DEF EditInv, ReadingInv, BoundsInv, ViewBounds
<1>3. PICK v : /\ view' = [view EXCEPT ![e] = v]
               /\ \/ v.seen = <<row.content>>
                  \/ v.seen = Append(view[e].seen, row.content) /\ ~Complete(view[e])
  <2>1. CASE view[e] = NoView \/ Complete(view[e])
    <3>1. view' = [view EXCEPT ![e] = FromRecord]
      BY <2>1 DEF Read
    <3>2. PICK v : v = FromRecord
      OBVIOUS
    <3>3. v.seen = <<row.content>>
      BY <3>2 DEF FromRecord
    <3> QED
      BY <3>1, <3>2, <3>3
  <2>2. CASE ~(view[e] = NoView \/ Complete(view[e]))
    <3>1. view' = [view EXCEPT ![e] = [revision |-> view[e].revision,
                                       seen |-> Append(view[e].seen, row.content)]]
      BY <2>2 DEF Read
    <3>2. PICK v : v = [revision |-> view[e].revision,
                        seen |-> Append(view[e].seen, row.content)]
      OBVIOUS
    <3>3. v.seen = Append(view[e].seen, row.content)
      BY <3>2
    <3> QED
      BY <2>2, <3>1, <3>2, <3>3
  <2> QED
    BY <2>1, <2>2
<1>4. v.seen \in Seq(Contents) /\ Len(v.seen) <= 4
  <2>1. CASE v.seen = <<row.content>>
    BY <1>1, <2>1
  <2>2. CASE v.seen = Append(view[e].seen, row.content) /\ ~Complete(view[e])
    <3>1. Len(view[e].seen) # 4
      BY <2>2, FourQueries DEF Complete
    <3>2. PICK s \in Seq(Contents) : s = view[e].seen
      BY <1>2
    <3>3. Append(s, row.content) \in Seq(Contents) /\ Len(Append(s, row.content)) = Len(s) + 1
      BY <1>1, <3>2
    <3>4. Len(s) \in Nat /\ Len(s) # 4 /\ Len(s) <= 4
      BY <1>2, <3>1, <3>2
    <3>5. v.seen = Append(s, row.content)
      BY <2>2, <3>2
    <3>6. Len(v.seen) <= 4
      <4>1. PICK n \in Nat : n = Len(s)
        BY <3>4
      <4>2. n # 4 /\ n <= 4
        BY <3>4, <4>1
      <4>3. Len(v.seen) = n + 1
        BY <3>3, <3>5, <4>1
      <4> QED
        BY <4>2, <4>3
    <3>7. v.seen \in Seq(Contents)
      BY <3>3, <3>5
    <3> QED
      BY <3>6, <3>7
  <2> QED
    BY <1>3, <2>1, <2>2
<1>5. \A d \in Editors : view'[d] = IF d = e THEN v ELSE view[d]
    BY <1>2, <1>3
<1>6. RowBounds'
    BY <1>1 DEF BoundsInv, RowBounds
<1>7. ViewBounds'
    BY <1>1, <1>4, <1>5 DEF BoundsInv, ViewBounds
<1> QED
    BY <1>6, <1>7

\* Places change, what was read stays.
LEMMA PlacesKeepBounds ==
    ASSUME ViewBounds, view' = view, pc \in [Editors -> {"ready", "deleting", "uploading"}],
           \/ pc' = pc
           \/ \E e \in Editors :
                 \/ pc' = [pc EXCEPT ![e] = "ready"]
                 \/ /\ view[e].revision < MaxRevision
                    /\ \E place : pc' = [pc EXCEPT ![e] = place]
    PROVE  ViewBounds'
BY DEF ViewBounds

\* One step of the types.
LEMMA NextTypes ==
    ASSUME TypeInv, [Next]_vars
    PROVE  TypeInv'
<1>1. EditInv' /\ LogoInv' /\ OwnersInv'
    BY NextEdit, EditStutter, NextLogo, NextOwners DEF TypeInv
<1>2. /\ EditInv /\ BoundsInv /\ ViewBounds /\ RowBounds
      /\ pc \in [Editors -> {"ready", "deleting", "uploading"}]
    BY DEF TypeInv, BoundsInv, EditInv, DeletingInv
<1>3. ASSUME NEW e \in Editors,
             \/ Create(e) \/ Replace(e) \/ Publish(e) \/ Restore(e) \/ Delete(e)
             \/ ReplaceLinks(e) \/ UploadLogo(e) \/ RemoveLogo(e)
      PROVE  BoundsInv'
  <2>1. view' = view /\ (pc' = pc \/ pc' = [pc EXCEPT ![e] = "ready"])
    BY <1>3 DEF Create, Replace, Publish, PublishProject, Restore, RestoreProject,
                Delete, DeleteProject, ReplaceLinks, UploadLogo, RemoveLogo, Nothing, Guarded
  <2>2. ViewBounds'
    BY <1>2, <2>1, PlacesKeepBounds
  <2> QED
    BY <1>2, <1>3, <2>2, EditsKeepBounds, OthersKeepBounds DEF BoundsInv
<1>4. ASSUME NEW e \in Editors, Quiet(e)
      PROVE  BoundsInv'
  <2>1. row' = row /\ log' = log /\ view' = view
    BY <1>4 DEF Quiet, ConfirmDelete, Nothing, PutLogo, UploadFails
  <2>2. \/ pc' = pc
        \/ pc' = [pc EXCEPT ![e] = "ready"]
        \/ /\ view[e].revision < MaxRevision
           /\ \E place : pc' = [pc EXCEPT ![e] = place]
    BY <1>2, <1>4, ChangersAreBound DEF Quiet, ConfirmDelete, PutLogo, UploadFails
  <2>3. ViewBounds'
    BY <1>2, <2>1, <2>2, PlacesKeepBounds
  <2> QED
    BY <1>2, <2>1, <2>3 DEF BoundsInv, RowBounds
<1>5. ASSUME NEW e \in Editors, Read(e)
      PROVE  BoundsInv'
    BY <1>2, <1>5, ReadKeepsBounds DEF BoundsInv
<1>6. CASE ServeLogo \/ UNCHANGED vars
  <2>1. row' = row /\ log' = log /\ view' = view /\ pc' = pc
    BY <1>6 DEF ServeLogo, vars
  <2> QED
    <3>1. RowBounds'
      BY <1>2, <2>1 DEF RowBounds
    <3>2. ViewBounds'
      BY <1>2, <2>1, PlacesKeepBounds
    <3> QED
      BY <1>1, <3>1, <3>2 DEF BoundsInv, TypeInv
<1> QED
    BY <1>1, <1>3, <1>4, <1>5, <1>6 DEF TypeInv, Next, Quiet

\* What the invariant says in the words of the model.
LEMMA TypesHold == TypeInv => TypeOK
<1> SUFFICES ASSUME TypeInv PROVE TypeOK
    OBVIOUS
<1>1. /\ RowInv /\ RowBounds /\ ViewBounds /\ StoredInv /\ LogosInv /\ OwnersInv
      /\ view \in [Editors -> Views] /\ \A e \in Editors : view[e].revision <= row.revision
      /\ \A l \in logos : l.key <= Cardinality(stored)
    BY DEF TypeInv, EditInv, ReadingInv, LogoInv, BoundsInv
<1>2. /\ row.status \in {"absent", "draft", "published", "deleted"}
      /\ row.revision \in 0 .. MaxRevision
      /\ row.content \in (Contents \ Refused) \cup {"none"}
      /\ log \in Seq(EventTypes)
    BY <1>1, BoundsAssumption DEF RowInv, RowStates, RowBounds
<1>3. Cardinality(stored) \in Nat /\ Cardinality(stored) <= MaxUploads
    BY <1>1, FS_CardinalityType DEF StoredInv, OwnersInv
<1>4. \A o \in stored : o.key \in 1 .. Cardinality(stored) /\ o.key \in 1 .. MaxUploads
    BY <1>1, <1>3, BoundsAssumption DEF StoredInv, Objects
<1>5. {o.key : o \in stored} = 1 .. Cardinality(stored)
    BY <1>1, <1>4 DEF OwnersInv
<1>6. stored \subseteq [key : 1 .. MaxUploads, image : Images,
                        owner : Editors \cup {"row", "removed"}]
    BY <1>1, <1>4 DEF StoredInv, Objects
<1>7. logos \subseteq [revision : Nat \ {0}, status : {"active", "deleted"},
                       key : 1 .. MaxUploads]
  <2>1. \A l \in logos : l.key \in 1 .. MaxUploads
    BY <1>1, <1>3, BoundsAssumption DEF LogosInv, LogoRows
  <2> QED
    BY <1>1, <2>1 DEF LogosInv, LogoRows
<1>8. \A e \in Editors : (pc[e] = "uploading") <=> \E o \in stored : o.owner = e
    BY <1>1 DEF StoredInv, OwnersInv
<1>9. view \in [Editors -> [revision : 0 .. MaxRevision,
                            seen : UNION {[1 .. n -> Contents] : n \in 0 .. 4}]]
  <2> SUFFICES ASSUME NEW e \in Editors
               PROVE  view[e] \in [revision : 0 .. MaxRevision,
                                   seen : UNION {[1 .. n -> Contents] : n \in 0 .. 4}]
    BY <1>1
  <2>1. PICK s \in Seq(Contents) : s = view[e].seen /\ Len(s) <= 4
    BY <1>1 DEF ViewBounds
  <2>2. Len(s) \in 0 .. 4 /\ s \in [1 .. Len(s) -> Contents]
    <3>1. Len(s) \in Nat /\ DOMAIN s = 1 .. Len(s)
      OBVIOUS
    <3>2. \A i \in 1 .. Len(s) : s[i] \in Contents
      OBVIOUS
    <3>3. s = [i \in 1 .. Len(s) |-> s[i]]
      BY <3>1
    <3>4. s \in [1 .. Len(s) -> Contents]
      BY <3>2, <3>3
    <3>5. Len(s) \in 0 .. 4
      <4>1. PICK n \in Nat : n = Len(s)
        BY <3>1
      <4>2. n <= 4
        BY <2>1, <4>1
      <4> QED
        BY <4>1, <4>2
    <3> QED
      BY <3>4, <3>5
  <2>3. s \in UNION {[1 .. n -> Contents] : n \in 0 .. 4}
    BY <2>2
  <2>4. view[e].revision \in 0 .. MaxRevision
    BY <1>1, <1>2, BoundsAssumption DEF Views
  <2> QED
    BY <1>1, <2>1, <2>3, <2>4 DEF Views
<1> QED
    BY <1>2, <1>5, <1>6, <1>7, <1>8, <1>9 DEF TypeOK

\* The types hold, and so do the status columns and the accepted links.
THEOREM ProjectTheorem == Spec => []ProjectInv
<1>1. TypeInv /\ [Next]_vars => TypeInv'
    BY NextTypes
<1>2. Spec => []TypeOK
    BY <1>1, InitTypes, TypesHold, PTL DEF Spec
<1> QED
    BY <1>2, StatusColumnsTheorem, LinksTheorem, PTL DEF ProjectInv

\* No step deletes what was not confirmed, changes anything without a revision
\* or moves the publication date.
THEOREM HistoryTheorem == Spec => HistoryIsKept
BY ConfirmedTheorem, RevisionTheorem, PublishedOnceTheorem DEF HistoryIsKept

-------------------------------------------------------------------------------
(* The audit log.                                                            *)

Beginning == [status |-> "absent", before |-> "none", logo |-> FALSE]
StoryOf(l) == FoldLeft(Replayed, Beginning, l)

\* The function FoldLeft chooses: what the events of a set of places say, the
\* last of them on top of the others.
IsReplay(G, l) ==
    G = [s \in SUBSET (DOMAIN l) |->
           IF s = {} THEN Beginning ELSE Replayed(G[s \ {Max(s)}], l[Max(s)])]
\* There is one, and one only.
HasReplay(F, l) == \A G : IsReplay(G, l) <=> G = F
OneReplay(l) ==
    /\ \E F : HasReplay(F, l)
    /\ \A s \in SUBSET (DOMAIN l) : s # {} => Max(s) \in s

\* The fold is the replay of the whole log.
LEMMA StoryIs ==
    ASSUME NEW l, NEW F, HasReplay(F, l)
    PROVE  StoryOf(l) = F[DOMAIN l]
<1>1. StoryOf(l) = (CHOOSE G : IsReplay(G, l))[DOMAIN l]
    BY DEF StoryOf, FoldLeft, MapThenFoldSet, IsReplay
<1>2. IsReplay(CHOOSE G : IsReplay(G, l), l)
    BY DEF HasReplay
<1> QED
    BY <1>1, <1>2 DEF HasReplay

\* Nothing has happened in an empty log.
LEMMA EmptyStory == OneReplay(<< >>) /\ StoryOf(<< >>) = Beginning
<1> DEFINE F == [s \in SUBSET (DOMAIN << >>) |-> Beginning]
<1>1. SUBSET (DOMAIN << >>) = {{}}
    OBVIOUS
<1>2. \A G : IsReplay(G, << >>) <=> G = F
    BY <1>1 DEF IsReplay
<1>3. HasReplay(F, << >>)
    BY <1>2 DEF HasReplay
<1>4. F[DOMAIN << >>] = Beginning
    OBVIOUS
<1> HIDE DEF F
<1> QED
    BY <1>1, <1>3, <1>4, StoryIs DEF OneReplay

\* The last place of a set of places.
LEMMA LastPlace ==
    ASSUME NEW n \in Nat, NEW s \in SUBSET (1 .. n + 1), n + 1 \in s
    PROVE  Max(s) = n + 1
<1>1. n + 1 \in s /\ \A y \in s : n + 1 >= y
    OBVIOUS
<1>2. Max(s) \in s /\ \A y \in s : Max(s) >= y
    BY <1>1 DEF Max
<1>3. Max(s) \in 1 .. n + 1 /\ Max(s) >= n + 1
    BY <1>1, <1>2
<1> QED
    BY <1>3

\* One more event is told on top of the story so far.
LEMMA StoryGrows ==
    ASSUME NEW T, NEW l \in Seq(T), NEW event \in T, OneReplay(l)
    PROVE  /\ OneReplay(Append(l, event))
           /\ StoryOf(Append(l, event)) = Replayed(StoryOf(l), event)
<1>1. PICK F : HasReplay(F, l)
    BY DEF OneReplay
<1>2. PICK n \in Nat : n = Len(l)
    OBVIOUS
<1>3. PICK m : m = Append(l, event)
    OBVIOUS
<1>4. /\ DOMAIN l = 1 .. n /\ DOMAIN m = 1 .. n + 1 /\ m[n + 1] = event
      /\ \A i \in 1 .. n : m[i] = l[i]
    BY <1>2, <1>3
<1>5. IsReplay(F, l)
    BY <1>1 DEF HasReplay
<1> DEFINE H == [s \in SUBSET (1 .. n + 1) |->
                   IF n + 1 \in s THEN Replayed(F[s \ {n + 1}], event) ELSE F[s]]
<1>6. \A s \in SUBSET (1 .. n + 1) : n + 1 \in s => Max(s) = n + 1
    BY LastPlace
<1>7. \A s \in SUBSET (1 .. n + 1) : n + 1 \notin s => s \in SUBSET (1 .. n)
    OBVIOUS
<1>8. \A s \in SUBSET (1 .. n + 1) : s \ {n + 1} \in SUBSET (1 .. n)
    OBVIOUS
<1>9. \A s \in SUBSET (1 .. n) : s # {} => Max(s) \in s /\ m[Max(s)] = l[Max(s)]
    BY <1>4 DEF OneReplay
<1>10. \A s \in SUBSET (1 .. n + 1) : s # {} => Max(s) \in s
    BY <1>6, <1>7, <1>9
<1>11. \A s \in SUBSET (1 .. n) :
         F[s] = IF s = {} THEN Beginning ELSE Replayed(F[s \ {Max(s)}], l[Max(s)])
    BY <1>4, <1>5 DEF IsReplay
<1>12. IsReplay(H, m)
  <2>1. \A s \in SUBSET (1 .. n + 1) :
          H[s] = IF s = {} THEN Beginning ELSE Replayed(H[s \ {Max(s)}], m[Max(s)])
    <3> SUFFICES ASSUME NEW s \in SUBSET (1 .. n + 1)
                 PROVE  H[s] = IF s = {} THEN Beginning
                               ELSE Replayed(H[s \ {Max(s)}], m[Max(s)])
      OBVIOUS
    <3>1. CASE n + 1 \in s
      <4>1. PICK t \in SUBSET (1 .. n) : t = s \ {n + 1} /\ n + 1 \notin t
        BY <1>8
      <4>2. H[s] = Replayed(F[t], event)
        BY <3>1, <4>1
      <4>3. t \in SUBSET (1 .. n + 1) /\ H[t] = F[t]
        BY <4>1
      <4>4. s # {} /\ Max(s) = n + 1 /\ m[Max(s)] = event
        BY <1>4, <1>6, <3>1
      <4> HIDE DEF H
      <4> QED
        BY <4>1, <4>2, <4>3, <4>4
    <3>2. CASE n + 1 \notin s
      <4>1. s \in SUBSET (1 .. n) /\ H[s] = F[s]
        BY <1>7, <3>2
      <4>2. CASE s = {}
        BY <1>11, <4>1, <4>2
      <4>3. CASE s # {}
        <5>1. PICK t \in SUBSET (1 .. n) : t = s \ {Max(s)} /\ n + 1 \notin t
          BY <3>2, <4>1
        <5>2. t \in SUBSET (1 .. n + 1) /\ H[t] = F[t]
          BY <5>1
        <5>3. F[s] = Replayed(F[t], m[Max(s)])
          BY <1>9, <1>11, <4>1, <4>3, <5>1
        <5> HIDE DEF H
        <5> QED
          BY <4>1, <4>3, <5>1, <5>2, <5>3
      <4> QED
        BY <4>2, <4>3
    <3> QED
      BY <3>1, <3>2
  <2>2. H = [s \in SUBSET (1 .. n + 1) |-> H[s]]
    OBVIOUS
  <2> HIDE DEF H
  <2>3. H = [s \in SUBSET (1 .. n + 1) |->
               IF s = {} THEN Beginning ELSE Replayed(H[s \ {Max(s)}], m[Max(s)])]
    BY <2>1, <2>2
  <2> QED
    BY <1>4, <2>3 DEF IsReplay
<1>13. ASSUME NEW G, IsReplay(G, m) PROVE G = H
  <2>1. G = [s \in SUBSET (1 .. n + 1) |->
               IF s = {} THEN Beginning ELSE Replayed(G[s \ {Max(s)}], m[Max(s)])]
    BY <1>4, <1>13 DEF IsReplay
  <2>2. \A s \in SUBSET (1 .. n + 1) :
          G[s] = IF s = {} THEN Beginning ELSE Replayed(G[s \ {Max(s)}], m[Max(s)])
    BY <2>1
  <2> DEFINE R == [s \in SUBSET (1 .. n) |-> G[s]]
  <2>3. \A s \in SUBSET (1 .. n) : R[s] = G[s]
    OBVIOUS
  <2>4. \A s \in SUBSET (1 .. n) :
          R[s] = IF s = {} THEN Beginning ELSE Replayed(R[s \ {Max(s)}], l[Max(s)])
    <3> HIDE DEF R
    <3> SUFFICES ASSUME NEW s \in SUBSET (1 .. n)
                 PROVE  R[s] = IF s = {} THEN Beginning
                               ELSE Replayed(R[s \ {Max(s)}], l[Max(s)])
      OBVIOUS
    <3>1. s \in SUBSET (1 .. n + 1) /\ R[s] = G[s]
      BY <2>3
    <3>2. CASE s = {}
      BY <2>2, <3>1, <3>2
    <3>3. CASE s # {}
      <4>1. PICK t \in SUBSET (1 .. n) : t = s \ {Max(s)}
        OBVIOUS
      <4>2. G[s] = Replayed(G[t], l[Max(s)])
        BY <1>9, <2>2, <3>1, <3>3, <4>1
      <4> QED
        BY <2>3, <3>1, <3>3, <4>1, <4>2
    <3> QED
      BY <3>2, <3>3
  <2>5. R = [s \in SUBSET (1 .. n) |-> R[s]]
    OBVIOUS
  <2>6. IsReplay(R, l)
    <3> HIDE DEF R
    <3>1. R = [s \in SUBSET (1 .. n) |->
                 IF s = {} THEN Beginning ELSE Replayed(R[s \ {Max(s)}], l[Max(s)])]
      BY <2>4, <2>5
    <3> QED
      BY <1>4, <3>1 DEF IsReplay
  <2>7. R = F
    <3> HIDE DEF R
    <3> QED
      BY <1>1, <2>6 DEF HasReplay
  <2>8. \A s \in SUBSET (1 .. n) : G[s] = F[s]
    <3> HIDE DEF R
    <3> QED
      BY <2>3, <2>7
  <2>9. \A s \in SUBSET (1 .. n + 1) :
          G[s] = IF n + 1 \in s THEN Replayed(F[s \ {n + 1}], event) ELSE F[s]
    <3> SUFFICES ASSUME NEW s \in SUBSET (1 .. n + 1)
                 PROVE  G[s] = IF n + 1 \in s THEN Replayed(F[s \ {n + 1}], event)
                               ELSE F[s]
      OBVIOUS
    <3>1. CASE n + 1 \in s
      <4>1. PICK t \in SUBSET (1 .. n) : t = s \ {n + 1}
        BY <1>8
      <4>2. s # {} /\ Max(s) = n + 1 /\ m[Max(s)] = event
        BY <1>4, <1>6, <3>1
      <4> QED
        BY <2>2, <2>8, <3>1, <4>1, <4>2
    <3>2. CASE n + 1 \notin s
      BY <1>7, <2>8, <3>2
    <3> QED
      BY <3>1, <3>2
  <2>10. G = [s \in SUBSET (1 .. n + 1) |-> G[s]]
    BY <2>1
  <2> QED
    BY <2>9, <2>10
<1>14. H[1 .. n + 1] = Replayed(F[1 .. n], event)
  <2>1. (1 .. n + 1) \in SUBSET (1 .. n + 1) /\ n + 1 \in 1 .. n + 1
    OBVIOUS
  <2>2. (1 .. n + 1) \ {n + 1} = 1 .. n
    OBVIOUS
  <2> QED
    BY <2>1, <2>2
<1>15. HasReplay(H, m)
  <2> HIDE DEF H
  <2> QED
    BY <1>12, <1>13 DEF HasReplay
<1>16. StoryOf(m) = H[1 .. n + 1] /\ StoryOf(l) = F[1 .. n]
  <2> HIDE DEF H
  <2> QED
    BY <1>1, <1>4, <1>15, StoryIs
<1> HIDE DEF H
<1>17. OneReplay(m)
    BY <1>4, <1>10, <1>15 DEF OneReplay
<1> QED
    BY <1>3, <1>14, <1>16, <1>17

Names == {"none", "absent", "draft", "published", "deleted"}
Stories == [status : Names, before : Names, logo : BOOLEAN]

\* A story that ends at a row and its active logos.
EndsAt(s, r, active) ==
    /\ s \in Stories /\ s.status = r.status
    /\ s.logo = TRUE <=> active # {}
    /\ r.status = "deleted" => s.before = r.pre

\* What an event of the log says about the row and the active logos before
\* and after it.
Happened(event, r, n, old, new) ==
    \/ event = "created" /\ n.status = "draft" /\ new = old
    \/ event = "updated" /\ n.status = r.status /\ n.pre = r.pre /\ new = old
    \/ event = "publish" /\ n.status = "published" /\ new = old
    \/ event = "restore" /\ r.status = "deleted" /\ n.status = r.pre
                         /\ n.status \in Live /\ new = old
    \/ event = "deleted" /\ n.status = "deleted" /\ n.pre = r.status /\ new = old
    \/ event = "links" /\ n.status = r.status /\ n.pre = r.pre /\ new = old
    \/ event = "logo" /\ n.status = r.status /\ n.pre = r.pre /\ new # {}
    \/ event = "logo_removed" /\ n.status = r.status /\ n.pre = r.pre /\ new = {}

\* The story goes on to where the event leads.
LEMMA StoryFollows ==
    ASSUME NEW s, NEW r, NEW n, NEW old, NEW new, NEW event,
           EndsAt(s, r, old), Happened(event, r, n, old, new)
    PROVE  EndsAt(Replayed(s, event), n, new)
<1>1. PICK t : t = Replayed(s, event)
    OBVIOUS
<1>2. /\ event = "created" => t.status = "draft" /\ t.before = s.before /\ t.logo = s.logo
      /\ event = "publish" => t.status = "published" /\ t.before = s.before /\ t.logo = s.logo
      /\ event = "deleted" => t.status = "deleted" /\ t.before = s.status /\ t.logo = s.logo
      /\ event = "restore" => t.status = s.before /\ t.before = s.before /\ t.logo = s.logo
      /\ event \in {"updated", "links"} =>
            t.status = s.status /\ t.before = s.before /\ t.logo = s.logo
      /\ event = "logo" => t.status = s.status /\ t.before = s.before /\ t.logo = TRUE
      /\ event = "logo_removed" =>
            t.status = s.status /\ t.before = s.before /\ t.logo = FALSE
    BY <1>1 DEF Replayed
<1>3. t = [status |-> t.status, before |-> t.before, logo |-> t.logo]
    BY <1>1 DEF Replayed
<1>4. s.status \in Names /\ s.before \in Names /\ s.logo \in BOOLEAN
    BY DEF EndsAt, Stories
<1>5. t.status \in Names /\ t.before \in Names /\ t.logo \in BOOLEAN
    BY <1>2, <1>4 DEF Happened, Names
<1>6. t \in Stories
    BY <1>3, <1>5 DEF Stories
<1>7. t.status = n.status
    BY <1>2 DEF EndsAt, Happened
<1>8. t.logo = TRUE <=> new # {}
    BY <1>2, <1>4 DEF EndsAt, Happened
<1>9. n.status = "deleted" => t.before = n.pre
    BY <1>2 DEF EndsAt, Happened, Live
<1> QED
    BY <1>1, <1>6, <1>7, <1>8, <1>9 DEF EndsAt

\* A step logs what happened to the project, or changes nothing of it.
Logs(event) ==
    /\ event \in EventTypes
    /\ log' = Append(log, event)
    /\ sync' = [revision |-> row.revision + 1, action |-> ActionOf(row'.status)]
    /\ row'.revision = row.revision + 1
    /\ Happened(event, row, row', Active, Active')
LogsNothing == UNCHANGED <<row, sync, log>> /\ Active' = Active

\* What a committed change logs.
LEMMA CommittedLogs ==
    ASSUME RowInv, NEW r \in RowStates, NEW event \in EventTypes, Committed(r, event)
    PROVE  /\ log' = Append(log, event)
           /\ sync' = [revision |-> row.revision + 1, action |-> ActionOf(row'.status)]
           /\ row'.revision = row.revision + 1
           /\ row'.status = r.status /\ row'.pre = r.pre
<1>1. row'.revision = row.revision + 1 /\ row'.status = r.status /\ row'.pre = r.pre
    BY CommittedRow DEF RowInv
<1> QED
    BY <1>1 DEF Committed

\* A guarded change logs its event.
LEMMA GuardedLogs ==
    ASSUME RowInv, NEW e, NEW op, NEW statuses, NEW r, NEW event \in EventTypes,
           Guarded(e, op, statuses, r, event),
           row.status \in statuses =>
               /\ r \in RowStates
               /\ \A n : n.status = r.status /\ n.pre = r.pre =>
                     Happened(event, row, n, Active, Active)
    PROVE  Logs(event) \/ LogsNothing
<1>1. Active' = Active
    BY DEF Guarded, Active
<1>2. CASE UNCHANGED <<row, sync, log>>
    BY <1>1, <1>2 DEF LogsNothing
<1>3. CASE row.status \in statuses /\ Committed(r, event)
  <2>1. /\ log' = Append(log, event)
        /\ sync' = [revision |-> row.revision + 1, action |-> ActionOf(row'.status)]
        /\ row'.revision = row.revision + 1
        /\ row'.status = r.status /\ row'.pre = r.pre
    BY <1>3, CommittedLogs
  <2>2. Happened(event, row, row', Active, Active)
    BY <1>3, <2>1
  <2>3. Happened(event, row, row', Active, Active')
    BY <1>1, <2>2
  <2> QED
    BY <2>1, <2>3 DEF Logs
<1> QED
    BY <1>2, <1>3 DEF Guarded

\* The guarded changes.
LEMMA EditsLog ==
    ASSUME EditInv, NEW e \in Editors,
           Replace(e) \/ Publish(e) \/ Restore(e) \/ Delete(e)
    PROVE  LogsNothing \/ \E event : Logs(event)
<1>1. RowInv /\ row \in RowStates
    BY DEF EditInv, RowInv
<1>2. CASE Replace(e)
  <2>1. PICK c \in Contents :
          IF ValidInput(c)
          THEN Guarded(e, "replace", Live, WithChildren(row, c), "updated")
          ELSE Nothing /\ Answer(e, "replace", "invalid") /\ UNCHANGED view
    BY <1>2 DEF Replace
  <2>2. CASE Nothing
    BY <2>2 DEF Nothing, LogsNothing, Active
  <2>3. CASE ValidInput(c) /\ Guarded(e, "replace", Live, WithChildren(row, c), "updated")
    <3>1. PICK r : r = WithChildren(row, c)
      OBVIOUS
    <3>2. r \in RowStates /\ r.status = row.status /\ r.pre = row.pre
      BY <1>1, <3>1 DEF WithChildren, RowStates
    <3>3. \A n : n.status = r.status /\ n.pre = r.pre =>
            Happened("updated", row, n, Active, Active)
      BY <3>2 DEF Happened
    <3>4. "updated" \in EventTypes /\ Guarded(e, "replace", Live, r, "updated")
      BY <2>3, <3>1 DEF EventTypes
    <3> QED
      BY <1>1, <3>2, <3>3, <3>4, GuardedLogs
  <2> QED
    BY <2>1, <2>2, <2>3
<1>3. CASE Publish(e)
  <2>1. PICK r : r = [row EXCEPT !.status = "published",
                                 !.publishedAt = row.revision + 1]
    OBVIOUS
  <2>2. "publish" \in EventTypes /\ Guarded(e, "publish", {"draft"}, r, "publish")
    BY <1>3, <2>1 DEF Publish, PublishProject, EventTypes
  <2>3. row.status = "draft" => r \in RowStates /\ r.status = "published"
    BY <1>1, <2>1, Published DEF RowInv
  <2>4. row.status = "draft" => \A n : n.status = r.status /\ n.pre = r.pre =>
          Happened("publish", row, n, Active, Active)
    BY <2>3 DEF Happened
  <2> QED
    BY <1>1, <2>2, <2>3, <2>4, GuardedLogs
<1>4. CASE Restore(e)
  <2>1. PICK r : r = [row EXCEPT !.status = row.pre, !.pre = "none", !.deleted = FALSE]
    OBVIOUS
  <2>2. "restore" \in EventTypes /\ Guarded(e, "restore", {"deleted"}, r, "restore")
    BY <1>4, <2>1 DEF Restore, RestoreProject, EventTypes
  <2>3. row.status = "deleted" =>
          r \in RowStates /\ r.status = row.pre /\ row.pre \in Live
    <3>1. r.status = row.pre
      BY <1>1, <2>1 DEF RowStates
    <3>2. row.status = "deleted" => row.pre \in Live
      BY <1>1 DEF RowInv, ColumnsAgree, Live
    <3> QED
      BY <1>1, <2>1, <3>1, <3>2, Restored DEF RowInv
  <2>4. row.status = "deleted" => \A n : n.status = r.status /\ n.pre = r.pre =>
          Happened("restore", row, n, Active, Active)
    BY <2>3 DEF Happened
  <2> QED
    BY <1>1, <2>2, <2>3, <2>4, GuardedLogs
<1>5. CASE Delete(e)
  <2>1. PICK r : r = [row EXCEPT !.status = "deleted", !.pre = row.status, !.deleted = TRUE]
    OBVIOUS
  <2>2. "deleted" \in EventTypes /\ Guarded(e, "delete", Live, r, "deleted")
    BY <1>5, <2>1 DEF Delete, DeleteProject, EventTypes
  <2>3. row.status \in Live =>
          r \in RowStates /\ r.status = "deleted" /\ r.pre = row.status
    <3>1. r.status = "deleted" /\ r.pre = row.status
      BY <1>1, <2>1 DEF RowStates
    <3> QED
      BY <1>1, <2>1, <3>1, Deleted DEF RowInv
  <2>4. row.status \in Live => \A n : n.status = r.status /\ n.pre = r.pre =>
          Happened("deleted", row, n, Active, Active)
    BY <2>3 DEF Happened
  <2> QED
    BY <1>1, <2>2, <2>3, <2>4, GuardedLogs
<1> QED
    BY <1>2, <1>3, <1>4, <1>5

\* Creation, and the changes of links and logo.
LEMMA OthersLog ==
    ASSUME EditInv, LogoInv, NEW e \in Editors,
           Create(e) \/ ReplaceLinks(e) \/ UploadLogo(e) \/ RemoveLogo(e)
    PROVE  LogsNothing \/ \E event : Logs(event)
<1>1. RowInv /\ row \in RowStates /\ {"created", "links", "logo", "logo_removed"} \subseteq EventTypes
    BY DEF EditInv, RowInv, EventTypes
<1>2. CASE UNCHANGED <<row, sync, log>> /\ logos' = logos
    BY <1>2 DEF LogsNothing, Active
<1>3. CASE Create(e)
  <2>1. PICK c \in Contents :
          \/ UNCHANGED <<row, sync, log>>
          \/ Committed(WithChildren([Absent EXCEPT !.status = "draft"], c), "created")
    BY <1>3 DEF Create
  <2>2. PICK r : r = WithChildren([Absent EXCEPT !.status = "draft"], c)
    OBVIOUS
  <2>3. r \in RowStates /\ r.status = "draft"
    BY <2>2, NewProject
  <2>4. logos' = logos /\ Active' = Active
    BY <1>3 DEF Create, Active
  <2>5. CASE Committed(r, "created")
    BY <1>1, <2>3, <2>4, <2>5, CommittedLogs DEF Logs, Happened
  <2> QED
    BY <1>2, <2>1, <2>2, <2>4, <2>5
<1>4. CASE ReplaceLinks(e)
  <2>1. logos' = logos /\ Active' = Active
    BY <1>4 DEF ReplaceLinks, Active
  <2>2. UNCHANGED <<row, sync, log>> \/ Committed(row, "links")
    BY <1>4 DEF ReplaceLinks, AdvanceAfterLinks
  <2>3. CASE Committed(row, "links")
    BY <1>1, <2>1, <2>3, CommittedLogs DEF Logs, Happened
  <2> QED
    BY <1>2, <2>1, <2>2, <2>3
<1>5. CASE UploadLogo(e)
  <2>1. \/ UNCHANGED <<row, sync, log>> /\ logos' = logos
        \/ /\ Committed(row, "logo")
           /\ \E n, k : [revision |-> n, status |-> "active", key |-> k] \in logos'
    BY <1>5 DEF UploadLogo
  <2>2. CASE /\ Committed(row, "logo")
             /\ \E n, k : [revision |-> n, status |-> "active", key |-> k] \in logos'
    <3>1. Active' # {}
      BY <2>2 DEF Active
    <3> QED
      BY <1>1, <2>2, <3>1, CommittedLogs DEF Logs, Happened
  <2> QED
    BY <1>2, <2>1, <2>2
<1>6. CASE RemoveLogo(e)
  <2>1. \/ UNCHANGED <<row, sync, log>> /\ logos' = logos
        \/ Committed(row, "logo_removed") /\ logos' = RetiredLogos
    BY <1>6 DEF RemoveLogo
  <2>2. CASE Committed(row, "logo_removed") /\ logos' = RetiredLogos
    <3>1. Active' = {}
      BY <2>2, RetiredAreDeleted DEF Active, LogoInv
    <3> QED
      BY <1>1, <2>2, <3>1, CommittedLogs DEF Logs, Happened
  <2> QED
    BY <1>2, <2>1, <2>2
<1> QED
    BY <1>3, <1>4, <1>5, <1>6

\* Every step.
LEMMA NextLogs ==
    ASSUME EditInv, LogoInv, [Next]_vars
    PROVE  LogsNothing \/ \E event : Logs(event)
<1>1. ASSUME NEW e \in Editors, Quiet(e) \/ Read(e) PROVE LogsNothing
    BY <1>1 DEF Quiet, Read, ConfirmDelete, PutLogo, UploadFails, Nothing, LogsNothing, Active
<1>2. CASE ServeLogo \/ UNCHANGED vars
    BY <1>2 DEF ServeLogo, vars, LogsNothing, Active
<1> QED
    BY <1>1, <1>2, EditsLog, OthersLog DEF Next, Quiet

\* The story of the log ends at the row, and one event and one request of the
\* search index went with every revision.
StoryInv ==
    /\ log \in Seq(EventTypes)
    /\ OneReplay(log)
    /\ EndsAt(StoryOf(log), row, Active)
    /\ Len(log) = row.revision /\ sync.revision = row.revision
    /\ row.status # "absent" => sync.action = ActionOf(row.status)

\* One step of the story.
LEMMA NextStory ==
    ASSUME EditInv, LogoInv, StoryInv, [Next]_vars
    PROVE  StoryInv'
<1>1. CASE LogsNothing
    BY <1>1 DEF LogsNothing, StoryInv
<1>2. ASSUME NEW event, Logs(event) PROVE StoryInv'
  <2>1. event \in EventTypes /\ log' = Append(log, event) /\ log \in Seq(EventTypes)
    BY <1>2 DEF Logs, StoryInv
  <2>2. OneReplay(log') /\ StoryOf(log') = Replayed(StoryOf(log), event)
    BY <2>1, StoryGrows DEF StoryInv
  <2>3. EndsAt(StoryOf(log'), row', Active')
    BY <1>2, <2>2, StoryFollows DEF Logs, StoryInv
  <2>4. log' \in Seq(EventTypes) /\ Len(log') = Len(log) + 1
    BY <2>1
  <2>5. Len(log') = row'.revision
    BY <1>2, <2>4 DEF Logs, StoryInv
  <2>6. sync'.revision = row'.revision /\ sync'.action = ActionOf(row'.status)
    BY <1>2 DEF Logs
  <2>7. ActionOf(row.status)' = ActionOf(row'.status)
    BY DEF ActionOf
  <2> QED
    BY <2>2, <2>3, <2>4, <2>5, <2>6, <2>7 DEF StoryInv
<1> QED
    BY <1>1, <1>2, NextLogs

\* Replaying the audit log gives the project as it is, whatever was done to it.
THEOREM AuditTheorem == Spec => []AuditTellsTheStory
<1>1. Init => StoryInv
  <2> SUFFICES ASSUME Init PROVE StoryInv
    OBVIOUS
  <2>1. log = << >> /\ row.revision = 0 /\ row.status = "absent" /\ sync.revision = 0
    BY DEF Init, Absent
  <2>2. OneReplay(log) /\ StoryOf(log) = Beginning
    BY <2>1, EmptyStory
  <2>3. Active = {}
    BY DEF Init, Active
  <2>4. EndsAt(Beginning, row, Active)
    BY <2>1, <2>3 DEF EndsAt, Beginning, Stories, Names
  <2>5. log \in Seq(EventTypes) /\ Len(log) = 0
    BY <2>1
  <2> QED
    BY <2>1, <2>2, <2>4, <2>5 DEF StoryInv
<1>2. EditInv /\ LogoInv /\ StoryInv /\ [Next]_vars => EditInv' /\ LogoInv' /\ StoryInv'
    BY NextEdit, EditStutter, NextLogo, NextStory
<1>3. StoryInv => AuditTellsTheStory
  <2> SUFFICES ASSUME StoryInv PROVE AuditTellsTheStory
    OBVIOUS
  <2>1. Story = StoryOf(log)
    BY DEF Story, StoryOf, Beginning
  <2>2. Story.status = row.status /\ (Story.logo = TRUE <=> Active # {}) /\ Story.logo \in BOOLEAN
    BY <2>1 DEF StoryInv, EndsAt, Stories
  <2> QED
    BY <2>2 DEF StoryInv, AuditTellsTheStory
<1> QED
    BY <1>1, <1>2, <1>3, InitEdit, InitLogos, PTL DEF Spec

-------------------------------------------------------------------------------
(* Induction, and functions defined by it.                                   *)

\* A set of subsets has a least one.
LEMMA LeastSubset ==
    ASSUME NEW S, IsFiniteSet(S), NEW B, B \subseteq SUBSET S, B # {}
    PROVE  \E T \in B : \A U \in B : U \subseteq T => U = T
<1>1. IsWellFoundedOn(StrictSubsetOrdering(S), SUBSET S)
    BY FS_StrictSubsetOrderingWellFounded, FS_FiniteSubsetsOfFinite
<1>2. PICK T \in B : \A U \in B : ~(<<U, T>> \in StrictSubsetOrdering(S))
    BY <1>1, WFMin
<1> QED
    BY <1>2 DEF StrictSubsetOrdering

\* A set of numbers with 0 that is closed under successors up to n.
LEMMA UpTo ==
    ASSUME NEW n \in Nat, NEW P, 0 \in P, \A i \in 0 .. n : i \in P /\ i < n => i + 1 \in P
    PROVE  0 .. n \subseteq P
<1> DEFINE T == {i \in 0 .. n : i \notin P}
           B == {0 .. i : i \in T}
<1>1. SUFFICES ASSUME T # {} PROVE FALSE
    OBVIOUS
<1>2. PICK U \in B : \A V \in B : V \subseteq U => V = U
  <2>1. \A i \in T : 0 .. i \subseteq 0 .. n
    OBVIOUS
  <2>2. PICK S : S = 0 .. n
    OBVIOUS
  <2>3. IsFiniteSet(S)
    BY <2>2, FS_Interval
  <2>4. B \subseteq SUBSET S /\ B # {}
    BY <1>1, <2>1, <2>2
  <2> HIDE DEF B
  <2> QED
    BY <2>3, <2>4, LeastSubset
<1>3. PICK i \in T : U = 0 .. i
    OBVIOUS
<1>4. i # 0 /\ i - 1 \in 0 .. n
    OBVIOUS
<1>5. i - 1 \notin T
  <2>1. SUFFICES ASSUME i - 1 \in T PROVE FALSE
    OBVIOUS
  <2>2. 0 .. i - 1 \in B /\ 0 .. i - 1 \subseteq U
    BY <2>1, <1>3, <1>4
  <2>3. 0 .. i - 1 = 0 .. i
    BY <2>2, <1>2, <1>3
  <2> QED
    BY <2>3, <1>4
<1> QED
    BY <1>4, <1>5

\* The values of a recursive function, step being what it does with the last one.
Recursive(f, n, V, start, step) ==
    f \in [0 .. n -> V] /\ f[0] = start /\ \A i \in 1 .. n : f[i] = step[<<i, f[i - 1]>>]

\* There is one.
LEMMA Recursion ==
    ASSUME NEW n, n \in Nat, NEW V, NEW start, start \in V,
           NEW step, step \in [(1 .. n) \X V -> V]
    PROVE  \E f : Recursive(f, n, V, start, step)
<1> DEFINE Partial(m, f) == f[0] = start /\ \A i \in 1 .. m : f[i] = step[<<i, f[i - 1]>>]
           P == {m \in 0 .. n : \E f \in [0 .. m -> V] : Partial(m, f)}
<1>1. 0 \in P
  <2> DEFINE f == [i \in 0 .. 0 |-> start]
  <2>1. f \in [0 .. 0 -> V] /\ Partial(0, f)
    OBVIOUS
  <2> HIDE DEF f
  <2> QED
    BY <2>1
<1>2. ASSUME NEW m \in 0 .. n, m \in P, m < n PROVE m + 1 \in P
  <2>1. PICK f \in [0 .. m -> V] : Partial(m, f)
    BY <1>2
  <2> DEFINE g == [i \in 0 .. m + 1 |-> IF i = m + 1 THEN step[<<m + 1, f[m]>>] ELSE f[i]]
  <2>2. m + 1 \in 1 .. n /\ m \in 0 .. m /\ f[m] \in V
    BY <1>2
  <2>3. step[<<m + 1, f[m]>>] \in V
    BY <2>2
  <2>4. g \in [0 .. m + 1 -> V]
    BY <2>3
  <2>5. \A i \in 0 .. m : g[i] = f[i]
    BY <2>2
  <2>6. g[m + 1] = step[<<m + 1, g[m]>>]
  <3>1. g[m + 1] = step[<<m + 1, f[m]>>]
    BY <2>2
  <3> HIDE DEF g
  <3> QED
    BY <3>1, <2>2, <2>5
  <2>7. ASSUME NEW i \in 1 .. m + 1 PROVE g[i] = step[<<i, g[i - 1]>>]
    <3>1. CASE i = m + 1
      BY <3>1, <2>6, <2>2
    <3>2. CASE i # m + 1
      <4>1. i \in 1 .. m /\ i - 1 \in 0 .. m /\ i \in 0 .. m
        BY <3>2, <2>2
      <4> QED
        BY <4>1, <2>1, <2>5
    <3> QED
      BY <3>1, <3>2
  <2>8. Partial(m + 1, g)
  <3>1. 0 \in 0 .. m
    BY <2>2
  <3> HIDE DEF g
  <3> QED
    BY <3>1, <2>1, <2>5, <2>7
  <2> HIDE DEF g
  <2> QED
    BY <2>4, <2>8, <2>2
<1>3. n \in P
  <2> HIDE DEF P
  <2> QED
    BY <1>1, <1>2, UpTo
<1> QED
    BY <1>3 DEF Recursive

-------------------------------------------------------------------------------
(* Catalogs: periods.                                                        *)

\* The first years of the versions order them.
LEMMA PrecedesIsTotal ==
    ASSUME NEW versions \in Seq(Versions)
    PROVE  /\ \A i, j \in DOMAIN versions : i # j => Precedes(versions, i, j) \/ Precedes(versions, j, i)
           /\ \A i, j \in DOMAIN versions : Precedes(versions, i, j) =>
                i # j /\ ~Precedes(versions, j, i) /\ versions[i].from <= versions[j].from
           /\ \A i, j, k \in DOMAIN versions :
                Precedes(versions, i, j) /\ Precedes(versions, j, k) => Precedes(versions, i, k)
<1>1. \A i \in DOMAIN versions : i \in Int /\ versions[i] \in Versions
    OBVIOUS
<1>2. \A v \in Versions : v.from \in Int
    BY DEF Versions
<1>3. \A i \in DOMAIN versions : i \in Int /\ versions[i].from \in Int
    BY <1>1, <1>2
<1> QED
    BY <1>3 DEF Precedes

\* Comparing each version with the one before it finds every overlap.
LEMMA NeighboursSuffice ==
    ASSUME NEW versions \in Seq(Versions), \A i \in DOMAIN versions : Before(versions[i].from, versions[i].to)
    PROVE  ValidateNoOverlap(versions) <=>
             \A i, j \in DOMAIN versions : i # j => ~Overlap(versions[i], versions[j])
<1> DEFINE D == DOMAIN versions
           Precede(i, j) == Precedes(versions, i, j)
           Between(i, j) == {k \in D : Precede(i, k) /\ Precede(k, j)}
<1>1. /\ IsFiniteSet(D)
      /\ \A i \in D : versions[i].from \in Int /\ versions[i].to \in Int \cup {Open}
  <2>1. PICK S : S = 1 .. Len(versions)
    OBVIOUS
  <2>2. IsFiniteSet(S)
    BY <2>1, FS_Interval
  <2>3. \A i \in D : versions[i] \in Versions
    OBVIOUS
  <2>4. \A v \in Versions : v.from \in Int /\ v.to \in Int \cup {Open}
    BY DEF Versions
  <2> QED
    BY <2>1, <2>2, <2>3, <2>4
<1>2. /\ \A i, j \in D : i # j => Precede(i, j) \/ Precede(j, i)
      /\ \A i, j \in D : Precede(i, j) => i # j /\ ~Precede(j, i) /\ versions[i].from <= versions[j].from
      /\ \A i, j, k \in D : Precede(i, j) /\ Precede(j, k) => Precede(i, k)
    BY PrecedesIsTotal
<1>3. ValidateNoOverlap(versions) <=>
        \A i, j \in D : Precede(i, j) /\ Between(i, j) = {} => ~Before(versions[j].from, versions[i].to)
    BY DEF ValidateNoOverlap
<1>4. \A i, j \in D : Overlap(versions[i], versions[j]) => Overlap(versions[j], versions[i])
    BY DEF Overlap
<1>5. \A i, j \in D : Precede(i, j) => Before(versions[i].from, versions[j].to)
    BY <1>1, <1>2, CatalogAssumption DEF Before
<1> HIDE DEF D, Precede
<1>6. ASSUME \A i, j \in D : i # j => ~Overlap(versions[i], versions[j])
      PROVE  ValidateNoOverlap(versions)
    BY <1>2, <1>3, <1>5, <1>6 DEF Overlap
<1>7. ASSUME ValidateNoOverlap(versions), NEW i \in D, NEW j \in D, i # j, Overlap(versions[i], versions[j])
      PROVE  FALSE
  <2> DEFINE Meeting == {p \in D \X D : Precede(p[1], p[2]) /\ Overlap(versions[p[1]], versions[p[2]])}
             B == {Between(p[1], p[2]) : p \in Meeting}
  <2>1. Meeting # {}
    <3>1. <<i, j>> \in Meeting \/ <<j, i>> \in Meeting
      BY <1>2, <1>4, <1>7
    <3> QED
      BY <3>1
  <2>2. PICK T \in B : \A U \in B : U \subseteq T => U = T
    <3>1. B \subseteq SUBSET D /\ B # {}
      BY <2>1
    <3> HIDE DEF B
    <3> QED
      BY <1>1, <3>1, LeastSubset
  <2>3. PICK x \in D, y \in D : Precede(x, y) /\ Overlap(versions[x], versions[y]) /\ T = Between(x, y)
    BY <2>2
  <2>4. PICK k : k \in Between(x, y)
    BY <1>3, <1>7, <2>3 DEF Overlap
  <2>5. Before(versions[k].from, versions[x].to)
    BY <1>1, <1>2, <2>3, <2>4 DEF Overlap, Before
  <2>6. <<x, k>> \in Meeting
    BY <1>5, <2>3, <2>4, <2>5 DEF Overlap
  <2>7. Between(x, k) \in B
    BY <2>6
  <2>8. Between(x, k) \subseteq Between(x, y) /\ k \notin Between(x, k)
    BY <1>2, <2>3, <2>4
  <2> QED
    BY <2>2, <2>3, <2>4, <2>7, <2>8
<1> QED
    BY <1>6, <1>7 DEF D

-------------------------------------------------------------------------------
(* Catalogs: the statements of a source.                                     *)

\* Sequences put together.
LEMMA ElementsOfBoth ==
    ASSUME NEW V, NEW s \in Seq(V), NEW t \in Seq(V)
    PROVE  s \o t \in Seq(V) /\ Elements(s \o t) = Elements(s) \cup Elements(t)
<1>1. /\ s \o t \in Seq(V) /\ DOMAIN (s \o t) = 1 .. Len(s) + Len(t)
      /\ Len(s) \in Nat /\ Len(t) \in Nat /\ DOMAIN s = 1 .. Len(s) /\ DOMAIN t = 1 .. Len(t)
      /\ \A i \in 1 .. Len(s) + Len(t) : (s \o t)[i] = IF i <= Len(s) THEN s[i] ELSE t[i - Len(s)]
    OBVIOUS
<1>2. \A i \in 1 .. Len(s) : i \in 1 .. Len(s) + Len(t) /\ i <= Len(s)
    BY <1>1
<1>3. \A i \in 1 .. Len(t) : i + Len(s) \in 1 .. Len(s) + Len(t) /\ ~(i + Len(s) <= Len(s))
                            /\ (i + Len(s)) - Len(s) = i
    BY <1>1
<1>4. \A i \in 1 .. Len(s) + Len(t) : i <= Len(s) => i \in 1 .. Len(s)
    BY <1>1
<1>5. \A i \in 1 .. Len(s) + Len(t) : ~(i <= Len(s)) => i - Len(s) \in 1 .. Len(t)
    BY <1>1
<1>6. /\ \A i \in DOMAIN s : i \in DOMAIN (s \o t) /\ (s \o t)[i] = s[i]
      /\ \A i \in DOMAIN t : i + Len(s) \in DOMAIN (s \o t) /\ (s \o t)[i + Len(s)] = t[i]
    BY <1>1, <1>2, <1>3
<1>7. ASSUME NEW i \in DOMAIN (s \o t)
      PROVE  \/ i \in DOMAIN s /\ (s \o t)[i] = s[i]
             \/ i - Len(s) \in DOMAIN t /\ (s \o t)[i] = t[i - Len(s)]
  <2>1. CASE i <= Len(s)
    BY <1>1, <1>4, <2>1
  <2>2. CASE ~(i <= Len(s))
    BY <1>1, <1>5, <2>2
  <2> QED
    BY <2>1, <2>2
<1>8. PICK r : r = s \o t
    OBVIOUS
<1>9. Elements(r) = Elements(s) \cup Elements(t)
  <2>1. \A x : x \in Elements(s) => x \in Elements(r)
    BY <1>6, <1>8 DEF Elements
  <2>2. \A x : x \in Elements(t) => x \in Elements(r)
    BY <1>6, <1>8 DEF Elements
  <2>3. \A x : x \in Elements(r) => x \in Elements(s) \/ x \in Elements(t)
    BY <1>7, <1>8 DEF Elements
  <2> QED
    BY <2>1, <2>2, <2>3
<1> QED
    BY <1>1, <1>8, <1>9

LEMMA FlattenElements ==
    ASSUME NEW V, NEW seqs \in Seq(Seq(V))
    PROVE  /\ FlattenSeq(seqs) \in Seq(V)
           /\ Elements(FlattenSeq(seqs)) = UNION {Elements(seqs[i]) : i \in DOMAIN seqs}
<1> DEFINE n == Len(seqs)
           After(i, s) == s \o seqs[i]
           Blank == <<>>
           Eq(g) == g = [i \in 1 .. n |-> IF i = 1 THEN seqs[i] ELSE After(i, g[i - 1])]
           G == CHOOSE g : Eq(g)
           W == Seq(V)
           Upto(i) == UNION {Elements(seqs[j]) : j \in 1 .. i}
<1>1. n \in Nat /\ DOMAIN seqs = 1 .. n /\ \A i \in 1 .. n : seqs[i] \in W
    OBVIOUS
<1>2. CASE n = 0
  <2>1. FlattenSeq(seqs) = seqs /\ seqs = <<>>
    BY <1>2 DEF FlattenSeq
  <2>2. <<>> \in Seq(V) /\ DOMAIN <<>> = {}
    OBVIOUS
  <2>3. Elements(<<>>) = {} /\ UNION {Elements(seqs[i]) : i \in DOMAIN seqs} = {}
    BY <2>1, <2>2 DEF Elements
  <2> QED
    BY <2>1, <2>2, <2>3
<1>3. CASE n # 0
  <2>1. FlattenSeq(seqs) = G[n]
    BY <1>3 DEF FlattenSeq
  <2> HIDE DEF n
  <2>2. Blank \in W /\ \A i \in 1 .. n : \A t \in W : After(i, t) \in W
    BY <1>1
  <2>3. \A i \in 1 .. n : \A t \in W : Elements(After(i, t)) = Elements(t) \cup Elements(seqs[i])
    BY <1>1, ElementsOfBoth
  <2>4. After(1, Blank) = seqs[1]
    <3>1. seqs[1] \in Seq(V)
      BY <1>1, <1>3
    <3> QED
      BY <3>1
  <2> HIDE DEF W, After, Blank
  <2>5. \E f : Eq(f)
    <3> DEFINE step == [x \in (1 .. n) \X W |-> After(x[1], x[2])]
    <3>1. step \in [(1 .. n) \X W -> W]
      BY <2>2
    <3>2. PICK f : Recursive(f, n, W, Blank, step)
      <4> HIDE DEF step
      <4> QED
        BY <1>1, <2>2, <3>1, Recursion
    <3>3. f \in [0 .. n -> W] /\ f[0] = Blank /\ \A i \in 1 .. n : f[i] = After(i, f[i - 1])
      <4>1. \A i \in 1 .. n : <<i, f[i - 1]>> \in (1 .. n) \X W
        BY <1>1, <3>2 DEF Recursive
      <4> QED
        BY <3>2, <4>1 DEF Recursive
    <3> DEFINE g == [i \in 1 .. n |-> f[i]]
    <3>4. \A i \in 1 .. n : g[i] = IF i = 1 THEN seqs[i] ELSE After(i, g[i - 1])
      <4>1. ASSUME NEW i \in 1 .. n PROVE g[i] = IF i = 1 THEN seqs[i] ELSE After(i, g[i - 1])
        <5>1. CASE i = 1
          BY <1>1, <3>3, <2>4, <5>1
        <5>2. CASE i # 1
          <6>1. i - 1 \in 1 .. n
            BY <1>1, <5>2
          <6> QED
            BY <3>3, <5>2, <6>1
        <5> QED
          BY <5>1, <5>2
      <4> QED
        BY <4>1
    <3>5. Eq(g)
      BY <3>4
    <3> QED
      BY <3>5
  <2>6. Eq(G)
    <3> HIDE DEF Eq
    <3> QED
      BY <2>5
  <2> HIDE DEF G
  <2>7. \A i \in 1 .. n : G[i] = IF i = 1 THEN seqs[i] ELSE After(i, G[i - 1])
    BY <2>6
  <2> DEFINE P == {i \in 0 .. n : i # 0 => G[i] \in W /\ Elements(G[i]) = Upto(i)}
  <2>8. 0 \in P
    BY <1>1
  <2>9. ASSUME NEW i \in 0 .. n, i \in P, i < n PROVE i + 1 \in P
    <3>1. i + 1 \in 1 .. n /\ (i + 1) - 1 = i /\ i + 1 \in 0 .. n
      BY <1>1, <2>9
    <3>2. 1 .. i + 1 = (1 .. i) \cup {i + 1}
      BY <3>1
    <3>3. Upto(i + 1) = Upto(i) \cup Elements(seqs[i + 1])
      BY <3>2
    <3> HIDE DEF Upto
    <3>4. CASE i = 0
      <4>1. G[i + 1] = seqs[1]
        BY <2>7, <3>1, <3>4
      <4>2. Upto(0) = {}
        BY DEF Upto
      <4>3. Elements(G[i + 1]) = Upto(i + 1) /\ i + 1 = 1
        <5>1. Upto(i) = {} /\ i + 1 = 1
          BY <3>4, <4>2
        <5>2. Upto(i + 1) = Elements(seqs[1])
          BY <3>3, <5>1
        <5> QED
          BY <4>1, <5>1, <5>2
      <4>4. seqs[1] \in W
        BY <1>1, <3>1, <4>3
      <4> QED
        BY <3>1, <4>1, <4>3, <4>4
    <3>5. CASE i # 0
      <4>1. G[i + 1] = After(i + 1, G[i])
        BY <2>7, <3>1, <3>5
      <4> QED
        BY <2>2, <2>3, <2>9, <3>1, <3>3, <3>5, <4>1
    <3> QED
      BY <3>4, <3>5
  <2>10. n \in P
    <3> HIDE DEF P
    <3>1. \A i \in 0 .. n : i \in P /\ i < n => i + 1 \in P
      BY <2>9
    <3>2. 0 .. n \subseteq P
      BY <1>1, <2>8, <3>1, UpTo
    <3>3. n \in 0 .. n
      BY <1>1
    <3> QED
      BY <3>2, <3>3
  <2>11. G[n] \in W /\ Elements(G[n]) = Upto(n)
    BY <1>3, <2>10
  <2>12. Upto(n) = UNION {Elements(seqs[i]) : i \in DOMAIN seqs}
    BY <1>1
  <2> QED
    BY <2>1, <2>11, <2>12 DEF W
<1> QED
    BY <1>2, <1>3

\* What statements there are.
Identifying == [do : {"identity"}, kind : Kinds, parent : STRING, item : Entries]
Versioning == [do : {"version"}, kind : Kinds, parent : STRING, item : Versions]
Naming == [do : {"term"}, kind : {"term"}, parent : STRING, item : Terms]
AllStatements == Identifying \cup Versioning \cup Naming

\* Those of an entry.
LEMMA StatementsOfEntry ==
    ASSUME NEW k \in Kinds, NEW e \in Entries
    PROVE  /\ EntryStatements(k, e) \in Seq(AllStatements)
           /\ Elements(EntryStatements(k, e)) =
                {Statement("identity", k, e.id, e)}
                  \cup {Statement("version", k, e.id, v) : v \in Elements(e.versions)}
<1> DEFINE one == <<Statement("identity", k, e.id, e)>>
           rest == [i \in DOMAIN e.versions |-> Statement("version", k, e.id, e.versions[i])]
<1>1. e.id \in STRING /\ e.versions \in Seq(Versions)
    BY DEF Entries
<1>2. Statement("identity", k, e.id, e) \in AllStatements
    BY <1>1 DEF Statement, AllStatements, Identifying
<1>3. \A v \in Versions : Statement("version", k, e.id, v) \in AllStatements
    BY <1>1 DEF Statement, AllStatements, Versioning
<1>4. one \in Seq(AllStatements) /\ Elements(one) = {Statement("identity", k, e.id, e)}
  <2>1. one \in Seq(AllStatements) /\ DOMAIN one = {1} /\ one[1] = Statement("identity", k, e.id, e)
    BY <1>2
  <2> QED
    BY <2>1 DEF Elements
<1>5. rest \in Seq(AllStatements)
      /\ Elements(rest) = {Statement("version", k, e.id, v) : v \in Elements(e.versions)}
  <2>1. PICK s : s = e.versions
    OBVIOUS
  <2>2. s \in Seq(Versions) /\ DOMAIN s = 1 .. Len(s) /\ Len(s) \in Nat /\ \A i \in DOMAIN s : s[i] \in Versions
    BY <1>1, <2>1
  <2>3. [i \in DOMAIN s |-> Statement("version", k, e.id, s[i])] \in Seq(AllStatements)
    BY <1>3, <2>2
  <2>4. Elements([i \in DOMAIN s |-> Statement("version", k, e.id, s[i])])
          = {Statement("version", k, e.id, v) : v \in Elements(s)}
    BY DEF Elements
  <2> QED
    BY <2>1, <2>3, <2>4
<1> HIDE DEF one, rest
<1>6. EntryStatements(k, e) = one \o rest
    BY DEF EntryStatements, one, rest
<1> QED
    BY <1>4, <1>5, <1>6, ElementsOfBoth

\* And those of a source.
LEMMA StatementsOfSource ==
    ASSUME NEW source \in SourceFiles
    PROVE  /\ Statements(source) \in Seq(AllStatements)
           /\ \A k \in Kinds : \A e \in Elements(source[k]) :
                Elements(EntryStatements(k, e)) \subseteq Elements(Statements(source))
           /\ \A t \in Elements(source.terms) :
                Statement("term", "term", t.id, t) \in Elements(Statements(source))
           /\ \A s \in Elements(Statements(source)) :
                \/ \E k \in Kinds : \E e \in Elements(source[k]) : s \in Elements(EntryStatements(k, e))
                \/ s.do = "term"
<1> DEFINE K == OfKind(source, "program") \o OfKind(source, "major") \o OfKind(source, "course")
           T == [i \in DOMAIN source.terms |->
                   Statement("term", "term", source.terms[i].id, source.terms[i])]
<1>1. ASSUME NEW k \in Kinds
      PROVE  /\ OfKind(source, k) \in Seq(Seq(AllStatements))
             /\ \A e : e \in Elements(source[k]) => e \in Entries
             /\ Elements(OfKind(source, k)) = {EntryStatements(k, e) : e \in Elements(source[k])}
  <2>1. PICK s \in Seq(Entries) : s = source[k]
    BY DEF SourceFiles, Kinds
  <2>2. DOMAIN s = 1 .. Len(s) /\ Len(s) \in Nat /\ \A i \in DOMAIN s : s[i] \in Entries
    OBVIOUS
  <2>3. \A i \in DOMAIN s : EntryStatements(k, s[i]) \in Seq(AllStatements)
    BY <2>2, StatementsOfEntry
  <2>4. [i \in DOMAIN s |-> EntryStatements(k, s[i])] \in Seq(Seq(AllStatements))
    BY <2>2, <2>3
  <2>5. Elements([i \in DOMAIN s |-> EntryStatements(k, s[i])])
          = {EntryStatements(k, e) : e \in Elements(s)}
    BY DEF Elements
  <2>6. \A e : e \in Elements(s) => e \in Entries
    BY <2>2 DEF Elements
  <2> QED
    BY <2>1, <2>4, <2>5, <2>6 DEF OfKind
<1>2. /\ K \in Seq(Seq(AllStatements))
      /\ Elements(K) = UNION {Elements(OfKind(source, k)) : k \in Kinds}
  <2>1. PICK p \in Seq(Seq(AllStatements)) : p = OfKind(source, "program")
    BY <1>1 DEF Kinds
  <2>2. PICK m \in Seq(Seq(AllStatements)) : m = OfKind(source, "major")
    BY <1>1 DEF Kinds
  <2>3. PICK c \in Seq(Seq(AllStatements)) : c = OfKind(source, "course")
    BY <1>1 DEF Kinds
  <2>4. p \o m \in Seq(Seq(AllStatements)) /\ Elements(p \o m) = Elements(p) \cup Elements(m)
    BY ElementsOfBoth
  <2>5. (p \o m) \o c \in Seq(Seq(AllStatements))
        /\ Elements((p \o m) \o c) = Elements(p) \cup Elements(m) \cup Elements(c)
    <3>1. PICK q \in Seq(Seq(AllStatements)) : q = p \o m
      BY <2>4
    <3>2. q \o c \in Seq(Seq(AllStatements)) /\ Elements(q \o c) = Elements(q) \cup Elements(c)
      BY ElementsOfBoth
    <3> QED
      BY <2>4, <3>1, <3>2
  <2>6. UNION {Elements(OfKind(source, k)) : k \in Kinds} = Elements(p) \cup Elements(m) \cup Elements(c)
    BY <2>1, <2>2, <2>3 DEF Kinds
  <2> QED
    BY <2>1, <2>2, <2>3, <2>5, <2>6
<1>3. /\ T \in Seq(AllStatements)
      /\ Elements(T) = {Statement("term", "term", t.id, t) : t \in Elements(source.terms)}
  <2>1. PICK s \in Seq(Terms) : s = source.terms
    BY DEF SourceFiles
  <2>2. DOMAIN s = 1 .. Len(s) /\ Len(s) \in Nat /\ \A i \in DOMAIN s : s[i] \in Terms
    OBVIOUS
  <2>3. \A t \in Terms : Statement("term", "term", t.id, t) \in AllStatements
    BY DEF Terms, Statement, AllStatements, Naming
  <2>4. [i \in DOMAIN s |-> Statement("term", "term", s[i].id, s[i])] \in Seq(AllStatements)
    BY <2>2, <2>3
  <2>5. Elements([i \in DOMAIN s |-> Statement("term", "term", s[i].id, s[i])])
          = {Statement("term", "term", t.id, t) : t \in Elements(s)}
    BY DEF Elements
  <2> QED
    BY <2>1, <2>4, <2>5
<1>4. Statements(source) = FlattenSeq(K) \o T
    BY DEF Statements
<1> HIDE DEF K, T
<1>5. /\ FlattenSeq(K) \in Seq(AllStatements)
      /\ Elements(FlattenSeq(K)) = UNION {Elements(K[i]) : i \in DOMAIN K}
    BY <1>2, FlattenElements
<1>6. Elements(FlattenSeq(K)) = UNION {Elements(x) : x \in Elements(K)}
  <2>1. Elements(K) = {K[i] : i \in DOMAIN K}
    BY DEF Elements
  <2> QED
    BY <1>5, <2>1
<1>7. /\ Statements(source) \in Seq(AllStatements)
      /\ Elements(Statements(source)) = (UNION {Elements(x) : x \in Elements(K)}) \cup Elements(T)
  <2>1. PICK f \in Seq(AllStatements) : f = FlattenSeq(K)
    BY <1>5
  <2>2. f \o T \in Seq(AllStatements) /\ Elements(f \o T) = Elements(f) \cup Elements(T)
    BY <1>3, ElementsOfBoth
  <2>3. PICK all : all = UNION {Elements(x) : x \in Elements(K)}
    OBVIOUS
  <2>4. Elements(f) = all
    BY <1>6, <2>1, <2>3
  <2>5. Statements(source) = f \o T
    BY <1>4, <2>1
  <2>6. Elements(Statements(source)) = all \cup Elements(T)
    BY <2>2, <2>4, <2>5
  <2> QED
    BY <2>2, <2>3, <2>5, <2>6
<1>8. \A k \in Kinds : \A e \in Elements(source[k]) : EntryStatements(k, e) \in Elements(K)
    BY <1>1, <1>2
<1>9. \A x \in Elements(K) : \E k \in Kinds : \E e \in Elements(source[k]) : x = EntryStatements(k, e)
    BY <1>1, <1>2
<1>10. \A s \in Elements(T) : s.do = "term"
    BY <1>3 DEF Statement
<1>11. \A k \in Kinds : \A e \in Elements(source[k]) :
         Elements(EntryStatements(k, e)) \subseteq Elements(Statements(source))
    BY <1>7, <1>8
<1>12. \A t \in Elements(source.terms) :
         Statement("term", "term", t.id, t) \in Elements(Statements(source))
  <2>1. Elements(T) \subseteq Elements(Statements(source))
    BY <1>7
  <2>2. \A t \in Elements(source.terms) : Statement("term", "term", t.id, t) \in Elements(T)
    BY <1>3
  <2> QED
    BY <2>1, <2>2
<1>13. \A s \in Elements(Statements(source)) :
         \/ \E k \in Kinds : \E e \in Elements(source[k]) : s \in Elements(EntryStatements(k, e))
         \/ s.do = "term"
  <2>1. ASSUME NEW s \in Elements(Statements(source)), s \notin Elements(T)
        PROVE  \E k \in Kinds : \E e \in Elements(source[k]) : s \in Elements(EntryStatements(k, e))
    <3>1. PICK x \in Elements(K) : s \in Elements(x)
      BY <1>7, <2>1
    <3> QED
      BY <1>9, <3>1
  <2> QED
    BY <1>10, <2>1
<1> QED
    BY <1>7, <1>11, <1>12, <1>13

-------------------------------------------------------------------------------
(* Catalogs: what one statement does to the tables.                          *)

Identities == [kind : Kinds, id : STRING, key : STRING]
VersionRows ==
    [kind : Kinds, parent : STRING, id : STRING, from : Int, to : Int \cup {Open}, content : STRING]
TableStates ==
    [identities : SUBSET Identities, versions : SUBSET VersionRows,
     links : SUBSET (STRING \X STRING), terms : SUBSET Terms]

\* The unique keys and the exclusion constraint.
IdentitiesKeyed(t) ==
    \A x, y \in t.identities : x.kind = y.kind /\ (x.id = y.id \/ x.key = y.key) => x = y
VersionsKeyed(t) == \A x, y \in t.versions : x.kind = y.kind /\ x.id = y.id => x = y
PeriodsApart(t) ==
    \A x, y \in t.versions : x.kind = y.kind /\ x.parent = y.parent /\ x # y => ~Overlap(x, y)
TermsKeyed(t) ==
    \A x, y \in t.terms : x.id = y.id \/ (x.dimension = y.dimension /\ x.key = y.key) => x = y
Sound(t) == IdentitiesKeyed(t) /\ VersionsKeyed(t) /\ PeriodsApart(t) /\ TermsKeyed(t)

\* What a statement has said is in the tables.
Stands(t, s) ==
    /\ s.do = "identity" => [kind |-> s.kind, id |-> s.item.id, key |-> s.item.key] \in t.identities
    /\ s.do = "version" => Row(s.kind, s.parent, s.item) \in t.versions /\ LinksOf(s.kind, s.item) \subseteq t.links
    /\ s.do = "term" =>
        \E b \in BOOLEAN : [s.item EXCEPT !.retired = b] \in t.terms /\ (s.item.retired => b)

\* Whether two statements are about one row.
SameRow(r, s) == r.do = s.do /\ r.kind = s.kind /\ r.item.id = s.item.id

\* A term that is there and retired.
Withdrawn(t, id) == (\E x \in t.terms : x.id = id) /\ \A x \in t.terms : x.id = id => x.retired

\* From one statement to the next: rows stay, links are those of the statement.
RowsStay(t, u) == \A x \in t.versions : \E y \in u.versions : y.kind = x.kind /\ y.id = x.id
LinksFrom(t, u, s) ==
    \A link \in u.links : link \in t.links \/ (s.do = "version" /\ link \in LinksOf(s.kind, s.item))

\* What a statement makes of the tables.
Follows(t, u, s) ==
    /\ u \in TableStates /\ (Sound(t) => Sound(u)) /\ Stands(u, s)
    /\ \A r \in AllStatements : Stands(t, r) /\ (SameRow(r, s) => r = s) => Stands(u, r)
    /\ \A id : Withdrawn(t, id) => Withdrawn(u, id)
    /\ RowsStay(t, u) /\ LinksFrom(t, u, s)

LEMMA FailedIsNoTable == Failed \notin TableStates
<1> SUFFICES ASSUME Failed \in TableStates PROVE FALSE
    OBVIOUS
<1>1. "identities" \in DOMAIN Failed
    BY DEF TableStates
<1> QED
    BY <1>1 DEF Failed

LEMMA IdentityFollows ==
    ASSUME NEW t \in TableStates, NEW s \in Identifying,
           NEW u, u = EnsureIdentity(t, s.kind, s.item), u # Failed
    PROVE  Follows(t, u, s)
<1> DEFINE new == [kind |-> s.kind, id |-> s.item.id, key |-> s.item.key]
           mine == {x \in t.identities : x.kind = s.kind /\ x.id = s.item.id}
           same == {x \in t.identities : x.kind = s.kind /\ x.key = s.item.key}
<1>1. s.do = "identity" /\ s.kind \in Kinds /\ s.item.id \in STRING /\ s.item.key \in STRING
  <2>1. s.do = "identity" /\ s.kind \in Kinds /\ s.item \in Entries
    BY DEF Identifying
  <2>2. s.item.id \in STRING /\ s.item.key \in STRING
    BY <2>1 DEF Entries
  <2> QED
    BY <2>1, <2>2
<1>2. mine = same /\ u = [t EXCEPT !.identities = @ \cup {new}]
    BY DEF EnsureIdentity
<1>3. /\ u \in TableStates /\ u.identities = t.identities \cup {new}
      /\ u.versions = t.versions /\ u.links = t.links /\ u.terms = t.terms
    BY <1>1, <1>2 DEF TableStates, Identities
<1>4. new.kind = s.kind /\ new.id = s.item.id /\ new.key = s.item.key
      /\ t.identities \subseteq Identities
    BY DEF TableStates
<1>5. IdentitiesKeyed(t) => IdentitiesKeyed(u)
  <2> SUFFICES ASSUME IdentitiesKeyed(t), NEW x \in t.identities, x.kind = new.kind,
                      x.id = new.id \/ x.key = new.key
               PROVE  x = new
    BY <1>3 DEF IdentitiesKeyed
  <2>1. x \in mine /\ x \in same
    BY <1>2, <1>4
  <2>2. x \in Identities
    BY <1>4
  <2> HIDE DEF mine, same
  <2>3. x.id = new.id /\ x.key = new.key
    BY <2>1, <1>4 DEF mine, same
  <2> QED
    BY <2>2, <2>3 DEF Identities
<1>6. Sound(t) => Sound(u)
    BY <1>3, <1>5 DEF Sound, VersionsKeyed, PeriodsApart, TermsKeyed
<1>7. Stands(u, s)
    BY <1>1, <1>3 DEF Stands
<1>8. \A r \in AllStatements : Stands(t, r) => Stands(u, r)
    BY <1>3 DEF Stands
<1>9. /\ \A id : Withdrawn(t, id) => Withdrawn(u, id)
      /\ RowsStay(t, u) /\ LinksFrom(t, u, s)
    BY <1>3 DEF Withdrawn, RowsStay, LinksFrom
<1> QED
    BY <1>3, <1>6, <1>7, <1>8, <1>9 DEF Follows

LEMMA VersionFollows ==
    ASSUME NEW t \in TableStates, NEW s \in Versioning,
           NEW u, u = EnsureVersion(t, s.kind, s.parent, s.item), u # Failed
    PROVE  Follows(t, u, s)
<1> DEFINE new == Row(s.kind, s.parent, s.item)
           held == Stored(t, s.kind, s.item.id)
<1>1. /\ s.do = "version" /\ s.kind \in Kinds /\ s.parent \in STRING
      /\ s.item.id \in STRING /\ s.item.from \in Int /\ s.item.to \in Int \cup {Open}
      /\ s.item.content \in STRING /\ s.item.links \in Seq(STRING)
  <2>1. s.do = "version" /\ s.kind \in Kinds /\ s.parent \in STRING /\ s.item \in Versions
    BY DEF Versioning
  <2>2. /\ s.item.id \in STRING /\ s.item.from \in Int /\ s.item.to \in Int \cup {Open}
        /\ s.item.content \in STRING /\ s.item.links \in Seq(STRING)
    BY <2>1 DEF Versions
  <2> QED
    BY <2>1, <2>2
<1>2. /\ ~Clashes(t, s.kind, s.parent, s.item)
      /\ u = [t EXCEPT !.versions = (@ \ held) \cup {new}, !.links = @ \cup LinksOf(s.kind, s.item)]
    BY DEF EnsureVersion
<1>3. LinksOf(s.kind, s.item) \subseteq STRING \X STRING
  <2>1. Elements(s.item.links) \subseteq STRING
    <3>1. \A i \in DOMAIN s.item.links : s.item.links[i] \in STRING
      BY <1>1
    <3> QED
      BY <3>1 DEF Elements
  <2> QED
    BY <1>1, <2>1 DEF LinksOf
<1>4. /\ new \in VersionRows /\ new.kind = s.kind /\ new.parent = s.parent /\ new.id = s.item.id
      /\ new.from = s.item.from /\ new.to = s.item.to
    BY <1>1 DEF Row, VersionRows
<1> HIDE DEF new, held
<1>5. /\ u \in TableStates /\ u.versions = (t.versions \ held) \cup {new}
      /\ u.links = t.links \cup LinksOf(s.kind, s.item)
      /\ u.identities = t.identities /\ u.terms = t.terms
  <2> DEFINE rest == (t.versions \ held) \cup {new}
             both == t.links \cup LinksOf(s.kind, s.item)
  <2>1. rest \subseteq VersionRows /\ both \subseteq STRING \X STRING
    BY <1>3, <1>4 DEF TableStates
  <2>2. u = [t EXCEPT !.versions = rest, !.links = both]
    BY <1>2
  <2> HIDE DEF rest, both
  <2>3. /\ u \in TableStates /\ u.versions = rest /\ u.links = both
        /\ u.identities = t.identities /\ u.terms = t.terms
    BY <2>1, <2>2 DEF TableStates
  <2> QED
    BY <2>3 DEF rest, both
<1>6. \A x \in t.versions : x \in held <=> x.kind = new.kind /\ x.id = new.id
    BY <1>4 DEF held, Stored
<1>7. VersionsKeyed(t) => VersionsKeyed(u)
    BY <1>5, <1>6 DEF VersionsKeyed
<1>8. \A x \in t.versions \ held : x.kind = new.kind /\ x.parent = new.parent =>
        ~Overlap(x, new) /\ ~Overlap(new, x)
    BY <1>2, <1>4 DEF Clashes, Overlap, held
<1>9. PeriodsApart(t) => PeriodsApart(u)
  <2> SUFFICES ASSUME PeriodsApart(t), NEW x \in u.versions, NEW y \in u.versions,
                      x.kind = y.kind, x.parent = y.parent, x # y
               PROVE  ~Overlap(x, y)
    BY DEF PeriodsApart
  <2>1. CASE x = new
    BY <1>5, <1>8, <2>1
  <2>2. CASE y = new
    BY <1>5, <1>8, <2>2
  <2>3. CASE x # new /\ y # new
    BY <1>5, <2>3 DEF PeriodsApart
  <2> QED
    BY <2>1, <2>2, <2>3
<1>10. Sound(t) => Sound(u)
    BY <1>5, <1>7, <1>9 DEF Sound, IdentitiesKeyed, TermsKeyed
<1>11. Stands(u, s)
    BY <1>1, <1>5 DEF Stands, new
<1>12. ASSUME NEW r \in AllStatements, Stands(t, r), SameRow(r, s) => r = s
       PROVE  Stands(u, r)
  <2>1. CASE r = s
    BY <1>11, <2>1
  <2>2. CASE r # s
    <3>1. CASE r.do = "version"
      <4>1. Row(r.kind, r.parent, r.item) \in t.versions /\ LinksOf(r.kind, r.item) \subseteq t.links
        BY <1>12, <3>1 DEF Stands
      <4>2. /\ Row(r.kind, r.parent, r.item).kind = r.kind
            /\ Row(r.kind, r.parent, r.item).id = r.item.id
        BY DEF Row
      <4>3. ~(r.kind = s.kind /\ r.item.id = s.item.id)
        BY <1>1, <1>12, <2>2, <3>1 DEF SameRow
      <4>4. Row(r.kind, r.parent, r.item) \notin held
        BY <1>4, <1>6, <4>1, <4>2, <4>3
      <4> QED
        BY <1>5, <3>1, <4>1, <4>4 DEF Stands
    <3>2. CASE r.do # "version"
      BY <1>5, <1>12, <3>2 DEF Stands
    <3> QED
      BY <3>1, <3>2
  <2> QED
    BY <2>1, <2>2
<1>13. RowsStay(t, u)
    BY <1>5, <1>6 DEF RowsStay
<1>14. LinksFrom(t, u, s)
    BY <1>1, <1>5 DEF LinksFrom
<1>15. \A id : Withdrawn(t, id) => Withdrawn(u, id)
    BY <1>5 DEF Withdrawn
<1> QED
    BY <1>5, <1>10, <1>11, <1>12, <1>13, <1>14, <1>15 DEF Follows

LEMMA TermFollows ==
    ASSUME NEW t \in TableStates, NEW s \in Naming, NEW u, u = SyncTerm(t, s.item), u # Failed
    PROVE  Follows(t, u, s)
<1> DEFINE held == {x \in t.terms : x.id = s.item.id}
           same == {x \in t.terms : x.dimension = s.item.dimension /\ x.key = s.item.key}
           new == [s.item EXCEPT !.retired = RetiredAt(held, s.item)]
<1>1. s.do = "term" /\ s.kind = "term" /\ s.item \in Terms
    BY DEF Naming
<1>2. held = same /\ u = [t EXCEPT !.terms = (@ \ held) \cup {new}]
    BY DEF SyncTerm
<1>3. /\ RetiredAt(held, s.item) \in BOOLEAN /\ (s.item.retired => RetiredAt(held, s.item))
      /\ \A x \in held : x.retired => RetiredAt(held, s.item)
  <2>1. s.item.retired \in BOOLEAN
    BY <1>1 DEF Terms
  <2> QED
    BY <2>1 DEF RetiredAt
<1>4. /\ new \in Terms /\ new.id = s.item.id /\ new.dimension = s.item.dimension
      /\ new.key = s.item.key /\ new.retired = RetiredAt(held, s.item)
  <2> HIDE DEF held
  <2> QED
    BY <1>1, <1>3 DEF Terms
<1>5. \A x \in t.terms : /\ x \in held <=> x.id = new.id
                         /\ x \in held <=> (x.dimension = new.dimension /\ x.key = new.key)
  <2>1. \A x \in t.terms : x \in same <=> (x.dimension = s.item.dimension /\ x.key = s.item.key)
    OBVIOUS
  <2>2. \A x \in t.terms : x \in held <=> x.id = s.item.id
    OBVIOUS
  <2> HIDE DEF held, same, new
  <2> QED
    BY <1>2, <1>4, <2>1, <2>2
<1>6. \E b \in BOOLEAN : new = [s.item EXCEPT !.retired = b] /\ (s.item.retired => b)
  <2> HIDE DEF held
  <2> QED
    BY <1>3
<1>7. \A x \in held : x.retired => new.retired
    BY <1>3, <1>4
<1> HIDE DEF held, same, new
<1>8. /\ u \in TableStates /\ u.terms = (t.terms \ held) \cup {new}
      /\ u.versions = t.versions /\ u.links = t.links /\ u.identities = t.identities
    BY <1>2, <1>4 DEF TableStates
<1>9. TermsKeyed(t) => TermsKeyed(u)
    BY <1>5, <1>8 DEF TermsKeyed
<1>10. Sound(t) => Sound(u)
    BY <1>8, <1>9 DEF Sound, VersionsKeyed, PeriodsApart, IdentitiesKeyed
<1>11. Stands(u, s)
    BY <1>1, <1>6, <1>8 DEF Stands
<1>12. ASSUME NEW r \in AllStatements, Stands(t, r), SameRow(r, s) => r = s
       PROVE  Stands(u, r)
  <2>1. CASE r = s
    BY <1>11, <2>1
  <2>2. CASE r # s
    <3>1. CASE r.do = "term"
      <4>1. r.item \in Terms /\ r.kind = "term"
        BY <3>1 DEF AllStatements, Identifying, Versioning, Naming
      <4>2. PICK b \in BOOLEAN : [r.item EXCEPT !.retired = b] \in t.terms /\ (r.item.retired => b)
        BY <1>12, <3>1 DEF Stands
      <4>3. [r.item EXCEPT !.retired = b].id = r.item.id
        BY <4>1 DEF Terms
      <4>4. r.item.id # s.item.id
        BY <1>1, <1>12, <2>2, <3>1, <4>1 DEF SameRow
      <4>5. [r.item EXCEPT !.retired = b] \notin held
        BY <1>4, <1>5, <4>2, <4>3, <4>4
      <4> QED
        BY <1>8, <3>1, <4>2, <4>5 DEF Stands
    <3>2. CASE r.do # "term"
      BY <1>8, <1>12, <3>2 DEF Stands
    <3> QED
      BY <3>1, <3>2
  <2> QED
    BY <2>1, <2>2
<1>13. RowsStay(t, u) /\ LinksFrom(t, u, s)
    BY <1>8 DEF RowsStay, LinksFrom
<1>14. ASSUME NEW id, Withdrawn(t, id) PROVE Withdrawn(u, id)
    BY <1>5, <1>7, <1>8, <1>14 DEF Withdrawn
<1> QED
    BY <1>8, <1>10, <1>11, <1>12, <1>13, <1>14 DEF Follows

\* What is in the tables already, a statement leaves alone.
LEMMA IdentityIdles ==
    ASSUME NEW t \in TableStates, NEW s \in Identifying, Sound(t), Stands(t, s)
    PROVE  EnsureIdentity(t, s.kind, s.item) = t
<1> DEFINE new == [kind |-> s.kind, id |-> s.item.id, key |-> s.item.key]
           mine == {x \in t.identities : x.kind = s.kind /\ x.id = s.item.id}
           same == {x \in t.identities : x.kind = s.kind /\ x.key = s.item.key}
<1>1. new \in t.identities /\ new.kind = s.kind /\ new.id = s.item.id /\ new.key = s.item.key
    BY DEF Stands, Identifying
<1>2. \A x \in t.identities : x.kind = s.kind /\ (x.id = s.item.id \/ x.key = s.item.key) => x = new
  <2> HIDE DEF new
  <2> QED
    BY <1>1 DEF Sound, IdentitiesKeyed
<1>3. mine = same
    BY <1>1, <1>2
<1>4. [t EXCEPT !.identities = @ \cup {new}] = t
  <2>1. t.identities \cup {new} = t.identities
    BY <1>1
  <2> QED
    BY <2>1 DEF TableStates
<1> QED
    BY <1>3, <1>4 DEF EnsureIdentity

LEMMA VersionIdles ==
    ASSUME NEW t \in TableStates, NEW s \in Versioning, Sound(t), Stands(t, s)
    PROVE  EnsureVersion(t, s.kind, s.parent, s.item) = t
<1> DEFINE new == Row(s.kind, s.parent, s.item)
           held == Stored(t, s.kind, s.item.id)
<1>1. new \in t.versions /\ LinksOf(s.kind, s.item) \subseteq t.links
    BY DEF Stands, Versioning
<1>2. /\ new.kind = s.kind /\ new.parent = s.parent /\ new.id = s.item.id
      /\ new.from = s.item.from /\ new.to = s.item.to
    BY DEF Row
<1> HIDE DEF new
<1>3. held = {new}
    BY <1>1, <1>2 DEF Stored, Sound, VersionsKeyed
<1>4. \A x \in t.versions \ held :
        x.kind = s.kind /\ x.parent = s.parent => ~Overlap(x, s.item)
  <2>1. \A x \in t.versions \ held :
          x.kind = s.kind /\ x.parent = s.parent => ~Overlap(x, new)
    BY <1>1, <1>2, <1>3 DEF Sound, PeriodsApart
  <2> QED
    BY <1>2, <2>1 DEF Overlap
<1>5. ~Clashes(t, s.kind, s.parent, s.item)
    BY <1>2, <1>3, <1>4 DEF Clashes
<1>6. (t.versions \ held) \cup {new} = t.versions /\ t.links \cup LinksOf(s.kind, s.item) = t.links
    BY <1>1, <1>3
<1> QED
    BY <1>5, <1>6 DEF EnsureVersion, TableStates, new

LEMMA TermIdles ==
    ASSUME NEW t \in TableStates, NEW s \in Naming, Sound(t), Stands(t, s)
    PROVE  SyncTerm(t, s.item) = t
<1> DEFINE held == {x \in t.terms : x.id = s.item.id}
           same == {x \in t.terms : x.dimension = s.item.dimension /\ x.key = s.item.key}
<1>1. s.do = "term" /\ s.item \in Terms
    BY DEF Naming
<1>2. PICK b \in BOOLEAN : [s.item EXCEPT !.retired = b] \in t.terms /\ (s.item.retired => b)
    BY <1>1 DEF Stands
<1>3. PICK new \in t.terms : new = [s.item EXCEPT !.retired = b]
    BY <1>2
<1>4. /\ new.id = s.item.id /\ new.dimension = s.item.dimension
      /\ new.key = s.item.key /\ new.retired = b
    BY <1>1, <1>3 DEF Terms
<1>5. held = {new} /\ same = {new}
    BY <1>4 DEF Sound, TermsKeyed
<1>6. RetiredAt(held, s.item) = b
  <2>1. s.item.retired \in BOOLEAN
    BY <1>1 DEF Terms
  <2>2. (\E x \in {new} : x.retired) <=> b
    BY <1>4
  <2>3. RetiredAt({new}, s.item) \in BOOLEAN /\ (RetiredAt({new}, s.item) <=> b)
    BY <1>2, <2>1, <2>2 DEF RetiredAt
  <2> QED
    BY <1>5, <2>3
<1>7. (t.terms \ held) \cup {new} = t.terms
    BY <1>5
<1>8. SyncTerm(t, s.item) = [t EXCEPT !.terms = (@ \ held) \cup {[s.item EXCEPT !.retired = b]}]
  <2>1. held = same
    BY <1>5
  <2> QED
    BY <1>6, <2>1 DEF SyncTerm
<1> QED
    BY <1>3, <1>7, <1>8 DEF TableStates

\* The statements together.
LEMMA Executed ==
    ASSUME NEW t \in TableStates, NEW s \in AllStatements
    PROVE  /\ Execute(t, s) \in TableStates \cup {Failed}
           /\ Execute(t, s) # Failed => Follows(t, Execute(t, s), s)
           /\ Sound(t) /\ Stands(t, s) => Execute(t, s) = t
<1>1. t # Failed
    BY FailedIsNoTable
<1>2. CASE s \in Identifying
  <2>1. Execute(t, s) = EnsureIdentity(t, s.kind, s.item)
    BY <1>1, <1>2 DEF Execute, Identifying
  <2>2. Execute(t, s) # Failed => Follows(t, Execute(t, s), s)
    BY <1>2, <2>1, IdentityFollows
  <2> QED
    BY <1>2, <2>1, <2>2, IdentityIdles DEF Follows
<1>3. CASE s \in Versioning
  <2>1. Execute(t, s) = EnsureVersion(t, s.kind, s.parent, s.item)
    BY <1>1, <1>3 DEF Execute, Versioning
  <2>2. Execute(t, s) # Failed => Follows(t, Execute(t, s), s)
    BY <1>3, <2>1, VersionFollows
  <2> QED
    BY <1>3, <2>1, <2>2, VersionIdles DEF Follows
<1>4. CASE s \in Naming
  <2>1. Execute(t, s) = SyncTerm(t, s.item)
    BY <1>1, <1>4 DEF Execute, Naming
  <2>2. Execute(t, s) # Failed => Follows(t, Execute(t, s), s)
    BY <1>4, <2>1, TermFollows
  <2> QED
    BY <1>4, <2>1, <2>2, TermIdles DEF Follows
<1> QED
    BY <1>2, <1>3, <1>4 DEF AllStatements

-------------------------------------------------------------------------------
(* Catalogs: all statements of a source.                                     *)

\* The tables after each of n statements, done one after the other.
Runs(w, n, t, all) ==
    /\ w \in [0 .. n -> TableStates \cup {Failed}]
    /\ w[0] = t /\ \A i \in 1 .. n : w[i] = Execute(w[i - 1], all[i])

LEMMA SyncedRuns ==
    ASSUME NEW t \in TableStates, NEW source \in SourceFiles
    PROVE  \E w : Runs(w, Len(Statements(source)), t, Statements(source))
                    /\ Synced(t, source) = w[Len(Statements(source))]
<1> DEFINE all == Statements(source)
           n == Len(all)
           V == TableStates \cup {Failed}
           Do(i, u) == Execute(u, all[i])
           Eq(w) == w = [i \in 0 .. n |-> IF i = 0 THEN t ELSE Execute(w[i - 1], all[i])]
           After == CHOOSE w : Eq(w)
<1>1. Synced(t, source) = After[n]
    BY DEF Synced
<1>2. n \in Nat /\ \A i \in 1 .. n : all[i] \in AllStatements
    BY StatementsOfSource
<1>3. \A i \in 1 .. n : \A u \in V : Do(i, u) \in V
  <2>1. \A i \in 1 .. n : \A u \in TableStates : Do(i, u) \in V
    BY <1>2, Executed
  <2>2. \A i \in 1 .. n : Do(i, Failed) = Failed
    BY DEF Execute
  <2> QED
    BY <2>1, <2>2
<1> HIDE DEF all, n
<1>4. \E w : Eq(w)
  <2> DEFINE step == [x \in (1 .. n) \X V |-> Do(x[1], x[2])]
  <2>1. step \in [(1 .. n) \X V -> V]
    <3> HIDE DEF Do
    <3> QED
      BY <1>3
  <2>2. PICK w : Recursive(w, n, V, t, step)
    <3> HIDE DEF step
    <3> QED
      BY <1>2, <2>1, Recursion
  <2>3. w \in [0 .. n -> V] /\ w[0] = t /\ \A i \in 1 .. n : w[i] = Do(i, w[i - 1])
    <3>1. w \in [0 .. n -> V] /\ \A i \in 1 .. n : i - 1 \in 0 .. n
      BY <1>2, <2>2 DEF Recursive
    <3>2. \A i \in 1 .. n : <<i, w[i - 1]>> \in (1 .. n) \X V
      BY <3>1
    <3> HIDE DEF Do
    <3> QED
      BY <2>2, <3>2 DEF Recursive
  <2>4. ASSUME NEW i \in 0 .. n PROVE w[i] = IF i = 0 THEN t ELSE Execute(w[i - 1], all[i])
    <3>1. CASE i = 0
      BY <2>3, <3>1
    <3>2. CASE i # 0
      <4>1. i \in 1 .. n
        BY <1>2, <3>2
      <4> QED
        BY <2>3, <3>2, <4>1
    <3> QED
      BY <3>1, <3>2
  <2>5. Eq(w)
    BY <2>3, <2>4
  <2> QED
    BY <2>5
<1>5. Eq(After)
  <2> HIDE DEF Eq
  <2> QED
    BY <1>4
<1> HIDE DEF After
<1>6. /\ DOMAIN After = 0 .. n
      /\ \A i \in 0 .. n : After[i] = IF i = 0 THEN t ELSE Execute(After[i - 1], all[i])
    BY <1>5
<1>7. After[0] = t /\ \A i \in 1 .. n : After[i] = Execute(After[i - 1], all[i])
  <2>1. \A i \in 1 .. n : i \in 0 .. n /\ i # 0
    BY <1>2
  <2> QED
    BY <1>2, <1>6, <2>1
<1>8. After \in [0 .. n -> V]
  <2> DEFINE P == {i \in 0 .. n : After[i] \in V}
  <2>1. 0 \in P
    BY <1>2, <1>7
  <2>2. ASSUME NEW i \in 0 .. n, i \in P, i < n PROVE i + 1 \in P
    <3>1. i + 1 \in 1 .. n /\ (i + 1) - 1 = i /\ i + 1 \in 0 .. n
      BY <1>2, <2>2
    <3> QED
      BY <1>3, <1>7, <2>2, <3>1
  <2>3. 0 .. n \subseteq P
    <3> HIDE DEF P
    <3> QED
      BY <1>2, <2>1, <2>2, UpTo
  <2>4. After = [i \in 0 .. n |-> After[i]]
    BY <1>5
  <2> QED
    BY <2>3, <2>4
<1>9. Runs(After, n, t, all)
    BY <1>7, <1>8 DEF Runs
<1> QED
    BY <1>1, <1>9 DEF all, n

\* What a synchronization leaves: everything the source says, and no link the
\* tables and the source do not have.
Completes(t, u, source) ==
    /\ u \in TableStates /\ Sound(u) /\ RowsStay(t, u)
    /\ \A s \in Elements(Statements(source)) : Stands(u, s)
    /\ \A id : Withdrawn(t, id) => Withdrawn(u, id)
    /\ \A link \in u.links : link \in t.links \/
         \E s \in Elements(Statements(source)) : s.do = "version" /\ link \in LinksOf(s.kind, s.item)

LEMMA SyncCompletes ==
    ASSUME NEW t \in TableStates, Sound(t), NEW source \in SourceFiles, IdsDiffer(source),
           NEW u, u = Synced(t, source), u # Failed
    PROVE  Completes(t, u, source)
<1> DEFINE all == Statements(source)
           n == Len(all)
           From(link, i) == link \in t.links \/
              \E j \in 1 .. i : all[j].do = "version" /\ link \in LinksOf(all[j].kind, all[j].item)
           Done(v, i) ==
             /\ v \in TableStates /\ Sound(v) /\ RowsStay(t, v)
             /\ \A j \in 1 .. i : Stands(v, all[j])
             /\ \A id : Withdrawn(t, id) => Withdrawn(v, id)
             /\ \A link \in v.links : From(link, i)
<1>1. PICK w : Runs(w, n, t, all) /\ u = w[n]
    BY SyncedRuns
<1>2. n \in Nat /\ DOMAIN all = 1 .. n /\ \A i \in 1 .. n : all[i] \in AllStatements
    BY StatementsOfSource
<1>3. \A i, j \in 1 .. n : SameRow(all[i], all[j]) => all[i] = all[j]
  <2>1. IsInjective([i \in DOMAIN all |-> all[i].item.id])
    BY DEF IdsDiffer
  <2>2. \A i, j \in 1 .. n : all[i].item.id = all[j].item.id => i = j
    <3> HIDE DEF all
    <3> QED
      BY <1>2, <2>1 DEF IsInjective
  <2> QED
    BY <2>2 DEF SameRow
<1> HIDE DEF all, n
<1> DEFINE P == {i \in 0 .. n : w[i] # Failed => Done(w[i], i)}
<1>4. 0 \in P
  <2>1. RowsStay(t, t)
    BY DEF RowsStay
  <2>2. w[0] = t
    BY <1>1 DEF Runs
  <2>3. Done(t, 0)
    BY <2>1
  <2> QED
    BY <1>2, <2>2, <2>3
<1>5. ASSUME NEW i \in 0 .. n, i \in P, i < n PROVE i + 1 \in P
  <2>1. i + 1 \in 1 .. n /\ (i + 1) - 1 = i /\ i + 1 \in 0 .. n
    BY <1>2, <1>5
  <2>2. SUFFICES ASSUME w[i + 1] # Failed PROVE Done(w[i + 1], i + 1)
    BY <2>1
  <2>3. w[i + 1] = Execute(w[i], all[i + 1])
    BY <1>1, <2>1 DEF Runs
  <2>4. w[i] # Failed
    BY <2>2, <2>3 DEF Execute
  <2>5. Done(w[i], i)
    BY <1>5, <2>4
  <2> DEFINE v == w[i]
             x == w[i + 1]
             s == all[i + 1]
  <2>6. s \in AllStatements /\ v \in TableStates /\ Follows(v, x, s)
    BY <1>2, <2>1, <2>2, <2>3, <2>5, Executed
  <2>7. 1 .. i + 1 = (1 .. i) \cup {i + 1} /\ 1 .. i \subseteq 1 .. n
    BY <1>2, <2>1
  <2> HIDE DEF P, v, x, s
  <2>8. Done(v, i)
    BY <2>5 DEF v
  <2> HIDE DEF Done
  <2>9. x \in TableStates /\ Sound(x)
    BY <2>6, <2>8 DEF Done, Follows
  <2>10. RowsStay(t, x)
    BY <2>6, <2>8 DEF Done, Follows, RowsStay
  <2>11. ASSUME NEW j \in 1 .. i + 1 PROVE Stands(x, all[j])
    <3>1. CASE j = i + 1
      BY <2>6, <3>1 DEF Follows, s
    <3>2. CASE j # i + 1
      <4>1. j \in 1 .. i /\ j \in 1 .. n
        BY <2>1, <2>7, <3>2
      <4>2. Stands(v, all[j]) /\ all[j] \in AllStatements
        BY <1>2, <2>8, <4>1 DEF Done
      <4>3. SameRow(all[j], s) => all[j] = s
        BY <1>3, <2>1, <4>1 DEF s
      <4> QED
        BY <2>6, <4>2, <4>3 DEF Follows
    <3> QED
      BY <3>1, <3>2
  <2>12. \A id : Withdrawn(t, id) => Withdrawn(x, id)
    BY <2>6, <2>8 DEF Done, Follows
  <2>13. ASSUME NEW link \in x.links PROVE From(link, i + 1)
    <3>1. link \in v.links \/ (s.do = "version" /\ link \in LinksOf(s.kind, s.item))
      BY <2>6, <2>13 DEF Follows, LinksFrom
    <3>2. CASE link \in v.links
      <4>1. From(link, i)
        BY <2>8, <3>2 DEF Done
      <4> QED
        BY <2>7, <4>1
    <3>3. CASE s.do = "version" /\ link \in LinksOf(s.kind, s.item)
      BY <2>7, <3>3 DEF s
    <3> QED
      BY <3>1, <3>2, <3>3
  <2> HIDE DEF From
  <2>14. Done(x, i + 1)
    BY <2>9, <2>10, <2>11, <2>12, <2>13 DEF Done
  <2> QED
    BY <2>14 DEF x
<1>6. Done(u, n)
  <2>1. 0 .. n \subseteq P /\ n \in 0 .. n
    <3> HIDE DEF P
    <3> QED
      BY <1>2, <1>4, <1>5, UpTo
  <2> HIDE DEF Done
  <2> QED
    BY <1>1, <2>1
<1>7. \A s \in Elements(all) : \E j \in 1 .. n : s = all[j]
    BY <1>2 DEF Elements
<1>8. \A j \in 1 .. n : all[j] \in Elements(all)
    BY <1>2 DEF Elements
<1>9. \A s \in Elements(all) : Stands(u, s)
    BY <1>6, <1>7
<1>10. \A link \in u.links : link \in t.links \/
         \E s \in Elements(all) : s.do = "version" /\ link \in LinksOf(s.kind, s.item)
    BY <1>6, <1>8
<1>11. u \in TableStates /\ Sound(u) /\ RowsStay(t, u) /\ \A id : Withdrawn(t, id) => Withdrawn(u, id)
    BY <1>6
<1> QED
    BY <1>9, <1>10, <1>11 DEF Completes, all

\* A source that is in the tables already changes nothing.
LEMMA SyncIdles ==
    ASSUME NEW t \in TableStates, Sound(t), NEW source \in SourceFiles,
           \A s \in Elements(Statements(source)) : Stands(t, s)
    PROVE  Synced(t, source) = t
<1> DEFINE all == Statements(source)
           n == Len(all)
<1>1. PICK w : Runs(w, n, t, all) /\ Synced(t, source) = w[n]
    BY SyncedRuns
<1>2. n \in Nat /\ DOMAIN all = 1 .. n /\ \A i \in 1 .. n : all[i] \in AllStatements
    BY StatementsOfSource
<1>3. \A i \in 1 .. n : Stands(t, all[i])
    BY <1>2 DEF Elements
<1> HIDE DEF all, n
<1> DEFINE P == {i \in 0 .. n : w[i] = t}
<1>4. 0 \in P
    BY <1>1, <1>2 DEF Runs
<1>5. ASSUME NEW i \in 0 .. n, i \in P, i < n PROVE i + 1 \in P
  <2>1. i + 1 \in 1 .. n /\ (i + 1) - 1 = i /\ i + 1 \in 0 .. n
    BY <1>2, <1>5
  <2>2. w[i + 1] = Execute(t, all[i + 1])
    BY <1>1, <1>5, <2>1 DEF Runs
  <2> QED
    BY <1>2, <1>3, <2>1, <2>2, Executed
<1>6. n \in P
  <2> HIDE DEF P
  <2>1. 0 .. n \subseteq P /\ n \in 0 .. n
    BY <1>2, <1>4, <1>5, UpTo
  <2> QED
    BY <2>1
<1> QED
    BY <1>1, <1>6

-------------------------------------------------------------------------------
(* Catalogs: the theorem.                                                    *)

LEMMA EntriesOfSource ==
    ASSUME NEW source \in SourceFiles, NEW k \in Kinds, NEW e \in Elements(source[k])
    PROVE  e \in Entries /\ e.versions \in Seq(Versions)
<1>1. source[k] \in Seq(Entries)
    BY DEF SourceFiles, Kinds
<1>2. e \in Entries
    BY <1>1 DEF Elements
<1> QED
    BY <1>2 DEF Entries

\* A course of a valid source is linked to versions of its programs.
LEMMA LinksAreKnown ==
    ASSUME NEW source \in SourceFiles, ValidLinks(source),
           NEW s \in Elements(Statements(source)), s.do = "version",
           NEW link \in LinksOf(s.kind, s.item)
    PROVE  \E r \in Elements(Statements(source)) :
             r.do = "version" /\ r.kind = "program" /\ r.item.id = link[2]
<1>1. s.kind = "course" /\ link \in {s.item.id} \X Elements(s.item.links)
    BY DEF LinksOf
<1>2. PICK k \in Kinds : \E e \in Elements(source[k]) : s \in Elements(EntryStatements(k, e))
  <2>1. s.do # "term"
    OBVIOUS
  <2> QED
    BY <2>1, StatementsOfSource
<1> PICK e \in Elements(source[k]) : s \in Elements(EntryStatements(k, e))
    BY <1>2
<1>3. PICK v \in Elements(e.versions) : s = Statement("version", k, e.id, v)
  <2>1. e \in Entries
    BY EntriesOfSource
  <2> QED
    BY <1>2, <2>1, StatementsOfEntry DEF Statement
<1>4. k = "course" /\ s.item = v
    BY <1>1, <1>3 DEF Statement
<1>5. e \in Elements(source.course)
    BY <1>4
<1>6. link[2] \in Elements(v.links)
    BY <1>1, <1>4
<1>7. PICK f \in Elements(source.program) : \E x \in Elements(f.versions) : link[2] = x.id
    BY <1>3, <1>5, <1>6 DEF ValidLinks
<1> PICK x \in Elements(f.versions) : link[2] = x.id
    BY <1>7
<1>8. "program" \in Kinds /\ f \in Elements(source["program"])
    BY DEF Kinds
<1>9. Statement("version", "program", f.id, x) \in Elements(EntryStatements("program", f))
  <2>1. f \in Entries
    BY <1>8, EntriesOfSource
  <2> QED
    BY <1>8, <2>1, StatementsOfEntry
<1>10. Statement("version", "program", f.id, x) \in Elements(Statements(source))
    BY <1>8, <1>9, StatementsOfSource
<1> QED
    BY <1>7, <1>10 DEF Statement

\* What every statement and every synchronization keeps.
LinksHold(t) == \A link \in t.links : \E x \in t.versions : x.kind = "program" /\ x.id = link[2]

CatalogInv ==
    /\ db \in TableStates /\ Sound(db) /\ LinksHold(db)
    /\ tried \in Sources \cup {Nil}
    /\ outcome \in {"none", "synchronized", "failed", "invalid", "lost"}
    /\ outcome = "synchronized" =>
         tried \in Sources /\ \A s \in Elements(Statements(tried)) : Stands(db, s)

LEMMA SyncKeepsLinks ==
    ASSUME NEW t \in TableStates, LinksHold(t), NEW source \in SourceFiles, ValidLinks(source),
           NEW u, Completes(t, u, source)
    PROVE  LinksHold(u)
<1> SUFFICES ASSUME NEW link \in u.links
             PROVE  \E y \in u.versions : y.kind = "program" /\ y.id = link[2]
    BY DEF LinksHold
<1>1. CASE link \in t.links
  <2>1. PICK x \in t.versions : x.kind = "program" /\ x.id = link[2]
    BY <1>1 DEF LinksHold
  <2> QED
    BY <2>1 DEF Completes, RowsStay
<1>2. CASE \E s \in Elements(Statements(source)) : s.do = "version" /\ link \in LinksOf(s.kind, s.item)
  <2>1. PICK r \in Elements(Statements(source)) :
          r.do = "version" /\ r.kind = "program" /\ r.item.id = link[2]
    BY <1>2, LinksAreKnown
  <2>2. Row(r.kind, r.parent, r.item) \in u.versions
    BY <2>1 DEF Completes, Stands
  <2> QED
    BY <2>1, <2>2 DEF Row
<1> QED
    BY <1>1, <1>2 DEF Completes

LEMMA CatalogInvStep == CatalogInv /\ [CatalogNext]_catalogVars => CatalogInv'
<1> SUFFICES ASSUME CatalogInv, [CatalogNext]_catalogVars PROVE CatalogInv'
    OBVIOUS
<1>1. CASE UNCHANGED catalogVars
    BY <1>1 DEF CatalogInv, catalogVars, LinksHold, Sound, IdentitiesKeyed, VersionsKeyed,
         PeriodsApart, TermsKeyed, Stands
<1>2. ASSUME NEW source \in Sources, Sync(source) PROVE CatalogInv'
  <2>1. source \in SourceFiles /\ IdsDiffer(source) /\ ValidLinks(source)
    BY <1>2, CatalogAssumption DEF Sync, Valid
  <2>2. CASE Synced(db, source) = Failed
    BY <1>2, <2>2 DEF Sync, CatalogInv
  <2>3. CASE Synced(db, source) # Failed
    <3>1. db' = Synced(db, source) /\ tried' = source /\ outcome' = "synchronized"
      BY <1>2, <2>3 DEF Sync
    <3>2. Completes(db, db', source)
      BY <2>1, <2>3, <3>1, SyncCompletes DEF CatalogInv
    <3>3. LinksHold(db')
      BY <2>1, <3>2, SyncKeepsLinks DEF CatalogInv
    <3> QED
      BY <3>1, <3>2, <3>3 DEF CatalogInv, Completes
  <2> QED
    BY <2>2, <2>3
<1>3. ASSUME NEW source \in Sources, RefuseSource(source) \/ LoseTransaction(source) PROVE CatalogInv'
    BY <1>3 DEF RefuseSource, LoseTransaction, CatalogInv
<1> QED
    BY <1>1, <1>2, <1>3 DEF CatalogNext

LEMMA CatalogInvSuffices == CatalogInv => CatalogsFollowSources
<1> SUFFICES ASSUME CatalogInv PROVE CatalogsFollowSources
    OBVIOUS
<1>1. TablesHold
    BY DEF CatalogInv, TablesHold, LinksHold, Sound, VersionsKeyed
<1>2. OverlapsAreFound
  <2> SUFFICES ASSUME tried # Nil, NEW k \in Kinds, NEW e \in Elements(tried[k]),
                      \A v \in Elements(e.versions) : Before(v.from, v.to)
               PROVE  ValidateNoOverlap(e.versions) <=>
                        \A i, j \in DOMAIN e.versions : i # j => ~Overlap(e.versions[i], e.versions[j])
    BY DEF OverlapsAreFound
  <2>1. e.versions \in Seq(Versions)
    BY CatalogAssumption, EntriesOfSource DEF CatalogInv
  <2>2. \A i \in DOMAIN e.versions : Before(e.versions[i].from, e.versions[i].to)
    BY DEF Elements
  <2> QED
    BY <2>1, <2>2, NeighboursSuffice
<1>3. SourceIsStored
  <2> SUFFICES ASSUME outcome = "synchronized"
               PROVE  /\ \A k \in Kinds : \A e \in Elements(tried[k]) :
                           /\ [kind |-> k, id |-> e.id, key |-> e.key] \in db.identities
                           /\ \A v \in Elements(e.versions) :
                                Row(k, e.id, v) \in db.versions /\ LinksOf(k, v) \subseteq db.links
                      /\ \A term \in Elements(tried.terms) :
                           \E x \in db.terms :
                             x.id = term.id /\ x.content = term.content /\ (term.retired => x.retired)
    BY DEF SourceIsStored
  <2>1. tried \in SourceFiles /\ \A s \in Elements(Statements(tried)) : Stands(db, s)
    BY CatalogAssumption DEF CatalogInv
  <2>2. ASSUME NEW k \in Kinds, NEW e \in Elements(tried[k])
        PROVE  /\ [kind |-> k, id |-> e.id, key |-> e.key] \in db.identities
               /\ \A v \in Elements(e.versions) :
                    Row(k, e.id, v) \in db.versions /\ LinksOf(k, v) \subseteq db.links
    <3>1. e \in Entries
      BY <2>1, <2>2, EntriesOfSource
    <3>2. /\ Elements(EntryStatements(k, e)) \subseteq Elements(Statements(tried))
          /\ Elements(EntryStatements(k, e)) =
                {Statement("identity", k, e.id, e)}
                  \cup {Statement("version", k, e.id, v) : v \in Elements(e.versions)}
      BY <2>1, <2>2, <3>1, StatementsOfSource, StatementsOfEntry
    <3>3. Stands(db, Statement("identity", k, e.id, e))
      BY <2>1, <3>2
    <3>4. \A v \in Elements(e.versions) : Stands(db, Statement("version", k, e.id, v))
      BY <2>1, <3>2
    <3> QED
      BY <3>3, <3>4 DEF Stands, Statement
  <2>3. ASSUME NEW term \in Elements(tried.terms)
        PROVE  \E x \in db.terms :
                 x.id = term.id /\ x.content = term.content /\ (term.retired => x.retired)
    <3>1. term \in Terms
      <4>1. tried.terms \in Seq(Terms)
        BY <2>1 DEF SourceFiles
      <4> QED
        BY <2>3, <4>1 DEF Elements
    <3>2. Stands(db, Statement("term", "term", term.id, term))
      BY <2>1, <2>3, StatementsOfSource
    <3>3. PICK b \in BOOLEAN : [term EXCEPT !.retired = b] \in db.terms /\ (term.retired => b)
      BY <3>2 DEF Stands, Statement
    <3>4. [term EXCEPT !.retired = b].id = term.id /\ [term EXCEPT !.retired = b].content = term.content
          /\ [term EXCEPT !.retired = b].retired = b
      BY <3>1 DEF Terms
    <3> QED
      BY <3>3, <3>4
  <2> QED
    BY <2>2, <2>3
<1>4. SyncIsRepeatable
    BY CatalogAssumption, SyncIdles DEF SyncIsRepeatable, CatalogInv
<1>5. RetiredStaysRetired
  <2> SUFFICES ASSUME NEW x \in db.terms, x.id \notin Listed(db.terms), NEW source \in Sources, Valid(source),
                      Synced(db, source) # Failed
               PROVE  x.id \notin Listed(Synced(db, source).terms)
    BY DEF RetiredStaysRetired
  <2>1. Withdrawn(db, x.id)
    BY DEF Listed, Withdrawn
  <2>2. source \in SourceFiles /\ IdsDiffer(source)
    BY CatalogAssumption DEF Valid
  <2>3. Completes(db, Synced(db, source), source)
    BY <2>2, SyncCompletes DEF CatalogInv
  <2>4. Withdrawn(Synced(db, source), x.id)
    BY <2>1, <2>3 DEF Completes
  <2> QED
    BY <2>4 DEF Listed, Withdrawn
<1> QED
    BY <1>1, <1>2, <1>3, <1>4, <1>5 DEF CatalogsFollowSources

\* Whatever sources are synchronized in whatever order: overlapping periods are
\* found, and the tables follow the sources (catalog.go, sync.go).
THEOREM CatalogsTheorem == CatalogSpec => []CatalogsFollowSources
<1>1. CatalogInit => CatalogInv
  <2> SUFFICES ASSUME CatalogInit PROVE CatalogInv
    OBVIOUS
  <2>1. NoTables \in TableStates
    BY DEF NoTables, TableStates
  <2>2. Sound(NoTables) /\ LinksHold(NoTables)
    BY DEF NoTables, Sound, IdentitiesKeyed, VersionsKeyed, PeriodsApart, TermsKeyed, LinksHold
  <2> QED
    BY <2>1, <2>2 DEF CatalogInit, CatalogInv
<1> QED
    BY <1>1, CatalogInvStep, CatalogInvSuffices, PTL DEF CatalogSpec
==============================================================================
