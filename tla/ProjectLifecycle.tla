-------------------------- MODULE ProjectLifecycle --------------------------
(***************************************************************************)
(* One project as its administrators change it: the project row with its   *)
(* children (projects/service.go), its ordered repository links            *)
(* (projectlinks/service.go) and its logo (projectlogos/service.go).       *)
(* Several administrators work at once.  Each reads the project in four    *)
(* queries that no transaction holds together, and later sends a change    *)
(* with the revision it read.  A change is one transaction that holds the  *)
(* project's row lock, hence one step here; what a request does before its *)
(* transaction (the confirmation of a deletion, the bytes of a logo) is a  *)
(* step of its own.  A Content is everything Input replaces, title and     *)
(* children, as one value.                                                 *)
(***************************************************************************)
EXTENDS Integers, Sequences, FiniteSets, SequencesExt

CONSTANTS Editors,      \* administrators
          Contents,     \* what a project may say
          Untitled,     \* the contents with neither title nor reference code
          Refused,      \* the contents validateInput or a missing row refuses
          Images,       \* PNG images
          Links,        \* lists of repository links as requests send them
          Canonical,    \* a typed URL's canonical form, or "invalid"
          MaxRevision,  \* bound: no change is sent at this revision
          MaxUploads    \* bound on the logo uploads

ASSUME EditorsAssumption == Editors \cap {"row", "removed"} = {}
ASSUME ContentsAssumption == Contents # {}
                              /\ Untitled \subseteq Contents \ Refused
ASSUME LinksAssumption ==
    Links \subseteq Seq([url : DOMAIN Canonical, primary : BOOLEAN])
ASSUME BoundsAssumption == MaxRevision \in Nat \ {0} /\ MaxUploads \in Nat

VARIABLES row,      \* the project row, with its children's content
          links,    \* project_repository_links: the accepted set
          logos,    \* project_logos: active and deleted rows
          stored,   \* objects in the logo storage: [key, image]
          log,      \* audit_events about the project, in commit order
          sync,     \* search_sync: desired revision and action
          view,     \* what each administrator has read
          pc,       \* where each administrator is
          answer,   \* the last answer given, to whom and for what
          served    \* logo versions the public has seen, with the image

vars == <<row, links, logos, stored, log, sync, view, pc, answer, served>>

Queries == <<"row", "aliases", "participations", "terms">>
NoView == [revision |-> 0, seen |-> << >>]
Complete(v) == Len(v.seen) = Len(Queries)
Live == {"draft", "published"}
EventTypes == {"created", "updated", "publish", "restore", "deleted",
               "links", "logo", "logo_removed"}
Absent == [status |-> "absent", pre |-> "none", revision |-> 0,
           publishedAt |-> 0, deleted |-> FALSE, content |-> "none"]

Init ==
    /\ row = Absent
    /\ links = << >>
    /\ logos = {}
    /\ stored = {}
    /\ log = << >>
    /\ sync = [revision |-> 0, action |-> "none"]
    /\ view = [e \in Editors |-> NoView]
    /\ pc = [e \in Editors |-> "ready"]
    /\ answer = [by |-> "nobody", op |-> "none", result |-> "none"]
    /\ served = {}

Answer(e, op, result) == answer' = [by |-> e, op |-> op, result |-> result]

\* The action a change asks of the search index.
ActionOf(status) == IF status = "published" THEN "upsert" ELSE "remove"

\* What every change of the project commits with: the next revision, its
\* search request, and its audit event.
Committed(newRow, event) ==
    /\ row' = [newRow EXCEPT !.revision = row.revision + 1]
    /\ sync' = [revision |-> row.revision + 1,
                action |-> ActionOf(newRow.status)]
    /\ log' = Append(log, event)

Nothing == UNCHANGED <<row, links, logos, stored, log, sync, served>>

-----------------------------------------------------------------------------
(* Create, Get.                                                            *)

\* validateInput and validateReferences, then the columns and the children.
ValidInput(c) == c \notin Refused
WithChildren(newRow, c) == [newRow EXCEPT !.content = c]

Create(e) ==
    /\ pc[e] = "ready" /\ row.status = "absent"
    /\ \E c \in Contents :
         IF ValidInput(c)
         THEN /\ Committed(WithChildren([Absent EXCEPT !.status = "draft"], c),
                           "created")
              /\ Answer(e, "create", "ok")
         ELSE UNCHANGED <<row, sync, log>> /\ Answer(e, "create", "invalid")
    /\ UNCHANGED <<links, logos, stored, view, pc, served>>

\* What an answer shows of the row.
FromRecord == [revision |-> row.revision, seen |-> <<row.content>>]

\* Mutated form: the children are read before the row.
Read_RowLast(e) ==
    /\ pc[e] = "ready" /\ row.status # "absent"
    /\ ~(Complete(view[e]) /\ view[e].revision = row.revision)
    /\ view' = [view EXCEPT ![e] =
         [revision |-> row.revision,
          seen |-> Append(IF Complete(@) THEN << >> ELSE @.seen, row.content)]]
    /\ Nothing /\ UNCHANGED <<pc, answer>>

\* Get: the row first, then one query per kind of child on the pool.
Read(e) ==
    /\ pc[e] = "ready" /\ row.status # "absent"
    /\ ~(Complete(view[e]) /\ view[e].revision = row.revision)
    /\ view' = [view EXCEPT ![e] =
         IF @ = NoView \/ Complete(@)
         THEN FromRecord
         ELSE [revision |-> @.revision, seen |-> Append(@.seen, row.content)]]
    /\ Nothing /\ UNCHANGED <<pc, answer>>

\* A request needs a revision, which only a complete answer shows.
MayChange(e) == /\ pc[e] = "ready" /\ Complete(view[e])
                /\ row.revision < MaxRevision

-----------------------------------------------------------------------------
(* Replace, Publish, Restore, Delete: a guarded UPDATE that matches the    *)
(* revision and the status, or no row at all.                              *)

Guarded(e, op, statuses, newRow, event) ==
    /\ IF row.revision = view[e].revision /\ row.status \in statuses
       THEN Committed(newRow, event) /\ Answer(e, op, "ok")
       ELSE UNCHANGED <<row, sync, log>> /\ Answer(e, op, "conflict")
    /\ UNCHANGED <<links, logos, stored, view, served>>

Replace(e) ==
    /\ MayChange(e)
    /\ \E c \in Contents :
         IF ValidInput(c)
         THEN Guarded(e, "replace", Live, WithChildren(row, c), "updated")
         ELSE Nothing /\ Answer(e, "replace", "invalid") /\ UNCHANGED view
    /\ UNCHANGED pc

PublishProject(e) ==
    Guarded(e, "publish", {"draft"},
            [row EXCEPT !.status = "published",
                        !.publishedAt = row.revision + 1], "publish")
Publish(e) == MayChange(e) /\ PublishProject(e) /\ UNCHANGED pc

\* Mutated forms: the status before the deletion stays recorded; every
\* restored project is a draft again.
RestoreProject_KeepPre(e) ==
    Guarded(e, "restore", {"deleted"},
            [row EXCEPT !.status = row.pre, !.deleted = FALSE], "restore")
RestoreProject_AsDraft(e) ==
    Guarded(e, "restore", {"deleted"},
            [row EXCEPT !.status = "draft", !.pre = "none", !.deleted = FALSE,
                        !.publishedAt = 0], "restore")

RestoreProject(e) ==
    Guarded(e, "restore", {"deleted"},
            [row EXCEPT !.status = row.pre, !.pre = "none", !.deleted = FALSE],
            "restore")
Restore(e) == MayChange(e) /\ RestoreProject(e) /\ UNCHANGED pc

\* matchesConfirmation: the title or the reference code, typed again.
MatchesConfirmation(current, confirmation) ==
    confirmation = current /\ current \notin Untitled

\* Delete reads the project and compares the confirmation before it opens
\* its transaction.
ConfirmDelete(e) ==
    /\ MayChange(e)
    /\ IF MatchesConfirmation(row.content, view[e].seen[1])
       THEN pc' = [pc EXCEPT ![e] = "deleting"] /\ UNCHANGED answer
       ELSE Answer(e, "delete", "invalid_confirmation") /\ UNCHANGED pc
    /\ Nothing /\ UNCHANGED view

DeleteProject(e) ==
    Guarded(e, "delete", Live,
            [row EXCEPT !.status = "deleted", !.pre = row.status,
                        !.deleted = TRUE], "deleted")
Delete(e) ==
    /\ pc[e] = "deleting"
    /\ DeleteProject(e)
    /\ pc' = [pc EXCEPT ![e] = "ready"]

-----------------------------------------------------------------------------
(* Repository links.  A request's link is a record [url, primary].         *)

Normalized(inputs) ==
    [i \in DOMAIN inputs |-> [inputs[i] EXCEPT !.url = Canonical[@]]]

\* Validate: every URL usable, no canonical URL twice, one primary link.
Validate(inputs) ==
    LET list == Normalized(inputs) IN
    /\ \A i \in DOMAIN list : list[i].url # "invalid"
    /\ \A i, j \in DOMAIN list : i # j => list[i].url # list[j].url
    /\ inputs # << >> =>
         Cardinality({i \in DOMAIN list : list[i].primary}) = 1

\* The checks every link and logo transaction makes under the row lock.
LockAnswer(e) ==
    CASE row.revision # view[e].revision -> "conflict"
      [] row.status = "deleted" -> "invalid_state"
      [] OTHER -> "ok"

\* Mutated form: the project's revision stays.
AdvanceAfterLinks_Quiet == UNCHANGED <<row, sync, log>>

\* advanceProjectAfterLinkMutation, and the audit event.
AdvanceAfterLinks == Committed(row, "links")

ReplaceLinks(e) ==
    /\ MayChange(e)
    /\ \E inputs \in Links :
         IF ~Validate(inputs)
         THEN UNCHANGED <<row, sync, log, links>> /\ Answer(e, "links", "invalid")
         ELSE /\ Answer(e, "links", LockAnswer(e))
              /\ IF LockAnswer(e) = "ok" /\ links # Normalized(inputs)
                 THEN links' = Normalized(inputs) /\ AdvanceAfterLinks
                 ELSE UNCHANGED <<row, sync, log, links>>
    /\ UNCHANGED <<logos, stored, view, pc, served>>

-----------------------------------------------------------------------------
(* The logo.  A logo row is [revision, status, key]; keys count uploads.   *)

Active == {l \in logos : l.status = "active"}
SoftDeleted(rows) ==
    {[l EXCEPT !.status = "deleted", !.revision = @ + 1] : l \in rows}
RetiredLogos == (logos \ Active) \cup SoftDeleted(Active)

\* Mutated form: one above the active rows.
NextLogoRevision_Active(rows) ==
    1 + Max({0} \cup {l.revision : l \in {r \in rows : r.status = "active"}})

\* One above every row the project ever had.
NextLogoRevision(rows) == 1 + Max({0} \cup {l.revision : l \in rows})

\* The object an upload under way has written, and what becomes of it.
Written(e) == CHOOSE o \in stored : o.owner = e

HandedTo(e, owner) ==
    (stored \ {Written(e)}) \cup {[Written(e) EXCEPT !.owner = owner]}

\* Upload writes the object before its transaction.
PutLogo(e) ==
    /\ MayChange(e) /\ Cardinality(stored) < MaxUploads
    /\ \E i \in Images :
         stored' = stored \cup {[key |-> 1 + Cardinality(stored), image |-> i,
                                 owner |-> e]}
    /\ pc' = [pc EXCEPT ![e] = "uploading"]
    /\ UNCHANGED <<row, links, logos, log, sync, view, answer, served>>

\* Its transaction retires the previous logo and adds the new one.
UploadLogo(e) ==
    /\ pc[e] = "uploading"
    /\ pc' = [pc EXCEPT ![e] = "ready"]
    /\ Answer(e, "upload", LockAnswer(e))
    /\ IF LockAnswer(e) = "ok"
       THEN /\ logos' = RetiredLogos \cup
                 {[revision |-> NextLogoRevision(RetiredLogos),
                   status |-> "active", key |-> Written(e).key]}
            /\ stored' = HandedTo(e, "row")
            /\ Committed(row, "logo")
       ELSE /\ stored' = HandedTo(e, "removed")
            /\ UNCHANGED <<logos, row, sync, log>>
    /\ UNCHANGED <<links, view, served>>

\* The transaction fails for a reason of its own: only the new object goes.
UploadFails(e) ==
    /\ pc[e] = "uploading"
    /\ pc' = [pc EXCEPT ![e] = "ready"]
    /\ stored' = HandedTo(e, "removed")
    /\ Answer(e, "upload", "failed")
    /\ UNCHANGED <<row, links, logos, log, sync, view, served>>

\* Remove: with no active logo the handler dereferences a nil pointer, the
\* transaction rolls back and the client gets no answer.
RemoveLogo(e) ==
    /\ MayChange(e)
    /\ IF LockAnswer(e) # "ok"
       THEN Answer(e, "remove", LockAnswer(e)) /\ UNCHANGED <<logos, row, sync, log>>
       ELSE IF Active = {}
       THEN Answer(e, "remove", "panic") /\ UNCHANGED <<logos, row, sync, log>>
       ELSE /\ logos' = RetiredLogos
            /\ Committed(row, "logo_removed")
            /\ Answer(e, "remove", "ok")
    /\ UNCHANGED <<links, stored, view, pc, served>>

\* OpenActive: a public request for one version of the logo.
OpenActive(version) == {l \in Active : l.revision = version}
ServeLogo ==
    /\ row.status = "published"
    /\ \E version \in {l.revision : l \in logos} :
       \E l \in OpenActive(version) : \E o \in stored :
         /\ o.key = l.key /\ o.owner = "row"
         /\ served' = served \cup {[version |-> version, image |-> o.image]}
    /\ UNCHANGED <<row, links, logos, stored, log, sync, view, pc, answer>>

-----------------------------------------------------------------------------
Next ==
    \/ \E e \in Editors :
         \/ Create(e) \/ Read(e)
         \/ Replace(e) \/ Publish(e) \/ Restore(e)
         \/ ConfirmDelete(e) \/ Delete(e)
         \/ ReplaceLinks(e)
         \/ PutLogo(e) \/ UploadLogo(e) \/ UploadFails(e) \/ RemoveLogo(e)
    \/ ServeLogo

Spec == Init /\ [][Next]_vars

-----------------------------------------------------------------------------
(* Properties.                                                             *)

\* The variables hold values of their kinds; the keys of the objects are those
\* of the uploads so far, and who is uploading, and nobody else, owns one.
TypeOK ==
    /\ row.status \in {"absent", "draft", "published", "deleted"}
    /\ row.revision \in 0..MaxRevision
    /\ row.content \in (Contents \ Refused) \cup {"none"}
    /\ logos \subseteq [revision : Nat \ {0},
                        status : {"active", "deleted"}, key : 1..MaxUploads]
    /\ stored \subseteq [key : 1..MaxUploads, image : Images,
                         owner : Editors \cup {"row", "removed"}]
    /\ {o.key : o \in stored} = 1..Cardinality(stored)
    /\ \A e \in Editors : (pc[e] = "uploading") <=> \E o \in stored : o.owner = e
    /\ log \in Seq(EventTypes)
    /\ view \in [Editors -> [revision : 0..MaxRevision,
                             seen : UNION {[1..n -> Contents] : n \in 0..4}]]

\* The CHECK constraint over the four status columns of a project never
\* stops a change: whatever was published, deleted and restored before, the
\* columns agree with the status (projects/service.go transitions).
StatusColumnsAgree ==
    CASE row.status = "absent" -> row = Absent
      [] row.status = "draft" ->
           row.pre = "none" /\ row.publishedAt = 0 /\ ~row.deleted
      [] row.status = "published" ->
           row.pre = "none" /\ row.publishedAt # 0 /\ ~row.deleted
      [] row.status = "deleted" ->
           row.deleted /\ \/ row.pre = "draft" /\ row.publishedAt = 0
                          \/ row.pre = "published" /\ row.publishedAt # 0

\* What the audit log says happened, replayed from the beginning.
Replayed(s, event) ==
    [status |-> CASE event = "created" -> "draft"
                  [] event = "publish" -> "published"
                  [] event = "deleted" -> "deleted"
                  [] event = "restore" -> s.before
                  [] OTHER -> s.status,
     before |-> IF event = "deleted" THEN s.status ELSE s.before,
     logo |-> CASE event = "logo" -> TRUE
                [] event = "logo_removed" -> FALSE
                [] OTHER -> s.logo]
Story == FoldLeft(Replayed,
                  [status |-> "absent", before |-> "none", logo |-> FALSE], log)

\* The audit log tells the whole story of a project: replaying its events
\* gives the project's present status (a restored project is back where it
\* was when it was deleted) and whether it has a logo, there is one event per
\* revision, and the search index has been asked for that revision.
AuditTellsTheStory ==
    /\ Story.status = row.status
    /\ Story.logo <=> Active # {}
    /\ Len(log) = row.revision
    /\ sync.revision = row.revision
    /\ row.status # "absent" => sync.action = ActionOf(row.status)

\* A step that commits this change for this administrator.
Commits(e, op) == /\ row' # row
                  /\ answer' = [by |-> e, op |-> op, result |-> "ok"]

\* No lost update, although reading a project takes four queries that other
\* administrators' commits fall between: a replacement that is accepted
\* replaces exactly the title and children its sender had seen.
EditsReplaceWhatWasSeen ==
    [][\A e \in Editors : Commits(e, "replace") =>
         \A i \in DOMAIN Queries : view[e].seen[i] = row.content]_vars

\* A project is deleted under the title its administrator confirmed,
\* although the confirmation is compared before the transaction begins.
DeletionWasConfirmed ==
    [][\A e \in Editors : Commits(e, "delete") =>
         /\ view[e].seen[1] = row.content
         /\ row.content \notin Untitled]_vars

\* Nothing about a project changes without a new revision, so that every
\* other administrator's revision goes stale (content, status, links, logo).
EveryChangeIsARevision ==
    [][<<links, logos, row>>' # <<links, logos, row>> =>
         row'.revision = row.revision + 1]_vars

\* The publication date is set once: no second publication and no deletion
\* or restoration moves it.
PublishedOnce ==
    [][row.publishedAt # 0 => row'.publishedAt = row.publishedAt]_vars

\* One version of a logo's URL never serves two images, whatever was
\* uploaded, replaced, removed and uploaded again in between, and a project
\* never has two active logos.
VersionNamesOneImage ==
    /\ Cardinality(Active) <= 1
    /\ \A s, t \in served : s.version = t.version => s = t

\* Every accepted set of links satisfies the table's unique indexes (URL
\* within the project, one primary link) and has a primary link unless empty.
LinksFitTheirTable ==
    /\ \A i, j \in DOMAIN links : i # j =>
         /\ links[i].url # links[j].url
         /\ ~(links[i].primary /\ links[j].primary)
    /\ links # << >> => \E i \in DOMAIN links : links[i].primary

\* Through every order of edits, deletions and restorations the status, its
\* timestamps and the status before the deletion belong together, and a list of
\* links fits the unique indexes it is inserted under.
ProjectInv == TypeOK /\ StatusColumnsAgree /\ LinksFitTheirTable

\* What no step may do: delete a project that was not confirmed as it is, change
\* one without a new revision, or date its publication again.
HistoryIsKept == DeletionWasConfirmed /\ EveryChangeIsARevision /\ PublishedOnce

\* Every request to remove a logo is answered.  It is not: without an
\* active logo the handler panics and the connection is dropped.
RemoveIsAnswered == answer.result # "panic"

=============================================================================
