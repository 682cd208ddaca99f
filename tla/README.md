# Formal models of AUSE Discovery

TLA+ models of the AUSE Discovery backend (`src/backend`), the TLC
configurations that check them on small instances, and TLAPS proofs, for every
instance, about the search outbox and the rebuild, artifacts and their downloads,
projects and their audit log, imports, the bulk importers and their dispatcher,
logins, searches, lists and the readiness probe.

Run inside this directory:

    tlc -workers 2 -config Projects.cfg MC_Projects      # any run of PROJECT.json
    tlapm SearchSync_proofs.tla                          # any *_proofs module

`PROJECT.json` lists the components, the runs, the mutated definitions that
show each property can fail, the source lines behind every definition, the
disagreements found, the hazards and the theorems.

## 1. The system

AUSE Discovery is a modular monolith.  PostgreSQL is canonical; Meilisearch
holds a derived search index; artifact and logo bytes live in a local directory
or a Backblaze B2 bucket.  One Go process (`cmd/api`) serves the HTTP API and
runs two background goroutines (the search reconciler and the import cleaner);
the command line tool `ausectl` runs the same services for bulk imports, storage
migration and user administration.  A React client uses the HTTP API.

| component (source under `backend/`) | state it keeps | operations | interacts with |
|---|---|---|---|
| search outbox and reconciler (`internal/search`) | table `project_search_sync`, the claims a worker holds in memory, the engine's task queue and documents | request (`UpsertProjectSearchSync`), claim, build, post, wait, mark succeeded/failed | every service that changes a project; Meilisearch |
| search rebuild (`internal/search`) | table `search_rebuild_operations`, a second physical index | create, claim, execute under table locks, swap, complete, recover at start | outbox rows, engine, all writers of projects |
| search queries (`internal/search/query.go`) | none; the client holds a cursor | validate, page, hand out and follow cursors | engine |
| project lifecycle (`internal/projects`) | `projects` and child tables, `revision` | create, replace, publish, delete, restore, all with an expected revision | outbox, audit |
| artifacts (`internal/artifacts`) | table `artifacts`, stored bytes per backend | upload, update, replace, delete, restore, open, migrate storage | project revision, outbox, quota |
| readiness probe (`internal/artifacts/storage_b2.go`) | in-flight call, cached verdict | check | B2, concurrent health requests |
| B2 object reader (`internal/artifacts/storage_b2.go`) | offset and open stream of one download | seek, read, close | B2, `http.ServeContent` |
| project logos (`internal/projectlogos`) | table `project_logos`, stored bytes | upload/replace, remove, open by public revision | project revision, outbox |
| project links (`internal/projectlinks`) | table `project_repository_links` | replace | project revision, outbox |
| project imports (`internal/imports`) | `import_batches`, `import_rows` | preview, select rows, commit, expire | project creation and publication |
| bulk dispatcher (`internal/projectpool`) | goroutines, channels, a cancellation | dispatch groups, collect outcomes | bulk importers |
| bulk importers (`internal/artifactimport`, `internal/projectcontentimport`) | none of their own | plan, import per project | artifacts, logos, links |
| auth (`internal/auth`) | users, credentials, sessions, login failures | create, reset, disable, login, authenticate, revoke | every administrative request |
| people, catalogs (`internal/people`, `internal/catalog`) | shared rows that documents quote | update, synchronise | projects, search documents |
| audit (`internal/audit`) | append-only table | append in the caller's transaction, list by cursor | all services |
| database platform (`internal/platform/database`) | connection pool | transaction runner, migrations | all |
| HTTP server, configuration, frontend | none that is shared | decode, encode, present | all |

### What is hard about it

* **Several reads, no snapshot.** A search document is put together from six
  queries on the pool while the project is edited (`document.go:100-155`).
* **Two stores, no common transaction.** Rows and engine, rows and stored
  bytes: either side may succeed alone, answers get lost, processes end between
  the two (`reconciler.go:79-164`, `artifacts/service.go:74-127`).
* **Leases.** A claim is valid for 30 s, a batch of 20 may take longer, the late
  worker still marks (`reconciler.go:102-164`).
* **Engine tasks outlive their clients.** A wait of 10 s is given up; the task
  is not withdrawn (`client.go:257-262`).
* **Check then act.** Quotas, duplicate candidates, credentials and cancellation
  are looked at before the step that relies on them.
* **Locks in different orders.** The rebuild locks whole tables one after the
  other, services lock rows (`reconciler.go:250`).

The hazards in `PROJECT.json` name these and more, each at its line, with the
properties that cover it.  Two that no model reaches are not among them.  Disabling a
user updates the user and then the sessions, while a request locks a session together
with its user (`auth/service.go:122`, `:176`): PostgreSQL aborts one of the two whole.
And `ServeContent` sends several ranges from a goroutine of its own, which may be inside
`Read` when the handler closes the reader (`artifacts/storage_b2.go:404`): what they do
to each other is up to the S3 client and `net/http`.

### What makes each component correct

* Outbox: a row that says *synced* is true of the index; searches never fall
  back; nobody completes a row it lost; a project left alone converges.
* Rebuild: a completed rebuild leaves index and rows in step, ends once, never
  takes searches back to older documents, and does not lock up the API.
* Search queries and lists: following cursors shows the whole list, nothing
  twice, and never more than the filters let through.
* Lifecycle, logos, links: an edit replaces what its author saw, every change
  is a revision with an audit event, a public logo version names one image.
* Catalogs: a source that validates can be synchronized, twice changes nothing,
  and what was retired stays retired.
* Artifacts: a row that was acknowledged has its bytes, before, during and after
  a migration; active bytes stay within the quota; downloads deliver what was asked.
* Imports: a batch is committed at most once, as its client saw it, wholly or
  not at all, never after it expired; both file formats mean the same.
* Dispatcher and bulk importers: every group runs at most once, a killed and
  repeated import completes the bundle without copies, reports are true.
* Auth: what ended a session ended it for good; throttling ends.
* Readiness probe: one billed request in flight; no verdict older than its TTL.

## 2. Modules and runs

| module | models | run |
|---|---|---|
| `SearchSync` | the outbox `project_search_sync` and its reconciler | `SearchSync`, `SearchRebuild` |
| `SearchView`, `SearchSyncRefinement` | what searches promise; the outbox implements it | `SearchSync` |
| `SearchSync_proofs`, `SearchRebuild_proofs`, `ArtifactStorage_proofs`, `ProjectLifecycle_proofs`, `ImportBatch_proofs`, `BulkImport_proofs`, `ObjectStorage_proofs`, `Requests_proofs` | TLAPS proofs (section 13) | |
| `SearchRebuild`, `ConnectionPool` | rebuilding the index; who waits for whom on connections and locks | `SearchRebuild` |
| `ArtifactStorage`, `ArtifactContent` | rows and bytes of artifacts, storage migration; the promised store | `ArtifactStorage` |
| `RangedReader` | the seekable reader over a B2 object | `ArtifactStorage`, `ArtifactStorage_ranges` |
| `ProjectLifecycle` | one project, its links, its logo, its audit events | `Projects`, `Projects_remove` |
| `CatalogSync` | synchronizing catalog sources | `Projects`, `Projects_move` |
| `ImportBatch` | preview, selection, commit and expiry of import batches | `Imports` |
| `ImportParsing`, `ImportValidation` | the two file formats; validation and resolution of a row | `Imports`, `Imports_numeric` |
| `ContentImport`, `DispatchPool` | the bulk importers of `ausectl` and their dispatcher | `BulkImports`, `BulkImports_lost` |
| `AuthSessions` | logins, throttling, sessions, resets | `Requests` |
| `SearchPaging`, `KeysetPaging` | public search and its cursors; the administrators' lists | `Requests` |
| `ReadinessProbe` | the shared, cached storage check | `Requests` |

**Settings.**  A run above that covers several models, or one model in several
instances, uses an `MC_` module with a variable `setting`: a behaviour starts in
one setting, takes only that setting's steps and leaves the variables of the
other models at their initial values.  The settings differ in the bounds given
to the modules' constants (`INSTANCE ... WITH` in the `MC_` module) or in what a
step of the setting may do, so that each question gets the small instance in
which it happens.  A property of a single setting is stated as
`setting = "..." => ...`.  Properties that belong together
are one conjunction with a name of its own, defined with its parts in the
component's module, where the theorems speak of it (`ProjectInv`, `StorageInv`,
`ImportInv`, `CatalogsFollowSources`, ...).
Five further runs check one property each that the code does not satisfy
(section 12).

Deadlock is checked in the run `SearchSync`, whose actors always have a
next step; everywhere else bounds end the behaviours, or
the actors do, and what must not get stuck is a liveness property or an invariant
of its own (`StuckMeansExhausted`, `DispatchReturns`).

## 3. The search outbox: `SearchSync`

### State

| variable | code |
|---|---|
| `project` | `projects.status`, `pre_delete_status`, `revision`; `"none"` before `Create` |
| `row` | the project's row of `project_search_sync`; `"absent"` before it exists.  `expired` is `lease_expires_at <= now()`, `due` is `next_attempt_at IS NULL OR <= now()` |
| `updatedBefore` | the order of `updated_at` over rows, which `ORDER BY updated_at` uses; rows touched by one statement are unordered (`project_id` breaks ties in the code, any order does here) |
| `process` | an API process: not started, running, gone.  A restarted process has a new WorkerID, so it is another member of `Workers` |
| `batch`, `claim`, `pc`, `document` | local variables of `ReconcileOnce`, `applyClaim`, `BuildProjectDocument` |
| `ahead` | how many engine tasks must still run until the one the worker waits for has |
| `tasks`, `index` | Meilisearch (external): accepted tasks of a project in order, and the document searches find |

A document is `[revision, content]`: the revision its first query read and the
newest revision any later query read.  The two are equal exactly when no edit
fell between the reads, so torn documents are told apart without modelling
their fields.

### Actions

| action | code |
|---|---|
| `Create Replace Publish Delete Restore` | `projects/service.go:64-223` and `queries/projects.sql:1-76` |
| `MutateChild` | artifact, logo and link mutations, `artifacts/service.go:386-397` and its two siblings |
| `ReindexProject` | `maintenance.go:66-93` |
| `Start`, `Crash` | `cmd/api/main.go:61-130`; a crash is any end of the process, a shutdown included |
| `ClaimSync`, `ClaimSyncLost` | the claim statement `reconciler.go:112-121` and the ways its answer is lost, `122-134` |
| `ApplyRemoval ApplyUpsert ApplyStale ApplyFails` | `applyClaim` up to the first query of the build, `reconciler.go:137-152` |
| `ReadContent`, `ReadContentFails` | the other queries of the build, `document.go:137-317` |
| `Post PostUnacknowledged PostRefused` | `client.go:128-137`, `180-186`, `241-252`, `300-328` |
| `GiveUpWaiting` | the deadline and a failing poll, `client.go:257-297` |
| `TaskSucceeds`, `TaskFails` | the engine; the failure reaches the waiting worker, `client.go:286-290` |
| `MarkSucceeded MarkFailed MarkLost` | `reconciler.go:84-98`, `154-164` |
| `LeaseExpires`, `RetryDue` | the clock passing `lease_expires_at` and `next_attempt_at` |

A committed transaction is one step: each of them changes the project and its
row together, and the claim uses `FOR UPDATE SKIP LOCKED`.  Calls that roll back
change nothing and are no steps.  What happens between transactions - every read
of the build, the post, the wait, the mark - is a step of its own, and any step
of any other actor may fall between.

### Properties and runs

| run | instance | shows |
|---|---|---|
| `SearchSync`, setting `crash` | 1 project, 2 processes one after the other, 4 revisions, 2 queued tasks | `SyncedIsFresh`, `NeverBehindConfirmed`, their inductive strengthening `SingleInv`, the refinement `ImplementsView`, and `Converges` across a crash |
| `SearchSync`, setting `two` | 2 projects, batches of one, 1 process, 2 revisions, 1 queued task | the same; `Converges`: no project starves behind another |
| `SearchRebuild`, setting `outbox` | 1 project, 2 processes at once, 3 revisions, 2 queued tasks | `CommonInv`, `CompletionIsCurrent`, `LeaseRespected` |

Two facts are worth knowing beside the code:

* **One process at a time matters.**  `SyncedIsFresh` is checked and proved for
  `Overlapping = FALSE`: `compose.yaml` runs one `api` container and restarts it
  when it ends.  With two processes at once the property fails: a worker that
  built revision 1, was slow, and posts after another worker completed revision 2
  leaves the older document in the index under a row that says *synced* at
  revision 2, and nothing repairs it until the next edit or rebuild.  Mark
  statements compare the revision; the post has nothing to compare with.  What
  remains true with any number of processes is `CompletionIsCurrent`.
* **The revision in the mark's WHERE clause carries the torn reads.**  The build
  compares its first read with the claim (`reconciler.go:148`) and the mark
  compares the row with the claim; together they leave no room for an edit
  between any two reads of a document that gets confirmed.

Bounds and why they suffice.  `MaxRevision` 4 lets a project be created,
published, edited and edited or deleted again while older work is under way;
an attempt compares two revisions, so three distinct ones already contain every
order.  `MaxTasks` 2 lets a given-up task wait in the queue behind and before a
newer one.  Two processes suffice for takeover: a third would repeat the second.
Two projects with a batch of one compete for the next claim.  The proofs hold
without these bounds, for any number of projects and any batch size.

Fairness.  `Fairness` of `MC_SearchSync` assumes weak fairness of: the replacement of a process
that ended (`restart: unless-stopped`), the reconciler goroutine (its loop waits
only on a ticker), the engine working through its queue, leases and retry delays
running out.  `Converges` assumes of a project only that requests for it cease,
that work on it meets no more faults (lost answers, failing queries or tasks),
and that some process stays up; other projects may be edited or fail for ever.

Assumed of Meilisearch: it runs a project's tasks in the order it accepted them,
a task replaces or removes the whole document, and a request that the client has
given up on is not accepted later.  (A given-up *wait* is modelled: the task
stays queued.)

Left out on purpose: `attempt_count`, `error_detail` and timestamps (the retry
delay is an arbitrary time); changes of shared people or catalog rows, which do
not raise a project's revision and ask for no projection; index settings
(`EnsureIndex`); the rebuild (section 5).

## 4. The abstract view: `SearchView`

What a reader of the API may rely on, without rows, leases, workers or queues: a
project has a version, a wanted document, a shown document, and may be settled;
a settled project shows what is wanted and goes on doing so until the next
commit or request.  `SearchSyncRefinement` maps `version` to the revision,
`wanted` to `Wanted(p)`, `shown` to the engine's document and `settled` to
`row[p].state = "synced"`.

## 5. The rebuild and its connections: `SearchRebuild`, `ConnectionPool`

`SearchRebuild` keeps the outbox coarse (a row is pending, processing or synced)
and details `executeRebuild`.

| variable | code |
|---|---|
| `content` | a project: revision and whether it is published |
| `rows` | `project_search_sync`: state, owner, revision |
| `ops` | `search_rebuild_operations.state`; an operation's number is also its index |
| `index`, `tasks` | the engine's indexes and its queue; a task remembers who waits for it |
| `proc` | a process: down, idle, reconciling a row, or a stage of the rebuild |
| `locked` | who holds the `SHARE` locks of `LOCK TABLE` |

| action | code (`internal/search`) |
|---|---|
| `Edit` | any committed change of a project with its row; waits while tables are locked |
| `CreateRebuild` | `maintenance.go`: one pending or running operation at a time |
| `Start` | a new process marks running operations failed before it works (`reconciler.go:42`) |
| `Crash` | any end of the process; the transaction rolls back, the engine's tasks stay |
| `ClaimRebuild ListProjects BuildDocuments LockTables RefillIndex CountMatches SwapIndexes CompleteRebuild FailRebuild` | `reconciler.go:166-330`, in order |
| `ClaimRow BuildRow SendRow MarkRow`, `Abandoned` | the reconciler next to the rebuild |
| `RunTask` | the engine (external) |

Settings: `restart` (one process that crashes once, failures may go unrecorded),
`live` (failures are recorded, fairness), `overlap` (two processes, two
projects), for the pool `room` and `tight`, and `outbox`, which belongs to section 3
(two processes that reconcile the rows of one project; they need no rebuild).

* `SyncedMeansIndexed`: a row reported synced is true of the index that searches
  use, whatever was swapped, failed or interrupted, and whatever the engine still
  has to run.  `LockTables` carries it: without the locks a change falls between
  the second fill and the swap.
* `RebuildsEndRight`: an operation ends once (`RebuildEndsOnce`), one that
  completes leaves every row true (`CompletedMeansIndexed`), and on the way there
  searches never lose a document they had (`NeverBackwards`).
* `EverythingEnds`: in `live` a requested rebuild ends; in `room` and `tight`
  every request and every rebuild ends.
* `LockingInv`: past `LOCK TABLE` the rebuild reads while no lock for writing is
  held by anybody (`FrozenWhileRebuilding`), and everybody is stuck only if every
  connection is in use, one of their holders wants another and all of them wait
  (`StuckMeansExhausted`).  Checked in `tight`, proved for every pool.

`ConnectionPool` writes each kind of request as the sequence of connections it
takes from `pgxpool` and of locks it takes from PostgreSQL: `List` and
`BuildDocument` query the pool while they hold a connection, `RebuildIndex` takes
one for its transaction, locks the tables of `reconciler.go:250` one after the other
and goes on reading through the pool.  PostgreSQL's deadlock detector is
`DeadlockDetected`; waiting for a connection is not among the waits it sees, and
ends by a cancelled context only (`GiveUp`).  The state this shows: with a pool
as small as the number of waiting actors nobody moves until clients give up.

Bounds.  Two revisions, one crash, two operations, two queued tasks: a rebuild,
its failed predecessor and one edit between any two of its steps.  Two projects
and two processes in `overlap`; with two reconcilers at once the later overwrite
of section 3 would appear again, so `overlap` runs rebuilds only.  Five
connections are one more than the four actors of `room` can hold; three are fewer
than the five actors of `tight` want, who are a rebuild, two lists, an edit and an
artifact's mutation.  `tight` is the instance the module `MC_SearchRebuild` itself
extends; `room` is another with variables of its own, for the liveness property.

Fairness.  Processes are restarted, a process that runs goes on, a process looks
for a rebuild before every batch of rows (strong fairness of the claim, for it
returns to the look again and again), the engine runs its tasks; deadlocks are
detected, and nginx cancels a request it has waited 60 s for.  `live` assumes
that the update recording a failure succeeds (`MarksFail = FALSE`): otherwise
only a restart ends the operation, so that loss is a hazard no property covers.

Simplified: the first fill reads all projects in one step (the second, under
locks, is what decides); row locks queue without order.

## 6. Artifacts: `ArtifactStorage`, `ArtifactContent`, `RangedReader`

Rows are in PostgreSQL, bytes in a directory or a bucket, and no transaction
spans both.

| variable | code |
|---|---|
| `project` | status and revision of the one project |
| `row` | table `artifacts`: status, backend, content (digest and size), revision |
| `bytes` | what each backend stores under each key |
| `issued`, `told` | ids handed out; what the creator of a row was told |
| `request`, `lock` | each request's position and captured values; the project's row lock |
| `migration` | runs of `ausectl artifacts migrate`: the planned rows, the one at work |
| `files` | whether a local file has been damaged or lost so far (no code: what the properties suppose) |

`Upload`/`Replace` store the bytes under a fresh key first (`PutFails` when the
store fails), `Begin`, `LockProject`, `Commit`, `Abort` are the transaction with
its checks of status, revision and quota (`service.go:340-400`), `RemoveNew` the
removal of the new bytes after an error, `CleanUp` the end of a request.
`OpenPublic` and `OpenContent` are a download: the row first, the bytes later.
`Plan Copy CopyFails Stamp StampFails EndRun` are `migrate.go:60-180`; a copy may
fail after the object was stored.  `Abort` covers a `COMMIT` whose answer is lost
although the row is there; `RemoveNew` then deletes the bytes of a row that
exists.  The code accepts that, and the properties therefore speak of rows whose
creator was not told of a failure.

Settings: `serve` (two requests and a migration, three revisions), `damage` (two
uploads that are migrated while local files are damaged or lost; one request at
a time), `quota` (two deleted artifacts that fit alone but not together),
`download` (`RangedReader`).

* `StorageInv`: types; `QuotaHolds` although every request measures before it
  stores; `MigratedRowsAreSound`: once a row says B2, B2 holds what its digest
  says, whatever happened to the local file.
* `BytesAreThere`: until a local file is damaged, rows have their bytes and a
  download that has read its row finds them.
* `ContentIsKept`: until a local file is damaged, every step is one of
  `ArtifactContent`, a store of immutable contents in which acknowledged ones are
  never lost; a migration is a stutter there.
* `SeeksAreEnough`: `ServeContent` seeks to the end for the size, back, and to each
  range of the client's list, and copies it in as many reads as it likes
  (`FindSize`, `Rewind`, `SeekRange`, `Read`; `CutShort` when the stream ends too
  early).  Any list of up to `MaxRanges` = 3 ranges is asked for whose lengths do
  not add up to more than the object; a range is in `wrong` when a byte of it was
  another's, or too few came.  Only a range that begins at the byte at which the
  one before it began can be wrong: after it, too, the reader finds its way again.
* `DeliversWhatIsAsked`, the claim of the comment on `rangedReader`, is that none
  is wrong.  `ArtifactStorage_ranges` refutes it (section 12).

Not checked: two migrations at the same time (section 13 proves the properties
for any number of them while local files are sound); a `Close` that meets a `Read`
inside the S3 client.  Two artifacts, two requests and one migrator suffice for
every pair of interleaved handlers; sizes 1 and 2 with a quota of 2 reach it.

## 7. Projects: `ProjectLifecycle`

One project as several administrators change it: the row with its children
(`projects/service.go`), links (`projectlinks/service.go`) and logo
(`projectlogos/service.go`), all of which advance the same revision.

| variable | code |
|---|---|
| `row` | `projects`: status, status before deletion, revision, publication and deletion times, content |
| `links`, `logos`, `stored` | `project_repository_links`, `project_logos`, logo objects |
| `log`, `sync` | audit events in commit order; `project_search_sync` |
| `view`, `pc` | what an administrator has read so far, and where the request is |
| `answer`, `served` | the last answer; logo versions the public has seen |

`Read` is one of the four queries of `Get` (row, aliases, participations, terms);
commits may fall between them.  `Create Replace Publish Delete Restore
ReplaceLinks UploadLogo RemoveLogo` are transactions that compare the revision
under the row lock, hence one step; `ConfirmDelete` reads the project before the
deletion's transaction, `PutLogo` stores an image before the upload's.

Settings: `edits` (two administrators, refused contents), `status` (one, all
transitions, untitled projects), `logos` (two administrators, two images),
`links` (lists of up to two links, two spellings of one URL).

* `EditsReplaceWhatWasSeen`: a change that commits was made from a view that is
  entirely the revision it replaces, although the view was read in four queries.
  The row is read first: a later read of it would give a new revision with old
  children, and this property would fail.
* `AuditTellsTheStory`: replaying the audit events from nothing gives the status
  and whether there is a logo; there is one event, and one request of the search
  index, for each revision.
* `HistoryIsKept`: deletions were confirmed for the revision they delete, every
  change of a project, its links or its logos is a new revision
  (`EveryChangeIsARevision`), the first publication's date stays (`PublishedOnce`).
* `ProjectInv`: status, times and status before deletion belong together; links
  fit the unique indexes they are inserted under.
* `VersionNamesOneImage`: a public logo version never shows two images, over
  removals, failed uploads and new ones.

Seen on the way: a project without title and reference code can never be deleted
(`MatchesConfirmation` compares with neither).  Replaced and removed logos keep
their bytes.  Revisions up to 6 allow create, publish, delete, restore and two
changes more.

## 8. Catalogs: `CatalogSync`

A source file (programs, majors, courses with versions and periods, taxonomy
terms) is validated, then written in one transaction, statement after statement.
`Valid` is `catalog.go`'s validation; `Statements` are the upserts of `sync.go` in
their order, `Execute` does one to the tables, with the constraints PostgreSQL
checks after each statement (`Clashes`: periods of an entry exclude each other),
and `Synced` does them all; `Sync`, `RefuseSource`, `LoseTransaction` are the
outcomes.  The order in which `validateNoOverlap` compares periods is `Precedes`:
`sort.Slice` may leave equal first years either way, and two periods that begin in
one year overlap either way.

`periods` synchronizes any sequence of sources whose versions' periods meet,
clash, are open or inverted; `entries` sources that exchange keys, move a version
to another entry, and retire terms.  What would happen if a source of the other
setting came next is asked in both (`RetiredStaysRetired`).

* `CatalogsFollowSources`: a source is refused for its periods exactly if two
  versions of an entry share a year, in whatever order the file lists them;
  synchronizing again changes nothing; what succeeded is stored as it says; and
  no source, however old, offers a retired term again (`RetiredStaysRetired`).

Formats, labels and codes are one content value; a year too large for its column
fails like a lost transaction; years are 1 to 3.

## 9. Imports: `ImportBatch`, `ImportParsing`, `ImportValidation`

`ImportBatch` runs at READ COMMITTED: a commit is a transaction of several steps,
and other clients, the catalog and the clock move between them.

| variable | code |
|---|---|
| `batches`, `rows` | `import_batches` (state, revision, stored result), `import_rows` (issues, draft, choice) |
| `due` | batches whose `expires_at` has passed |
| `projects`, `people`, `retired` | what commits make, next to what is made by hand; terms withdrawn |
| `tx` | the open commit of a client: rows left, what it has created |
| `seen`, `answer` | what a client has read, in two queries; the last result |

`CreatePreview GetBatch ListRows UpdateRows` are the handlers before the commit;
`BeginCommit SkipRow ImportRow FinishCommit AbortCommit RepeatCommit` are
`Commit` (`service.go:236-420`); `CleanupExpired` is `cleaner.go` with its limit
and `SKIP LOCKED`.  A preview's validation and its insert are one step.

* `ImportInv`: an import's projects are all there or none is, none of its rows
  had undecided warnings, and within a batch a name is one person.
* `AnswersAgree`: every commit of a batch, repeated or not, gets the same result.
* `CommitsStand`: a commit imports the selection its client saw
  (`CommittedAsSeen`), and a committed batch is never changed again
  (`CommittedIsFinal`).  The first part is for clients whose rows are at least as
  young as the revision they commit with (`read` of a view is when its rows were
  read).  `GetBatch` and `ListRows` come in either order, and rows carry no
  revision: a client that asks for both at once, as the page in
  `frontend/src/features/admin/import-management.tsx:158` does, may hold older rows
  next to a newer revision and commit what it has not seen.  Nothing in the service
  prevents it and no document promises otherwise, so it is a hazard, not a finding.
* `ExpiredIsScrubbed`: an expired batch that was not committed loses what its
  preview stored (liveness: the cleaner's ticker keeps firing and an open
  transaction ends).
* `FilesAreReadAlike`: for all workbooks of up to three project, two person and
  one term line, also flawed ones, `ParseXLSX` of the workbook and `ParseCSV` of
  its equivalent give the same drafts, role by role and dimension by dimension,
  and no row is lost.
* `DraftsResolve`: a row that passed validation has a category and a platform and
  finds its program and course versions (`KeysResolve`); members are who the row
  names (`ResolvedAsNamed`), without gaps in a role (`PositionsAreDense`); and if
  the row fails at commit all the same, it is for people (`FailuresAreOfPeople`):
  an entry has two people's IDs, a name without ID has a namesake that the row
  itself has just registered, or two different entries are one person in a role.
  The preview compares entries and the commit compares people, so these three pass
  the preview and block their batch.  Catalogs have versions that meet in a year,
  people share names and IDs.  `ValidationAssumption` are the schema's constraints: a program
  or course has one version a year, and no two people share an ID.

The run scales the limits of the parsers down to two.  "number" cells are those the
xlsx library reports as numeric.

## 10. Bulk imports: `ContentImport`, `DispatchPool`

`ContentImport` is an execution of `ausectl`'s importers: `Plan` reads everything
and writes nothing, then for each project `Begin`, and for each item `Check`
(is it there?), `Read` (the revision), `Send`.  `Break` is a fault of a call,
`Cancel` a fatal one's consequence, `Crash` a kill, `Edit` an administrator's
change between any two steps.  A call that is broken or cancelled has changed
nothing, or its `COMMIT` is done and the answer lost (`CommitUnheard`): then the
change stands, the project is reported as failed, and the service removes the new
bytes if the storage lets it, for a file or a logo.

| variable | code |
|---|---|
| `db` | a project's revision, deletion, logo, links, and how many active files it has of each type and digest |
| `plan` | the planned entries of each project; `reason` says why an entry will be skipped |
| `work`, `phase`, `halted`, `result` | the jobs of a run, how it stands, whether it is being cancelled, the numbers it reports |
| `commits`, `unheard`, `bare` | what the properties compare (no code): changes a run has committed and heard of, those it took for failures, items in place whose bytes were removed |
| `touched`, `beside` | what the properties suppose (no code): projects somebody else edited, runs that were applying when another began to |

* `BundlesAreApplied`: executions one after the other, killed and repeated, leave
  one copy of every file (`NoFileTwice`) and, when one reports success, the rows of
  everything the bundle says (`BundleIsThere`); what planning let through is not refused for
  the quota later (`PlannedRunsFit`); runs side by side stay within the quota
  (`WithinQuota`).
* `ResultsAreTrue`: the numbers reported are the changes a run has heard of, also
  when projects failed half way.  They are not always the changes made: each
  project reported as failed may hide one.  A success hides none.
* `RerunsComplete`, that what a successful repetition found or made has its bytes,
  fails in `BulkImports_lost` (section 12).
* `RunsEndInTurn`: a run that is not killed ends.

`DispatchPool` is `projectpool.Dispatch` with its channels: the coordinator primes
the workers over an unbuffered channel, folds outcomes from a buffered one and
hands out the next group; the caller waits, closes, waits.

* `DispatchInv`: every group handed out is with one worker, in the buffer or
  folded; nobody sends on a closed channel; what is returned is true.
* `DispatchEnds`: nothing is handed out after a fatal outcome, and the dispatch
  returns (goroutines are scheduled, groups end).

Settings: `content` (a logo, two equal files and links for one project, a file for
another), `files` (one project under two names, files wanted by their type),
`overlap` (the same by two runs side by side), `pool` (three groups, one to three
workers from counts below, in and above the range, `WorkerCounts`).  In the first
two runs come one after the other, at most two of an edit, a fault and a crash
come together, and only one project is edited (`InTurn`); a quota of 3 has room
for a file of each size but not for two large ones.  Source files do not change
during a run.

## 11. Requests: `AuthSessions`, `SearchPaging`, `KeysetPaging`, `ReadinessProbe`

**`AuthSessions`** (`internal/auth`): a login counts failures (`BeginLogin`),
verifies (`CheckCredential`), and records a failure (`RefuseLogin`) or replaces
the user's sessions and commits its own (`ReplaceSessions`, `CommitLogin`) in
steps.  A request begins its transaction (`BeginRequest`), gets the row's lock when
it can and compares the expiries with the transaction's start (`LockSession`), and
moves the idle expiry (`TouchSession`), which looks at revocation only; time passes
between all three, `age` is how long the transaction is open.  `ResetPassword`,
`DisableUser`, `Revoke` end sessions and wait for whoever holds rows; times are what is left of them, and a failure that leaves
the window is dropped from the front of `failures`, which is in time order.
`EndedStaysEnded`: a session revoked or over its age never comes back; one that has
idled out comes back only by the touch of a request that began before that and was
held up since.  That last case does happen, and no document excludes it.  The history
variable `most` is the most logins that ever ran at once.  `LoginsAreBounded`:
attempts pass the failure limit by no more than ever overlapped, `most - 1`; as
long as none did, a user has one session.  Overlapping ones may leave two, and a login that overlaps a
reset outlives it: nothing orders them in the code and no document promises it.

**`SearchPaging`** (`search/query.go`): normalization, the order of a token, the
hash that binds a cursor to its query, filters, the exact search for a number of
seven digits, offset and limit, and an engine that may rank ties as it likes but
alike for equal requests.  `SearchWalksAreComplete`: the pages of a walk over an
unchanged index are the whole list in order, a cursor is accepted exactly for
queries with the same list, filters always apply, identifiers are exact, and a
page that promises more shows something.  `orders` walks in every order through an
index that stays as it is, `texts` searches by text, filter and identifier while it
changes once.  Engine errors, collisions of the hash,
the order of filter values in it and highlights are not modelled.

**`KeysetPaging`** (`people.List`, `projects.List`, `audit.List`): cursors are
positions, rows are renamed, or changed and created by transactions whose time
is their begin and that may commit late; `list` says which of the three it is.  `ListWalksAreFaithful`: an untouched
row is shown once; in the lists by time none is shown twice.  Persons renamed
behind the cursor can be seen twice.  The lists' filters are not modelled.

**`ReadinessProbe`** (`storage_b2.go:280-380`): callers join a request in flight,
take a verdict from the cache or lead a new request, whose context is the
leader's; a cancelled leader's verdict is cached like any other.
`VerdictsAreRecent`: one billed request at a time, none before the last verdict
ran out, no verdict older than its time to live.

`EverybodyIsServed`: a user who keeps trying gets in although throttled (`trying`:
the statements of the login succeed), a walk through a list ends if its client
follows the cursors, callers of readiness are answered.  Fairness: time passes,
clients go on, goroutines run, requests end by the two seconds of the leader's
context.

Settings: `overlap` (two logins at once), `alone` (one at a time, also failing
ones), `requests` (two requests that use sessions, next to one login), `trying`, `orders` and `texts` (searches), `lists`, `readiness`.

Bounds: three sessions (two in `overlap`, where the user is disabled or gets
another password, not both), failure limit 2 and window 2; four documents, pages of
one and two, three requests for them; two requests that use a session, each open for
up to one unit of time (`MaxWait`), enough for one to wait for the other's touch
while the session idles out; three rows, two transactions, two renames; two callers
and two list requests.  They contain a walk of three pages with a change between any two,
and a second request for readiness after each kind of verdict.

## 12. Where code and documents disagree

* `Projects_remove` (`RemoveIsAnswered`): removing the logo of a project that has
  none dereferences a nil row (`projectlogos/service.go:223`); the contract says
  404.
* `Projects_move` (`ValidSourcesSync`): a valid source that lengthens one version
  and shortens its successor is refused, because the exclusion constraint is
  checked after each statement (`catalog/sync.go:146`).
* `Imports_numeric` (`NumericStudentIDsAreRefused`): blank rows are dropped before
  row numbers are computed, so the numeric check looks at another row's cell
  (`imports/adapters.go:212`).
* `ArtifactStorage_ranges` (`DeliversWhatIsAsked`): `Seek` keeps its stream when the
  offset is that of the last seek, though reads have moved the stream
  (`artifacts/storage_b2.go:396`).  Of two successive ranges that begin at one byte
  (`bytes=0-0,0-1`) the second gets other bytes; the comment at line 349 promises a
  request of its own for every range.
* `BulkImports_lost` (`RerunsComplete`): a `COMMIT` is done and its answer lost, the
  service removes the new bytes (`artifacts/service.go:122`,
  `projectlogos/service.go:200`), and the next run takes the row for the file
  (`artifactimport/service.go:444`).  `runProject` says a failure does not discard
  committed work (line 229), and a test's name that a rerun completes.

## 13. What is proved

Every theorem holds for all values of the constants that satisfy its module's
assumptions, without the bounds of the runs.  `SearchSync`, `SearchRebuild`,
`ArtifactStorage`, `ProjectLifecycle`, `CatalogSync`, `ImportBatch`,
`ImportValidation`, `ImportParsing`, `ContentImport` and `ConnectionPool` state theirs
as `ASSUME`.  The others define theirs
(`PoolAssumption` of `DispatchPool`, `ProbeAssumption`, `ReaderAssumption`,
`LoginAssumption`, `ListsAssumption`, `SearchAssumption`): it is
the hypothesis of their theorems, and the `MC_` modules state for TLC that the
constants of the run satisfy it (`PoolFits`, `ProbeFits`, `SearchesFit`, ...).  Every inductive
invariant was an invariant of a TLC run first.

**Outbox** (`SearchSync_proofs`; `SyncAssumption`).  For any sets of projects and
processes and any batch size, whether or not processes overlap:

* `CommonInvariant`: `Spec => []CommonInv`.  The invariant is the conjunction of
  `TypeOK`; `RowTracksProject` (a row asks for what its project is); `ClaimsFollowProject`
  (an outstanding claim is the current request or an older one); and
  `DocumentFollowsProject` (as long as the project stays at the claimed revision,
  what the worker built is what searches should find).  The last three need each
  other: a document is right because its claim is, a claim because the row was.
* `CompletionTheorem`: `Spec => CompletionIsCurrent`.  `RowStep` shows that a row
  becomes synced only by `MarkSucceeded` of a worker that holds it; the revision
  in the WHERE clause and `RowTracksProject` give that the project is still at the
  claimed revision, and `DocumentFollowsProject` that the document is right.
* `LeaseTheorem`: `Spec => LeaseRespected`, from the same `RowStep`.
* The run `SearchRebuild` checks these three on its instance `Outbox` of the module
  with two overlapping processes, under the same names.

When processes do not overlap (`ASSUME ~Overlapping`):

* `SingleInvariant`: `Spec => []SingleInv`.  Next to `CommonInv`, the invariant
  has two layers.  *Who holds what* (`OwnershipInv`): at most one process runs,
  and every claim it holds is for a row leased to it or asked for anew, one claim
  a project.  *What the rows say of the index* (`IndexInv`): the task the worker
  waits for is the youngest of its project, and nothing in the index or the queue
  is older than what the row confirms.  `SyncedIsFresh` alone is not inductive:
  that nobody posts for a synced row is `ClaimsOwnRows`, and that the queue is
  empty when a row becomes synced is `WaitsForLastTask`.
* `SyncedIsFreshTheorem` and `NeverBehindTheorem`: its two consequences.  The
  decisive step is `IndexUnderConfirmation`: the mark finds the claimed revision
  in the row, so the project is still at it (`RowTracksProject`) and the document
  is what it wants (`DocumentFollowsProject`); the awaited task has run and was
  the youngest, so the index holds that document and nothing is queued behind it.

* `Refinement`: `Spec => ImplementsView`.  Each action is a step of `SearchView` or
  a stutter; a step of the engine shows a document, and that this one comes from
  the project's past (`1 <= revision <= content <= the project's`) is the further
  invariant `SnapshotInv` over documents in workers' hands and in the queue.  That
  a settled project keeps showing what is wanted is `SyncedIsFresh`.

**Rebuild** (`SearchRebuild_proofs`; `RebuildAssumption`).  The hypothesis
`NoRowsBeside` says that rows are not reconciled next to another process's
rebuild: any number of processes that only rebuild, or one process that does
both, as it is deployed.  (With two reconcilers section 3's overwriting returns.)
`RebuildIInv` goes along one rebuild.  One operation at a time is pending or
running, its index is empty until it is claimed, and no two processes work on the
same one (`OperationsInTurn`, `WorkersApart`); every task in the queue is
the one its process waits for or nobody's (`TasksFit`); the new index holds
documents of listed projects only until the tables are locked, then becomes full
(`FillsUp`), and from the swap's request on nothing in the queue can make the live
index worse (`CleanFromHere`, `RowsStayRight`).  A process that reconciles is alone
(`RowsAlone`).  `SyncedMeansIndexed` is a conjunct, and not inductive without
`RowsStayRight`: tasks whose process crashed still run.
`SyncedMeansIndexedTheorem`, `RebuildsEndRightTheorem` (with
`NeverBackwardsTheorem`, its third part) and `RebuildTypesTheorem` follow.

The last part is about connections and locks, for any requests, any number of
rebuilds and any size of the pool.  Every kind of request is a fixed program, so
how many instructions an actor has left decides the connections it holds and
which locks it may (`WaysInv`, from the lemmas `ListShape` to `RebuildShape` about
the programs and `EveryoneDoes` about each of their instructions).  `LocksInv`: two
actors never hold conflicting locks, and a rebuild past `LOCK TABLE` holds all five
in mode share.  `UsedInv`: the pool is never overdrawn.  `FrozenTheorem`: a lock for
writing would conflict with one of the five.  `StuckTheorem`: were a connection
free, everybody who has not ended would wait for a lock of somebody who has not
ended, a cycle; did no holder of a connection want another, the same would be true
among the holders.  `LockingTheorem` is both.

**Artifacts** (`ArtifactStorage_proofs`; `StorageAssumption`).  `StoredInv` says
of rows (`RowOK`) that what is not issued is nowhere and that a backend a row
names holds its content unless its creator was told of a failure; of requests
(`RequestOK`) that a new artifact is one request's own, not yet a row while the
transaction may still run, and already told as failed when its bytes are being
removed; of migrations (`RunOK`) that the copied item is verified in B2 and no
longer on the list.  Removing bytes is harmless because of the second, stamping a
row because of the third.  A request's step concerns one artifact only
(`Concerns`), which no other request has as its own; `TablesMove` shows once that
such steps keep everything.  The hypothesis `OneMigration` allows any number of
migrations at a time if local files are sound, and one next to damaged files.
More are left out because the statement fails there: the second copies a file
damaged in between over the one the first has verified.
* `StorageTheorem`: `Spec => []StorageInv`.  The quota needs `QuotaInv`: whoever is
  in its transaction holds the lock, and what it measured is still the sum of the
  active sizes.  How that sum changes with one row is shown without induction over
  an operator: a least set of rows for which the sum were wrong has a row less,
  for which it is right.
* `BytesTheorem`: `Spec => []BytesAreThere`, until a local file is damaged.
* `ContentTheorem`: `Spec => ContentIsKept`, step by step from `StoredInv`; and
  `ContentRefinement`: without local faults the service implements
  `ArtifactContent`.

**Object storage** (`ObjectStorage_proofs`).  `ReaderDelivers` (`ReaderAssumption`:
the object is not empty) is `ReaderSpec => []SeeksAreEnough`, for any number of
ranges.  `ReaderInv` says in each phase where offset and stream are: the offset is
where the current range begins, or the one before it, and unless the range begins
again there the stream is where the copy has got to, because the seek before it
has moved the offset and closed what was open.  For the readiness probe
(`ProbeAssumption`: the times to live are positive) `ProbeInv` orders the list
requests in time (`CallsInv`), ties the cache to the last one that is over
(`CacheInv`), and gives each answer its evidence (`CallerOK`);
`VerdictsAreRecentTheorem` combines `OneRequestTheorem`, `SpacingTheorem` and
`VerdictsTheorem`.

**Projects** (`ProjectLifecycle_proofs`; the module's four assumptions).  `EditInv`
consists of the columns (`RowInv`), of views (`ReadingInv`: who has read the
present revision has read the present content in every query so far - true of an
unfinished view because the row is read first) and of requests (`DeletingInv`).
It gives `NoLostUpdate`, `ConfirmedTheorem`, `StatusColumnsTheorem`,
`RevisionTheorem` and `PublishedOnceTheorem`.  `LogoInv` adds that keys name one
object each, that an active logo is above all others and that nothing above was
served; `VersionTheorem` follows.  `LinksTheorem` follows from the handler's
normalization alone (`Fits`).  `TypeInv` adds to these where revisions, uploads and
stored images are bounded (`BoundsInv`) and whose each unused image is
(`OwnersInv`); the columns, the links and the types are `ProjectTheorem`
(`Spec => []ProjectInv`), the three action properties `HistoryTheorem`
(`Spec => HistoryIsKept`).

`AuditTheorem`: `Spec => []AuditTellsTheStory`.  The replay is a fold over a log of
any length, which the prover cannot unfold by induction.  `StoryInv` therefore
carries that the log has exactly one replay, the function that gives each set of
its places the state after their events (`OneReplay`; it is what the fold's
definition chooses), and that it ends at the row (`EndsAt`).  An event appended to
the log extends its one replay by one step; each action logs the event whose
replay does to the story what the action does to the row.

**Catalogs** (also in `ProjectLifecycle_proofs`; `CatalogAssumption`).  For any
sources, of any length, in any order: `CatalogsTheorem` is
`CatalogSpec => []CatalogsFollowSources`.  That comparing neighbours finds every
overlap (`NeighboursSuffice`): of all overlapping pairs take one with the fewest
versions between; if any is between, it overlaps the first of the pair as well, with
fewer between.
The rest rests on what one statement does (`Follows`): it keeps the unique keys and
the exclusion of periods (`Sound`), puts its own row there (`Stands`), disturbs no
row of another id, keeps a retirement (`Withdrawn`), and if its row is there
already does nothing (`IdentityIdles`, `VersionIdles`, `TermIdles`).  Ids differ in a
valid source, so all its statements stand at the end of its transaction
(`SyncCompletes`), and doing them again changes nothing (`SyncIdles`).  `CatalogInv`
carries `Sound` from one source to the next.

**Imports** (`ImportBatch_proofs`; the module's four assumptions).  `ImportIInv`
says of an open commit that the rows it has created, skipped and not reached yet
are together the batch's selection, and that its client has that selection's
revision (`OpenCommits`); that no two
commits of one batch are open (`OneCommitPerBatch`, by the row lock); that rows read
at the batch's present revision are the batch's rows, and none is read later
(`ViewsAreDated`); and that an
answer is the stored result (`AnswersStand`).  `ImportsAreWhole`,
`ImportedRowsWereResolved` and `OnePersonPerName` are conjuncts.
`ImportsTheorem` (`ImportInv`), `AnswersTheorem` (`AnswersAgree`) and
`CommitsStandTheorem` (`CommitsStand`) follow, for any number of clients, batches
and rows, next to projects and people made by hand, withdrawn terms and the cleaner.

For one row, `DraftsTheorem` is `RowSpec => []DraftsResolve`, for any catalogs, people
and participations (`ValidationAssumption`).  `RowsInv` says that the members resolved
so far are the first participations, each whom it names (`Progress`, `NamedBy`),
that IDs stay unique and that the positions of every role are dense (`Placed`); the
last goes through what a new member does to its role's places (`MemberJoins`).  Why a
row fails (`WhyItFails`): several matches are two IDs' people or namesakes; of the
namesakes validation let through one (`EntriesPassed`), so the other is the row's own.

`FilesTheorem` is `FileSpec => []FilesAreReadAlike`, for any upload and limits
(`ParsingAssumption` types the sheets).  What a filter keeps is written as the
elements at some places, in their order (`Nth`, `Pick`), because a filter defined by
recursion is out of the prover's reach; that the n-th place exists and is the only
one follows from counting (`RanksFill`).  `LinesAgree`: a line's cells, put one behind
the other, have in each role what the sheet had (`FourKinds`, `FiveKinds`).
`RowsAreKept`: each row has one project and one place among that project's rows,
a bijection (`ListedOnce`).

**Bulk imports** (`BulkImport_proofs`).  For the dispatcher (`PoolAssumption`: counts
are numbers, the default is in range) `PoolInv` relates who is still there to which channel is
closed (`ChannelInv`), what was folded to what stops the run (`StopInv`), and
accounts for every group (`PlacesInv`); `ChannelsTheorem`, `EachGroupOnceTheorem`,
`ReturnTheorem`, together `DispatchTheorem` (`Spec => []DispatchInv`), and
`NothingAfterFatalTheorem` are its consequences.

For the importers (`ImportAssumption`: finitely many projects, types and digests, an
entry has one logo and one set of links at most) two arguments, each with an
invariant of its own.

* *The books* (`BooksInv`), for runs side by side as well.  In each project the
  entries passed so far are those uploaded or skipped (`JobInv`); of a run,
  what it has committed and heard of is what its result says and what its jobs have
  not yet reported, and as long as nothing failed the rest of the plan is still owed
  (`AccountInv`).  A failing project reports first what it did before, and what it
  hides it hides while it adds a failure (`LostInv`).
  `ResultsHold` is `Spec => []ResultsAreTrue`, `ImportTypeCorrect` the types.
* *The order* (`OrderInv`), for runs one after the other.  A run that applies is the
  only one, and in a project nobody else has edited the files are where the plan
  takes them (`OnCourse`), so a file planned to be sent is not there and fits, and
  what was passed is there (`There`).  That plans are fit to be followed in
  any order of projects, and that nothing sent, heard of or not, takes anything away that a plan
  has relied on, needs that the bundle wishes one logo and one set of links of a
  project (`OneOfEach`).  `BundlesHold` is `Spec => []BundlesAreApplied`; its
  quota needs neither order nor plans.

Sums over projects are cardinalities of disjoint blocks (`SumOver`), so that a lemma
about finite sets shows how a sum follows its summands (`SumWith`, `SumOfSums`).
Plans are gathered by recursive functions over the bundle; that such a function
exists and has one value is shown with least subsets of its domain, because the
library's induction theorems have an operator as parameter.

**Logins, lists and searches** (`Requests_proofs`; `LoginAssumption`,
`ListsAssumption`, `SearchAssumption`).
`LoginInv` counts the attempts in flight: failures in the window and attempts that
may still record one are together fewer than the limit plus the most that ever ran
at once (`CountInv`, with `RunningInv` for the history variable); and until two
overlap, every active session is among those that the attempt under way has seen
and will replace (`AloneInv`).
`LoginsTheorem` (`LoginsAreBounded`) follows.  `EndedTheorem` (`EndedStaysEnded`) goes
through the steps that write a session's row; a touch needs that the locked session
was unexpired when its request began (`LocksInv`).

`ListInv`, for each of the three lists, any rows and any page size: of the rows
that stay as they are, those up to the cursor were shown once and those behind it
not (`UntouchedInv`); a transaction that may still change a row has a time that is
not before the row's (`TimesInv`: whoever changed the row since has raised the
revision it compares with); so rows of the lists by time only move before what was
shown (`ShownInv`).  What a page is comes from two lemmas about `LIMIT`: a page is an
initial piece of what is behind the cursor (`PageIsInitial`), and one row more than
it holds tells whether the list goes on (`OneMoreTells`).  `PageShown` puts them
together for any order of rows; `ListsTheorem` is
`ListsSpec => []ListWalksAreFaithful`.

Searches, for any documents, queries and limits, whichever ranking the engine
chooses and however the index changes: every order, the ranking included, is total
on what a query finds, so a document's place is the number of those before it and
a page is the documents whose places are in its window.  Requests of one hash have
one list (`HashDecides`; trimming takes no word away, `TrimKeepsWords`).  `SearchInv` says that as long as the index stays as it is a cursor
stands for the beginning of the list that was shown with it (`HeldInv`), that a page
continues it (`PageInv`), and that a refused cursor was another list's
(`RefusedInv`).  `SearchesTheorem` is `SearchSpec => []SearchWalksAreComplete`.

## 14. What is only model-checked

* Liveness: `Converges`, `EverythingEnds`, `DispatchEnds` in its second half,
  `RunsEndInTurn`, `EverybodyIsServed`, `ExpiredIsScrubbed`; the prover has no rules
  for fairness.

## 15. What is not modelled

* **People** (`internal/people`): updates are guarded by a revision as those of
  projects, without children.  A renamed person's projects are not projected
  again; no interleaving decides that, and no document promises otherwise.
* **Frontend, configuration, HTTP decoding and encoding, generated code**: no
  state shared between actors.
* **Deployment**: migrations of the schema run before the process serves;
  containers are restarted (the fairness of `Start`).
* **Data**: formats of files, texts and URLs beyond what decides a branch;
  digests are the content itself; quota and limits are scaled down.
