---------------------------- MODULE ImportBatch ----------------------------
(***************************************************************************)
(* Project file imports (internal/imports): a parsed file is previewed as  *)
(* a batch of rows, administrators select rows under optimistic locking,   *)
(* one of them commits the batch in a single transaction, and a cleaner    *)
(* expires the batches nobody committed.  Transactions run at READ         *)
(* COMMITTED: a commit is a sequence of steps between which other clients, *)
(* the catalog and the expiry clock move.                                  *)
(***************************************************************************)
EXTENDS Naturals, FiniteSets, Sequences

CONSTANTS
  Batches,       \* uploaded files; every upload is a batch of its own
  Clients,       \* administrators' requests, one at a time each
  Rows,          \* row numbers of a file
  Titles,        \* project titles (with their year), what duplicates share
  Terms,         \* catalog keys and taxonomy terms a draft refers to
  Names,         \* normalized names of participants without an ID
  Drafts,        \* [Batches -> [Rows -> [title, term, author]]]
  CleanLimit,    \* batches one cleanup transaction expires
  MaxRevision,   \* bound: revisions a batch reaches by selection changes
  MaxOutside,    \* bound: projects and people created outside the imports
  Nil

ASSUME RowsAssumption == Rows \subseteq Nat \ {0} /\ IsFiniteSet(Rows)
ASSUME DraftsAssumption ==
  Drafts \in [Batches -> [Rows -> [title : Titles, term : Terms, author : Names]]]
ASSUME RevisionAssumption == MaxRevision \in Nat /\ MaxRevision >= 2

VARIABLES
  batches,   \* import_batches: state, revision, stored result
  rows,      \* import_rows
  due,       \* batches whose expires_at has passed
  projects,  \* published projects: title and the row they came from
  people,    \* people without an ID: name and the row that created them
  retired,   \* terms that no longer pass validation
  tx,        \* the open commit transaction of a client, or Nil
  seen,      \* what a client last read of a batch: its revision and its rows
  answer     \* the last commit result a client received

vars == <<batches, rows, due, projects, people, retired, tx, seen, answer>>

Resolutions == {Nil, "create", "skip"}
Choices == [selected : BOOLEAN, acknowledged : BOOLEAN, resolution : Resolutions]
NoChoice == [selected |-> FALSE, acknowledged |-> FALSE, resolution |-> Nil]
Result == [created : SUBSET Rows, skipped : SUBSET Rows]
StoredRow == [issues : SUBSET {"error", "duplicate"}, draft : BOOLEAN, choice : Choices, project : BOOLEAN]
NewPerson == [name : Names, from : Batches \X Rows]
Transaction ==
  [batch : Batches, left : SUBSET Rows, created : SUBSET Rows, skipped : SUBSET Rows,
   people : SUBSET NewPerson]
\* A revision of 0 was not read; read is the batch's revision when the rows were.
View == [batch : Batches, revision : Nat, rows : [Rows -> Choices] \cup {Nil}, read : Nat]
Answer == [batch : Batches, result : Result]

\* Nil stands for what is not there.
ASSUME NilAssumption ==
  /\ Nil \notin {"create", "skip"} /\ Nil \notin Result /\ Nil \notin Transaction
  /\ Nil \notin View /\ Nil \notin Answer
  /\ Nil \notin [Rows -> Choices] /\ Nil \notin Batches \X Rows

----------------------------------------------------------------------------
\* validateDraft: errors of the catalog and of ambiguous names, and the
\* warning about possible duplicates among the projects a reader sees.
Issues(draft, visiblePeople, visibleProjects) ==
  (IF \/ draft.term \in retired
      \/ Cardinality({p \in visiblePeople : p.name = draft.author}) > 1
   THEN {"error"} ELSE {})
  \cup (IF \E p \in visibleProjects : p.title = draft.title THEN {"duplicate"} ELSE {})

HasErrors(row) == "error" \in row.issues
HasWarnings(row) == "duplicate" \in row.issues
HasCandidates(row) == "duplicate" \in row.issues

\* The checks of UpdateRows on one row and the values requested for it.
Acceptable(row, choice) ==
  /\ choice.selected => ~HasErrors(row)
  /\ choice.selected /\ HasWarnings(row) => choice.acknowledged
  /\ choice.selected /\ HasCandidates(row) => choice.resolution # Nil
  /\ ~HasCandidates(row) => choice.resolution = Nil

\* The checks of Commit on one selected row.
Resolved(row) ==
  /\ ~HasErrors(row)
  /\ HasWarnings(row) => row.choice.acknowledged
  /\ HasCandidates(row) => row.choice.resolution # Nil

Selected(b) == {r \in Rows : rows[b][r].choice.selected}
Locked(b) == \E c \in Clients : tx[c] # Nil /\ tx[c].batch = b
Idle(c) == tx[c] = Nil
EmptyRow == [issues |-> {}, draft |-> FALSE, choice |-> NoChoice, project |-> FALSE]

Init ==
  /\ batches = [b \in Batches |-> [state |-> "absent", revision |-> 0, result |-> Nil]]
  /\ rows = [b \in Batches |-> [r \in Rows |-> EmptyRow]]
  /\ due = {}
  /\ projects = {}
  /\ people = {}
  /\ retired = {}
  /\ tx = [c \in Clients |-> Nil]
  /\ seen = [c \in Clients |-> Nil]
  /\ answer = [c \in Clients |-> Nil]

----------------------------------------------------------------------------
\* CreatePreview: the rows are validated and stored in one transaction that
\* takes the batch from previewing (revision 1) to ready (revision 2).
CreatePreview(b) ==
  /\ batches[b].state = "absent"
  /\ batches' = [batches EXCEPT ![b] = [state |-> "ready", revision |-> 2, result |-> Nil]]
  /\ rows' = [rows EXCEPT ![b] =
       [r \in Rows |-> [issues |-> Issues(Drafts[b][r], people, projects), draft |-> TRUE,
                        choice |-> NoChoice, project |-> FALSE]]]
  /\ UNCHANGED <<due, projects, people, retired, tx, seen, answer>>

\* What a client knows of a batch: nothing unless it was the last it looked at.
Known(c, b) ==
  IF seen[c] # Nil /\ seen[c].batch = b THEN seen[c]
  ELSE [batch |-> b, revision |-> 0, rows |-> Nil, read |-> 0]

\* Get: a client reads the batch and its revision.
GetBatch(c, b) ==
  /\ Idle(c) /\ batches[b].state = "ready"
  /\ seen' = [seen EXCEPT ![c] = [Known(c, b) EXCEPT !.revision = batches[b].revision]]
  /\ UNCHANGED <<batches, rows, due, projects, people, retired, tx, answer>>

\* ListRows: before, after or without that, in a request of its own, the rows
\* with their selection.
ListRows(c, b) ==
  /\ Idle(c) /\ batches[b].state # "absent"
  /\ seen' = [seen EXCEPT ![c] =
       [Known(c, b) EXCEPT !.rows = [r \in Rows |-> rows[b][r].choice],
                           !.read = batches[b].revision]]
  /\ UNCHANGED <<batches, rows, due, projects, people, retired, tx, answer>>

\* Mutated form of UpdateRows.
UpdateRows_SameRevision(c, chosen, choice) ==
  LET b == seen[c].batch IN
  /\ Idle(c) /\ seen[c] # Nil /\ seen[c].rows # Nil
  /\ ~Locked(b)
  /\ batches[b].state = "ready" /\ b \notin due
  /\ batches[b].revision = seen[c].revision
  /\ batches[b].revision < MaxRevision
  /\ \A r \in chosen : Acceptable(rows[b][r], choice)
  /\ rows' = [rows EXCEPT ![b] =
       [r \in Rows |-> IF r \in chosen THEN [rows[b][r] EXCEPT !.choice = choice] ELSE rows[b][r]]]
  /\ UNCHANGED batches
  /\ seen' = [seen EXCEPT ![c] =
       [@ EXCEPT !.rows = [r \in Rows |-> IF r \in chosen THEN choice ELSE @[r]]]]
  /\ UNCHANGED <<due, projects, people, retired, tx, answer>>

\* UpdateRows: all the requested rows pass their checks or nothing changes.
\* The answer carries the new revision, and not the rows.
UpdateRows(c, chosen, choice) ==
  LET b == seen[c].batch IN
  /\ Idle(c) /\ seen[c] # Nil /\ seen[c].rows # Nil
  /\ ~Locked(b)
  /\ batches[b].state = "ready" /\ b \notin due
  /\ batches[b].revision = seen[c].revision
  /\ batches[b].revision < MaxRevision
  /\ \A r \in chosen : Acceptable(rows[b][r], choice)
  /\ rows' = [rows EXCEPT ![b] =
       [r \in Rows |-> IF r \in chosen THEN [rows[b][r] EXCEPT !.choice = choice] ELSE rows[b][r]]]
  /\ batches' = [batches EXCEPT ![b].revision = @ + 1]
  /\ seen' = [seen EXCEPT ![c] =
       [batch |-> b, revision |-> seen[c].revision + 1,
        rows |-> [r \in Rows |-> IF r \in chosen THEN choice ELSE seen[c].rows[r]],
        read |-> IF seen[c].read = seen[c].revision THEN seen[c].revision + 1 ELSE seen[c].read]]
  /\ UNCHANGED <<due, projects, people, retired, tx, answer>>

----------------------------------------------------------------------------
\* Commit locks the batch row (FOR UPDATE) and checks state, expiry and
\* revision before it reads the selected rows in order.  The client names the
\* revision it read, whenever it read the rows.
BeginCommit(c) ==
  LET b == seen[c].batch IN
  /\ Idle(c) /\ seen[c] # Nil
  /\ ~Locked(b)
  /\ batches[b].state = "ready" /\ b \notin due
  /\ batches[b].revision = seen[c].revision
  /\ Selected(b) # {}
  /\ tx' = [tx EXCEPT ![c] =
       [batch |-> b, left |-> Selected(b), created |-> {}, skipped |-> {}, people |-> {}]]
  /\ UNCHANGED <<batches, rows, due, projects, people, retired, seen, answer>>

\* Mutated form of RepeatCommit.
RepeatCommit_Recomputed(c) ==
  LET b == seen[c].batch IN
  /\ Idle(c) /\ seen[c] # Nil
  /\ ~Locked(b)
  /\ batches[b].state = "committed"
  /\ answer' = [answer EXCEPT ![c] = [batch |-> b, result |-> [created |-> {}, skipped |-> {}]]]
  /\ UNCHANGED <<batches, rows, due, projects, people, retired, tx, seen>>

\* Commit of a batch that is committed already returns the stored result.
RepeatCommit(c) ==
  LET b == seen[c].batch IN
  /\ Idle(c) /\ seen[c] # Nil
  /\ ~Locked(b)
  /\ batches[b].state = "committed"
  /\ answer' = [answer EXCEPT ![c] = [batch |-> b, result |-> batches[b].result]]
  /\ UNCHANGED <<batches, rows, due, projects, people, retired, tx, seen>>

NextRow(c) == CHOOSE r \in tx[c].left : \A q \in tx[c].left : r <= q
MadeBy(c) == {[title |-> Drafts[tx[c].batch][r].title, from |-> <<tx[c].batch, r>>] : r \in tx[c].created}

\* The transaction once its next row is done.
Advanced(c, created, skipped, new) ==
  [batch |-> tx[c].batch, left |-> tx[c].left \ {NextRow(c)},
   created |-> tx[c].created \cup created, skipped |-> tx[c].skipped \cup skipped,
   people |-> tx[c].people \cup new]

SkipRow(c) ==
  /\ tx[c] # Nil /\ tx[c].left # {}
  /\ LET r == NextRow(c)
         row == rows[tx[c].batch][r] IN
     /\ Resolved(row) /\ row.choice.resolution = "skip"
     /\ tx' = [tx EXCEPT ![c] = Advanced(c, {}, {r}, {})]
  /\ UNCHANGED <<batches, rows, due, projects, people, retired, seen, answer>>

\* resolvePerson: one match is reused, none is created in the transaction
\* (a name matched twice is an error of validateDraft already).
NewPeople(c, name) ==
  IF \E p \in people \cup tx[c].people : p.name = name
  THEN {} ELSE {[name |-> name, from |-> <<tx[c].batch, NextRow(c)>>]}

\* A selected row is validated again with the transaction's view, where only
\* errors stop it, and its project is created and published.
ImportRow(c) ==
  /\ tx[c] # Nil /\ tx[c].left # {}
  /\ LET b == tx[c].batch
         r == NextRow(c)
         row == rows[b][r]
         draft == Drafts[b][r] IN
     /\ Resolved(row) /\ row.choice.resolution # "skip"
     /\ "error" \notin Issues(draft, people \cup tx[c].people, projects \cup MadeBy(c))
     /\ tx' = [tx EXCEPT ![c] = Advanced(c, {r}, {}, NewPeople(c, draft.author))]
  /\ UNCHANGED <<batches, rows, due, projects, people, retired, seen, answer>>

\* The transaction records the result and commits; the answer may be lost.
FinishCommit(c) ==
  /\ tx[c] # Nil /\ tx[c].left = {}
  /\ LET b == tx[c].batch
         result == [created |-> tx[c].created, skipped |-> tx[c].skipped] IN
     /\ batches' = [batches EXCEPT ![b] =
          [state |-> "committed", revision |-> @.revision + 1, result |-> result]]
     /\ rows' = [rows EXCEPT ![b] =
          [r \in Rows |-> [rows[b][r] EXCEPT !.project = @ \/ r \in tx[c].created]]]
     /\ projects' = projects \cup MadeBy(c)
     /\ people' = people \cup tx[c].people
     /\ \/ answer' = [answer EXCEPT ![c] = [batch |-> b, result |-> result]]
        \/ UNCHANGED answer
  /\ tx' = [tx EXCEPT ![c] = Nil]
  /\ UNCHANGED <<due, retired, seen>>

\* Mutated form of AbortCommit.
AbortCommit_PeopleStay(c) ==
  /\ tx[c] # Nil
  /\ tx' = [tx EXCEPT ![c] = Nil]
  /\ people' = people \cup tx[c].people
  /\ UNCHANGED <<batches, rows, due, projects, retired, seen, answer>>

\* A row that fails its checks, a database error, a closed connection or a
\* crash of the process: the transaction rolls back.
AbortCommit(c) ==
  /\ tx[c] # Nil
  /\ tx' = [tx EXCEPT ![c] = Nil]
  /\ UNCHANGED <<batches, rows, due, projects, people, retired, seen, answer>>

----------------------------------------------------------------------------
\* CleanupExpired: up to CleanLimit expired batches that nobody has locked;
\* their rows are scrubbed in the same transaction.
Cleanable == {b \in due : batches[b].state = "ready" /\ ~Locked(b)}

\* Mutated form of CleanupExpired.
CleanupExpired_KeepsRows(picked) ==
  /\ picked # {} /\ picked \subseteq Cleanable
  /\ \/ Cardinality(picked) = CleanLimit
     \/ picked = Cleanable /\ Cardinality(picked) < CleanLimit
  /\ batches' = [b \in Batches |->
       IF b \in picked
       THEN [state |-> "expired", revision |-> batches[b].revision + 1, result |-> batches[b].result]
       ELSE batches[b]]
  /\ UNCHANGED <<rows, due, projects, people, retired, tx, seen, answer>>

CleanupExpired(picked) ==
  /\ picked # {} /\ picked \subseteq Cleanable
  /\ \/ Cardinality(picked) = CleanLimit
     \/ picked = Cleanable /\ Cardinality(picked) < CleanLimit
  /\ batches' = [b \in Batches |->
       IF b \in picked
       THEN [state |-> "expired", revision |-> batches[b].revision + 1, result |-> batches[b].result]
       ELSE batches[b]]
  /\ rows' = [b \in Batches |->
       IF b \in picked
       THEN [r \in Rows |-> [issues |-> {}, draft |-> FALSE, choice |-> NoChoice, project |-> rows[b][r].project]]
       ELSE rows[b]]
  /\ UNCHANGED <<due, projects, people, retired, tx, seen, answer>>

ExpiryPasses(b) ==
  /\ batches[b].state # "absent" /\ b \notin due
  /\ due' = due \cup {b}
  /\ UNCHANGED <<batches, rows, projects, people, retired, tx, seen, answer>>

\* Other requests of the program: a term is retired, a project or a person
\* is created by hand.
RetireTerm(t) ==
  /\ retired' = retired \cup {t}
  /\ UNCHANGED <<batches, rows, due, projects, people, tx, seen, answer>>

Outside == Cardinality({p \in projects : p.from = Nil}) + Cardinality({p \in people : p.from = Nil})

CreateProjectByHand(t) ==
  /\ Outside < MaxOutside
  /\ projects' = projects \cup {[title |-> t, from |-> Nil]}
  /\ UNCHANGED <<batches, rows, due, people, retired, tx, seen, answer>>

CreatePersonByHand(n) ==
  /\ Outside < MaxOutside
  /\ people' = people \cup {[name |-> n, from |-> Nil]}
  /\ UNCHANGED <<batches, rows, due, projects, retired, tx, seen, answer>>

Commits(c) == SkipRow(c) \/ ImportRow(c) \/ FinishCommit(c) \/ AbortCommit(c)
Cleaner == \E picked \in SUBSET Batches : CleanupExpired(picked)

Next ==
  \/ \E b \in Batches : CreatePreview(b) \/ ExpiryPasses(b)
  \/ \E c \in Clients :
       \/ \E b \in Batches : GetBatch(c, b) \/ ListRows(c, b)
       \/ \E chosen \in SUBSET Rows \ {{}}, choice \in Choices : UpdateRows(c, chosen, choice)
       \/ BeginCommit(c)
       \/ RepeatCommit(c)
       \/ Commits(c)
  \/ Cleaner
  \/ \E t \in Terms : RetireTerm(t)
  \/ \E t \in Titles : CreateProjectByHand(t)
  \/ \E n \in Names : CreatePersonByHand(n)

Spec == Init /\ [][Next]_vars

----------------------------------------------------------------------------
TypeOK ==
  /\ batches \in [Batches -> [state : {"absent", "ready", "committed", "expired"},
                               revision : 0..(MaxRevision + 1), result : Result \cup {Nil}]]
  /\ rows \in [Batches -> [Rows -> StoredRow]]
  /\ due \subseteq Batches
  /\ retired \subseteq Terms
  /\ projects \subseteq [title : Titles, from : (Batches \X Rows) \cup {Nil}]
  /\ people \subseteq [name : Names, from : (Batches \X Rows) \cup {Nil}]
  /\ tx \in [Clients -> Transaction \cup {Nil}]
  /\ seen \in [Clients -> View \cup {Nil}]
  /\ answer \in [Clients -> Answer \cup {Nil}]

\* A batch is imported as a whole or not at all, whatever fails in between
\* and however often its commit is asked for: the projects and people that
\* exist are those of committed batches, one project for each created row, and
\* the stored result and the rows' committed_project_id say the same.
ImportedWhole(b) ==
  LET created == {r \in Rows : \E p \in projects : p.from = <<b, r>>}
      done == batches[b].state = "committed" IN
  /\ done <=> batches[b].result # Nil
  /\ done => /\ created = batches[b].result.created
             /\ created \cup batches[b].result.skipped = Selected(b)
             /\ created \cap batches[b].result.skipped = {}
  /\ created = {r \in Rows : rows[b][r].project}
  /\ ~done => created = {} /\ ~\E p \in people : p.from # Nil /\ p.from[1] = b
ImportsAreWhole == \A b \in Batches : ImportedWhole(b)

\* No project comes from a row whose preview reported an error, and none from
\* a row with possible duplicates unless somebody acknowledged the warning and
\* chose to create it.
ImportedAsResolved(b) ==
  \A r \in Rows : rows[b][r].project =>
    /\ "error" \notin rows[b][r].issues
    /\ "duplicate" \in rows[b][r].issues =>
         rows[b][r].choice.acknowledged /\ rows[b][r].choice.resolution = "create"
ImportedRowsWereResolved == \A b \in Batches : ImportedAsResolved(b)

\* Within one batch a name without an ID stands for one person.
OnePersonPerName ==
  \A p, q \in people :
    p.name = q.name /\ p.from # Nil /\ q.from # Nil /\ p.from[1] = q.from[1] => p = q

\* Batches between clients that preview, select and commit, and a cleaner: an
\* import's projects are all there or none is, no row with unread warnings is
\* among them, and a name a batch shares becomes one person.
ImportInv == TypeOK /\ ImportsAreWhole /\ ImportedRowsWereResolved /\ OnePersonPerName

\* Every answer to a commit of a batch, a repeated one after a lost answer
\* included, is the stored result.
AnswersAgree ==
  \A c \in Clients :
    answer[c] # Nil => answer[c].result = batches[answer[c].batch].result

\* A revision stands for one selection: if a client read the rows no earlier than
\* the revision it commits, what is committed is the selection it looked at, whoever
\* changed it in between.  (Rows that it read before that revision may have changed.)
CommittedAsSeen ==
  [][\A c \in Clients :
       tx[c] # Nil /\ batches'[tx[c].batch].state = "committed"
         /\ seen[c].rows # Nil /\ seen[c].read >= seen[c].revision =>
         \A r \in Rows : rows'[tx[c].batch][r].choice = seen[c].rows[r]]_vars

\* A committed batch stays as it is: no later commit, selection or cleanup
\* changes its state, its result or its rows.
CommittedIsFinal ==
  [][\A b \in Batches : batches[b].state \in {"committed", "expired"} =>
       batches'[b] = batches[b] /\ rows'[b] = rows[b]]_vars

\* What a commit has done is the selection of the revision its client named, which
\* a client that reads the revision first has seen, and it stays so: neither another
\* selection nor a second commit or the cleaner gets in between or comes after.
CommitsStand == CommittedAsSeen /\ CommittedIsFinal

\* What a preview stored is scrubbed once it has expired, unless the batch was
\* committed before.
ExpiredPreviewsAreScrubbed ==
  \A b \in Batches :
    b \in due ~> \/ batches[b].state = "committed"
                 \/ batches[b].state = "expired" /\ \A r \in Rows : ~rows[b][r].draft
=============================================================================
