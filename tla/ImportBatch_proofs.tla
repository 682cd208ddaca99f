-------------------------- MODULE ImportBatch_proofs --------------------------
(***************************************************************************)
(* Proofs about project file imports, for any number of batches, clients   *)
(* and rows: an import's projects are all there or none is, none comes     *)
(* from a row with unread warnings, the answers to a commit agree, a       *)
(* commit imports what its client saw, and what is committed stays.  Then  *)
(* about one row, for any catalogs and people: what validation let pass,   *)
(* the commit resolves, and to whom the row names.  Last about files: for  *)
(* any workbook the parsers of both formats agree, and no row is lost.     *)
(***************************************************************************)
EXTENDS ImportBatch, ImportValidation, ImportParsing, FiniteSetTheorems,
        WellFoundedInduction, TLAPS

Committing(c) == tx[c] # Nil

\* The rows a transaction has gone through and those it has left are the
\* selected ones, each counted once; what it created was allowed, and its people
\* are its own, one for each name.
WorkInHand(t) ==
  /\ t.left \cup t.created \cup t.skipped = Selected(t.batch)
  /\ t.left \cap t.created = {} /\ t.left \cap t.skipped = {} /\ t.created \cap t.skipped = {}
  /\ \A r \in t.created :
       Resolved(rows[t.batch][r]) /\ rows[t.batch][r].choice.resolution # "skip"
  /\ \A p \in t.people : p.from[1] = t.batch
  /\ \A p, q \in t.people : p.name = q.name => p = q

\* The client of an open commit knows the revision of the batch, which is ready, as
\* it was checked.
SawItsBatch(c) ==
  /\ seen[c] # Nil /\ seen[c].batch = tx[c].batch
  /\ batches[tx[c].batch].state = "ready"
  /\ seen[c].revision = batches[tx[c].batch].revision

OpenCommits == \A c \in Clients : Committing(c) => WorkInHand(tx[c]) /\ SawItsBatch(c)

\* The row lock keeps a batch to one transaction.
OneCommitPerBatch ==
  \A c, d \in Clients : Committing(c) /\ Committing(d) /\ tx[c].batch = tx[d].batch => c = d

\* A revision tells one selection: whoever read the rows at the revision that a
\* ready batch has holds its selection.
SelectionOf(b) == [r \in Rows |-> rows[b][r].choice]
RevisionTells(v) ==
  /\ batches[v.batch].state # "absent"
  /\ v.revision <= batches[v.batch].revision /\ v.read <= batches[v.batch].revision
  /\ batches[v.batch].state = "ready" /\ v.rows # Nil /\ v.read = batches[v.batch].revision =>
       v.rows = SelectionOf(v.batch)
ViewsAreDated == \A c \in Clients : seen[c] # Nil => RevisionTells(seen[c])

ReadyFits == \A b \in Batches : batches[b].state = "ready" => batches[b].revision <= MaxRevision

AnswersStand ==
  \A c \in Clients : answer[c] # Nil =>
    /\ batches[answer[c].batch].state = "committed"
    /\ answer[c].result = batches[answer[c].batch].result

\* The inductive invariant.
ImportIInv ==
  /\ TypeOK /\ OpenCommits /\ OneCommitPerBatch /\ ViewsAreDated /\ ReadyFits
  /\ ImportsAreWhole /\ ImportedRowsWereResolved /\ OnePersonPerName /\ AnswersStand

-------------------------------------------------------------------------------
(* What the steps have in common.                                           *)

\* A nonempty set of numbers has a least one, so the next row is one of those left.
LEMMA LeastNumber ==
  ASSUME NEW S, S \subseteq Nat, S # {}
  PROVE  \E m \in S : \A n \in S : m <= n
<1>1. PICK m \in S : \A n \in S : <<n, m>> \notin OpToRel(<, Nat)
  BY NatLessThanWellFounded, WFMin, Zenon
<1>2. ASSUME NEW n \in S PROVE m <= n
  <2>1. n \in Nat /\ m \in Nat
    OBVIOUS
  <2>2. ~(n < m)
    BY <1>1, <2>1 DEF OpToRel
  <2> QED BY <2>1, <2>2
<1> QED BY <1>2

\* The row a commit goes on with is one it has left.
LEMMA NextIsLeft ==
  ASSUME TypeOK, NEW c \in Clients, Committing(c), tx[c].left # {}
  PROVE  NextRow(c) \in tx[c].left
<1>1. tx[c].left \subseteq Nat
  BY RowsAssumption DEF TypeOK, Committing, Transaction
<1>2. \E m \in tx[c].left : \A n \in tx[c].left : m <= n
  BY <1>1, LeastNumber
<1> QED BY <1>2 DEF NextRow

\* What has not moved about a commit stays right.
LEMMA CommitKept ==
  ASSUME NEW d \in Clients, Committing(d), WorkInHand(tx[d]), SawItsBatch(d),
         tx'[d] = tx[d], seen'[d] = seen[d],
         batches'[tx[d].batch] = batches[tx[d].batch], rows'[tx[d].batch] = rows[tx[d].batch]
  PROVE  WorkInHand(tx[d])' /\ SawItsBatch(d)'
<1> DEFINE t == tx[d]
<1>1. t' = t /\ Selected(t.batch)' = Selected(t.batch)
  BY DEF Selected
<1>2. \A r : Resolved(rows[t.batch][r])' <=> Resolved(rows[t.batch][r])
  BY DEF Resolved, HasErrors, HasWarnings, HasCandidates
<1>4. WorkInHand(t)'
  BY <1>1, <1>2 DEF WorkInHand
<1>3. SawItsBatch(d)'
  BY DEF SawItsBatch
<1> QED BY <1>3, <1>4

\* Nothing about a batch has moved, nor about what came from it.
LEMMA BatchKept ==
  ASSUME NEW b \in Batches, ImportedWhole(b), ImportedAsResolved(b),
         batches'[b] = batches[b], rows'[b] = rows[b],
         \A r \in Rows : (\E p \in projects' : p.from = <<b, r>>)
                           <=> (\E p \in projects : p.from = <<b, r>>),
         (\E p \in people' : p.from # Nil /\ p.from[1] = b)
           => (\E p \in people : p.from # Nil /\ p.from[1] = b)
  PROVE  ImportedWhole(b)' /\ ImportedAsResolved(b)'
<1>1. Selected(b)' = Selected(b)
  BY DEF Selected
<1>2. ImportedWhole(b)'
  BY <1>1 DEF ImportedWhole
<1>3. ImportedAsResolved(b)'
  BY DEF ImportedAsResolved
<1> QED BY <1>2, <1>3

\* A view of a batch nobody touched tells what it told.
LEMMA ViewKept ==
  ASSUME NEW d \in Clients, seen[d] # Nil, RevisionTells(seen[d]), seen'[d] = seen[d],
         batches'[seen[d].batch] = batches[seen[d].batch], rows'[seen[d].batch] = rows[seen[d].batch]
  PROVE  RevisionTells(seen[d])'
BY DEF RevisionTells, SelectionOf

\* What is found in a draft is one of the two issues.
LEMMA IssuesType ==
  ASSUME NEW d, NEW P, NEW Q
  PROVE  Issues(d, P, Q) \subseteq {"error", "duplicate"}
BY DEF Issues

-------------------------------------------------------------------------------
(* The steps, one lemma each.                                               *)

\* Nothing is uploaded yet.
LEMMA ImportStart == Init => ImportIInv
<1> SUFFICES ASSUME Init PROVE ImportIInv
  OBVIOUS
<1> USE DEF Init
<1>1. TypeOK
  BY RevisionAssumption DEF TypeOK, StoredRow, EmptyRow, Choices, NoChoice, Resolutions
<1>2. OpenCommits /\ OneCommitPerBatch /\ ViewsAreDated /\ ReadyFits /\ AnswersStand
  BY DEF OpenCommits, OneCommitPerBatch, ViewsAreDated, ReadyFits, AnswersStand, Committing
<1>3. ImportsAreWhole
  BY DEF ImportsAreWhole, ImportedWhole, EmptyRow
<1>4. ImportedRowsWereResolved /\ OnePersonPerName
  BY DEF ImportedRowsWereResolved, ImportedAsResolved, OnePersonPerName, EmptyRow
<1> QED BY <1>1, <1>2, <1>3, <1>4 DEF ImportIInv

\* The steps that touch neither a batch nor what was imported: a commit begins,
\* goes on or is given up.
LEMMA WorkStep ==
  ASSUME ImportIInv, NEW c \in Clients,
         UNCHANGED <<batches, rows, due, projects, people, retired, seen, answer>>,
         tx' = [tx EXCEPT ![c] = tx'[c]], tx'[c] \in Transaction \cup {Nil},
         Committing(c)' =>
           /\ WorkInHand(tx[c])'
           /\ SawItsBatch(c)'
           /\ \A d \in Clients : Committing(d) /\ tx[d].batch = tx'[c].batch => d = c
  PROVE  ImportIInv'
<1> USE DEF ImportIInv
<1>1. TypeOK'
  BY DEF TypeOK
<1>2. \A d \in Clients : d # c => tx'[d] = tx[d]
  BY DEF TypeOK
<1>3. OpenCommits'
  <2> SUFFICES ASSUME NEW d \in Clients, Committing(d)' PROVE WorkInHand(tx[d])' /\ SawItsBatch(d)'
    BY DEF OpenCommits
  <2>1. CASE d = c
    BY <2>1
  <2>2. CASE d # c
    <3>1. tx'[d] = tx[d] /\ Committing(d)
      BY <1>2, <2>2 DEF Committing
    <3>2. WorkInHand(tx[d]) /\ SawItsBatch(d)
      BY <3>1 DEF OpenCommits
    <3> QED BY <3>1, <3>2, CommitKept
  <2> QED BY <2>1, <2>2
<1>4. OneCommitPerBatch'
  BY <1>2 DEF OneCommitPerBatch, Committing
<1>5. ViewsAreDated'
  BY DEF ViewsAreDated, RevisionTells, SelectionOf
<1>6. ImportsAreWhole' /\ ImportedRowsWereResolved'
  BY BatchKept DEF ImportsAreWhole, ImportedRowsWereResolved
<1>7. OnePersonPerName' /\ ReadyFits' /\ AnswersStand'
  BY DEF OnePersonPerName, ReadyFits, AnswersStand
<1> QED BY <1>1, <1>3, <1>4, <1>5, <1>6, <1>7

\* The steps of one client that only read.
LEMMA ReadStep ==
  ASSUME ImportIInv, NEW c \in Clients, Idle(c),
         UNCHANGED <<batches, rows, due, projects, people, retired, tx>>,
         seen' = [seen EXCEPT ![c] = seen'[c]], seen'[c] \in View \cup {Nil},
         seen'[c] # Nil => RevisionTells(seen[c])',
         answer' = [answer EXCEPT ![c] = answer'[c]], answer'[c] \in Answer \cup {Nil},
         answer'[c] # Nil =>
           /\ batches[answer'[c].batch].state = "committed"
           /\ answer'[c].result = batches[answer'[c].batch].result
  PROVE  ImportIInv'
<1> USE DEF ImportIInv
<1>1. TypeOK'
  BY DEF TypeOK
<1>2. \A d \in Clients : d # c => seen'[d] = seen[d] /\ answer'[d] = answer[d]
  BY DEF TypeOK
<1>3. OpenCommits'
  <2> SUFFICES ASSUME NEW d \in Clients, Committing(d)' PROVE WorkInHand(tx[d])' /\ SawItsBatch(d)'
    BY DEF OpenCommits
  <2>1. d # c /\ Committing(d)
    BY DEF Committing, Idle
  <2>2. WorkInHand(tx[d]) /\ SawItsBatch(d)
    BY <2>1 DEF OpenCommits
  <2> QED BY <1>2, <2>1, <2>2, CommitKept
<1>4. OneCommitPerBatch' /\ ReadyFits' /\ OnePersonPerName'
  BY DEF OneCommitPerBatch, Committing, ReadyFits, OnePersonPerName
<1>5. ViewsAreDated'
  <2> SUFFICES ASSUME NEW d \in Clients, seen'[d] # Nil PROVE RevisionTells(seen[d])'
    BY DEF ViewsAreDated
  <2>1. CASE d = c
    BY <2>1
  <2>2. CASE d # c
    BY <1>2, <2>2, ViewKept DEF ViewsAreDated
  <2> QED BY <2>1, <2>2
<1>6. ImportsAreWhole' /\ ImportedRowsWereResolved'
  BY BatchKept DEF ImportsAreWhole, ImportedRowsWereResolved
<1>7. AnswersStand'
  BY <1>2 DEF AnswersStand
<1> QED BY <1>1, <1>3, <1>4, <1>5, <1>6, <1>7

LEMMA PreviewStep ==
  ASSUME ImportIInv, NEW b \in Batches, CreatePreview(b)
  PROVE  ImportIInv'
<1> USE DEF ImportIInv, CreatePreview
<1>1. TypeOK'
  <2>1. batches' \in [Batches -> [state : {"absent", "ready", "committed", "expired"},
                                  revision : 0..(MaxRevision + 1), result : Result \cup {Nil}]]
    BY RevisionAssumption DEF TypeOK
  <2>2. \A r \in Rows : Issues(Drafts[b][r], people, projects) \in SUBSET {"error", "duplicate"}
    BY IssuesType
  <2>3. NoChoice \in Choices
    BY DEF NoChoice, Choices, Resolutions
  <2>4. rows' \in [Batches -> [Rows -> StoredRow]]
    BY <2>2, <2>3 DEF TypeOK, StoredRow
  <2> QED BY <2>1, <2>4 DEF TypeOK
<1>2. \A x \in Batches : x # b => batches'[x] = batches[x] /\ rows'[x] = rows[x]
  BY DEF TypeOK
<1>3. batches'[b] = [state |-> "ready", revision |-> 2, result |-> Nil]
      /\ \A r \in Rows : ~rows'[b][r].project
  BY DEF TypeOK
<1>4. OpenCommits'
  <2> SUFFICES ASSUME NEW d \in Clients, Committing(d) PROVE WorkInHand(tx[d])' /\ SawItsBatch(d)'
    BY DEF OpenCommits, Committing
  <2>1. WorkInHand(tx[d]) /\ SawItsBatch(d)
    BY DEF OpenCommits
  <2>2. tx[d].batch \in Batches \ {b}
    BY <2>1 DEF SawItsBatch, TypeOK, Committing, Transaction
  <2> QED BY <1>2, <2>1, <2>2, CommitKept
<1>5. OneCommitPerBatch' /\ OnePersonPerName'
  BY DEF OneCommitPerBatch, Committing, OnePersonPerName
<1>6. ReadyFits'
  BY <1>2, <1>3, RevisionAssumption DEF ReadyFits
<1>7. ViewsAreDated'
  <2> SUFFICES ASSUME NEW d \in Clients, seen[d] # Nil PROVE RevisionTells(seen[d])'
    BY DEF ViewsAreDated
  <2>1. RevisionTells(seen[d]) /\ seen[d].batch \in Batches \ {b}
    BY DEF ViewsAreDated, RevisionTells, TypeOK, View
  <2> QED BY <1>2, <2>1, ViewKept
<1>8. \A x \in Batches : ImportedWhole(x)' /\ ImportedAsResolved(x)'
  <2> SUFFICES ASSUME NEW x \in Batches PROVE ImportedWhole(x)' /\ ImportedAsResolved(x)'
    OBVIOUS
  <2>1. ImportedWhole(x) /\ ImportedAsResolved(x)
    BY DEF ImportsAreWhole, ImportedRowsWereResolved
  <2>2. CASE x # b
    BY <1>2, <2>1, <2>2, BatchKept
  <2>3. CASE x = b
    BY <1>3, <2>1, <2>3 DEF ImportedWhole, ImportedAsResolved
  <2> QED BY <2>2, <2>3
<1>9. AnswersStand'
  <2> SUFFICES ASSUME NEW d \in Clients, answer[d] # Nil
               PROVE  /\ batches'[answer[d].batch].state = "committed"
                      /\ answer[d].result = batches'[answer[d].batch].result
    BY DEF AnswersStand
  <2>1. answer[d].batch \in Batches \ {b}
    BY DEF AnswersStand, TypeOK, Answer
  <2> QED BY <1>2, <2>1 DEF AnswersStand
<1> QED BY <1>1, <1>4, <1>5, <1>6, <1>7, <1>8, <1>9 DEF ImportsAreWhole, ImportedRowsWereResolved

\* What a client knows of a batch is dated.
LEMMA KnownTells ==
  ASSUME ImportIInv, NEW c \in Clients, NEW b \in Batches, batches[b].state # "absent"
  PROVE  /\ Known(c, b) \in View /\ Known(c, b).batch = b
         /\ RevisionTells(Known(c, b))
         /\ batches[b].revision \in Nat
<1>1. batches[b].revision \in Nat
  BY RevisionAssumption DEF ImportIInv, TypeOK
<1>2. CASE seen[c] # Nil /\ seen[c].batch = b
  BY <1>1, <1>2 DEF Known, ImportIInv, TypeOK, ViewsAreDated
<1>3. CASE ~(seen[c] # Nil /\ seen[c].batch = b)
  <2>1. Known(c, b) = [batch |-> b, revision |-> 0, rows |-> Nil, read |-> 0]
    BY <1>3 DEF Known
  <2> QED BY <1>1, <2>1 DEF RevisionTells, View
<1> QED BY <1>1, <1>2, <1>3

\* A read of the batch, or of its rows, that keeps what else the client knew.
LEMMA LookStep ==
  ASSUME ImportIInv, NEW c \in Clients, Idle(c), NEW v \in View,
         seen' = [seen EXCEPT ![c] = v], RevisionTells(v),
         UNCHANGED <<batches, rows, due, projects, people, retired, tx, answer>>
  PROVE  ImportIInv'
<1>1. seen'[c] = v
  BY DEF ImportIInv, TypeOK
<1>2. RevisionTells(seen[c])'
  BY <1>1 DEF RevisionTells, SelectionOf
<1>3. answer' = [answer EXCEPT ![c] = answer'[c]] /\ answer'[c] \in Answer \cup {Nil}
      /\ (answer'[c] # Nil =>
            /\ batches[answer'[c].batch].state = "committed"
            /\ answer'[c].result = batches[answer'[c].batch].result)
  BY DEF ImportIInv, TypeOK, AnswersStand
<1>4. seen' = [seen EXCEPT ![c] = seen'[c]]
      /\ UNCHANGED <<batches, rows, due, projects, people, retired, tx>>
  BY <1>1
<1>5. seen'[c] \in View \cup {Nil} /\ (seen'[c] # Nil => RevisionTells(seen[c])')
  BY <1>1, <1>2
<1> QED BY <1>3, <1>4, <1>5, ReadStep

LEMMA GetStep ==
  ASSUME ImportIInv, NEW c \in Clients, NEW b \in Batches, GetBatch(c, b)
  PROVE  ImportIInv'
<1>1. /\ Known(c, b) \in View /\ Known(c, b).batch = b
      /\ RevisionTells(Known(c, b)) /\ batches[b].revision \in Nat
  BY KnownTells DEF GetBatch
<1>2. PICK k \in View : k = Known(c, b)
  BY <1>1
<1> DEFINE v == [k EXCEPT !.revision = batches[b].revision]
<1>3. /\ v \in View /\ v.batch = b /\ v.revision = batches[b].revision
      /\ v.rows = k.rows /\ v.read = k.read
  BY <1>1, <1>2 DEF View
<1>4. seen' = [seen EXCEPT ![c] = v]
  BY <1>2 DEF GetBatch
<1> HIDE DEF v
<1>5. RevisionTells(v)
  BY <1>1, <1>2, <1>3 DEF RevisionTells, SelectionOf
<1> QED BY <1>3, <1>4, <1>5, LookStep DEF GetBatch

LEMMA ListStep ==
  ASSUME ImportIInv, NEW c \in Clients, NEW b \in Batches, ListRows(c, b)
  PROVE  ImportIInv'
<1>1. /\ Known(c, b) \in View /\ Known(c, b).batch = b
      /\ RevisionTells(Known(c, b)) /\ batches[b].revision \in Nat
  BY KnownTells DEF ListRows
<1>2. PICK k \in View : k = Known(c, b)
  BY <1>1
<1>3. SelectionOf(b) \in [Rows -> Choices]
  BY DEF SelectionOf, ImportIInv, TypeOK, StoredRow
<1> DEFINE v == [k EXCEPT !.rows = SelectionOf(b), !.read = batches[b].revision]
<1>4. /\ v \in View /\ v.batch = b /\ v.revision = k.revision
      /\ v.rows = SelectionOf(b) /\ v.read = batches[b].revision
  BY <1>1, <1>2, <1>3 DEF View
<1>5. seen' = [seen EXCEPT ![c] = v]
  BY <1>2 DEF ListRows, SelectionOf
<1> HIDE DEF v
<1>6. RevisionTells(v)
  BY <1>1, <1>2, <1>4 DEF RevisionTells
<1> QED BY <1>4, <1>5, <1>6, LookStep DEF ListRows

LEMMA RepeatStep ==
  ASSUME ImportIInv, NEW c \in Clients, RepeatCommit(c)
  PROVE  ImportIInv'
<1> DEFINE b == seen[c].batch
           x == [batch |-> b, result |-> batches[b].result]
<1>1. b \in Batches /\ batches[b].state = "committed" /\ batches[b].result \in Result
  BY DEF RepeatCommit, ImportIInv, TypeOK, View, ImportsAreWhole, ImportedWhole
<1>2. answer'[c] = x /\ x \in Answer
  BY <1>1 DEF RepeatCommit, ImportIInv, TypeOK, Answer
<1>3. answer' = [answer EXCEPT ![c] = answer'[c]] /\ answer'[c] \in Answer \cup {Nil}
      /\ (answer'[c] # Nil =>
            /\ batches[answer'[c].batch].state = "committed"
            /\ answer'[c].result = batches[answer'[c].batch].result)
  BY <1>1, <1>2 DEF RepeatCommit, ImportIInv, TypeOK
<1>4. seen' = [seen EXCEPT ![c] = seen'[c]] /\ Idle(c)
      /\ UNCHANGED <<batches, rows, due, projects, people, retired, tx>>
  BY DEF RepeatCommit, ImportIInv, TypeOK
<1>5. seen'[c] \in View \cup {Nil} /\ (seen'[c] # Nil => RevisionTells(seen[c])')
  BY ViewKept DEF RepeatCommit, ImportIInv, TypeOK, ViewsAreDated
<1> HIDE DEF x, b
<1> QED BY <1>3, <1>4, <1>5, ReadStep

LEMMA BeginStep ==
  ASSUME ImportIInv, NEW c \in Clients, BeginCommit(c)
  PROVE  ImportIInv'
<1> DEFINE b == seen[c].batch
           t == [batch |-> b, left |-> Selected(b), created |-> {}, skipped |-> {}, people |-> {}]
<1>1. b \in Batches /\ Selected(b) \subseteq Rows /\ tx \in [Clients -> Transaction \cup {Nil}]
  BY DEF BeginCommit, ImportIInv, TypeOK, View, Selected
<1>2. tx'[c] = t /\ t \in Transaction
  BY <1>1 DEF BeginCommit, Transaction
<1>3. t # Nil
  BY <1>2, NilAssumption
<1>4. UNCHANGED <<batches, rows, due, projects, people, retired, seen, answer>>
      /\ tx' = [tx EXCEPT ![c] = tx'[c]] /\ tx'[c] \in Transaction \cup {Nil}
  BY <1>1, <1>2 DEF BeginCommit
<1>5. WorkInHand(tx[c])'
  <2>1. t.batch = b /\ t.left = Selected(b) /\ t.created = {} /\ t.skipped = {} /\ t.people = {}
    OBVIOUS
  <2> HIDE DEF t
  <2>2. WorkInHand(t)
    BY <2>1 DEF WorkInHand
  <2> QED BY <1>2, <1>4, <2>2 DEF WorkInHand, Selected, Resolved, HasErrors, HasWarnings, HasCandidates
<1>6. SawItsBatch(c)'
  BY <1>2, <1>4 DEF SawItsBatch, BeginCommit
<1>7. \A d \in Clients : ~(Committing(d) /\ tx[d].batch = tx'[c].batch)
  BY <1>2 DEF BeginCommit, Locked, Committing
<1> HIDE DEF t, b
<1> QED BY <1>4, <1>5, <1>6, <1>7, WorkStep

LEMMA SkipStep ==
  ASSUME ImportIInv, NEW c \in Clients, SkipRow(c)
  PROVE  ImportIInv'
<1> DEFINE r == NextRow(c)
           t == Advanced(c, {}, {r}, {})
<1>1. tx[c] \in Transaction /\ Committing(c) /\ tx \in [Clients -> Transaction \cup {Nil}]
      /\ WorkInHand(tx[c]) /\ SawItsBatch(c)
  BY DEF SkipRow, ImportIInv, TypeOK, Committing, OpenCommits
<1>2. r \in tx[c].left
  BY <1>1, NextIsLeft DEF SkipRow, ImportIInv
<1>4. tx'[c] = t /\ t \in Transaction
  <2>1. tx'[c] = t
    BY <1>1 DEF SkipRow
  <2>2. t \in Transaction
    BY <1>1, <1>2 DEF Transaction, Advanced
  <2> QED BY <2>1, <2>2
<1>5. UNCHANGED <<batches, rows, due, projects, people, retired, seen, answer>>
      /\ tx' = [tx EXCEPT ![c] = tx'[c]] /\ tx'[c] \in Transaction \cup {Nil}
  BY <1>1, <1>4 DEF SkipRow
<1>6. t.batch = tx[c].batch /\ t.left = tx[c].left \ {r} /\ t.created = tx[c].created
      /\ t.skipped = tx[c].skipped \cup {r} /\ t.people = tx[c].people
  BY DEF Advanced
<1> HIDE DEF t, r
<1>7. WorkInHand(t)
  BY <1>1, <1>2, <1>6 DEF WorkInHand
<1>8. WorkInHand(tx[c])'
  BY <1>4, <1>5, <1>7 DEF WorkInHand, Selected, Resolved, HasErrors, HasWarnings, HasCandidates
<1>9. SawItsBatch(c)'
  BY <1>1, <1>4, <1>5, <1>6 DEF SawItsBatch
<1>10. \A d \in Clients : Committing(d) /\ tx[d].batch = tx'[c].batch => d = c
  BY <1>1, <1>4, <1>6 DEF ImportIInv, OneCommitPerBatch
<1> QED BY <1>5, <1>8, <1>9, <1>10, WorkStep

LEMMA ImportStep ==
  ASSUME ImportIInv, NEW c \in Clients, ImportRow(c)
  PROVE  ImportIInv'
<1> DEFINE r == NextRow(c)
           new == NewPeople(c, Drafts[tx[c].batch][r].author)
           t == Advanced(c, {r}, {}, new)
<1>1. tx[c] \in Transaction /\ Committing(c) /\ tx \in [Clients -> Transaction \cup {Nil}]
      /\ WorkInHand(tx[c]) /\ SawItsBatch(c)
  BY DEF ImportRow, ImportIInv, TypeOK, Committing, OpenCommits
<1>2. r \in tx[c].left /\ r \in Rows /\ tx[c].batch \in Batches
  BY <1>1, NextIsLeft DEF ImportRow, ImportIInv, Transaction
<1>3. Resolved(rows[tx[c].batch][r]) /\ rows[tx[c].batch][r].choice.resolution # "skip"
  BY DEF ImportRow
<1>5. \A p \in new :
        /\ p.from[1] = tx[c].batch /\ p \in NewPerson
        /\ \A q \in tx[c].people : q.name # p.name
        /\ new = {p}
  <2>1. Drafts[tx[c].batch][r].author \in Names
    BY <1>2, DraftsAssumption
  <2> QED BY <1>2, <2>1 DEF NewPeople, NewPerson
<1>6. tx'[c] = t
  BY <1>1 DEF ImportRow
<1>7. t.batch = tx[c].batch /\ t.left = tx[c].left \ {r} /\ t.created = tx[c].created \cup {r}
      /\ t.skipped = tx[c].skipped /\ t.people = tx[c].people \cup new
  BY DEF Advanced
<1> HIDE DEF new
<1>8. t \in Transaction
  BY <1>1, <1>2, <1>5, <1>7 DEF Transaction, Advanced
<1>9. UNCHANGED <<batches, rows, due, projects, people, retired, seen, answer>>
      /\ tx' = [tx EXCEPT ![c] = tx'[c]] /\ tx'[c] \in Transaction \cup {Nil}
  BY <1>1, <1>6, <1>8 DEF ImportRow
<1> HIDE DEF t, r
<1>10. WorkInHand(t)
  <2>1. t.left \cup t.created \cup t.skipped = Selected(t.batch)
        /\ t.left \cap t.created = {} /\ t.left \cap t.skipped = {} /\ t.created \cap t.skipped = {}
    BY <1>1, <1>2, <1>7 DEF WorkInHand
  <2>2. \A x \in t.created :
          Resolved(rows[t.batch][x]) /\ rows[t.batch][x].choice.resolution # "skip"
    BY <1>1, <1>3, <1>7 DEF WorkInHand
  <2>3. \A p \in t.people : p.from[1] = t.batch
    BY <1>1, <1>5, <1>7 DEF WorkInHand
  <2>4. \A p, q \in t.people : p.name = q.name => p = q
    BY <1>1, <1>5, <1>7 DEF WorkInHand
  <2> QED BY <2>1, <2>2, <2>3, <2>4 DEF WorkInHand
<1>11. WorkInHand(tx[c])'
  BY <1>6, <1>9, <1>10 DEF WorkInHand, Selected, Resolved, HasErrors, HasWarnings, HasCandidates
<1>12. SawItsBatch(c)'
  BY <1>1, <1>6, <1>7, <1>9 DEF SawItsBatch
<1>13. \A d \in Clients : Committing(d) /\ tx[d].batch = tx'[c].batch => d = c
  BY <1>1, <1>6, <1>7 DEF ImportIInv, OneCommitPerBatch
<1> QED BY <1>9, <1>11, <1>12, <1>13, WorkStep

LEMMA AbortStep ==
  ASSUME ImportIInv, NEW c \in Clients, AbortCommit(c)
  PROVE  ImportIInv'
<1>1. tx'[c] = Nil /\ tx' = [tx EXCEPT ![c] = tx'[c]] /\ ~Committing(c)'
      /\ UNCHANGED <<batches, rows, due, projects, people, retired, seen, answer>>
  BY DEF AbortCommit, ImportIInv, TypeOK, Committing
<1> QED BY <1>1, WorkStep

\* A selection moves the batch to a revision of its own, which only its client
\* holds.
LEMMA UpdateStep ==
  ASSUME ImportIInv, NEW c \in Clients, NEW chosen \in SUBSET Rows, NEW choice \in Choices,
         UpdateRows(c, chosen, choice)
  PROVE  ImportIInv'
<1> DEFINE b == seen[c].batch
           selection == [r \in Rows |-> IF r \in chosen THEN choice ELSE seen[c].rows[r]]
           read == IF seen[c].read = seen[c].revision THEN seen[c].revision + 1 ELSE seen[c].read
           v == [batch |-> b, revision |-> seen[c].revision + 1, rows |-> selection, read |-> read]
<1>1. /\ TypeOK /\ b \in Batches /\ seen[c] \in View /\ seen[c].rows \in [Rows -> Choices]
      /\ seen[c].read \in Nat /\ seen[c].read <= batches[b].revision
      /\ seen[c].read = seen[c].revision => seen[c].rows = SelectionOf(b)
      /\ batches[b].revision \in Nat /\ batches[b].revision = seen[c].revision
      /\ batches[b].revision < MaxRevision /\ batches[b].state = "ready"
      /\ UNCHANGED <<due, projects, people, retired, tx, answer>>
      /\ ~Locked(b)
  BY RevisionAssumption
  DEF UpdateRows, ImportIInv, TypeOK, View, ViewsAreDated, RevisionTells
<1>2. /\ batches'[b] = [batches[b] EXCEPT !.revision = batches[b].revision + 1]
      /\ \A x \in Batches : x # b => batches'[x] = batches[x] /\ rows'[x] = rows[x]
      /\ \A r \in Rows : rows'[b][r] =
           IF r \in chosen THEN [rows[b][r] EXCEPT !.choice = choice] ELSE rows[b][r]
  BY <1>1 DEF UpdateRows, TypeOK
<1>3. /\ batches'[b].revision = batches[b].revision + 1 /\ batches'[b].state = "ready"
      /\ batches'[b].result = batches[b].result
  BY <1>1, <1>2 DEF TypeOK
<1>4. \A r \in Rows : /\ rows'[b][r].issues = rows[b][r].issues
                      /\ rows'[b][r].project = rows[b][r].project
                      /\ rows'[b][r].choice = IF r \in chosen THEN choice ELSE rows[b][r].choice
  <2> SUFFICES ASSUME NEW r \in Rows
               PROVE  /\ rows'[b][r].issues = rows[b][r].issues
                      /\ rows'[b][r].project = rows[b][r].project
                      /\ rows'[b][r].choice = IF r \in chosen THEN choice ELSE rows[b][r].choice
    OBVIOUS
  <2>1. rows[b][r] \in StoredRow
    BY <1>1 DEF TypeOK
  <2> QED BY <1>2, <2>1 DEF StoredRow
<1>5. /\ selection \in [Rows -> Choices]
      /\ seen[c].read = seen[c].revision => [r \in Rows |-> rows'[b][r].choice] = selection
  <2>1. ASSUME seen[c].read = seen[c].revision
        PROVE  [r \in Rows |-> rows'[b][r].choice] = selection
    <3>1. \A r \in Rows : seen[c].rows[r] = rows[b][r].choice
      BY <1>1, <2>1 DEF SelectionOf
    <3> QED BY <1>4, <3>1
  <2>2. selection \in [Rows -> Choices]
    BY <1>1
  <2> QED BY <2>1, <2>2
<1>6. /\ seen'[c] = v /\ \A d \in Clients : d # c => seen'[d] = seen[d]
      /\ v \in View /\ v.batch = b /\ v.revision = batches'[b].revision /\ v.rows = selection
      /\ v.read \in Nat /\ v.read <= batches'[b].revision
      /\ v.read = batches'[b].revision => seen[c].read = seen[c].revision
  <2>1. seen'[c] = v /\ \A d \in Clients : d # c => seen'[d] = seen[d]
    BY <1>1 DEF UpdateRows, TypeOK
  <2>2. /\ read \in Nat /\ read <= batches[b].revision + 1
        /\ read = batches[b].revision + 1 => seen[c].read = seen[c].revision
    BY <1>1
  <2>3. v \in View
    BY <1>1, <1>5, <2>2 DEF View
  <2> QED BY <1>1, <1>3, <2>1, <2>2, <2>3
<1>7. TypeOK'
  <2>1. batches' \in [Batches -> [state : {"absent", "ready", "committed", "expired"},
                                  revision : 0..(MaxRevision + 1), result : Result \cup {Nil}]]
    <3> DEFINE kind == [state : {"absent", "ready", "committed", "expired"},
                        revision : 0..(MaxRevision + 1), result : Result \cup {Nil}]
    <3>1. batches \in [Batches -> kind] /\ batches[b] \in kind
      BY <1>1 DEF TypeOK
    <3>2. [batches[b] EXCEPT !.revision = batches[b].revision + 1] \in kind
      BY <1>1, <3>1, RevisionAssumption
    <3>3. batches' = [batches EXCEPT ![b] = [batches[b] EXCEPT !.revision = batches[b].revision + 1]]
      BY <3>1 DEF UpdateRows
    <3> HIDE DEF kind
    <3> QED BY <3>1, <3>2, <3>3 DEF kind
  <2>2. rows' \in [Batches -> [Rows -> StoredRow]]
    <3>1. \A r \in Rows : [rows[b][r] EXCEPT !.choice = choice] \in StoredRow
      <4> SUFFICES ASSUME NEW r \in Rows PROVE [rows[b][r] EXCEPT !.choice = choice] \in StoredRow
        OBVIOUS
      <4>1. rows[b][r] \in StoredRow
        BY <1>1 DEF TypeOK
      <4> QED BY <4>1 DEF StoredRow
    <3> QED BY <1>1, <3>1 DEF UpdateRows, TypeOK
  <2>3. seen' \in [Clients -> View \cup {Nil}]
    BY <1>1, <1>6 DEF UpdateRows, TypeOK
  <2> QED BY <1>1, <2>1, <2>2, <2>3 DEF TypeOK
<1> HIDE DEF v, selection
<1>8. OpenCommits'
  <2> SUFFICES ASSUME NEW d \in Clients, Committing(d) PROVE WorkInHand(tx[d])' /\ SawItsBatch(d)'
    BY <1>1 DEF OpenCommits, Committing
  <2>1. WorkInHand(tx[d]) /\ SawItsBatch(d) /\ d # c
    BY DEF ImportIInv, OpenCommits, UpdateRows, Idle, Committing
  <2>2. tx[d].batch \in Batches \ {b}
    BY <1>1, <2>1 DEF Locked, TypeOK, Committing, Transaction
  <2> HIDE DEF b
  <2> QED BY <1>1, <1>2, <1>6, <2>1, <2>2, CommitKept
<1>9. OneCommitPerBatch' /\ OnePersonPerName'
  BY <1>1 DEF ImportIInv, OneCommitPerBatch, Committing, OnePersonPerName
<1>10. ReadyFits'
  <2> SUFFICES ASSUME NEW x \in Batches, batches'[x].state = "ready"
               PROVE  batches'[x].revision <= MaxRevision
    BY DEF ReadyFits
  <2>1. CASE x = b
    BY <1>1, <1>3, <2>1, RevisionAssumption
  <2>2. CASE x # b
    BY <1>2, <2>2 DEF ImportIInv, ReadyFits
  <2> QED BY <2>1, <2>2
<1>11. ViewsAreDated'
  <2> SUFFICES ASSUME NEW d \in Clients, seen'[d] # Nil PROVE RevisionTells(seen[d])'
    BY DEF ViewsAreDated
  <2>1. CASE d = c
    <3>1. /\ seen'[d] = v /\ v.batch = b /\ v.revision = batches'[b].revision /\ v.rows = selection
          /\ v.read <= batches'[b].revision
          /\ v.read = batches'[b].revision => seen[c].read = seen[c].revision
      BY <1>6, <2>1
    <3>2. v.revision \in Nat
      BY <1>6 DEF View
    <3> QED BY <1>3, <1>5, <3>1, <3>2 DEF RevisionTells, SelectionOf
  <2>2. CASE d # c /\ seen[d].batch = b
    <3>1. seen'[d] = seen[d] /\ RevisionTells(seen[d]) /\ seen[d] \in View
      BY <1>6, <2>2 DEF ImportIInv, ViewsAreDated, TypeOK
    <3>2. seen[d].revision < batches'[b].revision /\ seen[d].read < batches'[b].revision
      BY <1>1, <1>3, <2>2, <3>1 DEF RevisionTells, View
    <3> QED BY <1>1, <1>3, <2>2, <3>1, <3>2 DEF RevisionTells, View
  <2>3. CASE d # c /\ seen[d].batch # b
    <3>1. seen'[d] = seen[d] /\ RevisionTells(seen[d]) /\ seen[d].batch \in Batches
      BY <1>6, <2>3 DEF ImportIInv, ViewsAreDated, TypeOK, View
    <3> QED BY <1>2, <2>3, <3>1, ViewKept
  <2> QED BY <2>1, <2>2, <2>3
<1>12. \A x \in Batches : ImportedWhole(x)' /\ ImportedAsResolved(x)'
  <2> SUFFICES ASSUME NEW x \in Batches PROVE ImportedWhole(x)' /\ ImportedAsResolved(x)'
    OBVIOUS
  <2>1. ImportedWhole(x) /\ ImportedAsResolved(x)
    BY DEF ImportIInv, ImportsAreWhole, ImportedRowsWereResolved
  <2>2. CASE x # b
    BY <1>1, <1>2, <2>1, <2>2, BatchKept
  <2>3. CASE x = b
    BY <1>1, <1>3, <1>4, <2>1, <2>3 DEF ImportedWhole, ImportedAsResolved
  <2> QED BY <2>2, <2>3
<1>13. AnswersStand'
  <2> SUFFICES ASSUME NEW d \in Clients, answer[d] # Nil
               PROVE  /\ batches'[answer[d].batch].state = "committed"
                      /\ answer[d].result = batches'[answer[d].batch].result
    BY <1>1 DEF AnswersStand
  <2>1. answer[d].batch \in Batches \ {b}
    BY <1>1 DEF ImportIInv, AnswersStand, TypeOK, Answer
  <2> QED BY <1>2, <2>1 DEF ImportIInv, AnswersStand
<1> QED BY <1>7, <1>8, <1>9, <1>10, <1>11, <1>12, <1>13
        DEF ImportIInv, ImportsAreWhole, ImportedRowsWereResolved

\* The commit writes its projects, its people, the rows' marks and the result in
\* one step.
LEMMA FinishStep ==
  ASSUME ImportIInv, NEW c \in Clients, FinishCommit(c)
  PROVE  ImportIInv'
<1> DEFINE b == tx[c].batch
           made == tx[c].created
           result == [created |-> made, skipped |-> tx[c].skipped]
<1>1. /\ TypeOK /\ Committing(c) /\ tx[c] \in Transaction /\ b \in Batches
      /\ made \subseteq Rows /\ tx[c].skipped \subseteq Rows
      /\ WorkInHand(tx[c]) /\ SawItsBatch(c)
      /\ batches[b].state = "ready" /\ batches[b].revision \in 0..MaxRevision
      /\ ImportedWhole(b) /\ ImportedAsResolved(b)
  BY RevisionAssumption
  DEF FinishCommit, ImportIInv, TypeOK, Committing, OpenCommits, SawItsBatch, Transaction, ReadyFits,
      ImportsAreWhole, ImportedRowsWereResolved
<1>2. result \in Result /\ result # Nil
  BY <1>1, NilAssumption DEF Result
<1>3. /\ batches'[b] = [state |-> "committed", revision |-> batches[b].revision + 1, result |-> result]
      /\ \A x \in Batches : x # b => batches'[x] = batches[x] /\ rows'[x] = rows[x]
      /\ \A r \in Rows : rows'[b][r] = [rows[b][r] EXCEPT !.project = rows[b][r].project \/ r \in made]
      /\ projects' = projects \cup MadeBy(c) /\ people' = people \cup tx[c].people
      /\ UNCHANGED <<due, retired, seen>>
  BY <1>1 DEF FinishCommit, TypeOK
<1>4. \A r \in Rows :
        /\ rows[b][r] \in StoredRow /\ rows'[b][r] \in StoredRow
        /\ rows'[b][r].issues = rows[b][r].issues
        /\ rows'[b][r].choice = rows[b][r].choice
        /\ rows'[b][r].project <=> r \in made
  <2> SUFFICES ASSUME NEW r \in Rows
               PROVE  /\ rows[b][r] \in StoredRow /\ rows'[b][r] \in StoredRow
                      /\ rows'[b][r].issues = rows[b][r].issues
                      /\ rows'[b][r].choice = rows[b][r].choice
                      /\ rows'[b][r].project <=> r \in made
    OBVIOUS
  <2>1. rows[b][r] \in StoredRow
    BY <1>1 DEF TypeOK
  <2>2. ~rows[b][r].project
    BY <1>1 DEF ImportedWhole
  <2>3. rows'[b][r] = [rows[b][r] EXCEPT !.project = r \in made]
    BY <1>3, <2>1, <2>2 DEF StoredRow
  <2>4. (r \in made) \in BOOLEAN
    OBVIOUS
  <2>5. rows'[b][r] \in StoredRow
    BY <2>1, <2>3, <2>4 DEF StoredRow
  <2>6. rows'[b][r].issues = rows[b][r].issues /\ rows'[b][r].choice = rows[b][r].choice
    BY <2>1, <2>3 DEF StoredRow
  <2>7. rows'[b][r].project <=> r \in made
    BY <2>1, <2>3 DEF StoredRow
  <2> QED BY <2>1, <2>5, <2>6, <2>7
<1>5. /\ tx'[c] = Nil /\ \A d \in Clients : d # c => tx'[d] = tx[d]
      /\ \A d \in Clients : \/ answer'[d] = answer[d]
                            \/ d = c /\ answer'[d] = [batch |-> b, result |-> result]
  <2>1. answer \in [Clients -> Answer \cup {Nil}] /\ tx \in [Clients -> Transaction \cup {Nil}]
    BY <1>1 DEF TypeOK
  <2>2. tx' = [tx EXCEPT ![c] = Nil]
    BY DEF FinishCommit
  <2>3. answer' = [answer EXCEPT ![c] = [batch |-> b, result |-> result]] \/ answer' = answer
    BY DEF FinishCommit
  <2> HIDE DEF b, result
  <2>4. tx'[c] = Nil /\ \A d \in Clients : d # c => tx'[d] = tx[d]
    BY <2>1, <2>2
  <2>5. CASE answer' = answer
    BY <2>4, <2>5
  <2>6. CASE answer' = [answer EXCEPT ![c] = [batch |-> b, result |-> result]]
    BY <2>1, <2>4, <2>6
  <2> QED BY <2>3, <2>5, <2>6
<1>6. \A p \in MadeBy(c) : p.from[1] = b /\ p.from \in Batches \X Rows
  BY <1>1 DEF MadeBy
<1>7. \A r \in Rows : (\E p \in MadeBy(c) : p.from = <<b, r>>) <=> r \in made
  <2>1. ASSUME NEW r \in made PROVE \E p \in MadeBy(c) : p.from = <<b, r>>
    <3>1. [title |-> Drafts[b][r].title, from |-> <<b, r>>] \in MadeBy(c)
      BY DEF MadeBy
    <3> QED BY <3>1
  <2>2. ASSUME NEW r \in Rows, NEW p \in MadeBy(c), p.from = <<b, r>> PROVE r \in made
    <3>1. PICK q \in made : p = [title |-> Drafts[b][q].title, from |-> <<b, q>>]
      BY DEF MadeBy
    <3>2. <<b, q>> = <<b, r>>
      BY <2>2, <3>1
    <3> QED BY <3>2
  <2> QED BY <2>1, <2>2
<1>8. \A p \in tx[c].people : p.from[1] = b /\ p \in NewPerson
  BY <1>1 DEF WorkInHand, Transaction
<1>9. TypeOK'
  <2>1. batches' \in [Batches -> [state : {"absent", "ready", "committed", "expired"},
                                  revision : 0..(MaxRevision + 1), result : Result \cup {Nil}]]
    BY <1>1, <1>2, RevisionAssumption DEF FinishCommit, TypeOK
  <2>2. rows' \in [Batches -> [Rows -> StoredRow]]
    <3>1. \A r \in Rows : [rows[b][r] EXCEPT !.project = rows[b][r].project \/ r \in made] \in StoredRow
      BY <1>3, <1>4
    <3> QED BY <1>1, <3>1 DEF FinishCommit, TypeOK
  <2>3. projects' \subseteq [title : Titles, from : (Batches \X Rows) \cup {Nil}]
    <3>1. \A r \in Rows : Drafts[b][r].title \in Titles
      BY <1>1, DraftsAssumption
    <3>2. MadeBy(c) \subseteq [title : Titles, from : Batches \X Rows]
      BY <1>1, <3>1 DEF MadeBy
    <3> QED BY <1>1, <1>3, <3>2 DEF TypeOK
  <2>4. people' \subseteq [name : Names, from : (Batches \X Rows) \cup {Nil}]
    BY <1>1, <1>3, <1>8 DEF TypeOK, NewPerson
  <2>5. tx' \in [Clients -> Transaction \cup {Nil}]
    BY <1>1 DEF FinishCommit, TypeOK
  <2>6. answer' \in [Clients -> Answer \cup {Nil}]
    <3>1. [batch |-> b, result |-> result] \in Answer
      BY <1>1, <1>2 DEF Answer
    <3> QED BY <1>1, <3>1 DEF FinishCommit, TypeOK
  <2> QED BY <1>1, <1>3, <2>1, <2>2, <2>3, <2>4, <2>5, <2>6 DEF TypeOK
<1>10. OpenCommits' /\ OneCommitPerBatch'
  <2>1. ASSUME NEW d \in Clients, Committing(d)'
        PROVE  d # c /\ tx'[d] = tx[d] /\ Committing(d) /\ tx[d].batch # b /\ tx[d].batch \in Batches
    BY <1>1, <1>5, <2>1 DEF Committing, ImportIInv, OneCommitPerBatch, TypeOK, Transaction
  <2>2. ASSUME NEW d \in Clients, Committing(d)' PROVE WorkInHand(tx[d])' /\ SawItsBatch(d)'
    <3>1. WorkInHand(tx[d]) /\ SawItsBatch(d)
      BY <2>1, <2>2 DEF ImportIInv, OpenCommits
    <3>2. seen'[d] = seen[d] /\ batches'[tx[d].batch] = batches[tx[d].batch]
          /\ rows'[tx[d].batch] = rows[tx[d].batch]
      BY <1>3, <2>1, <2>2
    <3> QED BY <2>1, <2>2, <3>1, <3>2, CommitKept
  <2>3. OpenCommits'
    BY <2>2 DEF OpenCommits
  <2>4. OneCommitPerBatch'
    BY <2>1 DEF OneCommitPerBatch, ImportIInv
  <2> QED BY <2>3, <2>4
<1>11. ViewsAreDated'
  <2> SUFFICES ASSUME NEW d \in Clients, seen[d] # Nil PROVE RevisionTells(seen[d])'
    BY <1>3 DEF ViewsAreDated
  <2>1. RevisionTells(seen[d]) /\ seen[d] \in View /\ seen'[d] = seen[d]
    BY <1>1, <1>3 DEF ImportIInv, ViewsAreDated, TypeOK
  <2>2. CASE seen[d].batch = b
    BY <1>1, <1>3, <2>1, <2>2 DEF RevisionTells, View
  <2>3. CASE seen[d].batch # b
    BY <1>3, <2>1, <2>3, ViewKept DEF View
  <2> QED BY <2>2, <2>3
<1>12. ReadyFits'
  BY <1>3 DEF ImportIInv, ReadyFits
<1>13. \A x \in Batches : ImportedWhole(x)' /\ ImportedAsResolved(x)'
  <2> SUFFICES ASSUME NEW x \in Batches PROVE ImportedWhole(x)' /\ ImportedAsResolved(x)'
    OBVIOUS
  <2>1. ImportedWhole(x) /\ ImportedAsResolved(x)
    BY DEF ImportIInv, ImportsAreWhole, ImportedRowsWereResolved
  <2>2. CASE x # b
    <3>1. \A r \in Rows : (\E p \in projects' : p.from = <<x, r>>) <=> (\E p \in projects : p.from = <<x, r>>)
      BY <1>3, <1>6, <2>2
    <3>2. (\E p \in people' : p.from # Nil /\ p.from[1] = x)
            => (\E p \in people : p.from # Nil /\ p.from[1] = x)
      BY <1>3, <1>8, <2>2
    <3> HIDE DEF b
    <3> QED BY <1>3, <2>1, <2>2, <3>1, <3>2, BatchKept
  <2>3. CASE x = b
    <3>1. {r \in Rows : \E p \in projects' : p.from = <<b, r>>} = made
      <4>1. \A r \in Rows : ~\E p \in projects : p.from = <<b, r>>
        BY <1>1 DEF ImportedWhole
      <4>2. \A r \in Rows : (\E p \in projects' : p.from = <<b, r>>) <=> r \in made
        BY <1>3, <1>7, <4>1
      <4> QED BY <1>1, <4>2
    <3>2. {r \in Rows : rows'[b][r].project} = made
      BY <1>1, <1>4
    <3>3. {r \in Rows : rows'[b][r].choice.selected} = made \cup tx[c].skipped
      <4>1. {r \in Rows : rows'[b][r].choice.selected} = Selected(b)
        BY <1>4 DEF Selected
      <4> QED BY <1>1, <4>1 DEF WorkInHand, FinishCommit
    <3>4. made \cap tx[c].skipped = {}
      BY <1>1 DEF WorkInHand
    <3>5. ImportedWhole(x)'
      <4>1. batches'[b].state = "committed" /\ batches'[b].result = result
            /\ result.created = made /\ result.skipped = tx[c].skipped
        BY <1>3
      <4>2. batches'[b].result # Nil
        BY <1>2, <4>1
      <4> HIDE DEF result, made, b
      <4> QED BY <2>3, <3>1, <3>2, <3>3, <3>4, <4>1, <4>2 DEF ImportedWhole, Selected
    <3>6. ASSUME NEW r \in made
          PROVE  /\ "error" \notin rows[b][r].issues
                 /\ "duplicate" \in rows[b][r].issues =>
                      rows[b][r].choice.acknowledged /\ rows[b][r].choice.resolution = "create"
      <4>1. Resolved(rows[b][r]) /\ rows[b][r].choice.resolution # "skip" /\ rows[b][r] \in StoredRow
        BY <1>1, <1>4 DEF WorkInHand
      <4> QED BY <4>1 DEF Resolved, HasErrors, HasWarnings, HasCandidates, StoredRow, Choices, Resolutions
    <3>7. ImportedAsResolved(x)'
      BY <1>4, <2>3, <3>6 DEF ImportedAsResolved
    <3> QED BY <3>5, <3>7
  <2> QED BY <2>2, <2>3
<1>14. OnePersonPerName'
  <2> SUFFICES ASSUME NEW p \in people', NEW q \in people',
                      p.name = q.name, p.from # Nil, q.from # Nil, p.from[1] = q.from[1]
               PROVE  p = q
    BY DEF OnePersonPerName
  <2>1. \A z \in people : z.from # Nil => z.from[1] # b
    BY <1>1 DEF ImportedWhole
  <2>2. CASE p \in people /\ q \in people
    BY <2>2 DEF ImportIInv, OnePersonPerName
  <2>3. CASE p \in tx[c].people /\ q \in tx[c].people
    BY <1>1, <2>3 DEF WorkInHand
  <2> QED BY <1>3, <1>8, <2>1, <2>2, <2>3
<1>15. AnswersStand'
  <2> SUFFICES ASSUME NEW d \in Clients, answer'[d] # Nil
               PROVE  /\ batches'[answer'[d].batch].state = "committed"
                      /\ answer'[d].result = batches'[answer'[d].batch].result
    BY DEF AnswersStand
  <2>1. CASE answer'[d] = [batch |-> b, result |-> result]
    BY <1>3, <2>1
  <2>2. CASE answer'[d] = answer[d]
    <3>1. answer[d].batch \in Batches /\ answer[d].batch # b
      BY <1>1, <2>2 DEF ImportIInv, AnswersStand, TypeOK, Answer
    <3> QED BY <1>3, <2>2, <3>1 DEF ImportIInv, AnswersStand
  <2> QED BY <1>5, <2>1, <2>2
<1> QED BY <1>9, <1>10, <1>11, <1>12, <1>13, <1>14, <1>15
        DEF ImportIInv, ImportsAreWhole, ImportedRowsWereResolved

\* The cleaner takes only batches without a commit under way.
LEMMA CleanStep ==
  ASSUME ImportIInv, NEW picked \in SUBSET Batches, CleanupExpired(picked)
  PROVE  ImportIInv'
<1>1. /\ TypeOK /\ UNCHANGED <<due, projects, people, retired, tx, seen, answer>>
      /\ \A b \in picked : batches[b].state = "ready" /\ ~Locked(b) /\ batches[b].revision \in 0..MaxRevision
  BY RevisionAssumption DEF CleanupExpired, Cleanable, ImportIInv, ReadyFits, TypeOK
<1>2. \A b \in Batches \ picked : batches'[b] = batches[b] /\ rows'[b] = rows[b]
  BY DEF CleanupExpired
<1>3. \A b \in picked :
        /\ batches'[b] = [state |-> "expired", revision |-> batches[b].revision + 1,
                          result |-> batches[b].result]
        /\ \A r \in Rows : rows'[b][r] =
             [issues |-> {}, draft |-> FALSE, choice |-> NoChoice, project |-> rows[b][r].project]
  BY DEF CleanupExpired
<1> DEFINE Scrubbed(b) ==
      /\ batches'[b].state = "expired" /\ batches'[b].revision = batches[b].revision + 1
      /\ batches'[b].result = batches[b].result
      /\ \A r \in Rows : rows'[b][r].project = rows[b][r].project /\ rows'[b][r].issues = {}
<1>b. \A b \in picked : Scrubbed(b)
  <2> SUFFICES ASSUME NEW b \in picked PROVE Scrubbed(b)
    OBVIOUS
  <2>1. /\ batches'[b].state = "expired" /\ batches'[b].revision = batches[b].revision + 1
        /\ batches'[b].result = batches[b].result
    <3>1. batches'[b] = [state |-> "expired", revision |-> batches[b].revision + 1,
                         result |-> batches[b].result]
      BY <1>3
    <3> QED BY <3>1
  <2>2. ASSUME NEW r \in Rows
        PROVE  rows'[b][r].project = rows[b][r].project /\ rows'[b][r].issues = {}
    <3>1. rows'[b][r] =
            [issues |-> {}, draft |-> FALSE, choice |-> NoChoice, project |-> rows[b][r].project]
      BY <1>3
    <3> QED BY <3>1
  <2> QED BY <2>1, <2>2
<1>4. TypeOK'
  <2>1. batches' \in [Batches -> [state : {"absent", "ready", "committed", "expired"},
                                  revision : 0..(MaxRevision + 1), result : Result \cup {Nil}]]
    <3>1. \A b \in picked : [state |-> "expired", revision |-> batches[b].revision + 1,
                             result |-> batches[b].result]
            \in [state : {"absent", "ready", "committed", "expired"},
                 revision : 0..(MaxRevision + 1), result : Result \cup {Nil}]
      BY <1>1, RevisionAssumption DEF TypeOK
    <3> QED BY <1>1, <3>1 DEF CleanupExpired, TypeOK
  <2>2. rows' \in [Batches -> [Rows -> StoredRow]]
    <3>1. NoChoice \in Choices
      BY DEF NoChoice, Choices, Resolutions
    <3>2. \A b \in Batches, r \in Rows :
            [issues |-> {}, draft |-> FALSE, choice |-> NoChoice, project |-> rows[b][r].project] \in StoredRow
      BY <1>1, <3>1 DEF TypeOK, StoredRow
    <3> QED BY <1>1, <3>2 DEF CleanupExpired, TypeOK
  <2> QED BY <1>1, <2>1, <2>2 DEF TypeOK
<1>5. OpenCommits' /\ OneCommitPerBatch'
  <2>1. ASSUME NEW d \in Clients, Committing(d) PROVE WorkInHand(tx[d])' /\ SawItsBatch(d)'
    <3>1. WorkInHand(tx[d]) /\ SawItsBatch(d)
      BY <2>1 DEF ImportIInv, OpenCommits
    <3>2. tx[d].batch \in Batches \ picked
      BY <1>1, <2>1 DEF TypeOK, Committing, Transaction, Locked
    <3> QED BY <1>1, <1>2, <2>1, <3>1, <3>2, CommitKept
  <2>2. OpenCommits'
    BY <1>1, <2>1 DEF OpenCommits, Committing
  <2>3. OneCommitPerBatch'
    BY <1>1 DEF ImportIInv, OneCommitPerBatch, Committing
  <2> QED BY <2>2, <2>3
<1>6. ViewsAreDated'
  <2> SUFFICES ASSUME NEW d \in Clients, seen[d] # Nil PROVE RevisionTells(seen[d])'
    BY <1>1 DEF ViewsAreDated
  <2>1. RevisionTells(seen[d]) /\ seen[d] \in View /\ seen'[d] = seen[d]
    BY <1>1 DEF ImportIInv, ViewsAreDated, TypeOK
  <2>2. CASE seen[d].batch \in picked
    BY <1>1, <1>b, <2>1, <2>2 DEF RevisionTells, View
  <2>3. CASE seen[d].batch \notin picked
    BY <1>2, <2>1, <2>3, ViewKept DEF View
  <2> QED BY <2>2, <2>3
<1>7. ReadyFits'
  BY <1>2, <1>b DEF ImportIInv, ReadyFits
<1>8. \A x \in Batches : ImportedWhole(x)' /\ ImportedAsResolved(x)'
  <2> SUFFICES ASSUME NEW x \in Batches PROVE ImportedWhole(x)' /\ ImportedAsResolved(x)'
    OBVIOUS
  <2>1. ImportedWhole(x) /\ ImportedAsResolved(x)
    BY DEF ImportIInv, ImportsAreWhole, ImportedRowsWereResolved
  <2>2. CASE x \notin picked
    BY <1>1, <1>2, <2>1, <2>2, BatchKept
  <2>3. CASE x \in picked
    <3>1. Scrubbed(x) /\ batches[x].state = "ready" /\ projects' = projects /\ people' = people
      BY <1>1, <1>b, <2>3
    <3>2. ImportedWhole(x)'
      BY <2>1, <3>1 DEF ImportedWhole
    <3>3. ImportedAsResolved(x)'
      BY <3>1 DEF ImportedAsResolved
    <3> QED BY <3>2, <3>3
  <2> QED BY <2>2, <2>3
<1>9. OnePersonPerName'
  BY <1>1 DEF ImportIInv, OnePersonPerName
<1>10. AnswersStand'
  <2> SUFFICES ASSUME NEW d \in Clients, answer[d] # Nil
               PROVE  /\ batches'[answer[d].batch].state = "committed"
                      /\ answer[d].result = batches'[answer[d].batch].result
    BY <1>1 DEF AnswersStand
  <2>1. answer[d].batch \in Batches \ picked
    BY <1>1 DEF ImportIInv, AnswersStand, TypeOK, Answer
  <2> QED BY <1>2, <2>1 DEF ImportIInv, AnswersStand
<1> QED BY <1>4, <1>5, <1>6, <1>7, <1>8, <1>9, <1>10
        DEF ImportIInv, ImportsAreWhole, ImportedRowsWereResolved

\* What other requests of the program do: neither a batch nor a commit moves,
\* and what they create comes from no batch.
LEMMA OutsideStep ==
  ASSUME ImportIInv, UNCHANGED <<batches, rows, tx, seen, answer>>,
         due' \subseteq Batches, retired' \subseteq Terms,
         projects \subseteq projects', people \subseteq people',
         \A p \in projects' \ projects : p \in [title : Titles, from : {Nil}],
         \A p \in people' \ people : p \in [name : Names, from : {Nil}]
  PROVE  ImportIInv'
<1>1. TypeOK'
  BY DEF ImportIInv, TypeOK
<1>2. OpenCommits' /\ OneCommitPerBatch'
  BY CommitKept DEF ImportIInv, OpenCommits, OneCommitPerBatch, Committing
<1>3. ViewsAreDated' /\ ReadyFits' /\ AnswersStand'
  BY DEF ImportIInv, ViewsAreDated, RevisionTells, SelectionOf, ReadyFits, AnswersStand
<1>4. \A x \in Batches : ImportedWhole(x)' /\ ImportedAsResolved(x)'
  <2> SUFFICES ASSUME NEW x \in Batches PROVE ImportedWhole(x)' /\ ImportedAsResolved(x)'
    OBVIOUS
  <2>1. ImportedWhole(x) /\ ImportedAsResolved(x)
    BY DEF ImportIInv, ImportsAreWhole, ImportedRowsWereResolved
  <2>2. \A r \in Rows : (\E p \in projects' : p.from = <<x, r>>) <=> (\E p \in projects : p.from = <<x, r>>)
    <3>1. ASSUME NEW r \in Rows, NEW p \in projects', p.from = <<x, r>> PROVE p \in projects
      <4>1. p.from # Nil
        BY <3>1, NilAssumption
      <4> QED BY <4>1
    <3> QED BY <3>1
  <2>3. (\E p \in people' : p.from # Nil /\ p.from[1] = x)
          => (\E p \in people : p.from # Nil /\ p.from[1] = x)
    OBVIOUS
  <2> QED BY <2>1, <2>2, <2>3, BatchKept
<1>5. OnePersonPerName'
  BY DEF ImportIInv, OnePersonPerName
<1> QED BY <1>1, <1>2, <1>3, <1>4, <1>5 DEF ImportIInv, ImportsAreWhole, ImportedRowsWereResolved

\* A person made by hand joins those that are there: OutsideStep, whichever of
\* the other requests it is.
LEMMA OtherSteps ==
  ASSUME ImportIInv,
         \/ \E b \in Batches : ExpiryPasses(b)
         \/ \E t \in Terms : RetireTerm(t)
         \/ \E t \in Titles : CreateProjectByHand(t)
         \/ \E n \in Names : CreatePersonByHand(n)
  PROVE  ImportIInv'
<1>1. ASSUME NEW b \in Batches, ExpiryPasses(b) PROVE ImportIInv'
  <2>1. UNCHANGED <<batches, rows, tx, seen, answer, retired, projects, people>> /\ due' \subseteq Batches
    BY <1>1 DEF ExpiryPasses, ImportIInv, TypeOK
  <2>2. retired' \subseteq Terms
    BY <2>1 DEF ImportIInv, TypeOK
  <2> QED BY <2>1, <2>2, OutsideStep
<1>2. ASSUME NEW t \in Terms, RetireTerm(t) PROVE ImportIInv'
  <2>1. UNCHANGED <<batches, rows, tx, seen, answer, due, projects, people>> /\ retired' \subseteq Terms
    BY <1>2 DEF RetireTerm, ImportIInv, TypeOK
  <2>2. due' \subseteq Batches
    BY <2>1 DEF ImportIInv, TypeOK
  <2> QED BY <2>1, <2>2, OutsideStep
<1>3. ASSUME NEW t \in Titles, CreateProjectByHand(t) PROVE ImportIInv'
  <2>1. UNCHANGED <<batches, rows, tx, seen, answer, due, retired, people>>
        /\ projects' = projects \cup {[title |-> t, from |-> Nil]}
    BY <1>3 DEF CreateProjectByHand
  <2>2. due' \subseteq Batches /\ retired' \subseteq Terms
    BY <2>1 DEF ImportIInv, TypeOK
  <2>3. \A p \in projects' \ projects : p \in [title : Titles, from : {Nil}]
    BY <2>1
  <2> QED BY <2>1, <2>2, <2>3, OutsideStep
<1>4. ASSUME NEW n \in Names, CreatePersonByHand(n) PROVE ImportIInv'
  <2>1. UNCHANGED <<batches, rows, tx, seen, answer, due, retired, projects>>
        /\ people' = people \cup {[name |-> n, from |-> Nil]}
    BY <1>4 DEF CreatePersonByHand
  <2>2. due' \subseteq Batches /\ retired' \subseteq Terms
    BY <2>1 DEF ImportIInv, TypeOK
  <2>3. \A p \in people' \ people : p \in [name : Names, from : {Nil}]
    BY <2>1
  <2> QED BY <2>1, <2>2, <2>3, OutsideStep
<1> QED BY <1>1, <1>2, <1>3, <1>4

\* Every step keeps the invariant.
LEMMA ImportSteps == ImportIInv /\ [Next]_vars => ImportIInv'
<1> SUFFICES ASSUME ImportIInv, [Next]_vars PROVE ImportIInv'
  OBVIOUS
<1>1. ASSUME NEW b \in Batches, CreatePreview(b) PROVE ImportIInv'
  BY <1>1, PreviewStep
<1>2. ASSUME NEW c \in Clients, NEW b \in Batches, GetBatch(c, b) PROVE ImportIInv'
  BY <1>2, GetStep
<1>3. ASSUME NEW c \in Clients, NEW b \in Batches, ListRows(c, b) PROVE ImportIInv'
  BY <1>3, ListStep
<1>4. ASSUME NEW c \in Clients, NEW chosen \in SUBSET Rows \ {{}}, NEW choice \in Choices,
             UpdateRows(c, chosen, choice)
      PROVE  ImportIInv'
  BY <1>4, UpdateStep
<1>5. ASSUME NEW c \in Clients, BeginCommit(c) PROVE ImportIInv'
  BY <1>5, BeginStep
<1>6. ASSUME NEW c \in Clients, RepeatCommit(c) PROVE ImportIInv'
  BY <1>6, RepeatStep
<1>7. ASSUME NEW c \in Clients, Commits(c) PROVE ImportIInv'
  <2>1. CASE SkipRow(c)
    BY <2>1, SkipStep
  <2>2. CASE ImportRow(c)
    BY <2>2, ImportStep
  <2>3. CASE FinishCommit(c)
    BY <2>3, FinishStep
  <2>4. CASE AbortCommit(c)
    BY <2>4, AbortStep
  <2> QED BY <1>7, <2>1, <2>2, <2>3, <2>4 DEF Commits
<1>8. CASE Cleaner
  BY <1>8, CleanStep DEF Cleaner
<1>9. CASE UNCHANGED vars
  <2>1. UNCHANGED <<batches, rows, tx, seen, answer, due, retired, projects, people>>
    BY <1>9 DEF vars
  <2>2. due' \subseteq Batches /\ retired' \subseteq Terms
    BY <2>1 DEF ImportIInv, TypeOK
  <2> QED BY <2>1, <2>2, OutsideStep
<1> QED BY <1>1, <1>2, <1>3, <1>4, <1>5, <1>6, <1>7, <1>8, <1>9, OtherSteps DEF Next

-------------------------------------------------------------------------------
(* The theorems.                                                            *)

\* The invariant of all import batches, on which the properties below rest.
LEMMA ImportInvariant == Spec => []ImportIInv
<1> QED BY ImportStart, ImportSteps, PTL DEF Spec

\* However previews, selections, commits, failures and the cleaner interleave: an
\* import is there as a whole or not at all, its rows were free of errors and of
\* unread warnings, and a name stands for one person of its batch.
THEOREM ImportsTheorem == Spec => []ImportInv
<1>1. ImportIInv => ImportInv
  BY DEF ImportIInv, ImportInv
<1> QED BY <1>1, ImportInvariant, PTL

\* Whoever asks for a commit again, after a lost answer say, is told the result
\* that is stored.
THEOREM AnswersTheorem == Spec => []AnswersAgree
<1>1. ImportIInv => AnswersAgree
  BY DEF ImportIInv, AnswersStand, AnswersAgree
<1> QED BY <1>1, ImportInvariant, PTL

\* A batch that is over is not touched by any step.
LEMMA OverIsOver ==
  ASSUME ImportIInv, [Next]_vars, NEW b \in Batches, batches[b].state \in {"committed", "expired"}
  PROVE  batches'[b] = batches[b] /\ rows'[b] = rows[b]
<1> USE DEF ImportIInv
<1>1. ASSUME NEW x \in Batches, CreatePreview(x) PROVE batches'[b] = batches[b] /\ rows'[b] = rows[b]
  BY <1>1 DEF CreatePreview, TypeOK
<1>2. ASSUME NEW c \in Clients, NEW chosen \in SUBSET Rows \ {{}}, NEW choice \in Choices,
             UpdateRows(c, chosen, choice)
      PROVE  batches'[b] = batches[b] /\ rows'[b] = rows[b]
  BY <1>2 DEF UpdateRows, TypeOK
<1>3. ASSUME NEW c \in Clients, FinishCommit(c) PROVE batches'[b] = batches[b] /\ rows'[b] = rows[b]
  <2>1. b # tx[c].batch
    BY <1>3 DEF FinishCommit, OpenCommits, Committing, SawItsBatch
  <2> QED BY <1>3, <2>1 DEF FinishCommit, TypeOK
<1>4. CASE Cleaner
  <2>1. PICK picked \in SUBSET Batches : CleanupExpired(picked)
    BY <1>4 DEF Cleaner
  <2>2. b \notin picked
    BY <2>1 DEF CleanupExpired, Cleanable
  <2> QED BY <2>1, <2>2 DEF CleanupExpired
<1>5. CASE UNCHANGED <<batches, rows>>
  BY <1>5
<1> QED
  BY <1>1, <1>2, <1>3, <1>4, <1>5
  DEF Next, vars, Commits, GetBatch, ListRows, BeginCommit, RepeatCommit, SkipRow, ImportRow,
      AbortCommit, ExpiryPasses, RetireTerm, CreateProjectByHand, CreatePersonByHand

\* A batch becomes committed only by the commit of the client that has it open,
\* with the rows as that client has read them at the revision it names or later.
LEMMA CommittedBySeen ==
  ASSUME ImportIInv, [Next]_vars, NEW c \in Clients, Committing(c),
         batches'[tx[c].batch].state = "committed",
         seen[c].rows # Nil, seen[c].read >= seen[c].revision
  PROVE  \A r \in Rows : rows'[tx[c].batch][r].choice = seen[c].rows[r]
<1> USE DEF ImportIInv
<1> DEFINE b == tx[c].batch
<1>1. /\ b \in Batches /\ batches[b].state = "ready" /\ seen[c] # Nil
      /\ \A r \in Rows : seen[c].rows[r] = rows[b][r].choice /\ rows[b][r] \in StoredRow
  <2>1. b \in Batches /\ SawItsBatch(c) /\ rows[b] \in [Rows -> StoredRow]
    BY DEF OpenCommits, TypeOK, Transaction, Committing
  <2>2. seen[c].rows = SelectionOf(b) /\ batches[b].state = "ready" /\ seen[c] # Nil
    <3>1. seen[c] \in View /\ RevisionTells(seen[c]) /\ batches[b].revision \in Nat
      BY <2>1, RevisionAssumption DEF ViewsAreDated, SawItsBatch, TypeOK
    <3>2. seen[c].read = batches[b].revision
      BY <2>1, <3>1 DEF RevisionTells, SawItsBatch, View
    <3> QED BY <2>1, <3>1, <3>2 DEF RevisionTells, SawItsBatch
  <2> QED BY <2>1, <2>2 DEF SelectionOf
<1>2. PICK d \in Clients : FinishCommit(d) /\ tx[d].batch = b
  <2>1. ASSUME NEW x \in Batches, CreatePreview(x) PROVE FALSE
    BY <1>1, <2>1 DEF CreatePreview, TypeOK
  <2>2. ASSUME NEW d \in Clients, NEW chosen \in SUBSET Rows \ {{}}, NEW choice \in Choices,
               UpdateRows(d, chosen, choice)
        PROVE  FALSE
    BY <1>1, <2>2 DEF UpdateRows, TypeOK
  <2>3. ASSUME Cleaner PROVE FALSE
    BY <1>1, <2>3 DEF Cleaner, CleanupExpired
  <2>4. ASSUME UNCHANGED batches PROVE FALSE
    BY <1>1, <2>4
  <2>5. ASSUME NEW d \in Clients, FinishCommit(d) PROVE tx[d].batch = b
    BY <1>1, <2>5 DEF FinishCommit, TypeOK
  <2> QED
    BY <2>1, <2>2, <2>3, <2>4, <2>5
    DEF Next, vars, Commits, GetBatch, ListRows, BeginCommit, RepeatCommit, SkipRow, ImportRow,
        AbortCommit, ExpiryPasses, RetireTerm, CreateProjectByHand, CreatePersonByHand
<1>3. \A r \in Rows : rows'[b][r] = [rows[b][r] EXCEPT !.project = rows[b][r].project \/ r \in tx[d].created]
  BY <1>1, <1>2 DEF FinishCommit, TypeOK
<1>4. ASSUME NEW r \in Rows PROVE rows'[b][r].choice = rows[b][r].choice
  <2>1. rows[b][r] \in StoredRow
    BY <1>1
  <2>2. rows'[b][r] = [rows[b][r] EXCEPT !.project = rows[b][r].project \/ r \in tx[d].created]
    BY <1>3
  <2> QED BY <2>1, <2>2 DEF StoredRow
<1> QED BY <1>1, <1>4

\* A commit imports the selection its client has read, if it read the rows after
\* it read the revision it names, and what is committed or expired is changed by
\* no later commit, selection or cleanup.
THEOREM CommitsStandTheorem == Spec => CommitsStand
<1>1. ImportIInv /\ [Next]_vars =>
        [\A c \in Clients :
           tx[c] # Nil /\ batches'[tx[c].batch].state = "committed"
             /\ seen[c].rows # Nil /\ seen[c].read >= seen[c].revision =>
             \A r \in Rows : rows'[tx[c].batch][r].choice = seen[c].rows[r]]_vars
  BY CommittedBySeen DEF Committing
<1>2. ImportIInv /\ [Next]_vars =>
        [\A b \in Batches : batches[b].state \in {"committed", "expired"} =>
           batches'[b] = batches[b] /\ rows'[b] = rows[b]]_vars
  BY OverIsOver
<1>3. Spec => CommittedAsSeen
  BY <1>1, ImportInvariant, PTL DEF Spec, CommittedAsSeen
<1>4. Spec => CommittedIsFinal
  BY <1>2, ImportInvariant, PTL DEF Spec, CommittedIsFinal
<1> QED BY <1>3, <1>4 DEF CommitsStand

-------------------------------------------------------------------------------
(* Validation and resolution of one row.                                     *)

\* What was resolved, and where.
Members == [person : People, role : STRING, position : Nat]

\* The row is gone through from its first participation to its last.
Progress ==
    /\ team \in Seq(Members) /\ left \in Seq(Participations)
    /\ phase # "new" => /\ Len(team) + Len(left) = Len(draft.participations)
                        /\ \A i \in DOMAIN left : left[i] = draft.participations[Len(team) + i]
    /\ phase = "new" => team = << >>

\* The positions of any role.
Placed(role) ==
    /\ {team[i].position : i \in Taken(role)} = 0 .. Cardinality(Taken(role)) - 1
    /\ \A i, j \in Taken(role) : i < j => team[i].position < team[j].position

\* q is who the participation p names.
NamedBy(p, q) ==
    /\ p.student # Empty => q.student = p.student
    /\ p.student = Empty /\ p.staff # Empty => q.staff = p.staff
    /\ NameOnly(p) => q.name = p.name

\* A row that passed validation, whatever came of it.
Passed == phase \in {"valid", "created", "failed"}

\* The database has nobody twice whom p names without an ID.
OneNamesake(p) ==
    NameOnly(p) => \A a, b \in population :
                      a.name = p.name /\ b.name = p.name /\ a.made = 0 /\ b.made = 0 => a = b

\* What validation has seen of the participations stays true.
EntriesPassed ==
    /\ phase = "new" => \A q \in population : q.made = 0
    /\ phase = "valid" => \A i \in DOMAIN draft.participations : OneNamesake(draft.participations[i])
    /\ Passed => \A i, j \in DOMAIN draft.participations :
                    i # j => draft.participations[i] # draft.participations[j]

\* What holds between two steps of a row's commit.
RowsInv ==
    /\ draft \in RowDrafts /\ catalog \in Catalogs
    /\ phase \in {"new", "valid", "error", "failed", "created"}
    /\ IsFiniteSet(population) /\ population \subseteq People /\ IDsDiffer(population)
    /\ Progress
    /\ Passed => CatalogErrors = {} /\ ClassificationErrors = {}
    /\ EntriesPassed /\ FailuresAreOfPeople
    /\ \A i \in DOMAIN team : i \in DOMAIN draft.participations /\ NamedBy(draft.participations[i], team[i].person)
    /\ \A role : Placed(role)

\* Nothing is resolved yet.
LEMMA RowsInit == RowInit => RowsInv
<1> SUFFICES ASSUME RowInit PROVE RowsInv
    OBVIOUS
<1>1. IsFiniteSet(population) /\ population \subseteq People /\ IDsDiffer(population)
    BY ValidationAssumption DEF RowInit
<1>2. Progress
    BY DEF RowInit, Progress
<1>3. \A role : Taken(role) = {}
    BY DEF RowInit, Taken
<1>4. \A role : Placed(role)
  <2>1. Cardinality({}) = 0
    BY FS_EmptySet
  <2> QED
    BY <1>3, <2>1 DEF Placed
<1>5. EntriesPassed /\ FailuresAreOfPeople /\ ~Passed
    BY ValidationAssumption DEF RowInit, EntriesPassed, FailuresAreOfPeople, Passed
<1> QED
    BY <1>1, <1>2, <1>4, <1>5 DEF RowInit, RowsInv

\* Who a participation matches is who it names, and there is one at most whose
\* ID it gives.
LEMMA MatchesAreNamed ==
    ASSUME NEW p, NEW q \in Match(p)
    PROVE  q \in population /\ NamedBy(p, q)
    BY DEF Match, NamedBy, NameOnly, Named

\* One more member, of the next participation.
LEMMA MemberJoins ==
    ASSUME RowsInv, phase = "valid", left # << >>,
           NEW q \in People, NamedBy(Head(left), q),
           team' = Append(team, Member(Head(left), q)), left' = Tail(left),
           UNCHANGED <<draft, catalog, phase>>
    PROVE  /\ Progress'
           /\ \A i \in DOMAIN team' : i \in DOMAIN draft.participations
                                        /\ NamedBy(draft.participations[i], team'[i].person)
           /\ \A role : Placed(role)'
<1> DEFINE p == Head(left)
           n == Len(team)
           m == Member(p, q)
<1>1. /\ team \in Seq(Members) /\ left \in Seq(Participations)
      /\ n + Len(left) = Len(draft.participations)
      /\ \A i \in DOMAIN left : left[i] = draft.participations[n + i]
    BY DEF RowsInv, Progress
<1>2. p \in Participations /\ 1 \in DOMAIN left /\ p = left[1] /\ Len(left) \in Nat \ {0} /\ n \in Nat
    BY <1>1
<1>3. draft.participations \in Seq(Participations)
    BY ValidationAssumption DEF RowsInv
<1>4. p = draft.participations[n + 1] /\ n + 1 \in DOMAIN draft.participations
    BY <1>1, <1>2, <1>3
<1>5. \A role : IsFiniteSet(Taken(role)) /\ Cardinality(Taken(role)) \in Nat
  <2>1. PICK S : S = 1 .. n
    OBVIOUS
  <2>2. IsFiniteSet(S)
    BY <1>2, <2>1, FS_Interval
  <2>3. \A role : Taken(role) \subseteq S
    BY <1>1, <2>1 DEF Taken
  <2> QED
    BY <2>2, <2>3, FS_Subset, FS_CardinalityType
<1>6. m \in Members /\ m.person = q /\ m.role = p.role /\ m.position = Cardinality(Taken(p.role))
  <2>1. p.role \in STRING
    BY <1>2 DEF Participations
  <2> QED
    BY <1>5, <2>1 DEF Member, Members, Position
<1> HIDE DEF m
<1>7. /\ team' \in Seq(Members) /\ Len(team') = n + 1 /\ DOMAIN team' = 1 .. n + 1
      /\ team'[n + 1] = m /\ \A i \in 1 .. n : team'[i] = team[i]
      /\ DOMAIN team = 1 .. n
    BY <1>1, <1>2, <1>6 DEF m
<1>8. /\ left' \in Seq(Participations) /\ Len(left') = Len(left) - 1
      /\ \A i \in DOMAIN left' : i + 1 \in DOMAIN left /\ left'[i] = left[i + 1]
    BY <1>1, <1>2
<1>9. Progress'
  <2>1. Len(team') + Len(left') = Len(draft.participations)
    <3>1. (n + 1) + (Len(left) - 1) = n + Len(left)
      BY <1>2
    <3> QED
      BY <1>1, <1>7, <1>8, <3>1
  <2>2. ASSUME NEW i \in DOMAIN left' PROVE left'[i] = draft.participations[Len(team') + i]
    <3>1. i \in Nat
      BY <1>8
    <3>2. n + (i + 1) = (n + 1) + i
      BY <1>2, <3>1
    <3> QED
      BY <1>1, <1>7, <1>8, <3>2
  <2> QED
    BY <1>7, <1>8, <2>1, <2>2 DEF Progress
<1>10. ASSUME NEW i \in DOMAIN team'
       PROVE  i \in DOMAIN draft.participations /\ NamedBy(draft.participations[i], team'[i].person)
  <2>1. CASE i = n + 1
    BY <1>4, <1>6, <1>7, <2>1
  <2>2. CASE i # n + 1
    <3>1. i \in DOMAIN team /\ team'[i] = team[i]
      BY <1>2, <1>7, <2>2
    <3> QED
      BY <3>1 DEF RowsInv
  <2> QED
    BY <2>1, <2>2
<1>11. ASSUME NEW role PROVE Placed(role)'
  <2> DEFINE T == Taken(role)
             c == Cardinality(T)
  <2>1. Placed(role)
    BY DEF RowsInv
  <2>2. T \subseteq 1 .. n /\ n + 1 \notin T
    BY <1>2, <1>7 DEF Taken
  <2>3. CASE role # p.role
    <3>1. Taken(role)' = T
      BY <1>2, <1>6, <1>7, <2>3 DEF Taken
    <3>2. \A i \in T : team'[i] = team[i]
      BY <1>7, <2>2
    <3> HIDE DEF T
    <3>3. T = Taken(role)
      BY DEF T
    <3>4. {team'[i].position : i \in T} = {team[i].position : i \in T}
      BY <3>2
    <3> QED
      BY <2>1, <3>1, <3>2, <3>3, <3>4 DEF Placed
  <2>4. CASE role = p.role
    <3>1. Taken(role)' = T \cup {n + 1}
      BY <1>2, <1>6, <1>7, <2>4 DEF Taken
    <3>2. Cardinality(T \cup {n + 1}) = c + 1
      BY <1>5, <2>2, FS_AddElement
    <3>3. (\A i \in T : team'[i] = team[i]) /\ team'[n + 1].position = c
      BY <1>6, <1>7, <2>2, <2>4
    <3>4. c \in Nat
      BY <1>5
    <3>5. {team[i].position : i \in T} = 0 .. c - 1
          /\ \A i, j \in T : i < j => team[i].position < team[j].position
      BY <2>1 DEF Placed
    <3>6. \A i \in T : i \in 1 .. n
      BY <2>2
    <3> HIDE DEF T, c
    <3>7. \A i \in T : team'[i].position = team[i].position /\ team[i].position \in 0 .. c - 1
      BY <3>3, <3>5
    <3>8. {team'[i].position : i \in T \cup {n + 1}} = (0 .. c - 1) \cup {c}
      <4>1. {team'[i].position : i \in T} = {team[i].position : i \in T}
        BY <3>7
      <4>2. {team'[i].position : i \in T} = 0 .. c - 1
        BY <3>5, <4>1
      <4> QED
        BY <3>3, <4>2
    <3>9. (0 .. c - 1) \cup {c} = 0 .. (c + 1) - 1
      BY <3>4
    <3>10. \A i, j \in T \cup {n + 1} : i < j => team'[i].position < team'[j].position
      <4>1. ASSUME NEW i \in T \cup {n + 1}, NEW j \in T \cup {n + 1}, i < j
            PROVE  team'[i].position < team'[j].position
        <5>1. i \in T
          BY <1>2, <3>6, <4>1
        <5>2. CASE j \in T
          BY <3>5, <3>7, <4>1, <5>1, <5>2
        <5>3. CASE j = n + 1
          <6>1. team'[j].position = c /\ team'[i].position \in 0 .. c - 1
            BY <3>3, <3>7, <5>1, <5>3
          <6>2. \A x \in 0 .. c - 1 : x < c
            BY <3>4
          <6> QED
            BY <6>1, <6>2
        <5> QED
          BY <4>1, <5>2, <5>3
      <4> QED
        BY <4>1
    <3>11. Cardinality(Taken(role)') = c + 1
      BY <3>1, <3>2
    <3> QED
      BY <3>1, <3>8, <3>9, <3>10, <3>11 DEF Placed
  <2> QED
    BY <2>3, <2>4
<1> QED
    BY <1>9, <1>10, <1>11

\* A set that has not more than one member has one at most.
LEMMA FewAreOne ==
    ASSUME NEW S, IsFiniteSet(S), ~(Cardinality(S) > 1), NEW a \in S, NEW b \in S
    PROVE  a = b
<1> SUFFICES ASSUME a # b PROVE FALSE
    OBVIOUS
<1>1. IsFiniteSet({a, b}) /\ Cardinality({a, b}) = 2
  <2>1. IsFiniteSet({a}) /\ Cardinality({a}) = 1
    BY FS_Singleton
  <2>2. IsFiniteSet({a} \cup {b}) /\ Cardinality({a} \cup {b}) = Cardinality({a}) + 1
    BY <2>1, FS_AddElement
  <2> QED
    BY <2>1, <2>2
<1>2. Cardinality({a, b}) <= Cardinality(S) /\ Cardinality(S) \in Nat
    BY FS_Subset, FS_CardinalityType
<1> QED
    BY <1>1, <1>2

\* And one with more has two.
LEMMA ManyDiffer ==
    ASSUME NEW S, IsFiniteSet(S), Cardinality(S) > 1
    PROVE  \E a, b \in S : a # b
<1>1. Cardinality({}) = 0
    BY FS_EmptySet
<1>2. PICK a : a \in S
    BY <1>1
<1> SUFFICES ASSUME \A x, y \in S : x = y PROVE FALSE
    OBVIOUS
<1>3. S = {a}
    BY <1>2
<1>4. Cardinality({a}) = 1
    BY FS_Singleton
<1> QED
    BY <1>3, <1>4

\* What a resolution fails of.
LEMMA WhyItFails ==
    ASSUME RowsInv, ResolveFails
    PROVE  IDsOfTwo(Head(left)) \/ NamesakeMade(Head(left))
<1> DEFINE p == Head(left)
<1>1. phase = "valid" /\ left # << >> /\ (Cardinality(Match(p)) > 1 \/ (Match(p) = {} /\ ~Unique(p)))
    BY DEF ResolveFails
<1>2. p \in Participations /\ \E i \in DOMAIN draft.participations : p = draft.participations[i]
  <2>1. /\ team \in Seq(Members) /\ left \in Seq(Participations)
        /\ Len(team) + Len(left) = Len(draft.participations)
        /\ left[1] = draft.participations[Len(team) + 1]
    BY <1>1 DEF RowsInv, Progress
  <2>2. draft.participations \in Seq(Participations)
    BY ValidationAssumption DEF RowsInv
  <2> QED
    BY <1>1, <2>1, <2>2
<1> HIDE DEF p
<1>3. CASE Match(p) = {} /\ ~Unique(p)
  <2>1. PICK q \in population : (p.student # Empty /\ q.student = p.student) \/ (p.staff # Empty /\ q.staff = p.staff)
    BY <1>3 DEF Unique
  <2>2. IDsOfTwo(p)
    BY <1>3, <2>1 DEF Match, IDsOfTwo
  <2> QED
    BY <2>2 DEF p
<1>4. CASE Cardinality(Match(p)) > 1
  <2>1. IsFiniteSet(Match(p)) /\ IDsDiffer(population)
    <3>1. Match(p) \subseteq population /\ IsFiniteSet(population)
      BY DEF Match, Named, RowsInv
    <3> QED
      BY <3>1, FS_Subset DEF RowsInv
  <2>2. PICK a, b \in Match(p) : a # b
    BY <1>4, <2>1, ManyDiffer
  <2>3. a \in population /\ b \in population
    BY <2>2 DEF Match, Named
  <2>4. NameOnly(p)
    BY <2>1, <2>2, <2>3 DEF Match, NameOnly, IDsDiffer
  <2>5. a \in Named(p.name) /\ b \in Named(p.name)
    BY <2>2, <2>4 DEF Match, NameOnly
  <2>6. ~(a.made = 0 /\ b.made = 0)
    BY <1>1, <1>2, <2>2, <2>3, <2>4, <2>5 DEF RowsInv, EntriesPassed, OneNamesake, Named
  <2>7. a.made > 0 \/ b.made > 0
    <3>1. a.made \in Nat /\ b.made \in Nat
      BY <2>3 DEF RowsInv, People
    <3> QED
      BY <2>6, <3>1
  <2> QED
    BY <2>4, <2>5, <2>7 DEF NamesakeMade, p
<1> QED
    BY <1>1, <1>3, <1>4 DEF p

\* A resolution adds whom the row names, at the next free position of the role.
LEMMA RowsStep == RowsInv /\ [RowNext]_rowVars => RowsInv'
<1> SUFFICES ASSUME RowsInv, [RowNext]_rowVars PROVE RowsInv'
    OBVIOUS
<1>1. ASSUME UNCHANGED <<draft, catalog, population, left, team>>,
             phase' = phase \/ (phase = "valid" /\ phase' \in {"failed", "created"}),
             phase' # phase => FailuresAreOfPeople'
      PROVE  RowsInv'
  <2>1. Progress'
    BY <1>1 DEF RowsInv, Progress
  <2>2. \A role : Placed(role)' <=> Placed(role)
    BY <1>1 DEF Placed, Taken
  <2>3. (CatalogErrors' = CatalogErrors) /\ (ClassificationErrors' = ClassificationErrors)
    BY <1>1 DEF CatalogErrors, ClassificationErrors, Found, VersionOf
  <2>4. phase' \in {"new", "valid", "error", "failed", "created"} /\ (Passed' => Passed)
    BY <1>1 DEF RowsInv, Passed
  <2>5. EntriesPassed'
    BY <1>1, <2>4 DEF RowsInv, EntriesPassed, OneNamesake
  <2>6. FailuresAreOfPeople'
    BY <1>1 DEF RowsInv, FailuresAreOfPeople, EntriesOfOne, IDsOfTwo, NamesakeMade, Named
  <2> QED
    BY <1>1, <2>1, <2>2, <2>3, <2>4, <2>5, <2>6 DEF RowsInv, NamedBy, NameOnly, IDsDiffer
<1>2. CASE UNCHANGED rowVars
    BY <1>1, <1>2 DEF rowVars
<1>3. CASE Validate
  <2>1. team' = team /\ team = << >> /\ left' = draft.participations /\ draft' = draft /\ catalog' = catalog
        /\ population' = population
    BY <1>3 DEF Validate, RowsInv, Progress
  <2>2. draft.participations \in Seq(Participations)
    BY ValidationAssumption DEF RowsInv
  <2>3. phase' = (IF Errors = {} THEN "valid" ELSE "error")
    BY <1>3 DEF Validate
  <2>4. Progress'
    BY <2>1, <2>2, <2>3 DEF Progress, RowsInv
  <2>5. (CatalogErrors' = CatalogErrors) /\ (ClassificationErrors' = ClassificationErrors)
    BY <2>1 DEF CatalogErrors, ClassificationErrors, Found, VersionOf
  <2>6. Passed' => Errors = {} /\ CatalogErrors = {} /\ ClassificationErrors = {}
    BY <2>3 DEF Errors, Passed
  <2>7. \A role : Placed(role)' <=> Placed(role)
    BY <2>1 DEF Placed, Taken
  <2>8. EntriesPassed'
    <3> SUFFICES ASSUME Errors = {} PROVE EntriesPassed'
      BY <2>3 DEF EntriesPassed, Passed
    <3>1. ParticipationErrors = {}
      BY DEF Errors
    <3>2. /\ \A i, j \in DOMAIN draft.participations : i # j => draft.participations[i] # draft.participations[j]
          /\ \A i \in DOMAIN draft.participations :
                NameOnly(draft.participations[i]) => ~(Cardinality(Named(draft.participations[i].name)) > 1)
      BY <3>1 DEF ParticipationErrors
    <3>3. ASSUME NEW i \in DOMAIN draft.participations PROVE OneNamesake(draft.participations[i])
      <4> DEFINE p == draft.participations[i]
      <4> SUFFICES ASSUME NameOnly(p), NEW a \in population, NEW b \in population,
                          a.name = p.name, b.name = p.name
                   PROVE  a = b
        BY DEF OneNamesake
      <4>1. ~(Cardinality(Named(p.name)) > 1)
        BY <3>2
      <4>2. IsFiniteSet(Named(p.name))
        <5>1. Named(p.name) \subseteq population /\ IsFiniteSet(population)
          BY DEF Named, RowsInv
        <5> QED
          BY <5>1, FS_Subset
      <4>3. a \in Named(p.name) /\ b \in Named(p.name)
        BY DEF Named
      <4> QED
        BY <4>1, <4>2, <4>3, FewAreOne
    <3> QED
      BY <2>1, <2>3, <3>2, <3>3 DEF EntriesPassed, OneNamesake
  <2>9. FailuresAreOfPeople'
    BY <2>3 DEF FailuresAreOfPeople
  <2> QED
    BY <2>1, <2>3, <2>4, <2>5, <2>6, <2>7, <2>8, <2>9 DEF RowsInv
<1>4. CASE ResolveKnown
  <2> DEFINE p == Head(left)
  <2>1. /\ phase = "valid" /\ left # << >> /\ Cardinality(Match(p)) = 1
        /\ team' = Append(team, Member(p, CHOOSE q \in Match(p) : TRUE)) /\ left' = Tail(left)
        /\ UNCHANGED <<draft, catalog, population, phase>>
    BY <1>4 DEF ResolveKnown
  <2>2. Match(p) # {}
    <3> SUFFICES ASSUME Match(p) = {} PROVE FALSE
      OBVIOUS
    <3>1. Cardinality({}) = 0
      BY FS_EmptySet
    <3>2. Cardinality(Match(p)) = 1
      BY <2>1
    <3>3. Cardinality(Match(p)) = Cardinality({})
      OBVIOUS
    <3> QED
      BY <3>1, <3>2, <3>3
  <2>3. PICK q : q = (CHOOSE x \in Match(p) : TRUE)
    OBVIOUS
  <2>4. q \in Match(p)
    BY <2>2, <2>3
  <2>5. q \in People /\ NamedBy(p, q)
    BY <2>4, MatchesAreNamed DEF RowsInv
  <2>6. team' = Append(team, Member(p, q))
    BY <2>1, <2>3
  <2>7. /\ Progress'
        /\ \A i \in DOMAIN team' : i \in DOMAIN draft.participations
                                     /\ NamedBy(draft.participations[i], team'[i].person)
        /\ \A role : Placed(role)'
    BY <2>1, <2>5, <2>6, MemberJoins
  <2>8. (CatalogErrors' = CatalogErrors) /\ (ClassificationErrors' = ClassificationErrors)
    BY <2>1 DEF CatalogErrors, ClassificationErrors, Found, VersionOf
  <2>9. EntriesPassed' /\ FailuresAreOfPeople' /\ (Passed' <=> Passed)
    BY <2>1 DEF RowsInv, EntriesPassed, OneNamesake, Passed, FailuresAreOfPeople
  <2> QED
    BY <2>1, <2>7, <2>8, <2>9 DEF RowsInv
<1>5. CASE ResolveNew
  <2> DEFINE p == Head(left)
             q == Registered(p)
  <2>1. /\ phase = "valid" /\ left # << >> /\ Unique(p)
        /\ population' = population \cup {q}
        /\ team' = Append(team, Member(p, q)) /\ left' = Tail(left)
        /\ UNCHANGED <<draft, catalog, phase>>
    BY <1>5 DEF ResolveNew
  <2>2. p \in Participations /\ Len(team) \in Nat
    BY <2>1 DEF RowsInv, Progress
  <2>3. q.name = p.name /\ q.student = p.student /\ q.staff = p.staff /\ q \in People
    BY <2>2 DEF Registered, People, Participations
  <2>4. NamedBy(p, q)
    BY <2>3 DEF NamedBy, NameOnly
  <2> HIDE DEF q
  <2>5. IsFiniteSet(population') /\ population' \subseteq People
    BY <2>1, <2>3, FS_AddElement DEF RowsInv
  <2>6. IDsDiffer(population')
    BY <2>1, <2>3 DEF RowsInv, IDsDiffer, Unique
  <2>7. /\ Progress'
        /\ \A i \in DOMAIN team' : i \in DOMAIN draft.participations
                                     /\ NamedBy(draft.participations[i], team'[i].person)
        /\ \A role : Placed(role)'
    BY <2>1, <2>3, <2>4, MemberJoins
  <2>8. (CatalogErrors' = CatalogErrors) /\ (ClassificationErrors' = ClassificationErrors)
    BY <2>1 DEF CatalogErrors, ClassificationErrors, Found, VersionOf
  <2>9. q.made > 0 /\ q.made # 0
    BY <2>2 DEF q, Registered
  <2>10. EntriesPassed' /\ FailuresAreOfPeople' /\ (Passed' <=> Passed)
    BY <2>1, <2>9 DEF RowsInv, EntriesPassed, OneNamesake, Passed, FailuresAreOfPeople
  <2> QED
    BY <2>1, <2>5, <2>6, <2>7, <2>8, <2>10 DEF RowsInv
<1>6. CASE ResolveFails
  <2>1. phase = "valid" /\ phase' = "failed" /\ left # << >>
        /\ UNCHANGED <<draft, catalog, population, left, team>>
    BY <1>6 DEF ResolveFails
  <2>2. IDsOfTwo(Head(left)) \/ NamesakeMade(Head(left))
    BY <1>6, WhyItFails
  <2>3. FailuresAreOfPeople'
    BY <2>1, <2>2 DEF FailuresAreOfPeople, IDsOfTwo, NamesakeMade, Named
  <2> QED
    BY <1>1, <2>1, <2>3
<1>7. CASE CreateProject
  <2>1. /\ phase = "valid" /\ left = << >> /\ phase' = (IF SamePersonTwice THEN "failed" ELSE "created")
        /\ UNCHANGED <<draft, catalog, population, left, team>>
    BY <1>7 DEF CreateProject
  <2>2. SamePersonTwice => EntriesOfOne
    BY <2>1 DEF SamePersonTwice, EntriesOfOne, RowsInv, EntriesPassed, Passed
  <2>3. FailuresAreOfPeople'
    BY <2>1, <2>2 DEF FailuresAreOfPeople, EntriesOfOne
  <2> QED
    BY <1>1, <2>1, <2>3
<1> QED
    BY <1>2, <1>3, <1>4, <1>5, <1>6, <1>7 DEF RowNext

\* A key is one version's in a year.
LEMMA OneVersion ==
    ASSUME NEW versions, OneAYear(versions), \A v \in versions : v.from \in Int /\ v.to \in Int,
           NEW key, NEW year \in Int, VersionsOf(versions, key, year) # {}
    PROVE  \E v : VersionsOf(versions, key, year) = {v}
<1>1. \A v, w \in VersionsOf(versions, key, year) : v = w
    BY DEF VersionsOf, OneAYear
<1>2. PICK v : v \in VersionsOf(versions, key, year)
    OBVIOUS
<1>3. VersionsOf(versions, key, year) = {v}
    BY <1>1, <1>2
<1> QED
    BY <1>3

\* A row that passed has one version of each key, as its periods exclude each other.
LEMMA RowsSuffice == RowsInv => DraftsResolve
<1> SUFFICES ASSUME RowsInv PROVE DraftsResolve
    OBVIOUS
<1>1. KeysResolve
  <2> DEFINE program == VersionsOf(catalog.programs, draft.program, draft.year)
             course == VersionsOf(catalog.courses, draft.course, draft.year)
  <2> SUFFICES ASSUME Passed
               PROVE  /\ Cardinality(program) = 1 /\ Cardinality(course) = 1
                      /\ \A p \in program, c \in course : <<c.id, p.id>> \in catalog.links
                      /\ draft.major = Empty => \A p \in program : ~p.majorRequired
                      /\ draft.major # Empty => VersionsOf(catalog.majors, draft.major, draft.year) # {}
                      /\ \A i \in DOMAIN draft.terms : draft.terms[i] \in catalog.terms
                      /\ {"category", "platform"} \subseteq {draft.terms[i].dimension : i \in DOMAIN draft.terms}
    BY DEF KeysResolve, Passed
  <2>1. CatalogErrors = {} /\ ClassificationErrors = {} /\ draft.year \in Int
    BY ValidationAssumption DEF RowsInv
  <2>2. draft.year \in MinYear .. MaxYear
    BY <2>1 DEF CatalogErrors
  <2>3. program # {} /\ course # {}
        /\ (draft.major # Empty => VersionsOf(catalog.majors, draft.major, draft.year) # {})
    BY <2>1, <2>2 DEF CatalogErrors, Found
  <2>0. /\ OneAYear(catalog.programs) /\ OneAYear(catalog.courses)
        /\ \A v \in catalog.programs : v.from \in Int /\ v.to \in Int
        /\ \A v \in catalog.courses : v.from \in Int /\ v.to \in Int
    BY ValidationAssumption DEF RowsInv
  <2>4. PICK p : program = {p}
    BY <2>0, <2>1, <2>3, OneVersion
  <2>5. PICK c : course = {c}
    BY <2>0, <2>1, <2>3, OneVersion
  <2>6. VersionOf(catalog.programs, draft.program) = p /\ VersionOf(catalog.courses, draft.course) = c
    BY <2>4, <2>5 DEF VersionOf
  <2>7. /\ <<c.id, p.id>> \in catalog.links
        /\ draft.major = Empty => ~p.majorRequired
    BY <2>1, <2>2, <2>3, <2>6 DEF CatalogErrors, Found
  <2>8. /\ \A i \in DOMAIN draft.terms : draft.terms[i] \in catalog.terms
        /\ {"category", "platform"} \subseteq {draft.terms[i].dimension : i \in DOMAIN draft.terms}
    BY <2>1 DEF ClassificationErrors
  <2> QED
    BY <2>3, <2>4, <2>5, <2>7, <2>8, FS_Singleton
<1>2. ResolvedAsNamed
    BY DEF RowsInv, ResolvedAsNamed, NamedBy
<1>3. PositionsAreDense
    BY DEF RowsInv, PositionsAreDense, Placed
<1>4. FailuresAreOfPeople
    BY DEF RowsInv
<1> QED
    BY <1>1, <1>2, <1>3, <1>4 DEF DraftsResolve

\* Validation and resolution of a row (validation.go, service.go): the keys of a row
\* that passed are found, one version of each; whoever is resolved is who the row
\* names; and a row that passed fails only where its own entries clash as people.
THEOREM DraftsTheorem == RowSpec => []DraftsResolve
    BY RowsInit, RowsStep, RowsSuffice, PTL DEF RowSpec

-------------------------------------------------------------------------------
(* Files of both formats.                                                    *)

Rank(P, i) == Cardinality({j \in P : j <= i})

\* A place has fewer others before it than a later one.
LEMMA RanksGrow ==
  ASSUME NEW P \in SUBSET Int, IsFiniteSet(P), NEW i \in P, NEW k \in P, i < k
  PROVE  Rank(P, i) < Rank(P, k)
<1> DEFINE A == {j \in P : j <= i}
           B == {j \in P : j <= k}
<1>0. \A j \in P : j \in Int
  OBVIOUS
<1>1. A \in SUBSET B /\ k \in B /\ k \notin A
  <2>1. \A j \in A : j \in B
    BY <1>0
  <2>2. ~(k <= i) /\ k <= k
    BY <1>0
  <2> QED
    BY <2>1, <2>2
<1>2. IsFiniteSet(B)
  BY FS_Subset
<1>3. Cardinality(A) <= Cardinality(B) /\ Cardinality(A) # Cardinality(B)
  BY <1>1, <1>2, FS_Subset
<1>4. Cardinality(A) \in Nat /\ Cardinality(B) \in Nat
  BY <1>1, <1>2, FS_Subset, FS_CardinalityType
<1> QED
  BY <1>3, <1>4 DEF Rank

\* The places of a finite set are its first, its second, and so on.
LEMMA RanksFill ==
  ASSUME NEW P \in SUBSET Int, IsFiniteSet(P)
  PROVE  /\ \A i \in P : Rank(P, i) \in 1 .. Cardinality(P) /\ Nth(P, Rank(P, i)) = i
         /\ \A n \in 1 .. Cardinality(P) : Nth(P, n) \in P /\ Rank(P, Nth(P, n)) = n
<1> DEFINE c == Cardinality(P)
           f == [i \in P |-> Rank(P, i)]
<1>1. c \in Nat
  BY FS_CardinalityType
<1>2. ASSUME NEW i \in P
      PROVE  Rank(P, i) \in 1 .. c
  <2> DEFINE A == {j \in P : j <= i}
  <2>1. A \in SUBSET P /\ i \in A
    OBVIOUS
  <2>2. IsFiniteSet(A) /\ Cardinality(A) <= c
    BY <2>1, FS_Subset
  <2>3. Cardinality(A) \in Nat /\ Cardinality(A) # 0
    BY <2>1, <2>2, FS_CardinalityType, FS_EmptySet
  <2> QED
    BY <1>1, <2>2, <2>3 DEF Rank
<1>3. \A i, k \in P : Rank(P, i) = Rank(P, k) => i = k
  <2>1. ASSUME NEW i \in P, NEW k \in P, Rank(P, i) = Rank(P, k), i # k
        PROVE  FALSE
    <3>1. Rank(P, i) \in Int /\ Rank(P, k) \in Int
      BY <1>2
    <3>2. i < k \/ k < i
      BY <2>1
    <3>3. Rank(P, i) < Rank(P, k) \/ Rank(P, k) < Rank(P, i)
      BY <3>2, RanksGrow
    <3> QED
      BY <2>1, <3>1, <3>3
  <2> QED
    BY <2>1
<1>4. f \in Injection(P, 1 .. c)
  BY <1>2, <1>3 DEF Injection, IsInjective
<1>5. IsFiniteSet(1 .. c) /\ Cardinality(1 .. c) = c
  BY <1>1, FS_Interval
<1>6. f \in Surjection(P, 1 .. c)
  BY <1>4, <1>5, FS_Injection
<1>7. ASSUME NEW n \in 1 .. c
      PROVE  Nth(P, n) \in P /\ Rank(P, Nth(P, n)) = n
  <2>1. PICK i \in P : f[i] = n
    BY <1>6 DEF Surjection
  <2>2. \E k \in P : Cardinality({j \in P : j <= k}) = n
    BY <2>1 DEF Rank
  <2> QED
    BY <2>2 DEF Nth, Rank
<1>8. ASSUME NEW i \in P
      PROVE  Nth(P, Rank(P, i)) = i
  BY <1>2, <1>3, <1>7
<1> QED
  BY <1>2, <1>7, <1>8

\* What is picked is a sequence, of as many elements as there are places.
LEMMA Picked ==
  ASSUME NEW V, NEW s, NEW m \in Nat, NEW P \in SUBSET (1 .. m), \A i \in P : s[i] \in V
  PROVE  /\ Cardinality(P) \in Nat
         /\ Pick(s, P) \in Seq(V) /\ Len(Pick(s, P)) = Cardinality(P)
         /\ DOMAIN Pick(s, P) = 1 .. Cardinality(P)
         /\ \A n \in 1 .. Cardinality(P) : Nth(P, n) \in P /\ Pick(s, P)[n] = s[Nth(P, n)]
<1>0. IsFiniteSet(1 .. m)
  BY FS_Interval
<1>1. IsFiniteSet(P) /\ P \in SUBSET Int
  <2>1. P \in SUBSET Int
    OBVIOUS
  <2> QED
    BY <1>0, <2>1, FS_Subset
<1>2. Cardinality(P) \in Nat
  BY <1>1, FS_CardinalityType
<1>3. \A n \in 1 .. Cardinality(P) : Nth(P, n) \in P
  BY <1>1, RanksFill
<1> DEFINE c == Cardinality(P)
           g == [n \in 1 .. c |-> s[Nth(P, n)]]
<1>4. g \in [1 .. c -> V]
  BY <1>3
<1>5. g \in Seq(V) /\ Len(g) = c
  BY <1>2, <1>4
<1> QED
  BY <1>2, <1>3, <1>5 DEF Pick

\* The n-th of a block of places.
LEMMA NthOfBlock ==
  ASSUME NEW a \in Nat, NEW m \in Nat
  PROVE  /\ Cardinality(a + 1 .. a + m) = m
         /\ \A n \in 1 .. m : Nth(a + 1 .. a + m, n) = a + n
<1> DEFINE P == a + 1 .. a + m
<1>1. IsFiniteSet(P) /\ P \in SUBSET Int /\ Cardinality(P) = m
  BY FS_Interval
<1>2. ASSUME NEW n \in 1 .. m
      PROVE  Nth(P, n) = a + n
  <2>1. a + n \in P
    OBVIOUS
  <2>2. {j \in P : j <= a + n} = a + 1 .. a + n
    OBVIOUS
  <2>3. Cardinality(a + 1 .. a + n) = n
    BY FS_Interval
  <2>4. Rank(P, a + n) = n
    BY <2>2, <2>3 DEF Rank
  <2> QED
    BY <1>1, <2>1, <2>4, RanksFill
<1> QED
  BY <1>1, <1>2

\* The elements of s that are in V, in the order of s.
Those(s, V) == Pick(s, {i \in DOMAIN s : s[i] \in V})

\* All elements, or no element, of s in V.
AllIn(s, V) == \A i \in 1 .. Len(s) : s[i] \in V
NoneIn(s, V) == \A i \in 1 .. Len(s) : s[i] \notin V

\* They are all in V.
LEMMA ThoseType ==
  ASSUME NEW T, NEW s \in Seq(T), NEW V
  PROVE  Those(s, V) \in Seq(V)
<1> DEFINE P == {i \in DOMAIN s : s[i] \in V}
<1>1. P \in SUBSET (1 .. Len(s)) /\ Len(s) \in Nat /\ \A i \in P : s[i] \in V
  OBVIOUS
<1> QED
  BY <1>1, Picked DEF Those

\* What follows and is not in V does not count; what precedes only moves the
\* places; and a sequence over V is all of itself.
LEMMA ThoseBefore ==
  ASSUME NEW T, NEW V, NEW X \in Seq(T), NEW Y \in Seq(T), NoneIn(Y, V)
  PROVE  Those(X \o Y, V) = Those(X, V)
<1> USE DEF NoneIn
<1> DEFINE P == {i \in DOMAIN X : X[i] \in V}
           Q == {i \in DOMAIN (X \o Y) : (X \o Y)[i] \in V}
<1>1. X \o Y \in Seq(T) /\ Len(X \o Y) = Len(X) + Len(Y) /\ Len(X) \in Nat /\ Len(Y) \in Nat
      /\ DOMAIN (X \o Y) = 1 .. Len(X) + Len(Y) /\ DOMAIN X = 1 .. Len(X)
  OBVIOUS
<1>2. \A i \in 1 .. Len(X) : (X \o Y)[i] = X[i]
  OBVIOUS
<1>3. \A i \in Len(X) + 1 .. Len(X) + Len(Y) :
        i - Len(X) \in 1 .. Len(Y) /\ (X \o Y)[i] = Y[i - Len(X)]
  BY <1>1
<1>4. Q = P
  <2>1. \A i \in Q : i \in P
    <3>1. ASSUME NEW i \in Q, i \notin 1 .. Len(X) PROVE FALSE
      <4>1. i \in Len(X) + 1 .. Len(X) + Len(Y)
        BY <1>1, <3>1
      <4> QED
        BY <1>3, <3>1, <4>1
    <3> QED
      BY <1>1, <1>2, <3>1
  <2>2. \A i \in P : i \in Q
    BY <1>1, <1>2
  <2> QED
    BY <2>1, <2>2
<1>5. P \in SUBSET (1 .. Len(X))
  BY <1>1
<1>6. Cardinality(P) \in Nat /\ \A n \in 1 .. Cardinality(P) : Nth(P, n) \in P
  BY <1>1, <1>5, Picked
<1>7. \A n \in 1 .. Cardinality(P) : (X \o Y)[Nth(P, n)] = X[Nth(P, n)]
  BY <1>2, <1>5, <1>6
<1> HIDE DEF P, Q
<1>8. Pick(X \o Y, P) = Pick(X, P)
  BY <1>7 DEF Pick
<1> QED
  BY <1>4, <1>8 DEF Those, P, Q

LEMMA ThoseAfter ==
  ASSUME NEW T, NEW V, NEW X \in Seq(T), NEW Y \in Seq(T),
         NoneIn(X, V), AllIn(Y, V)
  PROVE  Those(X \o Y, V) = Y
<1> USE DEF AllIn, NoneIn
<1> DEFINE a == Len(X)
           m == Len(Y)
           Q == {i \in DOMAIN (X \o Y) : (X \o Y)[i] \in V}
<1>1. a \in Nat /\ m \in Nat /\ DOMAIN (X \o Y) = 1 .. a + m /\ Y = [n \in 1 .. m |-> Y[n]]
  OBVIOUS
<1>2. \A i \in 1 .. a : (X \o Y)[i] = X[i]
  OBVIOUS
<1>3. \A n \in 1 .. m : (X \o Y)[a + n] = Y[n]
  OBVIOUS
<1>4. Q = a + 1 .. a + m
  <2>1. \A i \in Q : i \in a + 1 .. a + m
    BY <1>1, <1>2
  <2>2. ASSUME NEW i \in a + 1 .. a + m PROVE i \in Q
    <3>1. i - a \in 1 .. m /\ i = a + (i - a) /\ i \in 1 .. a + m
      BY <1>1
    <3>2. (X \o Y)[i] = Y[i - a]
      BY <1>3, <3>1
    <3> QED
      BY <1>1, <3>1, <3>2
  <2> QED
    BY <2>1, <2>2
<1>5. Cardinality(Q) = m /\ \A n \in 1 .. m : Nth(Q, n) = a + n
  <2> HIDE DEF Q
  <2>1. Cardinality(a + 1 .. a + m) = m /\ \A n \in 1 .. m : Nth(a + 1 .. a + m, n) = a + n
    BY <1>1, NthOfBlock
  <2> QED
    BY <1>4, <2>1
<1> HIDE DEF a, m, Q
<1>6. Pick(X \o Y, Q) = [n \in 1 .. m |-> Y[n]]
  BY <1>3, <1>5 DEF Pick
<1> QED
  BY <1>1, <1>6 DEF Those, Q

LEMMA ThoseAll ==
  ASSUME NEW V, NEW Y, NEW m \in Nat, Y = [n \in 1 .. m |-> Y[n]], \A i \in 1 .. m : Y[i] \in V
  PROVE  Those(Y, V) = Y
<1> DEFINE Q == {i \in DOMAIN Y : Y[i] \in V}
<1>1. Q = 0 + 1 .. 0 + m
  OBVIOUS
<1>2. Cardinality(Q) = m /\ \A n \in 1 .. m : Nth(Q, n) = 0 + n
  BY <1>1, NthOfBlock
<1> HIDE DEF Q
<1>3. Pick(Y, Q) = [n \in 1 .. m |-> Y[n]]
  BY <1>2 DEF Pick
<1> QED
  BY <1>3 DEF Those, Q

\* Lists of four kinds that have nothing in common.
FourLists(V1, V2, V3, V4, A, B, C, D) ==
  /\ A \in Seq(V1) /\ B \in Seq(V2) /\ C \in Seq(V3) /\ D \in Seq(V4)
  /\ V1 \cap V2 = {} /\ V1 \cap V3 = {} /\ V1 \cap V4 = {}
  /\ V2 \cap V3 = {} /\ V2 \cap V4 = {} /\ V3 \cap V4 = {}

\* Each of them in the list that appends them.
FoundAgain(V1, V2, V3, V4, A, B, C, D) ==
  LET all == A \o B \o C \o D IN
  Those(all, V1) = A /\ Those(all, V2) = B /\ Those(all, V3) = C /\ Those(all, V4) = D

\* Where kinds follow each other, each is found again.
LEMMA FourKinds ==
  ASSUME NEW V1, NEW V2, NEW V3, NEW V4, NEW A, NEW B, NEW C, NEW D,
         FourLists(V1, V2, V3, V4, A, B, C, D)
  PROVE  /\ A \o B \o C \o D \in Seq(V1 \cup V2 \cup V3 \cup V4)
         /\ FoundAgain(V1, V2, V3, V4, A, B, C, D)
<1> DEFINE U == V1 \cup V2 \cup V3 \cup V4
<1>0. A \in Seq(V1) /\ B \in Seq(V2) /\ C \in Seq(V3) /\ D \in Seq(V4)
  BY DEF FourLists
<1>1. \A W \in SUBSET U : \A s \in Seq(W) : s \in Seq(U) /\ Len(s) \in Nat /\ \A i \in 1 .. Len(s) : s[i] \in W
  OBVIOUS
<1>2. A \in Seq(U) /\ B \in Seq(U) /\ C \in Seq(U) /\ D \in Seq(U)
  BY <1>0, <1>1
<1>3. A \o B \in Seq(V1 \cup V2) /\ (A \o B) \o C \in Seq(V1 \cup V2 \cup V3)
      /\ ((A \o B) \o C) \o D \in Seq(U)
  <2>1. A \in Seq(V1 \cup V2) /\ B \in Seq(V1 \cup V2)
    BY <1>0
  <2>2. A \o B \in Seq(V1 \cup V2)
    BY <2>1
  <2>3. A \o B \in Seq(V1 \cup V2 \cup V3) /\ C \in Seq(V1 \cup V2 \cup V3)
    BY <1>0, <2>2
  <2>4. (A \o B) \o C \in Seq(V1 \cup V2 \cup V3)
    BY <2>3
  <2>5. (A \o B) \o C \in Seq(U)
    BY <2>4
  <2> QED
    BY <1>2, <2>2, <2>4, <2>5
<1>4. A \o B \in Seq(U) /\ (A \o B) \o C \in Seq(U)
  BY <1>1, <1>3
<1>5. ASSUME NEW W, NEW V, W \cap V = {}, NEW s \in Seq(W)
      PROVE  AllIn(s, W) /\ NoneIn(s, V)
  <2>1. \A i \in 1 .. Len(s) : s[i] \in W
    OBVIOUS
  <2> QED
    BY <1>5, <2>1 DEF AllIn, NoneIn
<1>6. /\ AllIn(B, V2) /\ AllIn(C, V3) /\ AllIn(D, V4)
      /\ NoneIn(A, V2) /\ NoneIn(B, V1) /\ NoneIn(C, V1) /\ NoneIn(C, V2)
      /\ NoneIn(D, V1) /\ NoneIn(D, V2) /\ NoneIn(D, V3)
      /\ NoneIn(A \o B, V3) /\ NoneIn((A \o B) \o C, V4)
  <2>1. V2 \cap V1 = {} /\ V3 \cap V1 = {} /\ V3 \cap V2 = {}
        /\ V4 \cap V1 = {} /\ V4 \cap V2 = {} /\ V4 \cap V3 = {}
        /\ (V1 \cup V2) \cap V3 = {} /\ (V1 \cup V2 \cup V3) \cap V4 = {}
        /\ V1 \cap V2 = {}
    BY DEF FourLists
  <2> QED
    BY <1>0, <1>3, <1>5, <2>1
<1>7. Those(A, V1) = A
  <2>1. Len(A) \in Nat /\ A = [n \in 1 .. Len(A) |-> A[n]] /\ \A i \in 1 .. Len(A) : A[i] \in V1
    BY <1>0
  <2> QED
    BY <2>1, ThoseAll
<1>8. Those(A \o B, V1) = A
  BY <1>2, <1>6, <1>7, ThoseBefore
<1>9. Those(A \o B, V2) = B
  BY <1>2, <1>6, ThoseAfter
<1>10. Those((A \o B) \o C, V1) = A /\ Those((A \o B) \o C, V2) = B
  <2>1. Those((A \o B) \o C, V1) = Those(A \o B, V1)
    BY <1>2, <1>4, <1>6, ThoseBefore
  <2>2. Those((A \o B) \o C, V2) = Those(A \o B, V2)
    BY <1>2, <1>4, <1>6, ThoseBefore
  <2> QED
    BY <1>8, <1>9, <2>1, <2>2
<1>11. Those((A \o B) \o C, V3) = C
  BY <1>2, <1>4, <1>6, ThoseAfter
<1>12. /\ Those(((A \o B) \o C) \o D, V1) = A /\ Those(((A \o B) \o C) \o D, V2) = B
       /\ Those(((A \o B) \o C) \o D, V3) = C
  <2> DEFINE X == (A \o B) \o C
  <2> HIDE DEF X
  <2>1. \A V : NoneIn(D, V) => Those(X \o D, V) = Those(X, V)
    BY <1>2, <1>4, ThoseBefore DEF X
  <2> QED
    BY <1>6, <1>10, <1>11, <2>1 DEF X
<1>13. Those(((A \o B) \o C) \o D, V4) = D
  BY <1>2, <1>4, <1>6, ThoseAfter
<1> QED
  BY <1>3, <1>12, <1>13 DEF FoundAgain

\* And of a fifth.
FiveLists(W1, W2, W3, W4, W5, K, L, M, N, O) ==
  /\ FourLists(W1, W2, W3, W4, K, L, M, N)
  /\ W5 \cap (W1 \cup W2 \cup W3 \cup W4) = {} /\ O \in Seq(W5)

LEMMA FiveKinds ==
  ASSUME NEW W1, NEW W2, NEW W3, NEW W4, NEW W5, NEW K, NEW L, NEW M, NEW N, NEW O,
         FiveLists(W1, W2, W3, W4, W5, K, L, M, N, O)
  PROVE  /\ K \o L \o M \o N \o O \in Seq(W1 \cup W2 \cup W3 \cup W4 \cup W5)
         /\ Those(K \o L \o M \o N \o O, W1) = K /\ Those(K \o L \o M \o N \o O, W2) = L
         /\ Those(K \o L \o M \o N \o O, W3) = M /\ Those(K \o L \o M \o N \o O, W4) = N
         /\ Those(K \o L \o M \o N \o O, W5) = O
<1> DEFINE U == W1 \cup W2 \cup W3 \cup W4
           X == K \o L \o M \o N
<1>1. X \in Seq(U) /\ Those(X, W1) = K /\ Those(X, W2) = L /\ Those(X, W3) = M /\ Those(X, W4) = N
  <2>0. FourLists(W1, W2, W3, W4, K, L, M, N)
    BY DEF FiveLists
  <2> HIDE DEF FiveLists
  <2>1. K \o L \o M \o N \in Seq(W1 \cup W2 \cup W3 \cup W4)
    BY <2>0, FourKinds
  <2>2. FoundAgain(W1, W2, W3, W4, K, L, M, N)
    BY <2>0, FourKinds
  <2> QED
    BY <2>1, <2>2 DEF FoundAgain
<1> HIDE DEF X
<1>0. O \in Seq(W5) /\ W5 \cap U = {}
  BY DEF FiveLists
<1>2. X \in Seq(U \cup W5) /\ O \in Seq(U \cup W5) /\ X \o O \in Seq(U \cup W5)
  <2>1. X \in Seq(U \cup W5) /\ O \in Seq(U \cup W5)
    BY <1>0, <1>1
  <2> QED
    BY <2>1
<1>3. NoneIn(X, W5)
  <2>1. \A i \in 1 .. Len(X) : X[i] \in U
    BY <1>1
  <2> QED
    BY <1>0, <2>1 DEF NoneIn
<1>4. AllIn(O, W5) /\ NoneIn(O, W1) /\ NoneIn(O, W2) /\ NoneIn(O, W3) /\ NoneIn(O, W4)
  <2>1. \A i \in 1 .. Len(O) : O[i] \in W5
    BY <1>0
  <2> QED
    BY <1>0, <2>1 DEF AllIn, NoneIn
<1> HIDE DEF U
<1>5. Those(X \o O, W5) = O
  BY <1>2, <1>3, <1>4, ThoseAfter
<1>6. Those(X \o O, W1) = K /\ Those(X \o O, W2) = L /\ Those(X \o O, W3) = M /\ Those(X \o O, W4) = N
  BY <1>1, <1>2, <1>4, ThoseBefore
<1> QED
  BY <1>2, <1>5, <1>6 DEF X, U

\* Rows whose keys are known, each by one project, are listed once.
LEMMA ListedOnce ==
  ASSUME NEW keys, NEW children, NEW m \in Nat, DOMAIN children = 1 .. m,
         \A i, k \in DOMAIN keys : keys[i] = keys[k] => i = k,
         \A j \in 1 .. m : \E i \in DOMAIN keys : children[j].key = keys[i],
         NEW lists, DOMAIN lists = DOMAIN keys,
         \A i \in DOMAIN keys : DOMAIN lists[i] = DOMAIN Joined(children, keys[i])
  PROVE  Total(lists) = m
<1> DEFINE At(i) == {j \in DOMAIN children : children[j].key = keys[i]}
           Blocks == UNION {{i} \X DOMAIN lists[i] : i \in DOMAIN lists}
           Of(j) == CHOOSE i \in DOMAIN keys : children[j].key = keys[i]
           f == [j \in 1 .. m |-> <<Of(j), Rank(At(Of(j)), j)>>]
<1>1. \A i : At(i) \in SUBSET Int /\ At(i) \in SUBSET (1 .. m)
  OBVIOUS
<1>2. \A i : IsFiniteSet(At(i))
  <2>1. IsFiniteSet(1 .. m)
    BY FS_Interval
  <2> QED
    BY <1>1, <2>1, FS_Subset
<1>3. \A i \in DOMAIN keys : DOMAIN lists[i] = 1 .. Cardinality(At(i))
  BY DEF Joined, Pick
<1>4. \A j \in 1 .. m : Of(j) \in DOMAIN keys /\ children[j].key = keys[Of(j)]
  OBVIOUS
<1>5. \A j \in 1 .. m : j \in At(Of(j))
  BY <1>4
<1> HIDE DEF At, Of
<1>6. \A x : x \in Blocks <=> \E i \in DOMAIN keys : \E n \in 1 .. Cardinality(At(i)) : x = <<i, n>>
  <2>1. \A x : x \in Blocks <=> \E i \in DOMAIN keys : x \in {i} \X DOMAIN lists[i]
    OBVIOUS
  <2>2. \A i, x : x \in {i} \X DOMAIN lists[i] <=> \E n \in DOMAIN lists[i] : x = <<i, n>>
    OBVIOUS
  <2> HIDE DEF Blocks
  <2>3. \A x : x \in Blocks <=> \E i \in DOMAIN keys : \E n \in DOMAIN lists[i] : x = <<i, n>>
    BY <2>1, <2>2
  <2>4. ASSUME NEW i \in DOMAIN keys, NEW x
        PROVE  (\E n \in DOMAIN lists[i] : x = <<i, n>>) <=> \E n \in 1 .. Cardinality(At(i)) : x = <<i, n>>
    BY <1>3
  <2> QED
    BY <2>3, <2>4
<1> HIDE DEF Blocks
<1>7. \A i : \A j \in At(i) : Rank(At(i), j) \in 1 .. Cardinality(At(i)) /\ Nth(At(i), Rank(At(i), j)) = j
  BY <1>1, <1>2, RanksFill
<1>8. \A i : \A n \in 1 .. Cardinality(At(i)) : Nth(At(i), n) \in At(i) /\ Rank(At(i), Nth(At(i), n)) = n
  BY <1>1, <1>2, RanksFill
<1>9. f \in [1 .. m -> Blocks]
  BY <1>4, <1>5, <1>6, <1>7
<1>10. ASSUME NEW j \in 1 .. m, NEW k \in 1 .. m, f[j] = f[k]
       PROVE  j = k
  <2>1. Of(j) = Of(k) /\ Rank(At(Of(j)), j) = Rank(At(Of(k)), k)
    BY <1>10
  <2> QED
    BY <1>5, <1>7, <2>1
<1>11. ASSUME NEW x \in Blocks
       PROVE  \E j \in 1 .. m : f[j] = x
  <2>1. PICK i \in DOMAIN keys : \E n \in 1 .. Cardinality(At(i)) : x = <<i, n>>
    BY <1>6
  <2>2. PICK n \in 1 .. Cardinality(At(i)) : x = <<i, n>>
    BY <2>1
  <2> DEFINE j == Nth(At(i), n)
  <2>3. j \in At(i) /\ Rank(At(i), j) = n
    BY <1>8
  <2>4. j \in 1 .. m
    BY <1>1, <2>3
  <2>5. children[j].key = keys[i]
    BY <2>3 DEF At
  <2>6. Of(j) = i
    BY <1>4, <2>4, <2>5
  <2> HIDE DEF j
  <2>7. f[j] = x
    BY <2>2, <2>3, <2>4, <2>6
  <2> QED
    BY <2>4, <2>7
<1>12. f \in Bijection(1 .. m, Blocks)
  BY <1>9, <1>10, <1>11 DEF Bijection, Injection, IsInjective, Surjection
<1>13. ExistsBijection(1 .. m, Blocks)
  BY <1>12 DEF ExistsBijection
<1>14. IsFiniteSet(1 .. m) /\ Cardinality(1 .. m) = m
  BY FS_Interval
<1>15. Cardinality(Blocks) = m
  BY <1>13, <1>14, FS_Bijection
<1> QED
  BY <1>15 DEF Total, Blocks

\* The rows that are kept of any sheet of a workbook.
LEMMA KeptRows ==
  ASSUME NEW S, NEW s \in Seq(S)
  PROVE  /\ Len(Keep(s)) \in Nat /\ DOMAIN Keep(s) = 1 .. Len(Keep(s))
         /\ \A i \in DOMAIN Keep(s) : Keep(s)[i] \in S /\ Keep(s)[i] # Blank
<1> DEFINE P == {i \in DOMAIN s : s[i] # Blank}
           V == S \ {Blank}
<1>1. P \in SUBSET (1 .. Len(s)) /\ Len(s) \in Nat /\ \A i \in P : s[i] \in V
  OBVIOUS
<1>2. Pick(s, P) \in Seq(V)
  BY <1>1, Picked
<1>3. Keep(s) \in Seq(V)
  BY <1>2 DEF Keep
<1> HIDE DEF V
<1>4. Len(Keep(s)) \in Nat /\ DOMAIN Keep(s) = 1 .. Len(Keep(s)) /\ \A i \in DOMAIN Keep(s) : Keep(s)[i] \in V
  BY <1>3
<1> QED
  BY <1>4 DEF V

\* What an accepted workbook says.
Mains(book) == Keep(book.Projects.rows)
Persons(book) == Keep(book.Participations.rows)
Marks(book) == Keep(book.Classifications.rows)

LEMMA AcceptedBook ==
  ASSUME NEW book \in Uploads, book.format = "xlsx", Parse(book).ok
  PROVE  /\ Parse(book).value = [i \in DOMAIN Mains(book) |->
              [key |-> Mains(book)[i].key,
               participations |-> PeopleOf(Persons(book), Mains(book)[i].key),
               classifications |-> TermsOf(Marks(book), Mains(book)[i].key)]]
         /\ UniqueKeys(Mains(book))
         /\ \A j \in DOMAIN Persons(book) :
              \E i \in DOMAIN Mains(book) : Persons(book)[j].key = Mains(book)[i].key
         /\ \A j \in DOMAIN Marks(book) :
              \E i \in DOMAIN Mains(book) : Marks(book)[j].key = Mains(book)[i].key
         /\ \E m \in Nat : DOMAIN Mains(book) = 1 .. m /\ Len(Mains(book)) = m
         /\ \E m \in Nat : DOMAIN Persons(book) = 1 .. m /\ Len(Persons(book)) = m
         /\ \E m \in Nat : DOMAIN Marks(book) = 1 .. m /\ Len(Marks(book)) = m
<1> DEFINE mains == Mains(book)
           persons == Persons(book)
           terms == Marks(book)
<1>1. Parse(book) = ParseXLSX(book) /\ ParseXLSX(book) # Rejected
  BY DEF Parse, Rejected
<1> DEFINE P == WorkbookRows(book.Projects, MaxProjects)
           Q == WorkbookRows(book.Participations, MaxChildren)
           R == WorkbookRows(book.Classifications, MaxChildren)
           keys == {P.value[i].key : i \in DOMAIN P.value}
<1>2. /\ P.ok /\ Q.ok /\ R.ok /\ UniqueKeys(P.value)
      /\ KnownKeys(Q.value, keys) /\ KnownKeys(R.value, keys)
      /\ ParseXLSX(book) = Accepted([i \in DOMAIN P.value |->
           Draft(P.value[i].key, PeopleOf(Q.value, P.value[i].key), TermsOf(R.value, P.value[i].key))])
  <2> HIDE DEF P, Q, R
  <2> QED
    BY <1>1 DEF ParseXLSX, P, Q, R
<1>3. P.value = mains /\ Q.value = persons /\ R.value = terms
  BY <1>2 DEF WorkbookRows, Accepted, Rejected, Mains, Persons, Marks
<1> HIDE DEF P, Q, R, mains, persons, terms
<1>4. \A j \in DOMAIN persons : \E i \in DOMAIN mains : persons[j].key = mains[i].key
  BY <1>2, <1>3 DEF KnownKeys
<1>5. \A j \in DOMAIN terms : \E i \in DOMAIN mains : terms[j].key = mains[i].key
  BY <1>2, <1>3 DEF KnownKeys
<1>6. Parse(book).value = [i \in DOMAIN mains |->
        Draft(mains[i].key, PeopleOf(persons, mains[i].key), TermsOf(terms, mains[i].key))]
  BY <1>1, <1>2, <1>3 DEF Accepted
<1>7. /\ Len(mains) \in Nat /\ DOMAIN mains = 1 .. Len(mains)
      /\ Len(persons) \in Nat /\ DOMAIN persons = 1 .. Len(persons)
      /\ Len(terms) \in Nat /\ DOMAIN terms = 1 .. Len(terms)
  BY ParsingAssumption, KeptRows DEF Mains, Persons, Marks, mains, persons, terms
<1> QED
  BY <1>2, <1>3, <1>4, <1>5, <1>6, <1>7 DEF Draft, mains, persons, terms

\* No row of an accepted workbook is lost or counted twice.
LEMMA RowsAreKept ==
  ASSUME NEW book \in Uploads, book.format = "xlsx", Parse(book).ok, NEW value, value = Parse(book).value
  PROVE  /\ Len(value) = Count(book.Projects)
         /\ Total([i \in DOMAIN value |-> value[i].participations]) = Count(book.Participations)
         /\ Total([i \in DOMAIN value |-> value[i].classifications]) = Count(book.Classifications)
<1> DEFINE mains == Mains(book)
           persons == Persons(book)
           terms == Marks(book)
           keys == [i \in DOMAIN mains |-> mains[i].key]
           lists == [i \in DOMAIN value |-> value[i].participations]
           marks == [i \in DOMAIN value |-> value[i].classifications]
<1> HIDE DEF mains, persons, terms
<1>1. /\ value = [i \in DOMAIN mains |->
              [key |-> mains[i].key, participations |-> PeopleOf(persons, mains[i].key),
               classifications |-> TermsOf(terms, mains[i].key)]]
      /\ UniqueKeys(mains)
      /\ \A j \in DOMAIN persons : \E i \in DOMAIN mains : persons[j].key = mains[i].key
      /\ \A j \in DOMAIN terms : \E i \in DOMAIN mains : terms[j].key = mains[i].key
      /\ \E m \in Nat : DOMAIN mains = 1 .. m /\ Len(mains) = m
      /\ \E m \in Nat : DOMAIN persons = 1 .. m /\ Len(persons) = m
      /\ \E m \in Nat : DOMAIN terms = 1 .. m /\ Len(terms) = m
  BY AcceptedBook DEF mains, persons, terms
<1>2. Len(value) = Len(mains)
  BY <1>1
<1>3. \A i, k \in DOMAIN keys : keys[i] = keys[k] => i = k
  BY <1>1 DEF UniqueKeys
<1>4. DOMAIN lists = DOMAIN keys /\ DOMAIN marks = DOMAIN keys
      /\ \A i \in DOMAIN keys : /\ lists[i] = PeopleOf(persons, keys[i])
                                /\ marks[i] = TermsOf(terms, keys[i])
  BY <1>1
<1>5. /\ \A i \in DOMAIN keys : DOMAIN lists[i] = DOMAIN Joined(persons, keys[i])
      /\ \A i \in DOMAIN keys : DOMAIN marks[i] = DOMAIN Joined(terms, keys[i])
  BY <1>4 DEF PeopleOf, TermsOf
<1>6. /\ \A j \in DOMAIN persons : \E i \in DOMAIN keys : persons[j].key = keys[i]
      /\ \A j \in DOMAIN terms : \E i \in DOMAIN keys : terms[j].key = keys[i]
  BY <1>1
<1> HIDE DEF keys, lists, marks
<1>7. Total(lists) = Len(persons)
  <2>1. PICK m \in Nat : DOMAIN persons = 1 .. m /\ Len(persons) = m
    BY <1>1
  <2> QED
    BY <1>3, <1>4, <1>5, <1>6, <2>1, ListedOnce
<1>8. Total(marks) = Len(terms)
  <2>1. PICK m \in Nat : DOMAIN terms = 1 .. m /\ Len(terms) = m
    BY <1>1
  <2> QED
    BY <1>3, <1>4, <1>5, <1>6, <2>1, ListedOnce
<1> QED
  BY <1>2, <1>7, <1>8 DEF Count, Mains, Persons, Marks, mains, persons, terms, lists, marks

\* The entries of a list with a role, or of a dimension.
WithRole(s, role) == {x \in {s[i] : i \in DOMAIN s} : x.role = role}
Within(s, d) == {x \in {s[i] : i \in DOMAIN s} : x.dimension = d}

\* What a line's cell holds are the list's entries of its column.
LEMMA CellsHoldKinds ==
  ASSUME NEW U, NEW s \in Seq(U), NEW c
  PROVE  /\ InRole(s, c) = Those(s, WithRole(s, c)) /\ InRole(s, c) \in Seq(WithRole(s, c))
         /\ OfDimension(s, c) = Those(s, Within(s, c)) /\ OfDimension(s, c) \in Seq(Within(s, c))
<1>1. {i \in DOMAIN s : s[i].role = c} = {i \in DOMAIN s : s[i] \in WithRole(s, c)}
  BY DEF WithRole
<1>2. {i \in DOMAIN s : s[i].dimension = c} = {i \in DOMAIN s : s[i] \in Within(s, c)}
  BY DEF Within
<1> QED
  BY <1>1, <1>2, ThoseType DEF InRole, OfDimension, Those

\* A list that was put together from a line's cells has the same persons in each role.
LEMMA SamePeople ==
  ASSUME NEW U, NEW s \in Seq(U), NEW role \in PeopleColumns
  PROVE  InRole(InRole(s, "student") \o InRole(s, "advisor") \o InRole(s, "co_advisor")
                  \o InRole(s, "committee_member"), role) = InRole(s, role)
<1> DEFINE W(c) == WithRole(s, c)
           T == W("student") \cup W("advisor") \cup W("co_advisor") \cup W("committee_member")
           all == InRole(s, "student") \o InRole(s, "advisor") \o InRole(s, "co_advisor")
                    \o InRole(s, "committee_member")
<1>1. \A c : InRole(s, c) \in Seq(W(c))
  BY CellsHoldKinds
<1>2. \A c, d : c # d => W(c) \cap W(d) = {}
  BY DEF WithRole
<1>3. FourLists(W("student"), W("advisor"), W("co_advisor"), W("committee_member"),
                InRole(s, "student"), InRole(s, "advisor"), InRole(s, "co_advisor"),
                InRole(s, "committee_member"))
  BY <1>1, <1>2 DEF FourLists
<1> HIDE DEF W
<1>4. /\ all \in Seq(T)
      /\ Those(all, W("student")) = InRole(s, "student") /\ Those(all, W("advisor")) = InRole(s, "advisor")
      /\ Those(all, W("co_advisor")) = InRole(s, "co_advisor")
      /\ Those(all, W("committee_member")) = InRole(s, "committee_member")
  BY <1>3, FourKinds DEF FoundAgain
<1> HIDE DEF all
<1>5. Those(all, W(role)) = InRole(s, role)
  BY <1>4 DEF PeopleColumns
<1>6. {i \in DOMAIN all : all[i].role = role} = {i \in DOMAIN all : all[i] \in W(role)}
  <2>1. \A i \in DOMAIN all : all[i] \in T
    BY <1>4
  <2>2. \A x \in T : x \in {s[i] : i \in DOMAIN s}
    BY DEF W, WithRole
  <2>3. \A x \in {s[i] : i \in DOMAIN s} : x.role = role <=> x \in W(role)
    BY DEF W, WithRole
  <2> QED
    BY <2>1, <2>2, <2>3
<1> QED
  BY <1>5, <1>6 DEF InRole, Those, all

\* The same of terms and dimensions.
LEMMA SameTerms ==
  ASSUME NEW U, NEW s \in Seq(U), NEW d \in TermColumns
  PROVE  OfDimension(OfDimension(s, "category") \o OfDimension(s, "platform") \o OfDimension(s, "domain")
                       \o OfDimension(s, "topic") \o OfDimension(s, "technology"), d)
           = OfDimension(s, d)
<1> DEFINE W(c) == Within(s, c)
           T == W("category") \cup W("platform") \cup W("domain") \cup W("topic") \cup W("technology")
           all == OfDimension(s, "category") \o OfDimension(s, "platform") \o OfDimension(s, "domain")
                    \o OfDimension(s, "topic") \o OfDimension(s, "technology")
<1>1. \A c : OfDimension(s, c) \in Seq(W(c))
  BY CellsHoldKinds
<1>2. \A c, e : c # e => W(c) \cap W(e) = {}
  BY DEF Within
<1>3. FiveLists(W("category"), W("platform"), W("domain"), W("topic"), W("technology"),
                OfDimension(s, "category"), OfDimension(s, "platform"), OfDimension(s, "domain"),
                OfDimension(s, "topic"), OfDimension(s, "technology"))
  <2>1. FourLists(W("category"), W("platform"), W("domain"), W("topic"),
                  OfDimension(s, "category"), OfDimension(s, "platform"), OfDimension(s, "domain"),
                  OfDimension(s, "topic"))
    BY <1>1, <1>2 DEF FourLists
  <2>2. /\ W("technology") \cap W("category") = {} /\ W("technology") \cap W("platform") = {}
        /\ W("technology") \cap W("domain") = {} /\ W("technology") \cap W("topic") = {}
    BY <1>2
  <2> QED
    BY <1>1, <2>1, <2>2 DEF FiveLists
<1> HIDE DEF W
<1>4. /\ all \in Seq(T)
      /\ Those(all, W("category")) = OfDimension(s, "category")
      /\ Those(all, W("platform")) = OfDimension(s, "platform")
      /\ Those(all, W("domain")) = OfDimension(s, "domain")
      /\ Those(all, W("topic")) = OfDimension(s, "topic")
      /\ Those(all, W("technology")) = OfDimension(s, "technology")
  BY <1>3, FiveKinds
<1> HIDE DEF all
<1>5. Those(all, W(d)) = OfDimension(s, d)
  BY <1>4 DEF TermColumns
<1>6. {i \in DOMAIN all : all[i].dimension = d} = {i \in DOMAIN all : all[i] \in W(d)}
  <2>1. \A i \in DOMAIN all : all[i] \in T
    BY <1>4
  <2>2. \A x \in T : x \in {s[i] : i \in DOMAIN s}
    BY DEF W, Within
  <2>3. \A x \in {s[i] : i \in DOMAIN s} : x.dimension = d <=> x \in W(d)
    BY DEF W, Within
  <2> QED
    BY <2>1, <2>2, <2>3
<1> QED
  BY <1>5, <1>6 DEF OfDimension, Those, all

\* The CSV lines of a workbook are read as the workbook is.
LEMMA LinesAgree ==
  ASSUME NEW book \in Uploads, book.format = "xlsx", Parse(book).ok, Parse(AsCsv(book)).ok
  PROVE  /\ Len(Parse(AsCsv(book)).value) = Len(Parse(book).value)
         /\ \A i \in DOMAIN Parse(AsCsv(book)).value :
              SameDraft(Parse(AsCsv(book)).value[i], Parse(book).value[i])
<1> DEFINE mains == Mains(book)
           persons == Persons(book)
           terms == Marks(book)
           lines == [i \in DOMAIN mains |-> AsLine(mains[i], persons, terms)]
           csv == AsCsv(book)
<1>1. csv.format = "csv" /\ csv.rows = lines
  BY DEF AsCsv, Mains, Persons, Marks
<1> HIDE DEF csv, mains, persons, terms
<1>2. /\ Parse(book).value = [i \in DOMAIN mains |->
              [key |-> mains[i].key, participations |-> PeopleOf(persons, mains[i].key),
               classifications |-> TermsOf(terms, mains[i].key)]]
      /\ \E m \in Nat : DOMAIN mains = 1 .. m /\ Len(mains) = m
      /\ \E m \in Nat : DOMAIN persons = 1 .. m
      /\ \E m \in Nat : DOMAIN terms = 1 .. m
  BY AcceptedBook DEF mains, persons, terms
<1>3. Keep(lines) = lines
  <2>1. PICK m \in Nat : DOMAIN mains = 1 .. m
    BY <1>2
  <2>2. \A i \in 1 .. m : lines[i] # Blank
    <3>1. ASSUME NEW i \in 1 .. m PROVE lines[i] # Blank
      <4>1. "key" \in DOMAIN lines[i] /\ "key" \notin DOMAIN Blank
        BY <2>1 DEF AsLine, Blank
      <4> QED
        BY <4>1
    <3> QED
      BY <3>1
  <2> DEFINE V == {lines[i] : i \in 1 .. m}
  <2>3. DOMAIN lines = 1 .. m /\ lines = [n \in 1 .. m |-> lines[n]]
    BY <2>1
  <2> HIDE DEF lines
  <2>4. Those(lines, V) = lines
    BY <2>3, ThoseAll
  <2>5. {i \in DOMAIN lines : lines[i] \in V} = {i \in DOMAIN lines : lines[i] # Blank}
    BY <2>2, <2>3
  <2> QED
    BY <2>4, <2>5 DEF Keep, Those
<1>4. Parse(csv) = Accepted([i \in DOMAIN lines |-> CsvDraft(lines[i])])
  <2> HIDE DEF lines
  <2>1. Parse(csv) = ParseCSV(csv) /\ ParseCSV(csv) # Rejected
    BY <1>1 DEF Parse, Rejected, csv
  <2> QED
    BY <1>1, <1>3, <2>1 DEF ParseCSV
<1>5. Parse(csv).value = [i \in DOMAIN mains |-> CsvDraft(lines[i])]
  BY <1>4 DEF Accepted
<1>6. Len(Parse(csv).value) = Len(Parse(book).value)
  BY <1>2, <1>5
<1>7. ASSUME NEW i \in DOMAIN mains
      PROVE  SameDraft(Parse(csv).value[i], Parse(book).value[i])
  <2> DEFINE key == mains[i].key
             mine == PeopleOf(persons, key)
             marked == TermsOf(terms, key)
             line == lines[i]
  <2>1. /\ line.key = key
        /\ \A c \in PeopleColumns : line.cells[c] = InRole(mine, c)
        /\ \A c \in TermColumns : line.cells[c] = OfDimension(marked, c)
    BY DEF AsLine, PeopleColumns, TermColumns
  <2>2. mine \in Seq({mine[j] : j \in DOMAIN mine})
    <3>1. PICK m \in Nat : DOMAIN persons = 1 .. m
      BY <1>2
    <3> DEFINE P == {j \in DOMAIN persons : persons[j].key = key}
    <3>2. DOMAIN mine = 1 .. Cardinality(P) /\ mine = [j \in DOMAIN mine |-> mine[j]]
      BY DEF PeopleOf, Joined, Pick
    <3>3. Cardinality(P) \in Nat
      <4>1. IsFiniteSet(1 .. m) /\ P \in SUBSET (1 .. m)
        BY <3>1, FS_Interval
      <4> QED
        BY <4>1, FS_Subset, FS_CardinalityType
    <3> HIDE DEF mine, P
    <3>4. \A c \in Nat : \A g : DOMAIN g = 1 .. c /\ g = [j \in DOMAIN g |-> g[j]] => g \in Seq({g[j] : j \in DOMAIN g})
      OBVIOUS
    <3> QED
      BY <3>2, <3>3, <3>4
  <2>3. marked \in Seq({marked[j] : j \in DOMAIN marked})
    <3>1. PICK m \in Nat : DOMAIN terms = 1 .. m
      BY <1>2
    <3> DEFINE P == {j \in DOMAIN terms : terms[j].key = key}
    <3>2. DOMAIN marked = 1 .. Cardinality(P) /\ marked = [j \in DOMAIN marked |-> marked[j]]
      BY DEF TermsOf, Joined, Pick
    <3>3. Cardinality(P) \in Nat
      <4>1. IsFiniteSet(1 .. m) /\ P \in SUBSET (1 .. m)
        BY <3>1, FS_Interval
      <4> QED
        BY <4>1, FS_Subset, FS_CardinalityType
    <3> HIDE DEF marked, P
    <3>4. \A c \in Nat : \A g : DOMAIN g = 1 .. c /\ g = [j \in DOMAIN g |-> g[j]] => g \in Seq({g[j] : j \in DOMAIN g})
      OBVIOUS
    <3> QED
      BY <3>2, <3>3, <3>4
  <2>4. Parse(csv).value[i] = CsvDraft(line)
    BY <1>5
  <2>5. Parse(book).value[i] = [key |-> key, participations |-> mine, classifications |-> marked]
    BY <1>2
  <2> HIDE DEF key, mine, marked, line, lines
  <2>6. /\ CsvDraft(line).key = key
        /\ CsvDraft(line).participations
             = InRole(mine, "student") \o InRole(mine, "advisor") \o InRole(mine, "co_advisor")
                 \o InRole(mine, "committee_member")
        /\ CsvDraft(line).classifications
             = OfDimension(marked, "category") \o OfDimension(marked, "platform")
                 \o OfDimension(marked, "domain") \o OfDimension(marked, "topic")
                 \o OfDimension(marked, "technology")
    BY <2>1 DEF CsvDraft, Draft, PeopleColumns, TermColumns
  <2>7. \A role \in PeopleColumns : InRole(CsvDraft(line).participations, role) = InRole(mine, role)
    BY <2>2, <2>6, SamePeople
  <2>8. \A d \in TermColumns : OfDimension(CsvDraft(line).classifications, d) = OfDimension(marked, d)
    BY <2>3, <2>6, SameTerms
  <2> QED
    BY <2>4, <2>5, <2>6, <2>7, <2>8 DEF SameDraft
<1>8. DOMAIN Parse(csv).value = DOMAIN mains
  BY <1>5
<1> QED
  BY <1>6, <1>7, <1>8 DEF csv

\* A file is unread, or it is read as Parse reads it.
FileInv == file \in Uploads /\ (outcome = Unread \/ outcome = Parse(file))

\* So the two parsers agree about every file.
LEMMA FilesSuffice == FileInv => FilesAreReadAlike
<1> SUFFICES ASSUME FileInv, outcome # Unread, outcome.ok, file.format = "xlsx"
             PROVE  FilesAreReadAlike
  BY DEF FilesAreReadAlike, FormatsAgree, EveryRowIsKept
<1>1. file \in Uploads /\ outcome = Parse(file)
  BY DEF FileInv
<1>2. FormatsAgree
  BY <1>1, LinesAgree DEF FormatsAgree
<1>3. EveryRowIsKept
  BY <1>1, RowsAreKept DEF EveryRowIsKept
<1> QED
  BY <1>2, <1>3 DEF FilesAreReadAlike

\* Whatever is uploaded, the two parsers of adapters.go agree about it, and no
\* row of a workbook is lost or counted twice.
THEOREM FilesTheorem == FileSpec => []FilesAreReadAlike
<1>1. FileInit => FileInv
  BY DEF FileInit, FileInv
<1>2. FileInv /\ [FileNext]_fileVars => FileInv'
  BY DEF FileInv, FileNext, ParseUpload, fileVars
<1> QED
  BY <1>1, <1>2, FilesSuffice, PTL DEF FileSpec

===============================================================================
