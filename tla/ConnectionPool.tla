--------------------------- MODULE ConnectionPool ---------------------------
(***************************************************************************)
(* Who waits for whom: requests and the rebuild of the search index share  *)
(* one pgxpool.Pool and PostgreSQL's locks (platform/database, the         *)
(* services of projects and artifacts, search/reconciler.go).  An actor is *)
(* the sequence of connections it acquires and locks it takes; nothing     *)
(* else of it matters here.  PostgreSQL aborts a transaction in a cycle of *)
(* lock waits.  It knows nothing of waits for a connection: those end when *)
(* a connection is free or the request's context is cancelled (nginx ends  *)
(* a request it has waited for too long).                                  *)
(***************************************************************************)
EXTENDS Integers, Sequences, FiniteSets

CONSTANTS Actors, Kind,   \* requests and background work, and what each does
          MaxConns,       \* connections of the pool, at least one
          Patient         \* of the actors, those whose context nobody cancels

ASSUME PoolAssumption ==
  /\ IsFiniteSet(Actors) /\ Patient \subseteq Actors
  /\ Kind \in [Actors -> {"list", "replace", "artifact", "rebuild"}]
  /\ MaxConns \in Nat \ {0}

VARIABLES left,   \* actor |-> the instructions it has still to carry out
          conns,  \* actor |-> connections it has acquired
          held    \* locks held: [by, on, mode]

poolVars == <<left, conns, held>>

Acquire == <<[do |-> "acquire"]>>
Release == <<[do |-> "release"]>>
Lock(on, mode) == <<[do |-> "lock", on |-> on, mode |-> mode]>>
Commit == <<[do |-> "commit"]>>

\* A statement outside a transaction: its connection, until the rows close.
Query == Acquire \o Release

\* loadChildren: one query after the other on the pool.
LoadChildren == Query \o Query \o Query

\* List keeps its rows, hence its connection, open around loadChildren.
List == Acquire \o LoadChildren \o LoadChildren \o Release

\* A table is written under ROW EXCLUSIVE ("write"), a project's row under
\* its row lock ("own").
Write(table) == Lock(table, "write")
WriteChildren == Write("aliases") \o Write("participations") \o Write("terms")

Replace == Acquire \o Write("projects") \o Lock("row", "own")
             \o WriteChildren \o Commit

\* Artifact changes lock the project's row, write the artifact, and only
\* then write the project.
ArtifactChange == Acquire \o Lock("row", "own") \o Write("artifacts")
                    \o Write("projects") \o Commit

LockParents ==
  Lock("projects", "share") \o Lock("aliases", "share")
    \o Lock("participations", "share") \o Lock("terms", "share")

\* Mutated form: the artifacts are left out of the lock.
LockAllTables_Projects == LockParents

\* LOCK TABLE takes its SHARE locks one after the other, in this order.
LockAllTables == LockParents \o Lock("artifacts", "share")

\* BuildProjectDocument reads through the pool.
BuildDocument == Query \o Query

\* executeRebuild: a first fill, then a transaction that holds its
\* connection and its locks while it reads every document again.
RebuildIndex == BuildDocument \o Acquire \o LockAllTables \o BuildDocument \o Commit

Program(kind) == CASE kind = "list" -> List
                   [] kind = "replace" -> Replace
                   [] kind = "artifact" -> ArtifactChange
                   [] kind = "rebuild" -> RebuildIndex

PoolInit ==
  /\ left = [a \in Actors |-> Program(Kind[a])]
  /\ conns = [a \in Actors |-> 0]
  /\ held = {}

InUse == Cardinality(UNION {{a} \X (1..conns[a]) : a \in Actors})
Ended(a) == left[a] = << >>
Wants(a, what) == ~Ended(a) /\ Head(left[a]).do = what

\* ROW EXCLUSIVE locks bear each other, and so do SHARE locks.
Conflict(lock, on, mode) ==
  lock.on = on /\ (lock.mode # mode \/ mode = "own")
Blockers(a) ==
  IF Wants(a, "lock")
  THEN {l.by : l \in {h \in held : h.by # a
                        /\ Conflict(h, Head(left[a]).on, Head(left[a]).mode)}}
  ELSE {}

Advance(a) == left' = [left EXCEPT ![a] = Tail(@)]

TakeConnection(a) ==
  /\ Wants(a, "acquire") /\ InUse < MaxConns
  /\ conns' = [conns EXCEPT ![a] = @ + 1]
  /\ Advance(a) /\ UNCHANGED held

ReturnConnection(a) ==
  /\ Wants(a, "release")
  /\ conns' = [conns EXCEPT ![a] = @ - 1]
  /\ Advance(a) /\ UNCHANGED held

TakeLock(a) ==
  /\ Wants(a, "lock") /\ Blockers(a) = {}
  /\ held' = held \cup {[by |-> a, on |-> Head(left[a]).on,
                         mode |-> Head(left[a]).mode]}
  /\ Advance(a) /\ UNCHANGED conns

\* Mutated form: a transaction that has ended keeps its connection.
EndTransaction_Leak(a) ==
  /\ Wants(a, "commit")
  /\ held' = {l \in held : l.by # a}
  /\ Advance(a) /\ UNCHANGED conns

\* Commit, and the deferred Rollback of a transaction that failed.
EndTransaction(a) ==
  /\ Wants(a, "commit")
  /\ conns' = [conns EXCEPT ![a] = @ - 1]
  /\ held' = {l \in held : l.by # a}
  /\ Advance(a)

\* An error ends the actor: deferred calls close its rows and roll back.
Drop(a) ==
  /\ left' = [left EXCEPT ![a] = << >>]
  /\ conns' = [conns EXCEPT ![a] = 0]
  /\ held' = {l \in held : l.by # a}

\* What PostgreSQL looks for: actors that wait for each other's locks only.
Cycle(as) == as # {} /\ \A a \in as : Blockers(a) \cap as # {}
DeadlockDetected(a) ==
  /\ \E as \in SUBSET Actors : a \in as /\ Cycle(as)
  /\ Drop(a)

\* The request's context is cancelled while it waits.
GiveUp(a) ==
  /\ a \notin Patient
  /\ Wants(a, "acquire") \/ Blockers(a) # {}
  /\ Drop(a)

Step(a) == TakeConnection(a) \/ ReturnConnection(a) \/ TakeLock(a)
             \/ EndTransaction(a) \/ DeadlockDetected(a)

PoolNext == \E a \in Actors : Step(a) \/ GiveUp(a)

PoolSpec == PoolInit /\ [][PoolNext]_poolVars

-----------------------------------------------------------------------------
(* Properties.                                                             *)

\* Past LOCK TABLE the rebuild reads frozen projects (executeRebuild): nobody
\* has written to a project, its children or its artifacts without having
\* committed.
FrozenWhileRebuilding ==
  \A a \in Actors :
    Kind[a] = "rebuild" /\ conns[a] > 0
      /\ Len(left[a]) <= Len(BuildDocument) + Len(Commit) =>
        \A l \in held : l.mode # "write"

\* The only way for everybody to wait is a pool whose connections are all
\* held by actors that want another one, or wait for the locks of such.
Moves(a) == (Wants(a, "acquire") /\ InUse < MaxConns) \/ Wants(a, "release")
              \/ Wants(a, "commit") \/ (Wants(a, "lock") /\ Blockers(a) = {})
StuckMeansExhausted ==
  (\A a \in Actors : ~Moves(a)) /\ (\E a \in Actors : ~Ended(a))
    /\ (\A as \in SUBSET Actors : ~Cycle(as)) =>
      /\ InUse = MaxConns
      /\ \E a \in Actors : conns[a] > 0 /\ Wants(a, "acquire")
      /\ \A a \in Actors : conns[a] > 0 =>
           Wants(a, "acquire") \/ Blockers(a) # {}

\* What the locks do for the rebuild, and what they cannot do to the others: no
\* write is under way while a rebuild reads, and no wait for locks alone lasts.
LockingInv == FrozenWhileRebuilding /\ StuckMeansExhausted

=============================================================================
