------------------------------ MODULE KeysetPaging ------------------------------
(***************************************************************************)
(* The three lists an administrator pages through, and the rows that move  *)
(* under them: people by name (people.List), projects by their last change *)
(* (projects.List) and audit events by their creation (audit.List).  A     *)
(* cursor is the position of the last row shown, and the next page begins  *)
(* behind it.  A time is PostgreSQL's now(), the begin of the transaction. *)
(***************************************************************************)
EXTENDS Integers, Sequences, FiniteSets

CONSTANTS
    Rows,          \* ids, numbers so that they have their order
    MaxKey,        \* largest name, largest time
    Transactions,  \* changes of projects and audit events
    PageLimit,     \* rows of a page
    MaxRenames,    \* bound on changes of people
    MaxStarts      \* bound on walks

\* What the theorems suppose.
ListsAssumption ==
    /\ Rows \subseteq Nat /\ IsFiniteSet(Rows)
    /\ PageLimit \in Nat \ {0} /\ MaxKey \in Nat

VARIABLES
    list,     \* the list paged through: "people", "projects" or "audit"
    key,      \* what a row is listed by: name, updated_at or created_at
    exists,   \* rows committed
    revision, \* of each row
    clock,    \* what now() gives to the next transaction
    open,     \* transaction -> [state, row, since, expects]
    renames,  \* changes of people so far
    starts,   \* walks begun
    walk,     \* [state, cursor, seen]: seen counts a row once, or as often
    was,      \* rows that existed when the walk began
    touched   \* rows created or changed since

listVars == <<list, key, exists, revision, clock, open, renames, starts, walk, was, touched>>

NoPosition == [key |-> -1, id |-> -1]
NotSeen == [r \in Rows |-> 0]
Closed == [state |-> "none", row |-> 0, since |-> 0, expects |-> 0]

ListsInit ==
    /\ list \in {"people", "projects", "audit"}
    /\ key \in [Rows -> IF list = "people" THEN 0 .. MaxKey ELSE {0}]
    /\ exists \in SUBSET Rows
    /\ revision = [r \in Rows |-> 1]
    /\ clock = 0
    /\ open = [t \in Transactions |-> Closed]
    /\ renames = 0
    /\ starts = 0
    /\ walk = [state |-> "idle", cursor |-> NoPosition, seen |-> NotSeen]
    /\ was = {}
    /\ touched = {}

----------------------------------------------------------------------------
(* Changes *)

\* A person gets another name, or is created under one, in one statement.
Rename(r, name) ==
    /\ list = "people" /\ renames < MaxRenames
    /\ key' = [key EXCEPT ![r] = name]
    /\ exists' = exists \cup {r}
    /\ revision' = [revision EXCEPT ![r] = @ + 1]
    /\ touched' = touched \cup {r}
    /\ renames' = renames + 1
    /\ UNCHANGED <<list, clock, open, starts, walk, was>>

\* A transaction begins that creates a row or changes one whose revision the
\* client has read before: now() is fixed here.
Begin(t, r) ==
    /\ list # "people" /\ open[t].state = "none"
    /\ list = "audit" => r \notin exists
    /\ \A u \in Transactions : open[u].state = "open" /\ open[u].row = r => r \in exists
    /\ open' = [open EXCEPT ![t] =
                 [state |-> "open", row |-> r, since |-> clock, expects |-> revision[r]]]
    /\ UNCHANGED <<list, key, exists, revision, clock, renames, starts, walk, was, touched>>

ClockTicks ==
    /\ list # "people" /\ clock < MaxKey
    /\ clock' = clock + 1
    /\ UNCHANGED <<list, key, exists, revision, open, renames, starts, walk, was, touched>>

\* UPDATE projects ... WHERE revision = $n changes no row when another was first.
Guard(t) == revision[open[t].row] = open[t].expects

Commit(t) ==
    LET r == open[t].row IN
    /\ open[t].state = "open"
    /\ open' = [open EXCEPT ![t].state = "done"]
    /\ IF Guard(t)
       THEN /\ key' = [key EXCEPT ![r] = open[t].since]
            /\ exists' = exists \cup {r}
            /\ revision' = [revision EXCEPT ![r] = @ + 1]
            /\ touched' = touched \cup {r}
       ELSE UNCHANGED <<key, exists, revision, touched>>
    /\ UNCHANGED <<list, clock, renames, starts, walk, was>>

----------------------------------------------------------------------------
(* Pages *)

\* ORDER BY display_name, id; the others ORDER BY their time DESC, id DESC.
Before(p, q) ==
    LET Less(a, b) == a.key < b.key \/ (a.key = b.key /\ a.id < b.id)
    IN IF list = "people" THEN Less(p, q) ELSE Less(q, p)

Position(r) == [key |-> key[r], id |-> r]

\* A mutated form: the position is only the key.
Behind_KeyOnly(r, cursor) ==
    cursor = NoPosition \/ (key[r] # cursor.key /\ Before(cursor, Position(r)))

\* A mutated form: the row at the position is shown again.
Behind_Inclusive(r, cursor) == cursor = NoPosition \/ ~Before(Position(r), cursor)

Behind(r, cursor) == cursor = NoPosition \/ Before(cursor, Position(r))

\* LIMIT $n + 1: one row more than is shown tells whether there is a next page.
Fetched == PageLimit + 1

\* The first rows behind the cursor.
Listed(cursor, count) ==
    LET behind == {r \in exists : Behind(r, cursor)}
    IN {r \in behind : Cardinality({s \in behind : Before(Position(s), Position(r))}) < count}

\* items[:limit], and a cursor made of the last of them when there was more.
ShowPage(cursor, seen) ==
    LET page == Listed(cursor, PageLimit)
        last == CHOOSE r \in page : \A s \in page : ~Before(Position(r), Position(s))
        grown == [r \in Rows |-> IF r \in page /\ seen[r] < 2 THEN seen[r] + 1 ELSE seen[r]]
    IN walk' = IF Cardinality(Listed(cursor, Fetched)) > PageLimit
               THEN [state |-> "walking", cursor |-> Position(last), seen |-> grown]
               ELSE [state |-> "done", cursor |-> NoPosition, seen |-> grown]

FirstPage ==
    /\ walk.state # "walking" /\ starts < MaxStarts
    /\ ShowPage(NoPosition, NotSeen)
    /\ starts' = starts + 1
    /\ was' = exists
    /\ touched' = {}
    /\ UNCHANGED <<list, key, exists, revision, clock, open, renames>>

NextPage ==
    /\ walk.state = "walking"
    /\ ShowPage(walk.cursor, walk.seen)
    /\ UNCHANGED <<list, key, exists, revision, clock, open, renames, starts, was, touched>>

Change ==
    \/ \E r \in Rows, name \in 0 .. MaxKey : Rename(r, name)
    \/ \E t \in Transactions, r \in Rows : Begin(t, r)
    \/ \E t \in Transactions : Commit(t)
    \/ ClockTicks

ListsNext == Change \/ FirstPage \/ NextPage

ListsSpec == ListsInit /\ [][ListsNext]_listVars

----------------------------------------------------------------------------
(* Properties *)

ListsTypeOK ==
    /\ list \in {"people", "projects", "audit"}
    /\ key \in [Rows -> 0 .. MaxKey]
    /\ exists \subseteq Rows
    /\ revision \in [Rows -> Nat]
    /\ clock \in 0 .. MaxKey
    /\ open \in [Transactions -> [state : {"none", "open", "done"}, row : Rows \cup {0},
                                  since : 0 .. MaxKey, expects : Nat]]
    /\ renames \in Nat /\ starts \in Nat
    /\ walk \in [state : {"idle", "walking", "done"},
                 cursor : [key : 0 .. MaxKey, id : Rows] \cup {NoPosition},
                 seen : [Rows -> 0 .. 2]]
    /\ was \subseteq Rows /\ touched \subseteq Rows

\* However the others move, a row that was there when the walk began and stays
\* as it is is shown once when the walk has ended, and never twice before.
UntouchedAreSeenOnce ==
    \A r \in was \ touched :
        /\ walk.seen[r] <= 1
        /\ walk.state = "done" => walk.seen[r] = 1

\* In the lists by time no row is shown twice, changed or not: changes move a
\* row before the pages already shown, because none carries a time from before
\* the change it replaces.  People, listed by name, can be shown twice.
NothingIsSeenTwice == list # "people" => \A r \in Rows : walk.seen[r] <= 1

\* Lists paged while rows are added, renamed and changed by transactions that
\* commit late: nothing is shown twice, and what stays is shown.
ListWalksAreFaithful == ListsTypeOK /\ UntouchedAreSeenOnce /\ NothingIsSeenTwice

=============================================================================
