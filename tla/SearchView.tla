------------------------------- MODULE SearchView -------------------------------
(***************************************************************************)
(* What the search outbox promises, without rows, leases, workers, engine  *)
(* tasks or queues: searches follow each project with a delay, and a       *)
(* project that is reported settled is shown exactly as it is.             *)
(***************************************************************************)
EXTENDS Naturals

CONSTANTS
    Projects,   \* identifiers of projects
    NoDocument  \* the project is not to be found

VARIABLES
    version,  \* the project's committed revision
    wanted,   \* the document searches should find
    shown,    \* the document searches do find
    settled   \* the project is reported in step

vars == <<version, wanted, shown, settled>>

\* A document's first query reads its revision, later ones nothing older.
Snapshots(p) ==
    {d \in [revision : 1 .. version[p], content : 1 .. version[p]] :
        d.revision <= d.content}

Init ==
    /\ version = [p \in Projects |-> 0]
    /\ wanted = [p \in Projects |-> NoDocument]
    /\ shown = [p \in Projects |-> NoDocument]
    /\ settled = [p \in Projects |-> FALSE]

\* A new revision is committed; it may be public or not.
Commit(p) ==
    /\ version' = [version EXCEPT ![p] = @ + 1]
    /\ \E d \in {NoDocument, [revision |-> version[p] + 1,
                              content |-> version[p] + 1]} :
          wanted' = [wanted EXCEPT ![p] = d]
    /\ settled' = [settled EXCEPT ![p] = FALSE]
    /\ UNCHANGED shown

\* The project is to be brought in step again.
Reopen(p) ==
    /\ settled' = [settled EXCEPT ![p] = FALSE]
    /\ UNCHANGED <<version, wanted, shown>>

\* Searches change only while the project is not settled, to something that
\* was read from its committed revisions.
Show(p) ==
    /\ ~settled[p]
    /\ \E d \in Snapshots(p) \cup {NoDocument} :
          shown' = [shown EXCEPT ![p] = d]
    /\ UNCHANGED <<version, wanted, settled>>

Settle(p) ==
    /\ shown[p] = wanted[p]
    /\ settled' = [settled EXCEPT ![p] = TRUE]
    /\ UNCHANGED <<version, wanted, shown>>

Next == \E p \in Projects : Commit(p) \/ Reopen(p) \/ Show(p) \/ Settle(p)

Spec == Init /\ [][Next]_vars
===============================================================================
