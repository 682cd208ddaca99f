-------------------------- MODULE SearchSyncRefinement --------------------------
(***************************************************************************)
(* The outbox implements the search view: a project's version is its       *)
(* revision, what is shown is the engine's document, and a project is      *)
(* settled when its row says synced.                                       *)
(***************************************************************************)
EXTENDS SearchSync, TLC

View == INSTANCE SearchView WITH
    version <- [p \in Projects |-> project[p].revision],
    wanted <- [p \in Projects |-> Wanted(p)],
    shown <- index,
    settled <- [p \in Projects |-> row[p].state = "synced"]

\* Every step of the outbox is a step of the view or invisible to it: searches
\* of a settled project never move, and an unsettled one shows only what was
\* read from committed revisions.  Holds for one API process at a time.
ImplementsView == View!Spec

===============================================================================
