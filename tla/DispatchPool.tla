------------------------------ MODULE DispatchPool ------------------------------
(***************************************************************************)
(* projectpool.Dispatch: a fixed number of workers, one coordinator that   *)
(* hands out groups over an unbuffered channel and folds the outcomes it   *)
(* takes from a channel with room for all of them, and the caller that     *)
(* waits for the workers, closes the outcomes and waits for the            *)
(* coordinator.  The caller's context may be cancelled at any time.        *)
(***************************************************************************)
EXTENDS Integers, Sequences, FiniteSets, SequencesExt

CONSTANTS
    Groups,      \* number of groups
    Configured,  \* worker counts asked for on the command line
    DefaultWorkers, MaxWorkers

\* What the theorems suppose; there may be no groups at all.
PoolAssumption ==
    /\ Groups \in Nat /\ Configured \subseteq Int
    /\ MaxWorkers \in Nat \ {0} /\ DefaultWorkers \in 1 .. MaxWorkers

VARIABLES
    count,        \* workers this run was given
    parent,       \* is the caller's context cancelled?
    cancelled,    \* has the coordinator cancelled the run context?
    coordinator,  \* where the coordinator is
    next,         \* groups handed out so far
    jobsClosed,
    worker,       \* what each worker does: a group, 0 if waiting, -1 if gone
    outcomes,     \* buffered outcomes
    handling,     \* the outcome the coordinator folds
    applied,      \* outcomes folded, in order
    stopped,      \* what Dispatch reports as "stopped early"
    main          \* where the caller is

poolVars == <<count, parent, cancelled, coordinator, next, jobsClosed, worker,
          outcomes, handling, applied, stopped, main>>

Ids == 1 .. Groups
Waiting == 0
Gone == -1
Outcomes == [group : Ids, failed : BOOLEAN, fatal : BOOLEAN]
NothingYet == [group |-> 0, failed |-> FALSE, fatal |-> FALSE]

\* Normalize
Normalize(n) ==
    IF n < 1 THEN DefaultWorkers ELSE IF n > MaxWorkers THEN MaxWorkers ELSE n

WorkerIds == 1 .. MaxWorkers

PoolTypeOK ==
    /\ count \in WorkerIds
    /\ parent \in BOOLEAN
    /\ cancelled \in BOOLEAN
    /\ coordinator \in {"prime", "sendFirst", "receive", "fold", "sendNext", "done"}
    /\ next \in 0 .. Groups
    /\ jobsClosed \in BOOLEAN
    /\ worker \in [WorkerIds -> Ids \cup {Waiting, Gone}]
    /\ outcomes \in Seq(Outcomes)
    /\ handling \in Outcomes \cup {NothingYet}
    /\ applied \in Seq(Outcomes)
    /\ stopped \in BOOLEAN
    /\ main \in {"wait", "closed", "returned"}

\* Workers beyond the number of groups are not started.
PoolInit ==
    /\ count \in {Normalize(n) : n \in Configured}
    /\ parent \in BOOLEAN
    /\ cancelled = FALSE
    /\ coordinator = "prime"
    /\ next = 0
    /\ jobsClosed = FALSE
    /\ worker = [w \in WorkerIds |-> IF w <= count /\ w <= Groups THEN Waiting ELSE Gone]
    /\ outcomes = <<>>
    /\ handling = NothingYet
    /\ applied = <<>>
    /\ stopped = FALSE
    /\ main = "wait"

RunContextEnded == parent \/ cancelled

CancelParent ==
    /\ ~parent
    /\ main # "returned"
    /\ parent' = TRUE
    /\ UNCHANGED <<count, cancelled, coordinator, next, jobsClosed, worker,
                   outcomes, handling, applied, stopped, main>>

-------------------------------------------------------------------------------
(* The coordinator.                                                          *)

\* The loop that primes the pool looks at the context before every send.
Prime ==
    /\ coordinator = "prime"
    /\ next < Groups
    /\ next < count
    /\ ~RunContextEnded
    /\ coordinator' = "sendFirst"
    /\ UNCHANGED <<count, parent, cancelled, next, jobsClosed, worker, outcomes,
                   handling, applied, stopped, main>>

\* A mutated form: the jobs are closed only when all were handed out.
PrimedKeepingJobs ==
    /\ coordinator = "prime"
    /\ next = Groups \/ next >= count \/ RunContextEnded
    /\ coordinator' = "receive"
    /\ stopped' = (stopped \/ RunContextEnded)
    /\ jobsClosed' = (jobsClosed \/ next = Groups)
    /\ UNCHANGED <<count, parent, cancelled, next, worker, outcomes, handling,
                   applied, main>>

\* The loop has ended; the context may have been cancelled since its last look.
Primed ==
    /\ coordinator = "prime"
    /\ next = Groups \/ next >= count \/ RunContextEnded
    /\ coordinator' = "receive"
    /\ stopped' = (stopped \/ RunContextEnded)
    /\ jobsClosed' = (jobsClosed \/ next = Groups \/ RunContextEnded)
    /\ UNCHANGED <<count, parent, cancelled, next, worker, outcomes, handling,
                   applied, main>>

\* jobs <- works[nextWork] meets a worker that waits on the channel.
HandOver(w) ==
    /\ worker[w] = Waiting
    /\ worker' = [worker EXCEPT ![w] = next + 1]
    /\ next' = next + 1

SendFirst(w) ==
    /\ coordinator = "sendFirst"
    /\ HandOver(w)
    /\ coordinator' = "prime"
    /\ UNCHANGED <<count, parent, cancelled, jobsClosed, outcomes, handling,
                   applied, stopped, main>>

Receive ==
    /\ coordinator = "receive"
    /\ outcomes # <<>>
    /\ handling' = Head(outcomes)
    /\ outcomes' = Tail(outcomes)
    /\ applied' = Append(applied, Head(outcomes))
    /\ coordinator' = "fold"
    /\ UNCHANGED <<count, parent, cancelled, next, jobsClosed, worker,
                   stopped, main>>

\* A fatal outcome cancels the run context; fatal or cancelled, no more groups.
FoldStop ==
    /\ coordinator = "fold"
    /\ handling.fatal \/ RunContextEnded
    /\ cancelled' = (cancelled \/ handling.fatal)
    /\ stopped' = TRUE
    /\ jobsClosed' = TRUE
    /\ coordinator' = "receive"
    /\ UNCHANGED <<count, parent, next, worker, outcomes, handling, applied,
                   main>>

\* Otherwise the group is replaced by the next one, if there is one.
FoldNext ==
    /\ coordinator = "fold"
    /\ ~handling.fatal
    /\ ~RunContextEnded
    /\ coordinator' = IF next < Groups /\ ~jobsClosed THEN "sendNext" ELSE "receive"
    /\ UNCHANGED <<count, parent, cancelled, next, jobsClosed, worker, outcomes,
                   handling, applied, stopped, main>>

SendNext(w) ==
    /\ coordinator = "sendNext"
    /\ HandOver(w)
    /\ jobsClosed' = (jobsClosed \/ next + 1 = Groups)
    /\ coordinator' = "receive"
    /\ UNCHANGED <<count, parent, cancelled, outcomes, handling, applied,
                   stopped, main>>

\* The outcomes are closed and drained.
CoordinatorEnds ==
    /\ coordinator = "receive"
    /\ outcomes = <<>>
    /\ main = "closed"
    /\ coordinator' = "done"
    /\ UNCHANGED <<count, parent, cancelled, next, jobsClosed, worker, outcomes,
                   handling, applied, stopped, main>>

-------------------------------------------------------------------------------
(* Workers and the caller.                                                     *)

\* process returns.  A group that fails because storage is unavailable or the
\* context has ended is fatal.  The buffer always has room.
Deliver(w) ==
    \E failed, fatal \in BOOLEAN :
        /\ worker[w] \in Ids
        /\ fatal => failed
        /\ failed /\ RunContextEnded => fatal
        /\ outcomes' = Append(outcomes, [group |-> worker[w], failed |-> failed,
                                         fatal |-> fatal])
        /\ worker' = [worker EXCEPT ![w] = Waiting]
        /\ UNCHANGED <<count, parent, cancelled, coordinator, next, jobsClosed,
                       handling, applied, stopped, main>>

Leave(w) ==
    /\ worker[w] = Waiting
    /\ jobsClosed
    /\ worker' = [worker EXCEPT ![w] = Gone]
    /\ UNCHANGED <<count, parent, cancelled, coordinator, next, jobsClosed,
                   outcomes, handling, applied, stopped, main>>

\* A mutated form: the workers are not waited for.
CloseOutcomesEarly ==
    /\ main = "wait"
    /\ jobsClosed
    /\ main' = "closed"
    /\ UNCHANGED <<count, parent, cancelled, coordinator, next, jobsClosed,
                   worker, outcomes, handling, applied, stopped>>

CloseOutcomes ==
    /\ main = "wait"
    /\ \A w \in WorkerIds : worker[w] = Gone
    /\ main' = "closed"
    /\ UNCHANGED <<count, parent, cancelled, coordinator, next, jobsClosed,
                   worker, outcomes, handling, applied, stopped>>

Return ==
    /\ main = "closed"
    /\ coordinator = "done"
    /\ main' = "returned"
    /\ stopped' = (stopped \/ parent)
    /\ UNCHANGED <<count, parent, cancelled, coordinator, next, jobsClosed,
                   worker, outcomes, handling, applied>>

-------------------------------------------------------------------------------

Coordinate ==
    \/ Prime \/ Primed \/ Receive \/ FoldStop \/ FoldNext \/ CoordinatorEnds
    \/ \E w \in WorkerIds : SendFirst(w) \/ SendNext(w)

WorkerSteps(w) == Deliver(w) \/ Leave(w)

CallerSteps == CloseOutcomes \/ Return

PoolNext ==
    \/ CancelParent
    \/ Coordinate
    \/ \E w \in WorkerIds : WorkerSteps(w)
    \/ CallerSteps

PoolSpec == PoolInit /\ [][PoolNext]_poolVars

-------------------------------------------------------------------------------
(* Properties.                                                               *)

Running == {g \in Ids : \E w \in WorkerIds : worker[w] = g}
Buffered == {outcomes[i].group : i \in DOMAIN outcomes}
Folded == {applied[i].group : i \in DOMAIN applied}

\* Every group handed out is in one place: with one worker, in the buffer or
\* folded, so none is lost, done twice or folded twice; no more than the
\* configured number run at once.
EachGroupOnce ==
    /\ Running \cup Buffered \cup Folded = 1 .. next
    /\ Len(outcomes) + Len(applied) + Cardinality(Running) = next
    /\ \A v, w \in WorkerIds : v # w /\ worker[v] \in Ids => worker[v] # worker[w]
    /\ Cardinality(Running) <= MaxWorkers

\* A group is handed out to a worker that can take it: the jobs are never
\* closed under a send, nor the outcomes under a delivery.
ChannelsOpenWhenUsed ==
    /\ coordinator \in {"sendFirst", "sendNext"} => ~jobsClosed
    /\ Running # {} => main = "wait"

\* Once a fatal outcome has reached the coordinator no group is handed out.
NothingAfterFatal ==
    [][(\E i \in DOMAIN applied : applied[i].fatal) => next' = next]_poolVars

\* A run that returns without reporting a stop has folded every group; one that
\* reports it has a reason the caller can name: a failed group, or its context.
ReturnIsTrue ==
    main = "returned" =>
        /\ Folded = 1 .. next
        /\ ~stopped => next = Groups
        /\ stopped => parent \/ \E i \in DOMAIN applied : applied[i].failed

\* The dispatcher under failures and cancellation: each group is with one worker,
\* in the buffer or folded, no channel is closed under its users, and what
\* Dispatch returns says which groups were not done.
DispatchInv == PoolTypeOK /\ EachGroupOnce /\ ChannelsOpenWhenUsed /\ ReturnIsTrue

===============================================================================
