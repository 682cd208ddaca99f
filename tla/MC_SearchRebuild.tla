--------------------------- MODULE MC_SearchRebuild ---------------------------
(***************************************************************************)
(* The rebuild in three settings, the connections it shares with the       *)
(* requests in two, and in one the outbox when processes overlap.  A       *)
(* behaviour starts in one setting and stays there; the variables of the   *)
(* other models keep their initial values.                                 *)
(*   "restart"  one process, which ends and is started again and may fail  *)
(*              to record that its rebuild failed;                         *)
(*   "live"     the same, and failures are recorded;                       *)
(*   "overlap"  two processes and two projects, rebuilds only;             *)
(*   "room"     a connection more than the actors need at most;            *)
(*   "tight"    far too few connections;                                   *)
(*   "outbox"   two processes that reconcile the rows of one project.      *)
(***************************************************************************)
EXTENDS SearchRebuild, ConnectionPool

CONSTANTS p1, p2, a, b
VARIABLES setting, roomLeft, roomConns, roomHeld,
          project, row, updatedBefore, process, batch, claim, pc, document, ahead, queue, found

Live1 == INSTANCE SearchRebuild WITH MarksFail <- FALSE
Overlap == INSTANCE SearchRebuild WITH
  Projects <- {p1, p2}, Processes <- {a, b}, Reconcilers <- {}

Everyone == {"rebuild", "list1", "list2", "replace", "artifact"}
Kinds == [x \in Everyone |->
            IF x \in {"list1", "list2"} THEN "list" ELSE x]
Rebuilder == {"rebuild"}

FewActors == Actors \ {"list2"}
Room == INSTANCE ConnectionPool WITH
  Actors <- FewActors, Kind <- [x \in FewActors |-> Kind[x]],
  MaxConns <- 5, Patient <- FewActors,
  left <- roomLeft, conns <- roomConns, held <- roomHeld

roomVars == <<roomLeft, roomConns, roomHeld>>

Outbox == INSTANCE SearchSync WITH
  Projects <- {p1}, Workers <- {a, b}, Overlapping <- TRUE,
  NoWorker <- Nil, NoDocument <- Nil, NoClaim <- Nil,
  BatchSize <- 1, MaxRevision <- 3, MaxTasks <- 2,
  tasks <- queue, index <- found

outboxVars == <<project, row, updatedBefore, process, batch, claim, pc,
                document, ahead, queue, found>>

rebuildVars == <<vars, poolVars, roomVars>>
allVars == <<setting, rebuildVars, outboxVars>>

Choose ==
  /\ \/ setting \in {"restart", "live", "room", "tight", "outbox"} /\ Init
     \/ setting = "overlap" /\ Overlap!Init
  /\ PoolInit /\ Room!PoolInit /\ Outbox!Init

\* Two processes are alike: a is started first.
InOrder == process'[b] = "new" \/ process[a] # "new"

GoOn ==
  /\ \/ /\ \/ setting = "restart" /\ Next /\ UNCHANGED <<poolVars, roomVars>>
           \/ setting = "live" /\ Live1!Next /\ UNCHANGED <<poolVars, roomVars>>
           \/ setting = "overlap" /\ Overlap!Next /\ UNCHANGED <<poolVars, roomVars>>
           \/ setting = "room" /\ Room!PoolNext /\ UNCHANGED <<vars, poolVars>>
           \/ setting = "tight" /\ PoolNext /\ UNCHANGED <<vars, roomVars>>
        /\ UNCHANGED outboxVars
     \/ setting = "outbox" /\ Outbox!Next /\ InOrder /\ UNCHANGED rebuildVars
  /\ UNCHANGED setting

InLive(step) ==
  setting = "live" /\ step /\ UNCHANGED <<setting, poolVars, roomVars, outboxVars>>

\* "live": the supervisor restarts processes, a process works on and looks for
\* a rebuild before every batch of rows, the engine runs its tasks.  "room",
\* "tight": what runs goes on, cycles of lock waits are found, and nobody waits
\* for ever whose context can be cancelled.
Fairness ==
  /\ WF_allVars(InLive(RunTask))
  /\ \A q \in Processes :
       /\ WF_allVars(InLive(Start(q)))
       /\ WF_allVars(InLive(Live1!Rebuild(q)))
       /\ WF_allVars(InLive(BuildRow(q) \/ SendRow(q)))
       /\ WF_allVars(InLive(\E state \in {"synced", "pending"} : MarkRow(q, state)))
       /\ SF_allVars(InLive(\E o \in Operations : ClaimRebuild(q, o)))
  /\ \A x \in Actors :
       /\ WF_allVars(\/ /\ setting = "room" /\ x \in FewActors /\ Room!Step(x)
                        /\ UNCHANGED <<setting, vars, poolVars, outboxVars>>
                     \/ /\ setting = "tight" /\ Step(x)
                        /\ UNCHANGED <<setting, vars, roomVars, outboxVars>>)
       /\ WF_allVars(setting = "tight" /\ GiveUp(x)
                     /\ UNCHANGED <<setting, vars, roomVars, outboxVars>>)

SettingSpec == Choose /\ [][GoOn]_allVars /\ Fairness

-----------------------------------------------------------------------------
\* A requested rebuild ends when a restart follows every end of the process
\* and failures are recorded.
RequestedRebuildsEnd == setting = "live" => RebuildEnds

\* Every request and every rebuild ends: with room for all without anybody's
\* help, with too few connections because requests give up.
RequestsEnd ==
  /\ <>(setting = "room" => \A x \in FewActors : roomLeft[x] = << >>)
  /\ <>(setting = "tight" => \A x \in Actors : Ended(x))

\* Nobody waits for ever: a requested rebuild ends if processes are restarted,
\* and every request that takes a connection is answered.
EverythingEnds == RequestedRebuildsEnd /\ RequestsEnd

-----------------------------------------------------------------------------
(* The outbox when processes overlap.                                        *)

\* Rows follow projects, claims are requests, documents are right while their
\* project stays as claimed.
CommonInv == Outbox!CommonInv

\* Who completes a row has had the engine apply what the project now wants.
CompletionIsCurrent == [][Outbox!Completion]_allVars

\* A worker loses a row to its mark, a new request or the end of its lease only.
LeaseRespected == [][Outbox!Surrender]_allVars
=============================================================================
