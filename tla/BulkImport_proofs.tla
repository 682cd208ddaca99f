--------------------------- MODULE BulkImport_proofs ---------------------------
(***************************************************************************)
(* Proofs about the bulk imports: about the dispatcher, for any number of  *)
(* groups and any bounds on the workers; and about the importers, for any  *)
(* bundle, projects, sizes and quota, and any number of runs.              *)
(***************************************************************************)
EXTENDS DispatchPool, ContentImport, FiniteSetTheorems, WellFoundedInduction, TLAPS

-------------------------------------------------------------------------------
(* The dispatcher.                                                           *)

\* The jobs are open while they are sent on, and the workers that were started
\* are gone only once they are closed.
ChannelInv ==
    /\ coordinator \in {"prime", "sendFirst", "sendNext"} => ~jobsClosed
    /\ coordinator \in {"sendFirst", "sendNext"} => next < Groups
    /\ \A w \in WorkerIds :
          w <= count /\ w <= Groups /\ worker[w] = Gone => jobsClosed
    /\ main # "wait" => \A w \in WorkerIds : worker[w] = Gone
    /\ coordinator = "done" => outcomes = << >> /\ main # "wait"
    /\ main = "returned" => coordinator = "done"

AnyFatal == \E i \in DOMAIN applied : applied[i].fatal
AnyFailed == \E i \in DOMAIN applied : applied[i].failed

\* What stops the handing out, and what it leaves behind.
StopInv ==
    /\ coordinator \in {"prime", "sendFirst"} => applied = << >>
    /\ coordinator = "fold" => \E i \in DOMAIN applied : applied[i] = handling
    /\ cancelled => coordinator \in {"receive", "fold", "done"} /\ AnyFatal
    /\ AnyFatal => cancelled \/ (coordinator = "fold" /\ handling.fatal)
    /\ \A i \in DOMAIN outcomes : outcomes[i].fatal => outcomes[i].failed
    /\ \A i \in DOMAIN applied : applied[i].fatal => applied[i].failed
    /\ jobsClosed => stopped \/ next = Groups
    /\ stopped => parent \/ AnyFailed

\* Where the groups are that were handed out.
PlacesInv ==
    /\ Running \cup Buffered \cup Folded = 1 .. next
    /\ IsFiniteSet(Running)
    /\ Len(outcomes) + Len(applied) + Cardinality(Running) = next
    /\ \A v, w \in WorkerIds : v # w /\ worker[v] \in Ids => worker[v] # worker[w]

PoolInv == PoolTypeOK /\ ChannelInv /\ StopInv /\ PlacesInv

-------------------------------------------------------------------------------
(* Sequences of outcomes.                                                    *)

GroupsOf(s) == {s[i].group : i \in DOMAIN s}

\* An outcome at the end.
LEMMA AppendedOutcome ==
    ASSUME NEW s \in Seq(Outcomes), NEW o \in Outcomes
    PROVE  /\ Append(s, o) \in Seq(Outcomes)
           /\ Len(Append(s, o)) = Len(s) + 1
           /\ GroupsOf(Append(s, o)) = GroupsOf(s) \cup {o.group}
           /\ \A i \in DOMAIN Append(s, o) :
                 Append(s, o)[i] = o \/ \E j \in DOMAIN s : Append(s, o)[i] = s[j]
           /\ \A j \in DOMAIN s : \E i \in DOMAIN Append(s, o) : Append(s, o)[i] = s[j]
           /\ \E i \in DOMAIN Append(s, o) : Append(s, o)[i] = o
<1>1. PICK t : t = Append(s, o)
    OBVIOUS
<1>2. /\ t \in Seq(Outcomes) /\ Len(t) = Len(s) + 1 /\ Len(s) \in Nat
      /\ DOMAIN s = 1 .. Len(s) /\ DOMAIN t = 1 .. Len(s) + 1
      /\ \A i \in 1 .. Len(s) : t[i] = s[i]
      /\ t[Len(s) + 1] = o
    BY <1>1
<1>3. \A i \in DOMAIN t : i \in DOMAIN s \/ i = Len(s) + 1
    BY <1>2
<1>4. DOMAIN s \subseteq DOMAIN t /\ Len(s) + 1 \in DOMAIN t
    BY <1>2
<1>5. GroupsOf(t) = GroupsOf(s) \cup {o.group}
    BY <1>2, <1>3, <1>4 DEF GroupsOf
<1>6. /\ \A i \in DOMAIN t : t[i] = o \/ \E j \in DOMAIN s : t[i] = s[j]
      /\ \A j \in DOMAIN s : \E i \in DOMAIN t : t[i] = s[j]
      /\ \E i \in DOMAIN t : t[i] = o
    BY <1>2, <1>3, <1>4
<1> QED
    BY <1>1, <1>2, <1>5, <1>6

\* The first outcome and the others.
LEMMA FirstOutcome ==
    ASSUME NEW s \in Seq(Outcomes), s # << >>
    PROVE  /\ Head(s) \in Outcomes /\ Tail(s) \in Seq(Outcomes)
           /\ Len(s) = Len(Tail(s)) + 1
           /\ GroupsOf(s) = GroupsOf(Tail(s)) \cup {Head(s).group}
           /\ \E i \in DOMAIN s : s[i] = Head(s)
           /\ \A i \in DOMAIN Tail(s) : \E j \in DOMAIN s : Tail(s)[i] = s[j]
<1>1. PICK t : t = Tail(s)
    OBVIOUS
<1>2. /\ t \in Seq(Outcomes) /\ Len(s) = Len(t) + 1 /\ Len(t) \in Nat
      /\ DOMAIN t = 1 .. Len(t) /\ DOMAIN s = 1 .. Len(t) + 1
      /\ \A i \in 1 .. Len(t) : t[i] = s[i + 1]
      /\ Head(s) = s[1] /\ Head(s) \in Outcomes
    BY <1>1
<1>3. /\ 1 \in DOMAIN s /\ \A i \in DOMAIN t : i + 1 \in DOMAIN s
      /\ \A j \in DOMAIN s : j = 1 \/ (j - 1 \in DOMAIN t /\ s[j] = t[j - 1])
    BY <1>2
<1>4. GroupsOf(s) = GroupsOf(t) \cup {Head(s).group}
  <2>1. ASSUME NEW j \in DOMAIN s
        PROVE  s[j].group \in GroupsOf(t) \cup {Head(s).group}
    BY <1>2, <1>3 DEF GroupsOf
  <2>2. ASSUME NEW i \in DOMAIN t PROVE t[i].group \in GroupsOf(s)
    BY <1>2, <1>3 DEF GroupsOf
  <2>3. Head(s).group \in GroupsOf(s)
    BY <1>2, <1>3 DEF GroupsOf
  <2> QED
    BY <2>1, <2>2, <2>3 DEF GroupsOf
<1> QED
    BY <1>1, <1>2, <1>3, <1>4

-------------------------------------------------------------------------------
(* The invariant holds at first and in every step.                           *)

\* The numbers of workers that may be asked for.
LEMMA NormalizedCount ==
    ASSUME PoolAssumption, NEW n \in Configured
    PROVE  Normalize(n) \in WorkerIds
BY DEF PoolAssumption, Normalize, WorkerIds

\* Nobody works yet.
LEMMA InitPool == ASSUME PoolAssumption PROVE PoolInit => PoolInv
<1> SUFFICES ASSUME PoolInit PROVE PoolInv
    OBVIOUS
<1>1. PoolTypeOK
  <2>1. count \in WorkerIds
    BY NormalizedCount DEF PoolInit
  <2>2. worker \in [WorkerIds -> Ids \cup {Waiting, Gone}]
    BY DEF PoolInit
  <2>3. << >> \in Seq(Outcomes) /\ 0 \in 0 .. Groups
    BY DEF PoolAssumption
  <2> QED
    BY <2>1, <2>2, <2>3 DEF PoolInit, PoolTypeOK
<1>2. \A w \in WorkerIds : worker[w] \notin Ids
    BY DEF PoolInit, Ids, Waiting, Gone
<1>3. ChannelInv
    BY DEF PoolInit, ChannelInv, Waiting, Gone
<1>4. StopInv
    BY DEF PoolInit, StopInv, AnyFatal, AnyFailed
<1>5. PlacesInv
  <2>1. Running = {} /\ Buffered = {} /\ Folded = {}
    BY <1>2 DEF PoolInit, Running, Buffered, Folded
  <2>2. IsFiniteSet(Running) /\ Cardinality(Running) = 0
    BY <2>1, FS_EmptySet
  <2>3. Len(outcomes) = 0 /\ Len(applied) = 0 /\ next = 0
    BY DEF PoolInit
  <2> QED
    BY <1>2, <2>1, <2>2, <2>3 DEF PlacesInv
<1> QED
    BY <1>1, <1>3, <1>4, <1>5 DEF PoolInv

\* A worker that is handed a group.
LEMMA HandedOver ==
    ASSUME PoolAssumption, PoolInv, NEW w \in WorkerIds, HandOver(w), next < Groups
    PROVE  /\ worker' \in [WorkerIds -> Ids \cup {Waiting, Gone}]
           /\ next' = next + 1 /\ next' \in 0 .. Groups /\ next + 1 \in Ids
           /\ worker[w] = Waiting /\ worker'[w] = next + 1
           /\ \A v \in WorkerIds \ {w} : worker'[v] = worker[v]
BY DEF HandOver, PoolInv, PoolTypeOK, PoolAssumption, Ids

\* The types.
LEMMA TypesKept ==
    ASSUME PoolAssumption, PoolInv, PoolNext
    PROVE  PoolTypeOK'
<1>0. PoolTypeOK
    BY DEF PoolInv
<1>1. ASSUME NEW w \in WorkerIds, SendFirst(w) \/ SendNext(w) PROVE PoolTypeOK'
  <2>1. next < Groups /\ HandOver(w)
    BY <1>1 DEF SendFirst, SendNext, PoolInv, ChannelInv
  <2>2. worker' \in [WorkerIds -> Ids \cup {Waiting, Gone}] /\ next' \in 0 .. Groups
    BY <2>1, HandedOver
  <2> QED
    BY <1>0, <1>1, <2>2 DEF SendFirst, SendNext, PoolTypeOK
<1>2. CASE Receive
  <2>1. /\ Head(outcomes) \in Outcomes /\ Tail(outcomes) \in Seq(Outcomes)
        /\ Append(applied, Head(outcomes)) \in Seq(Outcomes)
    BY <1>0, <1>2, FirstOutcome, AppendedOutcome DEF Receive, PoolTypeOK
  <2> QED
    BY <1>0, <1>2, <2>1 DEF Receive, PoolTypeOK
<1>3. ASSUME NEW w \in WorkerIds, Deliver(w) PROVE PoolTypeOK'
  <2>1. PICK o \in Outcomes : outcomes' = Append(outcomes, o)
    BY <1>3 DEF Deliver, Outcomes
  <2>2. outcomes' \in Seq(Outcomes)
    BY <1>0, <2>1, AppendedOutcome DEF PoolTypeOK
  <2>3. worker' \in [WorkerIds -> Ids \cup {Waiting, Gone}]
    BY <1>0, <1>3 DEF Deliver, PoolTypeOK
  <2> QED
    BY <1>0, <1>3, <2>2, <2>3 DEF Deliver, PoolTypeOK
<1>4. ASSUME NEW w \in WorkerIds, Leave(w) PROVE PoolTypeOK'
  <2>1. worker' \in [WorkerIds -> Ids \cup {Waiting, Gone}]
    BY <1>0, <1>4 DEF Leave, PoolTypeOK
  <2> QED
    BY <1>0, <1>4, <2>1 DEF Leave, PoolTypeOK
<1>5. CASE CancelParent
    BY <1>0, <1>5 DEF CancelParent, PoolTypeOK
<1>6. CASE Prime \/ Primed
    BY <1>0, <1>6 DEF Prime, Primed, PoolTypeOK, RunContextEnded
<1>7. CASE FoldStop \/ FoldNext \/ CoordinatorEnds
  <2>1. CASE FoldStop
    <3>1. cancelled' \in BOOLEAN
      BY <1>0, <2>1 DEF FoldStop, PoolTypeOK
    <3> QED
      BY <1>0, <2>1, <3>1 DEF FoldStop, PoolTypeOK
  <2>2. CASE FoldNext
    BY <1>0, <2>2 DEF FoldNext, PoolTypeOK
  <2>3. CASE CoordinatorEnds
    BY <1>0, <2>3 DEF CoordinatorEnds, PoolTypeOK
  <2> QED
    BY <1>7, <2>1, <2>2, <2>3
<1>8. CASE CallerSteps
    BY <1>0, <1>8 DEF CallerSteps, CloseOutcomes, Return, PoolTypeOK
<1> QED
    BY <1>1, <1>2, <1>3, <1>4, <1>5, <1>6, <1>7, <1>8
       DEF PoolNext, Coordinate, WorkerSteps

\* The channels.
LEMMA ChannelsKept ==
    ASSUME PoolAssumption, PoolInv, PoolNext
    PROVE  ChannelInv'
<1>0. PoolTypeOK /\ ChannelInv
    BY DEF PoolInv
<1>1. ASSUME NEW w \in WorkerIds, SendFirst(w) \/ SendNext(w) PROVE ChannelInv'
  <2>1. next < Groups /\ HandOver(w) /\ ~jobsClosed
    BY <1>0, <1>1 DEF SendFirst, SendNext, ChannelInv
  <2>2. /\ next + 1 \in Ids /\ worker[w] = Waiting /\ worker'[w] = next + 1
        /\ \A v \in WorkerIds \ {w} : worker'[v] = worker[v]
    BY <2>1, HandedOver
  <2>3. \A v \in WorkerIds : worker'[v] = Gone => worker[v] = Gone
    BY <2>2 DEF Ids, Gone
  <2>4. main = "wait"
    BY <1>0, <2>2 DEF ChannelInv, Waiting, Gone
  <2> QED
    BY <1>0, <1>1, <2>1, <2>3, <2>4 DEF SendFirst, SendNext, ChannelInv
<1>2. CASE Receive
    BY <1>0, <1>2 DEF Receive, ChannelInv
<1>3. ASSUME NEW w \in WorkerIds, Deliver(w) PROVE ChannelInv'
  <2>1. /\ worker[w] \in Ids /\ worker'[w] = Waiting
        /\ \A v \in WorkerIds \ {w} : worker'[v] = worker[v]
    BY <1>0, <1>3 DEF Deliver, PoolTypeOK
  <2>2. \A v \in WorkerIds : worker'[v] = Gone => worker[v] = Gone
    BY <2>1 DEF Waiting, Gone
  <2>3. main = "wait" /\ coordinator # "done"
    BY <1>0, <2>1 DEF ChannelInv, Ids, Gone
  <2> QED
    BY <1>0, <1>3, <2>2, <2>3 DEF Deliver, ChannelInv
<1>4. ASSUME NEW w \in WorkerIds, Leave(w) PROVE ChannelInv'
  <2>1. /\ worker[w] = Waiting /\ jobsClosed /\ main = "wait"
    BY <1>0, <1>4 DEF Leave, ChannelInv, Waiting, Gone
  <2> QED
    BY <1>0, <1>4, <2>1 DEF Leave, ChannelInv
<1>5. CASE CancelParent
    BY <1>0, <1>5 DEF CancelParent, ChannelInv
<1>6. CASE Prime \/ Primed
    BY <1>0, <1>6 DEF Prime, Primed, PoolTypeOK, ChannelInv
<1>7. CASE FoldStop \/ FoldNext \/ CoordinatorEnds
    BY <1>0, <1>7 DEF FoldStop, FoldNext, CoordinatorEnds, ChannelInv, PoolTypeOK
<1>8. CASE CallerSteps
    BY <1>0, <1>8 DEF CallerSteps, CloseOutcomes, Return, ChannelInv
<1> QED
    BY <1>1, <1>2, <1>3, <1>4, <1>5, <1>6, <1>7, <1>8
       DEF PoolNext, Coordinate, WorkerSteps

\* Stops have reasons, and a fatal outcome stops the handing out.
LEMMA StopsKept ==
    ASSUME PoolAssumption, PoolInv, PoolNext
    PROVE  StopInv'
<1>0. PoolTypeOK /\ ChannelInv /\ StopInv
    BY DEF PoolInv
<1>1. ASSUME NEW w \in WorkerIds, SendFirst(w) \/ SendNext(w) PROVE StopInv'
  <2>1. /\ next < Groups /\ ~jobsClosed /\ next' = next + 1
        /\ jobsClosed' => next' = Groups
    <3>1. next < Groups /\ ~jobsClosed /\ next' = next + 1
      BY <1>0, <1>1 DEF SendFirst, SendNext, ChannelInv, HandOver
    <3>2. jobsClosed' => jobsClosed \/ next + 1 = Groups
      BY <1>1 DEF SendFirst, SendNext
    <3> QED
      BY <3>1, <3>2
  <2>2. UNCHANGED <<outcomes, applied, handling, cancelled, parent, stopped>>
    BY <1>1 DEF SendFirst, SendNext
  <2>3. ~cancelled /\ ~AnyFatal /\ coordinator' \in {"prime", "receive"}
    BY <1>0, <1>1 DEF SendFirst, SendNext, StopInv
  <2>4. coordinator' = "prime" => applied = << >>
    BY <1>0, <1>1 DEF SendFirst, SendNext, StopInv
  <2> QED
    BY <1>0, <2>1, <2>2, <2>3, <2>4 DEF StopInv, AnyFatal, AnyFailed
<1>2. CASE Receive
  <2>1. PICK o : /\ o = Head(outcomes) /\ outcomes # << >> /\ handling' = o
                 /\ outcomes' = Tail(outcomes) /\ applied' = Append(applied, o)
                 /\ coordinator = "receive" /\ coordinator' = "fold"
                 /\ UNCHANGED <<next, jobsClosed, cancelled, parent, stopped>>
    BY <1>2 DEF Receive
  <2>2. /\ o \in Outcomes /\ \E i \in DOMAIN outcomes : outcomes[i] = o
        /\ \A i \in DOMAIN outcomes' : \E j \in DOMAIN outcomes : outcomes'[i] = outcomes[j]
    BY <1>0, <2>1, FirstOutcome DEF PoolTypeOK
  <2>3. /\ \A i \in DOMAIN applied' :
              applied'[i] = o \/ \E j \in DOMAIN applied : applied'[i] = applied[j]
        /\ \A j \in DOMAIN applied : \E i \in DOMAIN applied' : applied'[i] = applied[j]
        /\ \E i \in DOMAIN applied' : applied'[i] = o
    <3>1. PICK t \in Seq(Outcomes) : t = applied
      BY <1>0 DEF PoolTypeOK
    <3>2. /\ \A i \in DOMAIN Append(t, o) :
                Append(t, o)[i] = o \/ \E j \in DOMAIN t : Append(t, o)[i] = t[j]
          /\ \A j \in DOMAIN t : \E i \in DOMAIN Append(t, o) : Append(t, o)[i] = t[j]
          /\ \E i \in DOMAIN Append(t, o) : Append(t, o)[i] = o
      BY <2>2, AppendedOutcome
    <3>3. applied' = Append(t, o)
      BY <2>1, <3>1
    <3> HIDE <2>1
    <3> QED
      BY <3>1, <3>2, <3>3
  <2>4. /\ \A i \in DOMAIN outcomes : outcomes[i].fatal => outcomes[i].failed
        /\ \A i \in DOMAIN applied : applied[i].fatal => applied[i].failed
    BY <1>0 DEF StopInv
  <2>5. /\ \A i \in DOMAIN outcomes' : outcomes'[i].fatal => outcomes'[i].failed
        /\ \A i \in DOMAIN applied' : applied'[i].fatal => applied'[i].failed
    BY <2>2, <2>3, <2>4
  <2>6. (AnyFatal => AnyFatal') /\ (AnyFailed => AnyFailed')
    BY <2>3 DEF AnyFatal, AnyFailed
  <2>7. AnyFatal' => AnyFatal \/ o.fatal
    BY <2>3 DEF AnyFatal
  <2>8. AnyFatal => cancelled
    BY <1>0, <2>1 DEF StopInv
  <2> QED
    BY <1>0, <2>1, <2>3, <2>5, <2>6, <2>7, <2>8 DEF StopInv
<1>3. ASSUME NEW w \in WorkerIds, Deliver(w) PROVE StopInv'
  <2>1. PICK o \in Outcomes : outcomes' = Append(outcomes, o) /\ (o.fatal => o.failed)
    BY <1>3 DEF Deliver, Outcomes
  <2>2. \A i \in DOMAIN outcomes' :
          outcomes'[i] = o \/ \E j \in DOMAIN outcomes : outcomes'[i] = outcomes[j]
    <3>1. PICK s \in Seq(Outcomes) : s = outcomes
      BY <1>0 DEF PoolTypeOK
    <3>2. \A i \in DOMAIN Append(s, o) :
            Append(s, o)[i] = o \/ \E j \in DOMAIN s : Append(s, o)[i] = s[j]
      BY AppendedOutcome
    <3> QED
      BY <2>1, <3>1, <3>2
  <2>3. \A i \in DOMAIN outcomes' : outcomes'[i].fatal => outcomes'[i].failed
    BY <1>0, <2>1, <2>2 DEF StopInv
  <2>4. UNCHANGED <<coordinator, next, jobsClosed, applied, handling, cancelled,
                    parent, stopped>>
    BY <1>3 DEF Deliver
  <2> QED
    BY <1>0, <2>3, <2>4 DEF StopInv, AnyFatal, AnyFailed
<1>4. ASSUME NEW w \in WorkerIds, Leave(w) PROVE StopInv'
    BY <1>0, <1>4 DEF Leave, StopInv, AnyFatal, AnyFailed
<1>5. CASE CancelParent
    BY <1>0, <1>5 DEF CancelParent, StopInv, AnyFatal, AnyFailed
<1>6. CASE Prime \/ Primed
  <2>1. ~cancelled /\ applied = << >>
    BY <1>0, <1>6 DEF Prime, Primed, StopInv
  <2>2. UNCHANGED <<outcomes, applied, handling, cancelled, parent, next>>
    BY <1>6 DEF Prime, Primed
  <2>3. ~AnyFatal' /\ coordinator' \in {"sendFirst", "receive"}
    BY <1>6, <2>1, <2>2 DEF Prime, Primed, AnyFatal
  <2>4. /\ jobsClosed' => stopped' \/ next = Groups
        /\ stopped' => parent \/ AnyFailed
    <3>1. CASE Prime
      BY <1>0, <3>1 DEF Prime, StopInv
    <3>2. CASE Primed
      <4>1. /\ stopped' <=> stopped \/ RunContextEnded
            /\ jobsClosed' <=> jobsClosed \/ next = Groups \/ RunContextEnded
        BY <3>2 DEF Primed
      <4> QED
        BY <1>0, <2>1, <4>1 DEF StopInv, RunContextEnded
    <3> QED
      BY <1>6, <3>1, <3>2
  <2> QED
    BY <1>0, <2>1, <2>2, <2>3, <2>4 DEF StopInv, AnyFailed
<1>7. CASE FoldStop
  <2>1. \E i \in DOMAIN applied : applied[i] = handling
    BY <1>0, <1>7 DEF FoldStop, StopInv
  <2>2. UNCHANGED <<outcomes, applied, handling, parent, next>>
    BY <1>7 DEF FoldStop
  <2>3. handling.fatal => AnyFatal
    BY <2>1 DEF AnyFatal
  <2>4. AnyFatal => AnyFailed
    BY <1>0 DEF StopInv, AnyFatal, AnyFailed
  <2>5. /\ cancelled' <=> cancelled \/ handling.fatal
        /\ coordinator' = "receive"
        /\ stopped'
        /\ handling.fatal \/ parent \/ cancelled
    BY <1>7 DEF FoldStop, RunContextEnded
  <2>6. (AnyFatal' <=> AnyFatal) /\ (AnyFailed' <=> AnyFailed)
    BY <2>2 DEF AnyFatal, AnyFailed
  <2> QED
    <3>1. cancelled' => AnyFatal
      BY <1>0, <2>3, <2>5 DEF StopInv
    <3>2. AnyFatal => cancelled'
      BY <1>0, <2>5 DEF StopInv
    <3>3. parent \/ AnyFailed
      BY <1>0, <2>3, <2>4, <2>5 DEF StopInv
    <3>4. /\ \A i \in DOMAIN outcomes' : outcomes'[i].fatal => outcomes'[i].failed
          /\ \A i \in DOMAIN applied' : applied'[i].fatal => applied'[i].failed
      BY <1>0, <2>2 DEF StopInv
    <3> QED
      BY <2>2, <2>5, <2>6, <3>1, <3>2, <3>3, <3>4 DEF StopInv
<1>8. CASE FoldNext
  <2>1. ~handling.fatal /\ ~cancelled /\ coordinator = "fold"
    BY <1>8 DEF FoldNext, RunContextEnded
  <2>2. UNCHANGED <<outcomes, applied, handling, parent, next, cancelled, jobsClosed, stopped>>
    BY <1>8 DEF FoldNext
  <2>3. coordinator' \in {"sendNext", "receive"}
    BY <1>8 DEF FoldNext
  <2>4. ~AnyFatal
    BY <1>0, <2>1 DEF StopInv
  <2> QED
    BY <1>0, <2>1, <2>2, <2>3, <2>4 DEF StopInv, AnyFatal, AnyFailed
<1>9. CASE CoordinatorEnds
  <2>1. coordinator = "receive" /\ coordinator' = "done"
    BY <1>9 DEF CoordinatorEnds
  <2>2. UNCHANGED <<outcomes, applied, handling, parent, next, cancelled, jobsClosed, stopped>>
    BY <1>9 DEF CoordinatorEnds
  <2>3. (AnyFatal' <=> AnyFatal) /\ (AnyFailed' <=> AnyFailed)
    BY <2>2 DEF AnyFatal, AnyFailed
  <2> QED
    BY <1>0, <2>1, <2>2, <2>3 DEF StopInv
<1>10. CASE CallerSteps
  <2>1. CASE CloseOutcomes
    BY <1>0, <2>1 DEF CloseOutcomes, StopInv, AnyFatal, AnyFailed
  <2>2. CASE Return
    <3>1. /\ stopped' <=> stopped \/ parent
          /\ UNCHANGED <<coordinator, outcomes, applied, handling, parent, next,
                         cancelled, jobsClosed>>
      BY <2>2 DEF Return
    <3>2. (AnyFatal' <=> AnyFatal) /\ (AnyFailed' <=> AnyFailed)
      BY <3>1 DEF AnyFatal, AnyFailed
    <3> QED
      BY <1>0, <3>1, <3>2 DEF StopInv
  <2> QED
    BY <1>10, <2>1, <2>2 DEF CallerSteps
<1> QED
    BY <1>1, <1>2, <1>3, <1>4, <1>5, <1>6, <1>7, <1>8, <1>9, <1>10
       DEF PoolNext, Coordinate, WorkerSteps

\* A group moves from the coordinator to a worker, ...
LEMMA PlacesHandedOver ==
    ASSUME PoolAssumption, PoolInv, NEW w \in WorkerIds, HandOver(w), next < Groups,
           UNCHANGED <<outcomes, applied>>
    PROVE  PlacesInv'
<1>1. /\ next' = next + 1 /\ next + 1 \in Ids
      /\ worker[w] = Waiting /\ worker'[w] = next + 1
      /\ \A v \in WorkerIds \ {w} : worker'[v] = worker[v]
    BY HandedOver
<1>2. /\ Running \cup Buffered \cup Folded = 1 .. next /\ next \in Nat
      /\ IsFiniteSet(Running)
      /\ Len(outcomes) + Len(applied) + Cardinality(Running) = next
      /\ \A u, v \in WorkerIds : u # v /\ worker[u] \in Ids => worker[u] # worker[v]
    BY DEF PoolInv, PlacesInv, PoolTypeOK
<1>3. Running' = Running \cup {next + 1}
    BY <1>1 DEF Running, Ids, Waiting
<1>4. Buffered' = Buffered /\ Folded' = Folded
    BY DEF Buffered, Folded
<1>5. next + 1 \notin Running
    BY <1>2
<1>6. IsFiniteSet(Running') /\ Cardinality(Running') = Cardinality(Running) + 1
    BY <1>2, <1>3, <1>5, FS_AddElement
<1>7. Running' \cup Buffered' \cup Folded' = 1 .. next'
    BY <1>1, <1>2, <1>3, <1>4
<1>8. \A v \in WorkerIds : worker[v] # next + 1
    BY <1>1, <1>5 DEF Running
<1>9. \A u, v \in WorkerIds : u # v /\ worker'[u] \in Ids => worker'[u] # worker'[v]
    BY <1>1, <1>2, <1>8
<1>10. Len(outcomes) \in Nat /\ Len(applied) \in Nat /\ Cardinality(Running) \in Nat
    BY <1>2, FS_CardinalityType DEF PoolInv, PoolTypeOK
<1>11. Len(outcomes') + Len(applied') + Cardinality(Running') = next'
    BY <1>1, <1>2, <1>6, <1>10
<1> QED
    BY <1>6, <1>7, <1>9, <1>11 DEF PlacesInv

\* ... from the worker to the buffer, ...
LEMMA PlacesDelivered ==
    ASSUME PoolAssumption, PoolInv, NEW w \in WorkerIds, Deliver(w)
    PROVE  PlacesInv'
<1>1. PICK o \in Outcomes : outcomes' = Append(outcomes, o) /\ o.group = worker[w]
    BY DEF Deliver, Outcomes
<1>2. /\ worker[w] \in Ids /\ worker'[w] = Waiting
      /\ \A v \in WorkerIds \ {w} : worker'[v] = worker[v]
      /\ next' = next /\ applied' = applied
    BY DEF Deliver, PoolInv, PoolTypeOK
<1>3. /\ Running \cup Buffered \cup Folded = 1 .. next /\ next \in Nat
      /\ IsFiniteSet(Running)
      /\ Len(outcomes) + Len(applied) + Cardinality(Running) = next
      /\ \A u, v \in WorkerIds : u # v /\ worker[u] \in Ids => worker[u] # worker[v]
    BY DEF PoolInv, PlacesInv, PoolTypeOK
<1>4. Running' = Running \ {worker[w]} /\ worker[w] \in Running
    BY <1>2, <1>3 DEF Running, Ids, Waiting
<1>5. Buffered' = Buffered \cup {worker[w]} /\ Len(outcomes') = Len(outcomes) + 1
  <2>1. /\ GroupsOf(outcomes') = GroupsOf(outcomes) \cup {o.group}
        /\ Len(outcomes') = Len(outcomes) + 1
    BY <1>1, AppendedOutcome DEF PoolInv, PoolTypeOK
  <2> QED
    BY <1>1, <2>1 DEF Buffered, GroupsOf
<1>6. Folded' = Folded
    BY <1>2 DEF Folded
<1>7. IsFiniteSet(Running') /\ Cardinality(Running') = Cardinality(Running) - 1
    BY <1>3, <1>4, FS_RemoveElement
<1>8. Running' \cup Buffered' \cup Folded' = 1 .. next'
    BY <1>2, <1>3, <1>4, <1>5, <1>6
<1>9. \A u, v \in WorkerIds : u # v /\ worker'[u] \in Ids => worker'[u] # worker'[v]
    BY <1>2, <1>3 DEF Ids, Waiting
<1>10. Len(outcomes) \in Nat /\ Len(applied) \in Nat /\ Cardinality(Running) \in Nat
    BY <1>3, FS_CardinalityType DEF PoolInv, PoolTypeOK
<1>11. Len(outcomes') + Len(applied') + Cardinality(Running') = next'
    BY <1>2, <1>3, <1>5, <1>7, <1>10
<1> QED
    BY <1>7, <1>8, <1>9, <1>11 DEF PlacesInv

\* ... and from the buffer to the folded.
LEMMA PlacesFolded ==
    ASSUME PoolInv, Receive
    PROVE  PlacesInv'
<1>1. PICK o : /\ o = Head(outcomes) /\ outcomes # << >>
               /\ outcomes' = Tail(outcomes) /\ applied' = Append(applied, o)
               /\ next' = next /\ worker' = worker
    BY DEF Receive
<1>2. outcomes \in Seq(Outcomes) /\ applied \in Seq(Outcomes)
    BY DEF PoolInv, PoolTypeOK
<1>3. /\ o \in Outcomes /\ outcomes' \in Seq(Outcomes)
      /\ Len(outcomes) = Len(outcomes') + 1
      /\ GroupsOf(outcomes) = GroupsOf(outcomes') \cup {o.group}
    BY <1>1, <1>2, FirstOutcome
<1>4. /\ applied' \in Seq(Outcomes)
      /\ Len(applied') = Len(applied) + 1
      /\ GroupsOf(applied') = GroupsOf(applied) \cup {o.group}
    BY <1>1, <1>2, <1>3, AppendedOutcome
<1>5. Running' = Running
    BY <1>1 DEF Running
<1>6. Buffered \cup Folded = Buffered' \cup Folded'
    BY <1>3, <1>4 DEF Buffered, Folded, GroupsOf
<1>7. Len(outcomes') + Len(applied') = Len(outcomes) + Len(applied)
    BY <1>2, <1>3, <1>4
<1> QED
    BY <1>1, <1>5, <1>6, <1>7 DEF PoolInv, PlacesInv

\* The places.
LEMMA PlacesKept ==
    ASSUME PoolAssumption, PoolInv, PoolNext
    PROVE  PlacesInv'
<1>1. ASSUME NEW w \in WorkerIds, SendFirst(w) \/ SendNext(w) PROVE PlacesInv'
  <2>1. next < Groups /\ HandOver(w) /\ UNCHANGED <<outcomes, applied>>
    BY <1>1 DEF SendFirst, SendNext, PoolInv, ChannelInv
  <2> QED
    BY <2>1, PlacesHandedOver
<1>2. ASSUME NEW w \in WorkerIds, Leave(w) PROVE PlacesInv'
  <2>1. /\ worker[w] = Waiting /\ worker'[w] = Gone
        /\ \A v \in WorkerIds \ {w} : worker'[v] = worker[v]
        /\ UNCHANGED <<next, outcomes, applied>>
    BY <1>2 DEF Leave, PoolInv, PoolTypeOK
  <2>2. Running' = Running
    BY <2>1 DEF Running, Ids, Waiting, Gone
  <2>3. Buffered' = Buffered /\ Folded' = Folded
    BY <2>1 DEF Buffered, Folded
  <2>4. \A u, v \in WorkerIds : u # v /\ worker'[u] \in Ids => worker'[u] # worker'[v]
    BY <2>1 DEF PoolInv, PlacesInv, Ids, Waiting, Gone
  <2> QED
    BY <2>1, <2>2, <2>3, <2>4 DEF PoolInv, PlacesInv
<1>3. CASE UNCHANGED <<next, worker, outcomes, applied>>
  <2>1. Running' = Running /\ Buffered' = Buffered /\ Folded' = Folded
    BY <1>3 DEF Running, Buffered, Folded
  <2> QED
    BY <1>3, <2>1 DEF PoolInv, PlacesInv
<1>4. CancelParent \/ Prime \/ Primed \/ FoldStop \/ FoldNext \/ CoordinatorEnds \/ CallerSteps
        => UNCHANGED <<next, worker, outcomes, applied>>
    BY DEF CancelParent, Prime, Primed, FoldStop, FoldNext, CoordinatorEnds, CallerSteps,
           CloseOutcomes, Return
<1> QED
    BY <1>1, <1>2, <1>3, <1>4, PlacesDelivered, PlacesFolded DEF PoolNext, Coordinate, WorkerSteps

\* However the coordinator, the workers and the caller interleave, the channels
\* are open where they are used, stops have reasons and no group gets lost.
THEOREM PoolInvariant == ASSUME PoolAssumption PROVE PoolSpec => []PoolInv
<1>1. PoolInv /\ [PoolNext]_poolVars => PoolInv'
  <2>1. CASE PoolNext
    BY <2>1, TypesKept, ChannelsKept, StopsKept, PlacesKept DEF PoolInv
  <2>2. CASE UNCHANGED poolVars
    BY <2>2 DEF poolVars, PoolInv, PoolTypeOK, ChannelInv, StopInv, PlacesInv, AnyFatal,
                AnyFailed, Running, Buffered, Folded
  <2> QED
    BY <2>1, <2>2
<1> QED
    BY <1>1, InitPool, PTL DEF PoolSpec

\* A group is handed out to a worker that can take it.
THEOREM ChannelsTheorem == ASSUME PoolAssumption PROVE PoolSpec => []ChannelsOpenWhenUsed
<1>1. PoolInv => ChannelsOpenWhenUsed
  <2> SUFFICES ASSUME PoolInv PROVE ChannelsOpenWhenUsed
    OBVIOUS
  <2>1. coordinator \in {"sendFirst", "sendNext"} => ~jobsClosed
    BY DEF PoolInv, ChannelInv
  <2>2. ASSUME Running # {} PROVE main = "wait"
    <3>1. PICK w \in WorkerIds : worker[w] \in Ids
      BY <2>2 DEF Running
    <3> QED
      BY <3>1 DEF PoolInv, ChannelInv, Ids, Gone
  <2> QED
    BY <2>1, <2>2 DEF ChannelsOpenWhenUsed
<1> QED
    BY <1>1, PoolInvariant, PTL

\* Every group handed out is in one place, and as many run as there are workers.
THEOREM EachGroupOnceTheorem == ASSUME PoolAssumption PROVE PoolSpec => []EachGroupOnce
<1>1. PoolInv => EachGroupOnce
  <2> SUFFICES ASSUME PoolInv PROVE Cardinality(Running) <= MaxWorkers
    BY DEF PoolInv, PlacesInv, EachGroupOnce
  <2> DEFINE by == [g \in Running |-> CHOOSE w \in WorkerIds : worker[w] = g]
  <2>1. \A g \in Running : by[g] \in WorkerIds /\ worker[by[g]] = g
    BY DEF Running
  <2>2. by \in [Running -> WorkerIds]
    BY <2>1
  <2>3. by \in Injection(Running, WorkerIds)
    BY <2>1, <2>2 DEF Injection, IsInjective
  <2>4. IsFiniteSet(WorkerIds) /\ Cardinality(WorkerIds) = MaxWorkers
    BY FS_Interval DEF WorkerIds, PoolAssumption
  <2> QED
    BY <2>3, <2>4, FS_Injection
<1> QED
    BY <1>1, PoolInvariant, PTL

\* What Dispatch returns is true: all groups are folded or it says that it
\* stopped, and then it can say why.
THEOREM ReturnTheorem == ASSUME PoolAssumption PROVE PoolSpec => []ReturnIsTrue
<1>1. PoolInv => ReturnIsTrue
  <2> SUFFICES ASSUME PoolInv, main = "returned"
               PROVE  /\ Folded = 1 .. next
                      /\ ~stopped => next = Groups
                      /\ stopped => parent \/ AnyFailed
    BY DEF ReturnIsTrue, AnyFailed
  <2>1. outcomes = << >> /\ \A w \in WorkerIds : worker[w] = Gone
    BY DEF PoolInv, ChannelInv
  <2>2. Running = {} /\ Buffered = {}
    BY <2>1 DEF Running, Buffered, Ids, Gone
  <2>3. Folded = 1 .. next
    BY <2>2 DEF PoolInv, PlacesInv
  <2>4. ASSUME ~stopped PROVE next = Groups
    <3>1. CASE Groups = 0
      BY <3>1 DEF PoolInv, PoolTypeOK
    <3>2. CASE Groups # 0
      <4>1. 1 \in WorkerIds /\ 1 <= count /\ 1 <= Groups
        BY <3>2 DEF PoolInv, PoolTypeOK, WorkerIds, PoolAssumption
      <4>2. jobsClosed
        BY <2>1, <4>1 DEF PoolInv, ChannelInv
      <4> QED
        BY <2>4, <4>2 DEF PoolInv, StopInv
    <3> QED
      BY <3>1, <3>2
  <2> QED
    BY <2>3, <2>4 DEF PoolInv, StopInv
<1> QED
    BY <1>1, PoolInvariant, PTL

\* The dispatcher's invariant, for any number of groups and any bounds on the
\* workers.
THEOREM DispatchTheorem == ASSUME PoolAssumption PROVE PoolSpec => []DispatchInv
<1>1. PoolInv => PoolTypeOK
    BY DEF PoolInv
<1> QED
    BY <1>1, PoolInvariant, EachGroupOnceTheorem, ChannelsTheorem, ReturnTheorem, PTL
       DEF DispatchInv

\* Once a fatal outcome has reached the coordinator no group is handed out.
THEOREM NothingAfterFatalTheorem == ASSUME PoolAssumption PROVE PoolSpec => NothingAfterFatal
<1>1. PoolInv /\ [PoolNext]_poolVars =>
        [(\E i \in DOMAIN applied : applied[i].fatal) => next' = next]_poolVars
  <2> SUFFICES ASSUME PoolInv, PoolNext, AnyFatal PROVE next' = next
    BY DEF AnyFatal
  <2>1. coordinator \notin {"sendFirst", "sendNext"}
    BY DEF PoolInv, StopInv, AnyFatal
  <2> QED
    BY <2>1 DEF PoolNext, CancelParent, Coordinate, Prime, Primed, Receive, FoldStop, FoldNext,
                CoordinatorEnds, SendFirst, SendNext, WorkerSteps, Deliver, Leave, CallerSteps,
                CloseOutcomes, Return
<1> QED
    BY <1>1, PoolInvariant, PTL DEF PoolSpec, NothingAfterFatal

-------------------------------------------------------------------------------
(* Induction, and functions defined by it.                                   *)

\* A set of subsets has a least one.
LEMMA LeastSubset ==
    ASSUME NEW S, IsFiniteSet(S), NEW B, B \subseteq SUBSET S, B # {}
    PROVE  \E T \in B : \A U \in B : U \subseteq T => U = T
<1>1. IsWellFoundedOn(StrictSubsetOrdering(S), SUBSET S)
    BY FS_StrictSubsetOrderingWellFounded, FS_FiniteSubsetsOfFinite
<1>2. PICK T \in B : \A U \in B : ~(<<U, T>> \in StrictSubsetOrdering(S))
    BY <1>1, WFMin
<1> QED
    BY <1>2 DEF StrictSubsetOrdering

\* A set of numbers with 0 that is closed under successors up to n.
LEMMA UpTo ==
    ASSUME NEW n \in Nat, NEW P, 0 \in P, \A i \in 0 .. n : i \in P /\ i < n => i + 1 \in P
    PROVE  0 .. n \subseteq P
<1> DEFINE T == {i \in 0 .. n : i \notin P}
           B == {0 .. i : i \in T}
<1>1. SUFFICES ASSUME T # {} PROVE FALSE
    OBVIOUS
<1>2. PICK U \in B : \A V \in B : V \subseteq U => V = U
  <2>1. \A i \in T : 0 .. i \subseteq 0 .. n
    OBVIOUS
  <2>2. PICK S : S = 0 .. n
    OBVIOUS
  <2>3. IsFiniteSet(S)
    BY <2>2, FS_Interval
  <2>4. B \subseteq SUBSET S /\ B # {}
    BY <1>1, <2>1, <2>2
  <2> HIDE DEF B
  <2> QED
    BY <2>3, <2>4, LeastSubset
<1>3. PICK i \in T : U = 0 .. i
    OBVIOUS
<1>4. i # 0 /\ i - 1 \in 0 .. n
    OBVIOUS
<1>5. i - 1 \notin T
  <2>1. SUFFICES ASSUME i - 1 \in T PROVE FALSE
    OBVIOUS
  <2>2. 0 .. i - 1 \in B /\ 0 .. i - 1 \subseteq U
    BY <2>1, <1>3, <1>4
  <2>3. 0 .. i - 1 = 0 .. i
    BY <2>2, <1>2, <1>3
  <2> QED
    BY <2>3, <1>4
<1> QED
    BY <1>4, <1>5

\* The values of a recursive function, step being what it does with the last one.
Recursive(f, n, V, start, step) ==
    f \in [0 .. n -> V] /\ f[0] = start /\ \A i \in 1 .. n : f[i] = step[<<i, f[i - 1]>>]

\* There is one.
LEMMA Recursion ==
    ASSUME NEW n, n \in Nat, NEW V, NEW start, start \in V,
           NEW step, step \in [(1 .. n) \X V -> V]
    PROVE  \E f : Recursive(f, n, V, start, step)
<1> DEFINE Partial(m, f) == f[0] = start /\ \A i \in 1 .. m : f[i] = step[<<i, f[i - 1]>>]
           P == {m \in 0 .. n : \E f \in [0 .. m -> V] : Partial(m, f)}
<1>1. 0 \in P
  <2> DEFINE f == [i \in 0 .. 0 |-> start]
  <2>1. f \in [0 .. 0 -> V] /\ Partial(0, f)
    OBVIOUS
  <2> HIDE DEF f
  <2> QED
    BY <2>1
<1>2. ASSUME NEW m \in 0 .. n, m \in P, m < n PROVE m + 1 \in P
  <2>1. PICK f \in [0 .. m -> V] : Partial(m, f)
    BY <1>2
  <2> DEFINE g == [i \in 0 .. m + 1 |-> IF i = m + 1 THEN step[<<m + 1, f[m]>>] ELSE f[i]]
  <2>2. m + 1 \in 1 .. n /\ m \in 0 .. m /\ f[m] \in V
    BY <1>2
  <2>3. step[<<m + 1, f[m]>>] \in V
    BY <2>2
  <2>4. g \in [0 .. m + 1 -> V]
    BY <2>3
  <2>5. \A i \in 0 .. m : g[i] = f[i]
    BY <2>2
  <2>6. g[m + 1] = step[<<m + 1, g[m]>>]
  <3>1. g[m + 1] = step[<<m + 1, f[m]>>]
    BY <2>2
  <3> HIDE DEF g
  <3> QED
    BY <3>1, <2>2, <2>5
  <2>7. ASSUME NEW i \in 1 .. m + 1 PROVE g[i] = step[<<i, g[i - 1]>>]
    <3>1. CASE i = m + 1
      BY <3>1, <2>6, <2>2
    <3>2. CASE i # m + 1
      <4>1. i \in 1 .. m /\ i - 1 \in 0 .. m /\ i \in 0 .. m
        BY <3>2, <2>2
      <4> QED
        BY <4>1, <2>1, <2>5
    <3> QED
      BY <3>1, <3>2
  <2>8. Partial(m + 1, g)
  <3>1. 0 \in 0 .. m
    BY <2>2
  <3> HIDE DEF g
  <3> QED
    BY <3>1, <2>1, <2>5, <2>7
  <2> HIDE DEF g
  <2> QED
    BY <2>4, <2>8, <2>2
<1>3. n \in P
  <2> HIDE DEF P
  <2> QED
    BY <1>1, <1>2, UpTo
<1> QED
    BY <1>3 DEF Recursive

-------------------------------------------------------------------------------
(* Sums.                                                                     *)

Block(f, x) == {x} \X (1 .. f[x])
Blocks(f) == UNION {Block(f, x) : x \in DOMAIN f}

\* Sets with nothing in common.
LEMMA DisjointUnion ==
    ASSUME NEW S, IsFiniteSet(S), NEW T, IsFiniteSet(T), S \cap T = {}
    PROVE  Cardinality(S \cup T) = Cardinality(S) + Cardinality(T)
<1>1. Cardinality({}) = 0
    BY FS_EmptySet
<1>2. Cardinality(S) \in Nat /\ Cardinality(T) \in Nat
    BY FS_CardinalityType
<1> QED
  <2>1. Cardinality(S \cap T) = 0
    BY <1>1
  <2>2. Cardinality(S \cup T) = Cardinality(S) + Cardinality(T) - Cardinality(S \cap T)
    BY FS_Union
  <2> QED
    BY <1>2, <2>1, <2>2

\* One summand.
LEMMA OneBlock ==
    ASSUME NEW x, NEW n \in Nat
    PROVE  IsFiniteSet({x} \X (1 .. n)) /\ Cardinality({x} \X (1 .. n)) = n
<1> DEFINE g == [i \in 1 .. n |-> <<x, i>>]
<1>1. g \in Bijection(1 .. n, {x} \X (1 .. n))
  <2>1. g \in [1 .. n -> {x} \X (1 .. n)]
    OBVIOUS
  <2>2. \A i, j \in 1 .. n : g[i] = g[j] => i = j
    OBVIOUS
  <2>3. \A b \in {x} \X (1 .. n) : \E i \in 1 .. n : g[i] = b
    OBVIOUS
  <2> HIDE DEF g
  <2> QED
    BY <2>1, <2>2, <2>3 DEF Bijection, Injection, IsInjective, Surjection
<1>2. ExistsBijection(1 .. n, {x} \X (1 .. n))
    BY <1>1 DEF ExistsBijection
<1> QED
    BY <1>2, FS_Interval, FS_Bijection

\* A sum is a number.
LEMMA SumIsNat ==
    ASSUME NEW S, IsFiniteSet(S), NEW f \in [S -> Nat]
    PROVE  IsFiniteSet(Blocks(f)) /\ SumOver(f) = Cardinality(Blocks(f)) /\ SumOver(f) \in Nat
<1>1. SumOver(f) = Cardinality(Blocks(f))
    BY DEF SumOver, Blocks, Block
<1>2. \A x \in S : IsFiniteSet(Block(f, x))
    BY OneBlock DEF Block
<1>3. IsFiniteSet(Blocks(f))
  <2> DEFINE B == {Block(f, x) : x \in S}
  <2>1. IsFiniteSet(B)
    <3> DEFINE h == [x \in S |-> Block(f, x)]
    <3>1. h \in Surjection(S, B)
      BY DEF Surjection
    <3> HIDE DEF h, B
    <3> QED
      BY <3>1, FS_Surjection
  <2>2. \A T \in B : IsFiniteSet(T)
    BY <1>2
  <2> HIDE DEF B
  <2>3. IsFiniteSet(UNION B)
    BY <2>1, <2>2, FS_UNION
  <2> QED
    BY <2>3 DEF B, Blocks
<1> QED
    BY <1>1, <1>3, FS_CardinalityType

\* A sum of zeros.
LEMMA SumOfZeros ==
    ASSUME NEW S, NEW f \in [S -> Nat], \A x \in S : f[x] = 0
    PROVE  SumOver(f) = 0
<1>1. UNION {{x} \X (1 .. f[x]) : x \in S} = {}
    OBVIOUS
<1> QED
    BY <1>1, FS_EmptySet DEF SumOver

\* Functions that differ in one argument.
DifferAt(S, f, g, x) ==
    x \in S /\ f \in [S -> Nat] /\ g \in [S -> Nat] /\ \A y \in S \ {x} : g[y] = f[y]

\* A summand that changes.
LEMMA SumWith ==
    ASSUME NEW S, IsFiniteSet(S), NEW f, NEW g, NEW x, DifferAt(S, f, g, x)
    PROVE  SumOver(g) = SumOver(f) - f[x] + g[x] /\ SumOver(f) \in Nat /\ SumOver(g) \in Nat
<1>0. x \in S /\ f \in [S -> Nat] /\ g \in [S -> Nat] /\ \A y \in S \ {x} : g[y] = f[y]
    BY DEF DifferAt
<1> DEFINE Rest == UNION {Block(f, y) : y \in S \ {x}}
<1>1. ASSUME NEW h \in [S -> Nat], \A y \in S \ {x} : h[y] = f[y]
      PROVE  SumOver(h) = Cardinality(Rest) + h[x] /\ Cardinality(Rest) \in Nat
  <2>1. Blocks(h) = Rest \cup Block(h, x)
    BY <1>0, <1>1 DEF Blocks, Block
  <2>2. Rest \cap Block(h, x) = {}
    BY DEF Block
  <2>3. IsFiniteSet(Blocks(h)) /\ SumOver(h) = Cardinality(Blocks(h))
    BY SumIsNat
  <2> HIDE DEF Rest
  <2>4. IsFiniteSet(Rest) /\ Cardinality(Rest) \in Nat
    BY <2>1, <2>3, FS_Subset, FS_CardinalityType
  <2>5. IsFiniteSet(Block(h, x)) /\ Cardinality(Block(h, x)) = h[x]
    BY <1>0, <1>1, OneBlock DEF Block
  <2> QED
    BY <2>1, <2>2, <2>3, <2>4, <2>5, DisjointUnion
<1> HIDE DEF Rest
<1> QED
    BY <1>0, <1>1, SumIsNat

\* Smaller summands.
LEMMA SumUpTo ==
    ASSUME NEW S, IsFiniteSet(S), NEW f \in [S -> Nat], NEW g \in [S -> Nat], \A x \in S : f[x] <= g[x]
    PROVE  SumOver(f) <= SumOver(g)
<1>1. Blocks(f) \subseteq Blocks(g)
    BY DEF Blocks, Block
<1> QED
    BY <1>1, SumIsNat, FS_Subset

\* A function that is the sum of two others.
Adds(S, f, g, h) ==
    f \in [S -> Nat] /\ g \in [S -> Nat] /\ h \in [S -> Nat] /\ \A x \in S : h[x] = f[x] + g[x]

\* Two sums put together.
LEMMA SumOfSums ==
    ASSUME NEW S, IsFiniteSet(S), NEW f, NEW g, NEW h, Adds(S, f, g, h)
    PROVE  SumOver(h) = SumOver(f) + SumOver(g)
<1> SUFFICES ASSUME f \in [S -> Nat], g \in [S -> Nat], h \in [S -> Nat], \A x \in S : h[x] = f[x] + g[x]
             PROVE  SumOver(h) = SumOver(f) + SumOver(g)
    BY DEF Adds
<1> DEFINE Upper == UNION {{x} \X (f[x] + 1 .. f[x] + g[x]) : x \in S}
           move == [b \in Blocks(g) |-> <<b[1], f[b[1]] + b[2]>>]
<1>1. /\ \A b \in Blocks(g) : b[1] \in S /\ b[2] \in 1 .. g[b[1]] /\ b = <<b[1], b[2]>>
      /\ \A x \in S : \A i \in 1 .. g[x] : <<x, i>> \in Blocks(g)
    BY DEF Blocks, Block
<1>2. /\ \A c \in Upper : c[1] \in S /\ c[2] \in f[c[1]] + 1 .. f[c[1]] + g[c[1]] /\ c = <<c[1], c[2]>>
      /\ \A x \in S : \A i \in f[x] + 1 .. f[x] + g[x] : <<x, i>> \in Upper
    OBVIOUS
<1> HIDE DEF Upper
<1>3. move \in Bijection(Blocks(g), Upper)
  <2>1. ASSUME NEW b \in Blocks(g) PROVE move[b] \in Upper
    BY <1>1, <1>2
  <2>2. ASSUME NEW b \in Blocks(g), NEW c \in Blocks(g), move[b] = move[c] PROVE b = c
    <3>1. move[b] = <<b[1], f[b[1]] + b[2]>> /\ move[c] = <<c[1], f[c[1]] + c[2]>>
      OBVIOUS
    <3>2. b[1] = c[1] /\ f[b[1]] + b[2] = f[c[1]] + c[2]
      BY <2>2, <3>1
    <3>3. b[1] \in S /\ b[2] \in 1 .. g[b[1]] /\ c[2] \in 1 .. g[c[1]] /\ f[b[1]] \in Nat
      BY <1>1
    <3>4. b[2] = c[2]
      BY <3>2, <3>3
    <3>5. b = <<b[1], b[2]>> /\ c = <<c[1], c[2]>>
      BY <1>1
    <3> QED
      BY <3>2, <3>4, <3>5
  <2>3. ASSUME NEW c \in Upper PROVE \E b \in Blocks(g) : move[b] = c
    <3>1. <<c[1], c[2] - f[c[1]]>> \in Blocks(g)
      BY <1>1, <1>2
    <3> QED
      BY <3>1, <1>2
  <2>4. move \in [Blocks(g) -> Upper]
    BY <2>1
  <2> HIDE DEF move
  <2> QED
    BY <2>2, <2>3, <2>4 DEF Bijection, Injection, IsInjective, Surjection
<1>4. IsFiniteSet(Upper) /\ Cardinality(Upper) = SumOver(g)
    BY <1>3, SumIsNat, FS_Bijection DEF ExistsBijection
<1>5. \A k \in [S -> Nat] :
         /\ \A b \in Blocks(k) : b[1] \in S /\ b[2] \in 1 .. k[b[1]] /\ b = <<b[1], b[2]>>
         /\ \A x \in S : \A i \in 1 .. k[x] : <<x, i>> \in Blocks(k)
    BY DEF Blocks, Block
<1>6. Blocks(h) = Blocks(f) \cup Upper
  <2>1. ASSUME NEW b \in Blocks(h) PROVE b \in Blocks(f) \cup Upper
    <3>1. b[1] \in S /\ b[2] \in 1 .. f[b[1]] + g[b[1]] /\ b = <<b[1], b[2]>>
      BY <1>5
    <3>2. CASE b[2] <= f[b[1]]
      BY <3>1, <3>2, <1>5
    <3>3. CASE ~(b[2] <= f[b[1]])
      BY <3>1, <3>3, <1>2
    <3> QED
      BY <3>2, <3>3
  <2>2. ASSUME NEW b \in Blocks(f) PROVE b \in Blocks(h)
    <3>1. b[1] \in S /\ b[2] \in 1 .. f[b[1]] /\ b = <<b[1], b[2]>>
      BY <1>5
    <3>2. b[2] \in 1 .. h[b[1]]
      BY <3>1
    <3> QED
      BY <3>1, <3>2, <1>5
  <2>3. ASSUME NEW b \in Upper PROVE b \in Blocks(h)
    <3>1. b[1] \in S /\ b[2] \in 1 .. h[b[1]] /\ b = <<b[1], b[2]>>
      BY <1>2
    <3> QED
      BY <3>1, <1>5
  <2> QED
    BY <2>1, <2>2, <2>3
<1>7. Blocks(f) \cap Upper = {}
    BY <1>2, <1>5
<1> QED
    BY <1>4, <1>6, <1>7, SumIsNat, DisjointUnion

-------------------------------------------------------------------------------
(* Plans.                                                                    *)

\* What the bundle has for a project.
Wanted(p) ==
    UNION {{Bundle[i].items[j] : j \in DOMAIN Bundle[i].items} :
              i \in {k \in DOMAIN Bundle : p \in Resolve(Bundle[k].who)}}

\* The entries of a project are gathered from the bundle.
LEMMA ItemsAreWanted ==
    ASSUME NEW p
    PROVE  ItemsOf(p) \in Seq(Wanted(p)) /\ Wanted(p) \subseteq Items
<1> DEFINE n == Len(Bundle)
           Mine(i) == IF p \in Resolve(Bundle[i].who) THEN Bundle[i].items ELSE <<>>
           After(i, s) == s \o Mine(i)
           Nothing == <<>>
           Eq(g) == g = [i \in 0 .. n |-> IF i = 0 THEN Nothing ELSE After(i, g[i - 1])]
           G == CHOOSE g : Eq(g)
           V == Seq(Wanted(p))
<1>1. n \in Nat /\ DOMAIN Bundle = 1 .. n
    BY ImportAssumption
<1>2. ItemsOf(p) = G[n]
    BY DEF ItemsOf
<1> HIDE DEF n
<1>3. ASSUME NEW i \in 1 .. n PROVE Mine(i) \in V
  <2>1. CASE p \in Resolve(Bundle[i].who)
    <3>1. Bundle[i].items \in Seq(Items)
      BY <1>1, ImportAssumption
    <3>2. \A j \in DOMAIN Bundle[i].items : Bundle[i].items[j] \in Wanted(p)
      BY <1>1, <2>1 DEF Wanted
    <3>3. PICK s : s = Bundle[i].items
      OBVIOUS
    <3>4. s \in Seq(Wanted(p))
      BY <3>1, <3>2, <3>3
    <3> QED
      BY <2>1, <3>3, <3>4
  <2>2. CASE ~(p \in Resolve(Bundle[i].who))
    BY <2>2
  <2> QED
    BY <2>1, <2>2
<1>4. Wanted(p) \subseteq Items
  <2>1. ASSUME NEW i \in DOMAIN Bundle, NEW j \in DOMAIN Bundle[i].items
        PROVE  Bundle[i].items[j] \in Items
    <3>1. Bundle[i].items \in Seq(Items)
      BY ImportAssumption
    <3> QED
      BY <3>1
  <2> QED
    BY <2>1 DEF Wanted
<1>5. Nothing \in V /\ \A i \in 1 .. n : \A t \in V : After(i, t) \in V
  <2>1. ASSUME NEW i \in 1 .. n, NEW t \in V PROVE After(i, t) \in V
    <3>1. Mine(i) \in V
      BY <1>3
    <3> HIDE DEF Mine
    <3> QED
      BY <3>1
  <2>2. Nothing \in V
    OBVIOUS
  <2> HIDE DEF After, Nothing, V
  <2> QED
    BY <2>1, <2>2
<1> HIDE DEF V, After, Nothing
<1>6. \E f : Eq(f)
  <2> DEFINE step == [x \in (1 .. n) \X V |-> After(x[1], x[2])]
  <2>1. step \in [(1 .. n) \X V -> V]
    BY <1>5
  <2>2. PICK f : Recursive(f, n, V, Nothing, step)
    <3> HIDE DEF step
    <3> QED
      BY <1>1, <1>5, <2>1, Recursion
  <2>3. f \in [0 .. n -> V] /\ f[0] = Nothing /\ \A i \in 1 .. n : f[i] = After(i, f[i - 1])
    <3>1. \A i \in 1 .. n : <<i, f[i - 1]>> \in (1 .. n) \X V
      BY <1>1, <2>2 DEF Recursive
    <3> QED
      BY <2>2, <3>1 DEF Recursive
  <2>4. Eq(f)
    BY <1>1, <2>3
  <2> QED
    BY <2>4
<1>7. Eq(G)
  <2> HIDE DEF Eq
  <2> QED
    BY <1>6
<1> HIDE DEF G
<1>8. /\ G[0] = Nothing /\ 0 \in 0 .. n
      /\ \A i \in 1 .. n : G[i] = After(i, G[i - 1])
    BY <1>1, <1>7
<1>9. G[n] \in V
  <2> DEFINE P == {i \in 0 .. n : G[i] \in V}
  <2>1. 0 \in P
    BY <1>5, <1>8
  <2>2. ASSUME NEW i \in 0 .. n, i \in P, i < n PROVE i + 1 \in P
    <3>1. i + 1 \in 1 .. n /\ (i + 1) - 1 = i
      BY <1>1, <2>2
    <3> QED
      BY <1>5, <1>8, <2>2, <3>1
  <2>3. n \in P
    <3> HIDE DEF P
    <3> QED
      BY SMTT(30), <1>1, <2>1, <2>2, UpTo
  <2> QED
    BY <2>3
<1> QED
    BY <1>2, <1>4, <1>9 DEF V

\* How the files of a project develop along a plan.
Course(pl, W) ==
    /\ W \in [0 .. Len(pl) -> Counts]
    /\ \A i \in 1 .. Len(pl) :
        /\ pl[i].item.kind = "file" => (Skips(pl[i]) <=> Present(W[i - 1], pl[i].item))
        /\ W[i] = IF pl[i].item.kind = "file" /\ ~Skips(pl[i])
                  THEN Count(W[i - 1], pl[i].item) ELSE W[i - 1]

\* One copy more.
LEMMA CountedFiles ==
    ASSUME NEW files \in Counts, NEW item \in Items
    PROVE  /\ <<item.type, item.digest>> \in Types \X Digests
           /\ Count(files, item) \in Counts
           /\ Count(files, item)[<<item.type, item.digest>>] = files[<<item.type, item.digest>>] + 1
           /\ \A k \in Types \X Digests :
                k # <<item.type, item.digest>> => Count(files, item)[k] = files[k]
<1>1. <<item.type, item.digest>> \in Types \X Digests
    BY DEF Items
<1> QED
    BY <1>1 DEF Counts, Count

\* What a plan says of each entry.
LEMMA PlanFollowsItems ==
    ASSUME NEW p, db[p].files \in Counts
    PROVE  LET pl == Classified(p).plan
           IN /\ pl \in Seq(Entries)
              /\ \A i \in 1 .. Len(pl) :
                    /\ pl[i].item \in Wanted(p)
                    /\ pl[i].item.kind = "logo" => (Skips(pl[i]) <=> SameLogo(db[p].logo, pl[i].item))
                    /\ pl[i].item.kind = "links" => ~Skips(pl[i])
              /\ \E W : /\ Course(pl, W) /\ W[0] = db[p].files
                        /\ Classified(p).fits =>
                            W[Len(pl)] = W[0] \/ ActiveBytes(W[Len(pl)]) <= Quota
<1> DEFINE items == ItemsOf(p)
           After(i, w) == IF items[i].kind = "file" /\ ~IsThere(p, w, items[i])
                          THEN AddPlanned(w, items[i]) ELSE w
           Files == db[p].files
           Eq(g) == g = [i \in 0 .. Len(items) |-> IF i = 0 THEN Files ELSE After(i, g[i - 1])]
           G == CHOOSE g : Eq(g)
           pl == [i \in DOMAIN items |->
                    [item |-> items[i],
                     reason |-> IF IsThere(p, G[i - 1], items[i]) THEN "present" ELSE "none"]]
           fits == G[Len(items)] = Files \/ ActiveBytes(G[Len(items)]) <= Quota
<1>1. Classified(p) = [plan |-> pl, fits |-> fits]
    BY DEF Classified
<1>2. items \in Seq(Wanted(p))
    BY ItemsAreWanted
<1> HIDE DEF items
<1>3. PICK n : n \in Nat /\ n = Len(items)
    BY <1>2
<1>4. /\ DOMAIN items = 1 .. n
      /\ \A i \in 1 .. n : items[i] \in Wanted(p) /\ items[i] \in Items
    BY <1>2, <1>3, ItemsAreWanted
<1>5. Files \in Counts /\ \A i \in 1 .. n : \A w \in Counts : After(i, w) \in Counts
    BY <1>4, CountedFiles DEF AddPlanned
<1>6. G \in [0 .. n -> Counts] /\ G[0] = Files /\ \A i \in 1 .. n : G[i] = After(i, G[i - 1])
  <2> HIDE DEF After, Files
  <2> DEFINE step == [x \in (1 .. n) \X Counts |-> After(x[1], x[2])]
  <2>1. step \in [(1 .. n) \X Counts -> Counts]
    BY <1>5
  <2>2. PICK f : Recursive(f, n, Counts, Files, step)
    <3> HIDE DEF step
    <3> QED
      BY <1>3, <1>5, <2>1, Recursion
  <2>3. f \in [0 .. n -> Counts] /\ f[0] = Files /\ \A i \in 1 .. n : f[i] = After(i, f[i - 1])
    <3>1. \A i \in 1 .. n : <<i, f[i - 1]>> \in (1 .. n) \X Counts
      BY <1>3, <2>2 DEF Recursive
    <3> QED
      BY <2>2, <3>1 DEF Recursive
  <2>4. Eq(f)
    BY <1>3, <2>3
  <2>5. Eq(G)
    <3> HIDE DEF Eq
    <3> QED
      BY <2>4
  <2> HIDE DEF G
  <2>6. /\ G[0] = Files /\ 0 \in 0 .. n
        /\ \A i \in 1 .. n : G[i] = After(i, G[i - 1])
        /\ G = [i \in 0 .. n |-> G[i]]
    BY <1>3, <2>5
  <2> DEFINE P == {i \in 0 .. n : G[i] \in Counts}
  <2>7. 0 \in P
    BY <1>5, <2>6
  <2>8. ASSUME NEW i \in 0 .. n, i \in P, i < n PROVE i + 1 \in P
    <3>1. i + 1 \in 1 .. n /\ (i + 1) - 1 = i
      BY <1>3, <2>8
    <3>2. G[i + 1] = After(i + 1, G[i]) /\ G[i] \in Counts
      BY <2>6, <2>8, <3>1
    <3>3. G[i + 1] \in Counts
      BY <1>5, <3>1, <3>2
    <3> QED
      BY <3>1, <3>3
  <2>9. 0 .. n \subseteq P
    <3> HIDE DEF P
    <3> QED
      BY <1>3, <2>7, <2>8, UpTo
  <2> QED
    BY <2>6, <2>9
<1> HIDE DEF G
<1>7. /\ pl \in Seq(Entries) /\ Len(pl) = n
      /\ \A i \in 1 .. n :
            /\ pl[i].item = items[i]
            /\ Skips(pl[i]) <=> IsThere(p, G[i - 1], items[i])
  <2>1. \A i \in 1 .. n : pl[i] \in Entries
    BY <1>4 DEF Entries
  <2>2. \A i \in 1 .. n : pl[i].item = items[i] /\ (Skips(pl[i]) <=> IsThere(p, G[i - 1], items[i]))
    BY <1>4 DEF Skips
  <2>3. pl \in [1 .. n -> Entries]
    BY <1>4, <2>1
  <2> HIDE DEF pl
  <2> QED
    BY <1>3, <2>2, <2>3
<1>8. fits => G[n] = G[0] \/ ActiveBytes(G[n]) <= Quota
    BY <1>3, <1>6
<1> HIDE DEF pl, fits
<1>9. Classified(p).plan = pl /\ (Classified(p).fits <=> fits)
    BY <1>1
<1>10. ASSUME NEW i \in 1 .. n
       PROVE  /\ pl[i].item.kind = "logo" => (Skips(pl[i]) <=> SameLogo(db[p].logo, pl[i].item))
              /\ pl[i].item.kind = "links" => ~Skips(pl[i])
              /\ pl[i].item.kind = "file" => (Skips(pl[i]) <=> Present(G[i - 1], pl[i].item))
              /\ G[i] = IF pl[i].item.kind = "file" /\ ~Skips(pl[i])
                        THEN Count(G[i - 1], pl[i].item) ELSE G[i - 1]
    BY <1>6, <1>7 DEF IsThere, AddPlanned
<1>11. Course(pl, G) /\ G[0] = db[p].files
    BY <1>6, <1>7, <1>10 DEF Course
<1> QED
    BY <1>4, <1>7, <1>8, <1>9, <1>10, <1>11

-------------------------------------------------------------------------------
(* The books of a run: what is committed, reported, pending and owed.        *)

Rows == [revision : Nat, deleted : BOOLEAN, logo : Images, links : Images, files : Counts]
Jobs == [state : Busy \cup {"none", "done", "failed"}, next : Nat, revision : Nat,
         uploaded : Nat, skipped : Nat]
Totals == [uploaded : Nat, skipped : Nat, failed : Nat]

\* Entries of a plan that count when they are passed, up to the n-th.
Counted(pl, n) == Cardinality({i \in 1 .. n : ~(Merges /\ Skips(pl[i]))})

\* Where the work on a project stands.
JobInv(pl, w) ==
    /\ w.state = "none" => w = Idle
    /\ w.state \in Busy =>
        /\ w.next \in 1 .. Len(pl)
        /\ w.uploaded + w.skipped = Counted(pl, w.next - 1)
    /\ w.state \in {"read", "send"} => ~Skips(pl[w.next])

\* Uploaded and not yet reported; and what is still to be counted.
Pending(ws) == SumOver([p \in Projects |-> IF ws[p].state \in Busy THEN ws[p].uploaded ELSE 0])
Owed(pls, ws) ==
    SumOver([p \in Projects |-> IF ws[p].state = "done" THEN 0 ELSE Counted(pls[p], Len(pls[p]))])
Planned(pls) == SumOver([p \in Projects |-> Len(pls[p])])

\* What was committed is reported or pending, and without a failure what is
\* still owed makes up for the rest of the plan.
Balanced(pls, ws, halt, res, com) ==
    /\ res.uploaded + Pending(ws) = com
    /\ res.failed = 0 =>
        /\ halt = "no" /\ \A p \in Projects : ws[p].state # "failed"
        /\ res.uploaded + res.skipped + Owed(pls, ws) = Planned(pls)

\* The books of a run.
AccountInv(ph, pls, ws, halt, res, com) ==
    /\ ph \in {"new", "refused"} =>
        /\ com = 0 /\ halt = "no"
        /\ res = [uploaded |-> 0, skipped |-> 0, failed |-> 0]
    /\ ph # "applying" => \A p \in Projects : ws[p].state \notin Busy
    /\ ph \in {"new", "refused"} => \A p \in Projects : ws[p] = Idle
    /\ ph \in {"applying", "over"} => Balanced(pls, ws, halt, res, com)
    /\ ph = "over" /\ res.failed = 0 => \A p \in Projects : pls[p] # <<>> => ws[p].state = "done"

RunInv ==
    \A r \in Runs :
        /\ AccountInv(phase[r], plan[r], work[r], halted[r], result[r], commits[r])
        /\ \A p \in Projects : JobInv(plan[r][p], work[r][p])

-------------------------------------------------------------------------------

\* Counting one entry more.
LEMMA CountOneMore ==
    ASSUME NEW pl, NEW n \in Nat, n # 0
    PROVE  /\ Counted(pl, n - 1) \in Nat
           /\ Counted(pl, n) = Counted(pl, n - 1) + (IF Merges /\ Skips(pl[n]) THEN 0 ELSE 1)
<1> DEFINE C(m) == {i \in 1 .. m : ~(Merges /\ Skips(pl[i]))}
<1>1. IsFiniteSet(1 .. n - 1)
    BY FS_Interval
<1>2. IsFiniteSet(C(n - 1)) /\ n \notin C(n - 1) /\ Cardinality(C(n - 1)) \in Nat
    BY <1>1, FS_Subset, FS_CardinalityType
<1>3. CASE Merges /\ Skips(pl[n])
  <2>1. C(n) = C(n - 1)
    BY <1>3
  <2> QED
    BY <1>2, <1>3, <2>1 DEF Counted
<1>4. CASE ~(Merges /\ Skips(pl[n]))
  <2>1. C(n) = C(n - 1) \cup {n}
    BY <1>4
  <2>2. Cardinality(C(n)) = Cardinality(C(n - 1)) + 1
    <3> HIDE DEF C
    <3> QED
      BY <1>2, <2>1, FS_AddElement
  <2> QED
    BY <1>2, <1>4, <2>2 DEF Counted
<1> QED
    BY <1>3, <1>4

\* None, and what remains for the planned skips.
LEMMA CountAll ==
    ASSUME NEW pl, NEW n \in Nat
    PROVE  /\ Counted(pl, 0) = 0
           /\ Counted(pl, n) \in Nat
           /\ Cardinality({i \in 1 .. n : Skips(pl[i])}) \in Nat
           /\ Merges => Counted(pl, n) + Cardinality({i \in 1 .. n : Skips(pl[i])}) = n
           /\ ~Merges => Counted(pl, n) = n
<1> DEFINE C == {i \in 1 .. n : ~(Merges /\ Skips(pl[i]))}
           D == {i \in 1 .. n : Skips(pl[i])}
<1>1. IsFiniteSet(1 .. n) /\ Cardinality(1 .. n) = n
    BY FS_Interval
<1>2. IsFiniteSet(C) /\ IsFiniteSet(D) /\ Cardinality(C) \in Nat /\ Cardinality(D) \in Nat
    BY <1>1, FS_Subset, FS_CardinalityType
<1>3. Counted(pl, 0) = 0
  <2>1. {i \in 1 .. 0 : ~(Merges /\ Skips(pl[i]))} = {}
    OBVIOUS
  <2> QED
    BY <2>1, FS_EmptySet DEF Counted
<1>4. Merges => C \cup D = 1 .. n /\ C \cap D = {}
    OBVIOUS
<1>5. ~Merges => C = 1 .. n
    OBVIOUS
<1>6. Merges => Cardinality(C) + Cardinality(D) = n
  <2> HIDE DEF C, D
  <2> QED
    BY <1>1, <1>2, <1>4, DisjointUnion
<1> QED
    BY <1>1, <1>2, <1>3, <1>5, <1>6 DEF Counted

\* The sums when the work on one project moves.
LEMMA SumsMove ==
    ASSUME NEW pls \in [Projects -> Seq(Entries)], NEW ws \in [Projects -> Jobs],
           NEW vs \in [Projects -> Jobs], NEW p \in Projects,
           \A q \in Projects \ {p} : vs[q] = ws[q]
    PROVE  /\ Pending(ws) \in Nat /\ Owed(pls, ws) \in Nat
           /\ Pending(vs) = Pending(ws) - (IF ws[p].state \in Busy THEN ws[p].uploaded ELSE 0)
                                        + (IF vs[p].state \in Busy THEN vs[p].uploaded ELSE 0)
           /\ Owed(pls, vs) =
                Owed(pls, ws) - (IF ws[p].state = "done" THEN 0 ELSE Counted(pls[p], Len(pls[p])))
                              + (IF vs[p].state = "done" THEN 0 ELSE Counted(pls[p], Len(pls[p])))
<1> DEFINE Pend(us) == [q \in Projects |-> IF us[q].state \in Busy THEN us[q].uploaded ELSE 0]
           Owe(us) == [q \in Projects |->
                        IF us[q].state = "done" THEN 0 ELSE Counted(pls[q], Len(pls[q]))]
<1>1. IsFiniteSet(Projects)
    BY ImportAssumption
<1>2. \A q \in Projects : Counted(pls[q], Len(pls[q])) \in Nat
  <2>1. \A q \in Projects : Len(pls[q]) \in Nat
    OBVIOUS
  <2> QED
    BY <2>1, CountAll
<1>3. \A us \in [Projects -> Jobs] : Pend(us) \in [Projects -> Nat] /\ Owe(us) \in [Projects -> Nat]
    BY <1>2 DEF Jobs
<1>4. \A q \in Projects \ {p} : Pend(vs)[q] = Pend(ws)[q] /\ Owe(vs)[q] = Owe(ws)[q]
    OBVIOUS
<1>5. Pending(ws) = SumOver(Pend(ws)) /\ Pending(vs) = SumOver(Pend(vs))
    BY DEF Pending
<1>6. Owed(pls, ws) = SumOver(Owe(ws)) /\ Owed(pls, vs) = SumOver(Owe(vs))
    BY DEF Owed
<1>7. /\ Pend(ws)[p] = IF ws[p].state \in Busy THEN ws[p].uploaded ELSE 0
      /\ Pend(vs)[p] = IF vs[p].state \in Busy THEN vs[p].uploaded ELSE 0
      /\ Owe(ws)[p] = IF ws[p].state = "done" THEN 0 ELSE Counted(pls[p], Len(pls[p]))
      /\ Owe(vs)[p] = IF vs[p].state = "done" THEN 0 ELSE Counted(pls[p], Len(pls[p]))
    OBVIOUS
<1>8. DifferAt(Projects, Pend(ws), Pend(vs), p) /\ DifferAt(Projects, Owe(ws), Owe(vs), p)
  <2> HIDE DEF Pend, Owe
  <2> QED
    BY <1>3, <1>4 DEF DifferAt
<1> HIDE DEF Pend, Owe
<1>9. /\ SumOver(Pend(vs)) = SumOver(Pend(ws)) - Pend(ws)[p] + Pend(vs)[p]
      /\ SumOver(Pend(ws)) \in Nat
      /\ SumOver(Owe(vs)) = SumOver(Owe(ws)) - Owe(ws)[p] + Owe(vs)[p]
      /\ SumOver(Owe(ws)) \in Nat
    BY <1>1, <1>8, SumWith
<1> QED
    BY <1>5, <1>6, <1>7, <1>9

\* The work on one project moves, on balanced books.
Moved(pls, ws, vs, p, halt, res, com) ==
    /\ pls \in [Projects -> Seq(Entries)]
    /\ ws \in [Projects -> Jobs] /\ vs \in [Projects -> Jobs] /\ p \in Projects
    /\ \A q \in Projects \ {p} : vs[q] = ws[q]
    /\ res \in Totals /\ com \in Nat
    /\ Balanced(pls, ws, halt, res, com) /\ JobInv(pls[p], ws[p])

\* A worker begins, or goes on with the same entry.
GoesOn(pl, w, v) ==
    \/ w.state = "none" /\ pl # <<>> /\ v = [w EXCEPT !.state = "check", !.next = 1]
    \/ /\ w.state \in Busy /\ v.state \in {"read", "send"}
       /\ ~Skips(pl[w.next]) /\ v.next = w.next
       /\ v.uploaded = w.uploaded /\ v.skipped = w.skipped

\* The job is consistent after that, and nothing is to be counted.
LEMMA JobGoesOn ==
    ASSUME NEW pl \in Seq(Entries), NEW w \in Jobs, NEW v \in Jobs, JobInv(pl, w), GoesOn(pl, w, v)
    PROVE  /\ JobInv(pl, v) /\ w.state # "done" /\ v.state \in Busy
           /\ (IF w.state \in Busy THEN w.uploaded ELSE 0) = v.uploaded
<1>1. PICK n : n \in Nat /\ n = Len(pl) /\ (pl # <<>> => n # 0)
    OBVIOUS
<1>2. Counted(pl, 0) = 0
    BY CountAll
<1>3. CASE w.state = "none" /\ pl # <<>> /\ v = [w EXCEPT !.state = "check", !.next = 1]
  <2>1. w = Idle
    BY <1>3 DEF JobInv
  <2>2. v = [state |-> "check", next |-> 1, revision |-> 0, uploaded |-> 0, skipped |-> 0]
    BY <1>3, <2>1 DEF Idle
  <2> QED
    BY <1>1, <1>2, <1>3, <2>1, <2>2 DEF JobInv, Busy, Idle
<1>4. CASE /\ w.state \in Busy /\ v.state \in {"read", "send"}
           /\ ~Skips(pl[w.next]) /\ v.next = w.next
           /\ v.uploaded = w.uploaded /\ v.skipped = w.skipped
    BY <1>4 DEF JobInv, Busy
<1> QED
    BY <1>3, <1>4 DEF GoesOn

\* The books stay balanced.
LEMMA BooksGoOn ==
    ASSUME NEW pls, NEW ws, NEW vs, NEW p, NEW halt, NEW res, NEW com,
           Moved(pls, ws, vs, p, halt, res, com), GoesOn(pls[p], ws[p], vs[p])
    PROVE  Balanced(pls, vs, halt, res, com) /\ JobInv(pls[p], vs[p])
<1>1. /\ pls \in [Projects -> Seq(Entries)]
      /\ ws \in [Projects -> Jobs] /\ vs \in [Projects -> Jobs] /\ p \in Projects
      /\ \A q \in Projects \ {p} : vs[q] = ws[q]
      /\ Balanced(pls, ws, halt, res, com) /\ JobInv(pls[p], ws[p])
    BY DEF Moved
<1>2. /\ JobInv(pls[p], vs[p]) /\ ws[p].state # "done" /\ vs[p].state \in Busy
      /\ (IF ws[p].state \in Busy THEN ws[p].uploaded ELSE 0) = vs[p].uploaded
    BY <1>1, JobGoesOn
<1>3. /\ Pending(ws) \in Nat /\ Pending(vs) = Pending(ws) - vs[p].uploaded + vs[p].uploaded
      /\ Owed(pls, ws) \in Nat
      /\ Owed(pls, vs) = Owed(pls, ws) - Counted(pls[p], Len(pls[p])) + Counted(pls[p], Len(pls[p]))
  <2>1. vs[p].state # "done"
    BY <1>2 DEF Busy
  <2> QED
    BY <1>1, <1>2, <2>1, SumsMove
<1>4. vs[p].uploaded \in Nat /\ Counted(pls[p], Len(pls[p])) \in Nat
  <2>1. Len(pls[p]) \in Nat /\ vs[p] \in Jobs
    BY <1>1
  <2> QED
    BY <2>1, CountAll DEF Jobs
<1>5. Pending(vs) = Pending(ws) /\ Owed(pls, vs) = Owed(pls, ws)
    BY <1>3, <1>4
<1>6. \A q \in Projects : vs[q].state = "failed" => ws[q].state = "failed"
    BY <1>1, <1>2 DEF Busy
<1> QED
    BY <1>1, <1>2, <1>5, <1>6 DEF Balanced

\* An entry is dealt with: done of it is what was uploaded, passed what was skipped.
Advances(pl, w, v, res, res2, done, passed) ==
    /\ w.state \in Busy /\ done \in Nat /\ passed \in Nat
    /\ done + passed = IF Merges /\ Skips(pl[w.next]) THEN 0 ELSE 1
    /\ IF w.next = Len(pl)
       THEN /\ v.state = "done"
            /\ res2.uploaded = res.uploaded + (w.uploaded + done)
            /\ res2.skipped = res.skipped + (w.skipped + passed)
            /\ res2.failed = res.failed
       ELSE /\ v.state = "check" /\ v.next = w.next + 1
            /\ v.uploaded = w.uploaded + done /\ v.skipped = w.skipped + passed
            /\ res2 = res

\* The job after the entry, and what is counted of it.
LEMMA JobAdvances ==
    ASSUME NEW pl \in Seq(Entries), NEW w \in Jobs, NEW v \in Jobs, NEW res, NEW res2, NEW done, NEW passed,
           JobInv(pl, w), Advances(pl, w, v, res, res2, done, passed)
    PROVE  /\ JobInv(pl, v) /\ v.state \in {"done", "check"} /\ w.state \in Busy
           /\ done \in Nat /\ passed \in Nat
           /\ v.state = "done" => /\ res2.uploaded = res.uploaded + (w.uploaded + done)
                                  /\ res2.skipped = res.skipped + (w.skipped + passed)
                                  /\ res2.failed = res.failed
                                  /\ w.uploaded + done + w.skipped + passed = Counted(pl, Len(pl))
           /\ v.state = "check" => res2 = res /\ v.uploaded = w.uploaded + done
<1>1. PICK n : n \in Nat /\ n = Len(pl)
    OBVIOUS
<1>2. PICK m : m = w.next /\ m \in 1 .. n /\ w.uploaded + w.skipped = Counted(pl, m - 1)
    BY <1>1 DEF JobInv, Advances
<1>3. w.uploaded \in Nat /\ w.skipped \in Nat
    BY DEF Jobs
<1>4. /\ done \in Nat /\ passed \in Nat /\ w.state \in Busy
      /\ done + passed = IF Merges /\ Skips(pl[m]) THEN 0 ELSE 1
    BY <1>2 DEF Advances
<1>5. w.uploaded + done + w.skipped + passed = Counted(pl, m)
  <2>1. m \in Nat /\ m # 0
    BY <1>1, <1>2
  <2>2. /\ Counted(pl, m - 1) \in Nat
        /\ Counted(pl, m) = Counted(pl, m - 1) + (IF Merges /\ Skips(pl[m]) THEN 0 ELSE 1)
    BY <2>1, CountOneMore
  <2> QED
    BY SMTT(30), <1>2, <1>3, <1>4, <2>2
<1>6. CASE m = n
  <2>1. /\ v.state = "done"
        /\ res2.uploaded = res.uploaded + (w.uploaded + done)
        /\ res2.skipped = res.skipped + (w.skipped + passed)
        /\ res2.failed = res.failed
    BY <1>1, <1>2, <1>6 DEF Advances
  <2>2. JobInv(pl, v)
    BY <2>1 DEF JobInv, Busy
  <2> QED
    BY <1>1, <1>4, <1>5, <1>6, <2>1, <2>2
<1>7. CASE m # n
  <2>1. /\ v.state = "check" /\ v.next = m + 1 /\ res2 = res
        /\ v.uploaded = w.uploaded + done /\ v.skipped = w.skipped + passed
    BY <1>1, <1>2, <1>7 DEF Advances
  <2>2. JobInv(pl, v)
    <3>1. m + 1 \in 1 .. Len(pl) /\ (m + 1) - 1 = m
      BY <1>1, <1>2, <1>7
    <3>2. v.uploaded + v.skipped = Counted(pl, m)
      BY <1>3, <1>4, <1>5, <2>1
    <3> QED
      BY <2>1, <3>1, <3>2 DEF JobInv, Busy
  <2> QED
    BY <1>4, <2>1, <2>2
<1> QED
    BY <1>6, <1>7

\* The arithmetic of the books.
LEMMA Balance ==
    ASSUME NEW up \in Nat, NEW skip \in Nat, NEW pend \in Nat, NEW owed \in Nat, NEW c \in Nat,
           NEW wup \in Nat, NEW wskip \in Nat, NEW done \in Nat, NEW passed \in Nat, NEW com \in Nat,
           up + pend = com
    PROVE  /\ (up + (wup + done)) + (pend - wup) = com + done
           /\ up + (pend - wup + (wup + done)) = com + done
           /\ wup + done + wskip + passed = c =>
                (up + (wup + done)) + (skip + (wskip + passed)) + (owed - c) = up + skip + owed
    OBVIOUS

\* The books balance when an entry is dealt with.
LEMMA BooksAdvance ==
    ASSUME NEW pls, NEW ws, NEW vs, NEW p, NEW halt, NEW res, NEW res2, NEW com, NEW done, NEW passed,
           Moved(pls, ws, vs, p, halt, res, com),
           Advances(pls[p], ws[p], vs[p], res, res2, done, passed)
    PROVE  Balanced(pls, vs, halt, res2, com + done) /\ JobInv(pls[p], vs[p])
<1>1. /\ pls \in [Projects -> Seq(Entries)]
      /\ ws \in [Projects -> Jobs] /\ vs \in [Projects -> Jobs] /\ p \in Projects
      /\ \A q \in Projects \ {p} : vs[q] = ws[q]
      /\ Balanced(pls, ws, halt, res, com) /\ JobInv(pls[p], ws[p])
      /\ res.uploaded \in Nat /\ res.skipped \in Nat /\ com \in Nat
    BY DEF Moved, Totals
<1>2. pls[p] \in Seq(Entries) /\ ws[p] \in Jobs /\ vs[p] \in Jobs
    BY <1>1
<1>3. /\ JobInv(pls[p], vs[p]) /\ vs[p].state \in {"done", "check"} /\ ws[p].state \in Busy
      /\ done \in Nat /\ passed \in Nat
      /\ vs[p].state = "done" =>
            /\ res2.uploaded = res.uploaded + (ws[p].uploaded + done)
            /\ res2.skipped = res.skipped + (ws[p].skipped + passed)
            /\ res2.failed = res.failed
            /\ ws[p].uploaded + done + ws[p].skipped + passed = Counted(pls[p], Len(pls[p]))
      /\ vs[p].state = "check" => res2 = res /\ vs[p].uploaded = ws[p].uploaded + done
    BY <1>1, <1>2, JobAdvances
<1>4. ws[p].uploaded \in Nat /\ ws[p].skipped \in Nat /\ ws[p].state # "done"
    BY <1>2, <1>3 DEF Jobs, Busy
<1>5. PICK c \in Nat : c = Counted(pls[p], Len(pls[p]))
  <2>1. Len(pls[p]) \in Nat
    BY <1>2
  <2> QED
    BY <2>1, CountAll
<1>6. /\ Pending(ws) \in Nat /\ Owed(pls, ws) \in Nat
      /\ Pending(vs) = Pending(ws) - ws[p].uploaded
                                   + (IF vs[p].state \in Busy THEN vs[p].uploaded ELSE 0)
      /\ Owed(pls, vs) = Owed(pls, ws) - c + (IF vs[p].state = "done" THEN 0 ELSE c)
    BY <1>1, <1>3, <1>4, <1>5, SumsMove
<1>7. \A q \in Projects : vs[q].state = "failed" => ws[q].state = "failed"
    BY <1>1, <1>3
<1>8. /\ res.uploaded + Pending(ws) = com
      /\ res.failed = 0 =>
            /\ halt = "no" /\ \A q \in Projects : ws[q].state # "failed"
            /\ res.uploaded + res.skipped + Owed(pls, ws) = Planned(pls)
    BY <1>1 DEF Balanced
<1>9. PICK up \in Nat, skip \in Nat, pend \in Nat, owed \in Nat, wup \in Nat, wskip \in Nat :
        /\ up = res.uploaded /\ skip = res.skipped /\ pend = Pending(ws) /\ owed = Owed(pls, ws)
        /\ wup = ws[p].uploaded /\ wskip = ws[p].skipped
    BY <1>1, <1>4, <1>6
<1>10. /\ (up + (wup + done)) + (pend - wup) = com + done
       /\ up + (pend - wup + (wup + done)) = com + done
       /\ wup + done + wskip + passed = c =>
            (up + (wup + done)) + (skip + (wskip + passed)) + (owed - c) = up + skip + owed
  <2>1. done \in Nat /\ passed \in Nat /\ com \in Nat /\ up + pend = com
    BY <1>1, <1>3, <1>8, <1>9
  <2> QED
    BY <2>1, Balance
<1>11. /\ res2.uploaded + Pending(vs) = com + done /\ res2.failed = res.failed
       /\ res2.uploaded + res2.skipped + Owed(pls, vs) = res.uploaded + res.skipped + Owed(pls, ws)
  <2>1. CASE vs[p].state = "done"
    <3>1. Pending(vs) = pend - wup /\ Owed(pls, vs) = owed - c
      BY <1>5, <1>6, <1>9, <2>1 DEF Busy
    <3>2. /\ res2.uploaded = up + (wup + done) /\ res2.skipped = skip + (wskip + passed)
          /\ wup + done + wskip + passed = c /\ res2.failed = res.failed
      BY <1>3, <1>5, <1>9, <2>1
    <3> QED
      BY <1>9, <1>10, <3>1, <3>2
  <2>2. CASE vs[p].state = "check"
    <3>1. Pending(vs) = pend - wup + (wup + done) /\ Owed(pls, vs) = owed
      BY SMTT(30), <1>3, <1>5, <1>6, <1>9, <2>2 DEF Busy
    <3>2. res2 = res
      BY <1>3, <2>2
    <3> QED
      BY <1>9, <1>10, <3>1, <3>2
  <2> QED
    BY <1>3, <2>1, <2>2
<1> QED
    BY <1>3, <1>7, <1>8, <1>11 DEF Balanced

\* A failure is reported with what was done before.
LEMMA BooksFail ==
    ASSUME NEW pls, NEW ws, NEW vs, NEW p, NEW halt, NEW halt2, NEW res, NEW res2, NEW com,
           Moved(pls, ws, vs, p, halt, res, com), ws[p].state \in Busy, vs[p].state = "failed",
           res2.uploaded = res.uploaded + ws[p].uploaded, res2.failed # 0
    PROVE  Balanced(pls, vs, halt2, res2, com) /\ JobInv(pls[p], vs[p])
<1>1. /\ pls \in [Projects -> Seq(Entries)]
      /\ ws \in [Projects -> Jobs] /\ vs \in [Projects -> Jobs] /\ p \in Projects
      /\ \A q \in Projects \ {p} : vs[q] = ws[q]
      /\ Balanced(pls, ws, halt, res, com) /\ res \in Totals /\ com \in Nat
    BY DEF Moved
<1>3. ws[p].uploaded \in Nat /\ ws[p].state # "done" /\ vs[p].state \notin Busy
  <2>1. ws[p] \in Jobs
    BY <1>1
  <2> QED
    BY <2>1 DEF Jobs, Busy
<1>4. res.uploaded \in Nat /\ res2.uploaded = res.uploaded + ws[p].uploaded /\ res2.failed # 0
    BY <1>1 DEF Totals
<1>5. Pending(ws) \in Nat /\ Pending(vs) = Pending(ws) - ws[p].uploaded + 0
    BY <1>1, <1>3, SumsMove
<1>6. res2.uploaded + Pending(vs) = com
  <2>1. res.uploaded + Pending(ws) = com
    BY <1>1 DEF Balanced
  <2> QED
    BY <1>3, <1>4, <1>5, <2>1
<1>7. Balanced(pls, vs, halt2, res2, com)
    BY <1>4, <1>6 DEF Balanced
<1>8. JobInv(pls[p], vs[p])
    BY DEF JobInv, Busy
<1> QED
    BY <1>7, <1>8

-------------------------------------------------------------------------------
(* Steps that keep the books.                                                *)

\* The variables of the runs.
RunTypes ==
    /\ phase \in [Runs -> {"new", "refused", "applying", "over", "crashed"}]
    /\ plan \in [Runs -> [Projects -> Seq(Entries)]]
    /\ work \in [Runs -> [Projects -> Jobs]]
    /\ halted \in [Runs -> {"no", "fatal", "cancelled"}]
    /\ result \in [Runs -> Totals]
    /\ commits \in [Runs -> Nat]

\* And the others.
OtherTypes ==
    /\ db \in [Projects -> Rows]
    /\ touched \subseteq Projects /\ beside \subseteq Runs
    /\ edits \in Nat /\ faults \in Nat /\ crashes \in Nat

\* What was committed and not heard of hides behind failures.
LostInv ==
    /\ unheard \in [Runs -> Nat] /\ bare \subseteq Projects \X Items
    /\ \A r \in Runs : unheard[r] <= result[r].failed

\* The type invariant in three parts.
LEMMA ThreeTypes == RunTypes /\ OtherTypes /\ LostInv => ImportTypeOK
    BY DEF ImportTypeOK, RunTypes, OtherTypes, LostInv, Jobs, Rows, Totals

\* Books that are opened when a run begins to apply its plan.
LEMMA BooksOpen ==
    ASSUME NEW pls \in [Projects -> Seq(Entries)], NEW ws \in [Projects -> Jobs],
           \A p \in Projects : ws[p] = Idle
    PROVE  /\ PlannedSkips(pls) \in Nat
           /\ Balanced(pls, ws, "no",
                [uploaded |-> 0, skipped |-> IF Merges THEN PlannedSkips(pls) ELSE 0, failed |-> 0], 0)
           /\ \A p \in Projects : JobInv(pls[p], ws[p])
<1> DEFINE Skip == [p \in Projects |-> Cardinality({i \in DOMAIN pls[p] : pls[p][i].reason # "none"})]
           Owe == [p \in Projects |-> Counted(pls[p], Len(pls[p]))]
           Lengths == [p \in Projects |-> Len(pls[p])]
           Zero == [p \in Projects |-> 0]
<1>1. IsFiniteSet(Projects)
    BY ImportAssumption
<1>2. \A p \in Projects : /\ Len(pls[p]) \in Nat /\ DOMAIN pls[p] = 1 .. Len(pls[p])
                          /\ {i \in DOMAIN pls[p] : pls[p][i].reason # "none"}
                                = {i \in 1 .. Len(pls[p]) : Skips(pls[p][i])}
    BY DEF Skips
<1>3. \A p \in Projects : /\ Skip[p] \in Nat /\ Owe[p] \in Nat /\ Lengths[p] \in Nat
                          /\ Merges => Lengths[p] = Owe[p] + Skip[p]
                          /\ ~Merges => Lengths[p] = Owe[p]
  <2> SUFFICES ASSUME NEW p \in Projects
               PROVE  /\ Skip[p] \in Nat /\ Owe[p] \in Nat /\ Lengths[p] \in Nat
                      /\ Merges => Lengths[p] = Owe[p] + Skip[p]
                      /\ ~Merges => Lengths[p] = Owe[p]
    OBVIOUS
  <2>1. PICK n : n \in Nat /\ n = Len(pls[p])
    BY <1>2
  <2>2. /\ Counted(pls[p], n) \in Nat
        /\ Cardinality({i \in 1 .. n : Skips(pls[p][i])}) \in Nat
        /\ Merges => Counted(pls[p], n) + Cardinality({i \in 1 .. n : Skips(pls[p][i])}) = n
        /\ ~Merges => Counted(pls[p], n) = n
    BY <2>1, CountAll
  <2>3. Skip[p] = Cardinality({i \in 1 .. n : Skips(pls[p][i])}) /\ Owe[p] = Counted(pls[p], n) /\ Lengths[p] = n
    BY <1>2, <2>1
  <2> HIDE DEF Skip, Owe, Lengths
  <2> QED
    BY <2>1, <2>2, <2>3
<1>4. PlannedSkips(pls) = SumOver(Skip) /\ Planned(pls) = SumOver(Lengths)
    BY DEF PlannedSkips, Planned
<1>5. Owed(pls, ws) = SumOver(Owe) /\ Pending(ws) = SumOver(Zero)
  <2>1. \A p \in Projects : ws[p].state = "none"
    BY DEF Idle
  <2>2. Owe = [p \in Projects |-> IF ws[p].state = "done" THEN 0 ELSE Counted(pls[p], Len(pls[p]))]
    BY <2>1
  <2>3. Zero = [p \in Projects |-> IF ws[p].state \in Busy THEN ws[p].uploaded ELSE 0]
    BY <2>1 DEF Busy
  <2> QED
    BY <2>2, <2>3 DEF Owed, Pending
<1>6. /\ Skip \in [Projects -> Nat] /\ Owe \in [Projects -> Nat] /\ Lengths \in [Projects -> Nat]
      /\ Zero \in [Projects -> Nat] /\ \A p \in Projects : Zero[p] = 0
    BY <1>3
<1>7. \A p \in Projects : ws[p].state = "none" /\ JobInv(pls[p], ws[p])
    BY DEF JobInv, Idle, Busy
<1> HIDE DEF Skip, Owe, Lengths, Zero
<1>8. SumOver(Skip) \in Nat /\ SumOver(Owe) \in Nat /\ SumOver(Zero) = 0
    BY <1>1, <1>6, SumIsNat, SumOfZeros
<1>9. SumOver(Lengths) = SumOver(Owe) + (IF Merges THEN SumOver(Skip) ELSE 0)
  <2>1. CASE Merges
    <3>1. Adds(Projects, Owe, Skip, Lengths)
      BY <1>3, <1>6, <2>1 DEF Adds
    <3> QED
      BY <1>1, <2>1, <3>1, SumOfSums
  <2>2. CASE ~Merges
    <3>1. Adds(Projects, Owe, Zero, Lengths)
      BY <1>3, <1>6, <2>2 DEF Adds
    <3>2. SumOver(Lengths) = SumOver(Owe) + SumOver(Zero)
      BY <1>1, <3>1, SumOfSums
    <3> QED
      BY <1>8, <2>2, <3>2
  <2> QED
    BY <2>1, <2>2
<1>10. Balanced(pls, ws, "no",
                [uploaded |-> 0, skipped |-> IF Merges THEN PlannedSkips(pls) ELSE 0, failed |-> 0], 0)
    BY <1>4, <1>5, <1>7, <1>8, <1>9 DEF Balanced
<1> QED
    BY <1>4, <1>7, <1>8, <1>10

\* A step of a run's work on a project that keeps its books.
Kept(r, p) ==
    /\ r \in Runs /\ p \in Projects
    /\ phase' = phase /\ plan' = plan /\ phase[r] = "applying"
    /\ work' = [work EXCEPT ![r] = work'[r]] /\ work'[r] \in [Projects -> Jobs]
    /\ \A q \in Projects \ {p} : work'[r][q] = work[r][q]
    /\ halted' = [halted EXCEPT ![r] = halted'[r]] /\ halted'[r] \in {"no", "fatal", "cancelled"}
    /\ result' = [result EXCEPT ![r] = result'[r]] /\ result'[r] \in Totals
    /\ commits' = [commits EXCEPT ![r] = commits'[r]] /\ commits'[r] \in Nat
    /\ Balanced(plan[r], work'[r], halted'[r], result'[r], commits'[r])
    /\ JobInv(plan[r][p], work'[r][p])

\* Such a step keeps the invariant.
LEMMA KeptIsEnough ==
    ASSUME RunTypes, RunInv, NEW r, NEW p, Kept(r, p)
    PROVE  RunTypes' /\ RunInv'
<1>1. RunTypes'
    BY DEF RunTypes, Kept
<1>2. \A s \in Runs \ {r} : /\ phase'[s] = phase[s] /\ plan'[s] = plan[s] /\ work'[s] = work[s]
                            /\ halted'[s] = halted[s] /\ result'[s] = result[s]
                            /\ commits'[s] = commits[s]
    BY DEF RunTypes, Kept
<1>3. \A s \in Runs \ {r} :
        /\ AccountInv(phase'[s], plan'[s], work'[s], halted'[s], result'[s], commits'[s])
        /\ \A q \in Projects : JobInv(plan'[s][q], work'[s][q])
    BY <1>2 DEF RunInv
<1>4. AccountInv(phase'[r], plan'[r], work'[r], halted'[r], result'[r], commits'[r])
    BY DEF Kept, AccountInv
<1>5. \A q \in Projects : JobInv(plan'[r][q], work'[r][q])
    BY DEF Kept, RunInv
<1> QED
    BY <1>1, <1>3, <1>4, <1>5 DEF RunInv

\* A project under work belongs to a run that applies its plan.
LEMMA BusyIsApplying ==
    ASSUME RunTypes, RunInv, NEW r \in Runs, NEW p \in Projects, work[r][p].state \in Busy
    PROVE  /\ phase[r] = "applying" /\ work[r][p].next \in 1 .. Len(plan[r][p])
           /\ Entry(r, p) \in Entries /\ Entry(r, p) = plan[r][p][work[r][p].next]
<1>1. AccountInv(phase[r], plan[r], work[r], halted[r], result[r], commits[r]) /\ JobInv(plan[r][p], work[r][p])
    BY DEF RunInv
<1>2. phase[r] = "applying"
    BY <1>1 DEF AccountInv
<1>3. work[r][p].next \in 1 .. Len(plan[r][p])
    BY <1>1 DEF JobInv
<1>4. plan[r][p] \in Seq(Entries)
    BY DEF RunTypes
<1> QED
    BY <1>2, <1>3, <1>4 DEF Entry

\* What a step on a project starts from.
LEMMA StepMoves ==
    ASSUME RunTypes, RunInv, NEW r \in Runs, NEW p \in Projects, phase[r] = "applying",
           NEW vs \in [Projects -> Jobs], \A q \in Projects \ {p} : vs[q] = work[r][q]
    PROVE  Moved(plan[r], work[r], vs, p, halted[r], result[r], commits[r])
<1>1. Balanced(plan[r], work[r], halted[r], result[r], commits[r]) /\ JobInv(plan[r][p], work[r][p])
    BY DEF RunInv, AccountInv
<1>2. /\ plan[r] \in [Projects -> Seq(Entries)] /\ work[r] \in [Projects -> Jobs]
      /\ result[r] \in Totals /\ commits[r] \in Nat
    BY DEF RunTypes
<1> QED
    BY <1>1, <1>2 DEF Moved

\* Beginning a project, looking and reading.
LEMMA GoOnKeeps ==
    ASSUME RunTypes, RunInv, NEW r \in Runs, NEW p \in Projects, phase[r] = "applying",
           NEW v \in Jobs, work' = [work EXCEPT ![r][p] = v], GoesOn(plan[r][p], work[r][p], v),
           phase' = phase, plan' = plan, halted' = halted, result' = result, commits' = commits
    PROVE  Kept(r, p)
<1>1. /\ work'[r] \in [Projects -> Jobs] /\ \A q \in Projects \ {p} : work'[r][q] = work[r][q]
      /\ work'[r][p] = v /\ work' = [work EXCEPT ![r] = work'[r]]
    BY DEF RunTypes
<1>2. PICK vs : vs = work'[r]
    OBVIOUS
<1>3. Moved(plan[r], work[r], vs, p, halted[r], result[r], commits[r])
    BY <1>1, <1>2, StepMoves
<1>4. Balanced(plan[r], vs, halted[r], result[r], commits[r]) /\ JobInv(plan[r][p], vs[p])
  <2>1. GoesOn(plan[r][p], work[r][p], vs[p])
    BY <1>1, <1>2
  <2> QED
    BY <1>3, <2>1, BooksGoOn
<1>5. halted[r] \in {"no", "fatal", "cancelled"} /\ result[r] \in Totals /\ commits[r] \in Nat
    BY DEF RunTypes
<1>6. /\ halted' = [halted EXCEPT ![r] = halted'[r]] /\ result' = [result EXCEPT ![r] = result'[r]]
      /\ commits' = [commits EXCEPT ![r] = commits'[r]]
    BY DEF RunTypes
<1> QED
    BY <1>1, <1>2, <1>4, <1>5, <1>6 DEF Kept

\* Records that are updated.
More(x, up, skip) == [x EXCEPT !.uploaded = @ + up, !.skipped = @ + skip]
Worse(x, up, skip) == [x EXCEPT !.uploaded = @ + up, !.skipped = @ + skip, !.failed = @ + 1]

\* More to a job's books leaves it a job at the same entry.
LEMMA JobUpdate ==
    ASSUME NEW w \in Jobs, NEW up \in Nat, NEW skip \in Nat
    PROVE  /\ More(w, up, skip) \in Jobs /\ More(w, up, skip).next = w.next
           /\ More(w, up, skip).uploaded = w.uploaded + up
           /\ More(w, up, skip).skipped = w.skipped + skip
<1>1. w.uploaded + up \in Nat /\ w.skipped + skip \in Nat
    BY DEF Jobs
<1>2. PICK a \in Nat, b \in Nat : a = w.uploaded + up /\ b = w.skipped + skip
    BY <1>1
<1>3. [w EXCEPT !.uploaded = a, !.skipped = b] \in Jobs
    BY DEF Jobs
<1>4. [w EXCEPT !.uploaded = @ + up, !.skipped = @ + skip] \in Jobs
    BY <1>2, <1>3
<1> QED
    BY <1>4 DEF Jobs, More

\* The job moves on to its next entry and keeps its books.
LEMMA NextEntry ==
    ASSUME NEW w \in Jobs
    PROVE  LET v == [w EXCEPT !.state = "check", !.next = @ + 1]
           IN /\ v \in Jobs /\ v.state = "check" /\ v.next = w.next + 1
              /\ v.uploaded = w.uploaded /\ v.skipped = w.skipped
<1>1. PICK n \in Nat : n = w.next + 1
    BY DEF Jobs
<1>2. [w EXCEPT !.state = "check", !.next = n] \in Jobs
    BY DEF Jobs, Busy
<1>3. [w EXCEPT !.state = "check", !.next = @ + 1] \in Jobs
    BY <1>1, <1>2
<1> QED
    BY <1>3 DEF Jobs

\* The run's totals stay numbers, and failures are not forgotten.
LEMMA TotalsUpdate ==
    ASSUME NEW res \in Totals, NEW up \in Nat, NEW skip \in Nat
    PROVE  /\ More(res, up, skip) \in Totals /\ More(res, up, skip).failed = res.failed
           /\ More(res, up, skip).uploaded = res.uploaded + up
           /\ More(res, up, skip).skipped = res.skipped + skip
           /\ Worse(res, up, skip) \in Totals /\ Worse(res, up, skip).failed # 0
           /\ Worse(res, up, skip).uploaded = res.uploaded + up
<1>1. PICK a \in Nat, b \in Nat, c \in Nat :
        a = res.uploaded + up /\ b = res.skipped + skip /\ c = res.failed + 1
    BY DEF Totals
<1>2. [res EXCEPT !.uploaded = a, !.skipped = b] \in Totals
    BY DEF Totals
<1>3. [res EXCEPT !.uploaded = a, !.skipped = b, !.failed = c] \in Totals
    BY DEF Totals
<1>4. [res EXCEPT !.uploaded = @ + up, !.skipped = @ + skip] \in Totals
    BY <1>1, <1>2
<1>5. [res EXCEPT !.uploaded = @ + up, !.skipped = @ + skip, !.failed = @ + 1] \in Totals
    BY <1>1, <1>3
<1> QED
    BY <1>4, <1>5 DEF Totals, More, Worse

\* Dealing with an item.
LEMMA FinishKeeps ==
    ASSUME RunTypes, RunInv, NEW r \in Runs, NEW p \in Projects, work[r][p].state \in Busy,
           NEW counts \in [uploaded : Nat, skipped : Nat], Finish(r, p, counts),
           counts.uploaded + counts.skipped = IF Merges /\ Skips(Entry(r, p)) THEN 0 ELSE 1,
           phase' = phase, plan' = plan, halted' = halted,
           commits' = [commits EXCEPT ![r] = @ + counts.uploaded]
    PROVE  Kept(r, p)
<1> DEFINE w == work[r][p]
           sum == [w EXCEPT !.uploaded = @ + counts.uploaded, !.skipped = @ + counts.skipped]
           v == IF w.next = Len(plan[r][p]) THEN [sum EXCEPT !.state = "done"]
                ELSE [sum EXCEPT !.state = "check", !.next = @ + 1]
<1>1. /\ phase[r] = "applying" /\ w \in Jobs /\ result[r] \in Totals /\ commits[r] \in Nat
      /\ Entry(r, p) = plan[r][p][w.next] /\ w.next \in Nat
  <2>1. w \in Jobs /\ result[r] \in Totals /\ commits[r] \in Nat
    BY DEF RunTypes
  <2> QED
    BY <2>1, BusyIsApplying DEF Jobs
<1>2. work' = [work EXCEPT ![r][p] = v]
    BY DEF Finish
<1>3. /\ sum \in Jobs /\ sum.next = w.next
      /\ sum.uploaded = w.uploaded + counts.uploaded /\ sum.skipped = w.skipped + counts.skipped
  <2>1. /\ counts.uploaded \in Nat /\ counts.skipped \in Nat
        /\ sum = More(w, counts.uploaded, counts.skipped)
    BY DEF More
  <2> HIDE DEF w, sum
  <2>2. ASSUME NEW up \in Nat, NEW skip \in Nat, sum = More(w, up, skip)
        PROVE  /\ sum \in Jobs /\ sum.next = w.next
               /\ sum.uploaded = w.uploaded + up /\ sum.skipped = w.skipped + skip
    <3>1. w \in Jobs
      BY <1>1
    <3> QED
      BY ZenonT(30), <2>2, <3>1, JobUpdate
  <2> QED
    BY Zenon, <2>1, <2>2
<1>4. /\ v \in Jobs
      /\ w.next = Len(plan[r][p]) => v.state = "done"
      /\ w.next # Len(plan[r][p]) =>
            /\ v.state = "check" /\ v.next = w.next + 1
            /\ v.uploaded = w.uploaded + counts.uploaded /\ v.skipped = w.skipped + counts.skipped
  <2> HIDE DEF w, sum
  <2>1. CASE w.next = Len(plan[r][p])
    BY <1>3, <2>1 DEF Jobs
  <2>2. CASE w.next # Len(plan[r][p])
    BY <1>3, <2>2, NextEntry
  <2> QED
    BY <2>1, <2>2
<1>5. /\ work'[r] \in [Projects -> Jobs] /\ \A q \in Projects \ {p} : work'[r][q] = work[r][q]
      /\ work'[r][p] = v /\ work' = [work EXCEPT ![r] = work'[r]]
  <2> HIDE DEF v, sum
  <2> QED
    BY <1>2, <1>4 DEF RunTypes
<1>6. /\ result' = [result EXCEPT ![r] = result'[r]] /\ result'[r] \in Totals
      /\ IF w.next = Len(plan[r][p])
         THEN /\ result'[r].uploaded = result[r].uploaded + (w.uploaded + counts.uploaded)
              /\ result'[r].skipped = result[r].skipped + (w.skipped + counts.skipped)
              /\ result'[r].failed = result[r].failed
         ELSE result'[r] = result[r]
  <2>1. sum.uploaded \in Nat /\ sum.skipped \in Nat
    BY <1>3 DEF Jobs
  <2>2. CASE w.next = Len(plan[r][p])
    <3>1. result' = [result EXCEPT ![r].uploaded = @ + sum.uploaded, ![r].skipped = @ + sum.skipped]
      BY <2>2 DEF Finish
    <3> HIDE DEF sum, v, w
    <3>2. PICK res2 : res2 = More(result[r], sum.uploaded, sum.skipped)
      OBVIOUS
    <3>3. /\ res2 \in Totals /\ res2.uploaded = result[r].uploaded + sum.uploaded
          /\ res2.skipped = result[r].skipped + sum.skipped /\ res2.failed = result[r].failed
      <4>1. PICK res \in Totals, up \in Nat, skip \in Nat :
                res = result[r] /\ up = sum.uploaded /\ skip = sum.skipped
        BY <1>1, <2>1
      <4>2. res2 = More(res, up, skip)
        BY <3>2, <4>1
      <4>3. /\ More(res, up, skip) \in Totals /\ More(res, up, skip).failed = res.failed
            /\ More(res, up, skip).uploaded = res.uploaded + up
            /\ More(res, up, skip).skipped = res.skipped + skip
        BY ZenonT(30), TotalsUpdate
      <4> QED
        BY <4>1, <4>2, <4>3
    <3>4. result' = [result EXCEPT ![r] = res2]
      BY <3>1, <3>2 DEF RunTypes, More
    <3> QED
      BY <1>3, <2>2, <3>3, <3>4 DEF RunTypes
  <2>3. CASE w.next # Len(plan[r][p])
    <3>1. result' = result
      BY <2>3 DEF Finish
    <3> QED
      BY <1>1, <2>3, <3>1 DEF RunTypes
  <2> QED
    BY <2>2, <2>3
<1>7. Advances(plan[r][p], w, v, result[r], result'[r], counts.uploaded, counts.skipped)
  <2> HIDE DEF v
  <2> QED
    BY <1>1, <1>4, <1>6 DEF Advances
<1>8. /\ commits' = [commits EXCEPT ![r] = commits'[r]] /\ commits'[r] = commits[r] + counts.uploaded
      /\ commits'[r] \in Nat
    BY <1>1 DEF RunTypes
<1> HIDE DEF v, sum
<1>9. PICK vs, res2 : vs = work'[r] /\ res2 = result'[r]
    OBVIOUS
<1>10. Moved(plan[r], work[r], vs, p, halted[r], result[r], commits[r])
    BY <1>1, <1>5, <1>9, StepMoves
<1>11. Balanced(plan[r], vs, halted[r], res2, commits[r] + counts.uploaded) /\ JobInv(plan[r][p], vs[p])
  <2>1. Advances(plan[r][p], work[r][p], vs[p], result[r], res2, counts.uploaded, counts.skipped)
    BY <1>5, <1>7, <1>9
  <2> QED
    BY <1>10, <2>1, BooksAdvance
<1>12. halted' = [halted EXCEPT ![r] = halted'[r]] /\ halted'[r] \in {"no", "fatal", "cancelled"}
    BY DEF RunTypes
<1> QED
    BY <1>1, <1>5, <1>6, <1>8, <1>9, <1>11, <1>12 DEF Kept

\* The first failure ends the project.
LEMMA FailKeeps ==
    ASSUME RunTypes, RunInv, NEW r \in Runs, NEW p \in Projects, work[r][p].state \in Busy,
           Fail(r, p), phase' = phase, plan' = plan, commits' = commits,
           NEW halt \in {"no", "fatal", "cancelled"}, halted' = [halted EXCEPT ![r] = halt]
    PROVE  Kept(r, p)
<1>1. /\ phase[r] = "applying" /\ work[r][p] \in Jobs /\ result[r] \in Totals /\ commits[r] \in Nat
  <2>1. work[r][p] \in Jobs /\ result[r] \in Totals /\ commits[r] \in Nat
    BY DEF RunTypes
  <2> QED
    BY <2>1, BusyIsApplying
<1>2. work' = [work EXCEPT ![r][p].state = "failed"] /\ result' = FailedOutcome(r, p)
    BY DEF Fail
<1>3. [work[r][p] EXCEPT !.state = "failed"] \in Jobs
    BY <1>1 DEF Jobs
<1>4. /\ work'[r] \in [Projects -> Jobs] /\ \A q \in Projects \ {p} : work'[r][q] = work[r][q]
      /\ work'[r][p].state = "failed" /\ work' = [work EXCEPT ![r] = work'[r]]
  <2>1. work' = [work EXCEPT ![r] = [work[r] EXCEPT ![p] = [work[r][p] EXCEPT !.state = "failed"]]]
    BY <1>2 DEF RunTypes
  <2>2. [work[r][p] EXCEPT !.state = "failed"].state = "failed"
    BY <1>1 DEF Jobs
  <2> QED
    BY <1>3, <2>1, <2>2 DEF RunTypes
<1>5. /\ result' = [result EXCEPT ![r] = result'[r]] /\ result'[r] \in Totals
      /\ result'[r].uploaded = result[r].uploaded + work[r][p].uploaded /\ result'[r].failed # 0
  <2>1. /\ result[r].uploaded + work[r][p].uploaded \in Nat
        /\ result[r].skipped + work[r][p].skipped \in Nat /\ result[r].failed + 1 \in Nat
    BY <1>1 DEF Totals, Jobs
  <2>2. result' = [result EXCEPT ![r] =
                    [result[r] EXCEPT !.uploaded = @ + work[r][p].uploaded,
                                      !.skipped = @ + work[r][p].skipped, !.failed = @ + 1]]
    BY <1>1, <1>2 DEF FailedOutcome, RunTypes, Totals
  <2>3. PICK res2 : res2 = Worse(result[r], work[r][p].uploaded, work[r][p].skipped)
    OBVIOUS
  <2>4. /\ res2 \in Totals /\ res2.uploaded = result[r].uploaded + work[r][p].uploaded
        /\ res2.failed # 0
    <3>1. work[r][p].uploaded \in Nat /\ work[r][p].skipped \in Nat
      BY <1>1 DEF Jobs
    <3> QED
      BY ZenonT(30), <1>1, <2>3, <3>1, TotalsUpdate
  <2>5. result'[r] = res2 /\ result' = [result EXCEPT ![r] = res2]
    BY <2>2, <2>3 DEF RunTypes, Worse
  <2> QED
    BY <2>4, <2>5
<1>6. PICK vs, res2, pls, ws, res, com : /\ vs = work'[r] /\ res2 = result'[r] /\ pls = plan[r]
                                          /\ ws = work[r] /\ res = result[r] /\ com = commits[r]
    OBVIOUS
<1>7. Moved(pls, ws, vs, p, halted[r], res, com)
    BY <1>1, <1>4, <1>6, StepMoves
<1>8. Balanced(plan[r], vs, halt, result'[r], commits[r]) /\ JobInv(plan[r][p], vs[p])
  <2>1. /\ vs[p].state = "failed" /\ ws[p].state \in Busy
        /\ res2.uploaded = res.uploaded + ws[p].uploaded /\ res2.failed # 0
    BY <1>4, <1>5, <1>6
  <2>2. Balanced(pls, vs, halt, res2, com) /\ JobInv(pls[p], vs[p])
    BY <1>7, <2>1, BooksFail
  <2> QED
    BY <1>6, <2>2
<1>9. halted' = [halted EXCEPT ![r] = halted'[r]] /\ halted'[r] = halt
      /\ commits' = [commits EXCEPT ![r] = commits'[r]]
    BY DEF RunTypes
<1> QED
    BY <1>1, <1>4, <1>5, <1>6, <1>8, <1>9 DEF Kept

BooksInv == RunTypes /\ OtherTypes /\ RunInv

\* Planning opens the books, or refuses.
LEMMA PlanBooks ==
    ASSUME BooksInv, NEW r \in Runs, Plan(r)
    PROVE  BooksInv'
<1> DEFINE plans == [p \in Projects |-> Classified(p).plan]
<1>1. phase[r] = "new" /\ RunTypes /\ OtherTypes /\ RunInv
    BY DEF Plan, BooksInv
<1>2. AccountInv("new", plan[r], work[r], halted[r], result[r], commits[r])
    BY <1>1 DEF RunInv
<1>3. /\ commits[r] = 0 /\ halted[r] = "no" /\ \A p \in Projects : work[r][p] = Idle
      /\ result[r] = [uploaded |-> 0, skipped |-> 0, failed |-> 0]
    BY <1>2 DEF AccountInv
<1>4. UNCHANGED <<db, work, halted, commits, touched, edits, faults, crashes>>
    BY DEF Plan
<1>5. \A s \in Runs \ {r} :
        /\ AccountInv(phase[s], plan[s], work[s], halted[s], result[s], commits[s])
        /\ \A p \in Projects : JobInv(plan[s][p], work[s][p])
    BY <1>1 DEF RunInv
<1>6. CASE Resolved /\ \A p \in Projects : Classified(p).fits
  <2>1. /\ phase' = [phase EXCEPT ![r] = "applying"] /\ plan' = [plan EXCEPT ![r] = plans]
        /\ result' = [result EXCEPT ![r].skipped = IF Merges THEN PlannedSkips(plans) ELSE 0]
        /\ beside' = beside \cup {s \in Runs : phase[s] = "applying"}
    BY <1>6 DEF Plan
  <2>2. plans \in [Projects -> Seq(Entries)]
    <3>1. \A p \in Projects : db[p].files \in Counts
      BY <1>1 DEF OtherTypes, Rows
    <3>2. \A p \in Projects : Classified(p).plan \in Seq(Entries)
      BY <3>1, PlanFollowsItems
    <3> QED
      BY <3>2
  <2> HIDE DEF plans
  <2>3. PICK ws \in [Projects -> Jobs] : ws = work[r]
    BY <1>1 DEF RunTypes
  <2>4. PICK pls \in [Projects -> Seq(Entries)] : pls = plans
    BY <2>2
  <2>5. /\ PlannedSkips(pls) \in Nat
        /\ Balanced(pls, ws, "no",
             [uploaded |-> 0, skipped |-> IF Merges THEN PlannedSkips(pls) ELSE 0, failed |-> 0], 0)
        /\ \A p \in Projects : JobInv(pls[p], ws[p])
    BY <1>3, <2>3, BooksOpen
  <2>6. /\ result'[r] = [uploaded |-> 0, skipped |-> IF Merges THEN PlannedSkips(pls) ELSE 0, failed |-> 0]
        /\ result' = [result EXCEPT ![r] = result'[r]]
    <3>1. PICK x : x = IF Merges THEN PlannedSkips(pls) ELSE 0
      OBVIOUS
    <3>2. result' = [result EXCEPT ![r].skipped = x]
      BY <2>1, <2>4, <3>1
    <3>3. result' = [result EXCEPT ![r] = [uploaded |-> 0, skipped |-> x, failed |-> 0]]
      <4>1. result' = [result EXCEPT ![r] = [result[r] EXCEPT !.skipped = x]]
        BY <1>1, <3>2 DEF RunTypes
      <4>2. [[uploaded |-> 0, skipped |-> 0, failed |-> 0] EXCEPT !.skipped = x]
              = [uploaded |-> 0, skipped |-> x, failed |-> 0]
        OBVIOUS
      <4> QED
        BY <1>3, <4>1, <4>2
    <3> QED
      BY <1>1, <3>1, <3>3 DEF RunTypes
  <2>7. result'[r] \in Totals
    BY <2>5, <2>6 DEF Totals
  <2>8. RunTypes'
    BY <1>1, <1>4, <2>1, <2>2, <2>6, <2>7 DEF RunTypes
  <2>9. \A s \in Runs \ {r} : phase'[s] = phase[s] /\ plan'[s] = plan[s] /\ result'[s] = result[s]
    BY <1>1, <2>1, <2>6 DEF RunTypes
  <2>10. phase'[r] = "applying" /\ plan'[r] = pls
    BY <1>1, <2>1, <2>4 DEF RunTypes
  <2>11. AccountInv(phase'[r], plan'[r], work'[r], halted'[r], result'[r], commits'[r])
    BY <1>3, <1>4, <2>3, <2>5, <2>6, <2>10 DEF AccountInv
  <2>12. \A p \in Projects : JobInv(plan'[r][p], work'[r][p])
    BY <1>4, <2>3, <2>5, <2>10
  <2>13. RunInv'
    BY <1>4, <1>5, <2>9, <2>11, <2>12 DEF RunInv
  <2>14. OtherTypes'
    BY <1>1, <1>4, <2>1 DEF OtherTypes
  <2> QED
    BY <2>8, <2>13, <2>14 DEF BooksInv
<1>7. CASE ~(Resolved /\ \A p \in Projects : Classified(p).fits)
  <2>1. phase' = [phase EXCEPT ![r] = "refused"] /\ UNCHANGED <<plan, result, beside>>
    BY <1>7 DEF Plan
  <2>2. RunTypes' /\ OtherTypes'
    BY <1>1, <1>4, <2>1 DEF RunTypes, OtherTypes
  <2>3. \A s \in Runs \ {r} : phase'[s] = phase[s]
    BY <1>1, <2>1 DEF RunTypes
  <2>4. phase'[r] = "refused"
    BY <1>1, <2>1 DEF RunTypes
  <2>5. AccountInv("refused", plan[r], work[r], halted[r], result[r], commits[r])
    BY <1>3 DEF AccountInv, Idle, Busy
  <2>6. \A p \in Projects : JobInv(plan[r][p], work[r][p])
    BY <1>1 DEF RunInv
  <2>7. RunInv'
    BY <1>4, <1>5, <2>1, <2>3, <2>4, <2>5, <2>6 DEF RunInv
  <2> QED
    BY <2>2, <2>7 DEF BooksInv
<1> QED
    BY <1>6, <1>7

\* A worker takes a project.
LEMMA BeginKept ==
    ASSUME BooksInv, NEW r \in Runs, NEW p \in Projects, Begin(r, p)
    PROVE  Kept(r, p)
<1>1. RunTypes /\ RunInv /\ phase[r] = "applying" /\ work[r][p].state = "none" /\ plan[r][p] # <<>>
    BY DEF BooksInv, Begin
<1>2. PICK v : v = [work[r][p] EXCEPT !.state = "check", !.next = 1]
    OBVIOUS
<1>3. v \in Jobs
  <2>1. work[r][p] \in Jobs
    BY <1>1 DEF RunTypes
  <2> QED
    BY <1>2, <2>1 DEF Jobs, Busy
<1>4. work' = [work EXCEPT ![r][p] = v]
    BY <1>1, <1>2 DEF Begin, RunTypes
<1>5. GoesOn(plan[r][p], work[r][p], v)
    BY <1>1, <1>2 DEF GoesOn
<1>6. UNCHANGED <<phase, plan, halted, result, commits>>
    BY DEF Begin
<1> QED
    BY <1>1, <1>3, <1>4, <1>5, <1>6, GoOnKeeps

\* What a skip counts.
LEMMA SkippedCounts ==
    ASSUME NEW r, NEW p
    PROVE  /\ Skipped(r, p) \in [uploaded : Nat, skipped : Nat] /\ Skipped(r, p).uploaded = 0
           /\ Skipped(r, p).uploaded + Skipped(r, p).skipped =
                IF Merges /\ Skips(Entry(r, p)) THEN 0 ELSE 1
    BY DEF Skipped, CountsSkip

\* Looking for an item.
LEMMA CheckKept ==
    ASSUME BooksInv, NEW r \in Runs, NEW p \in Projects, Check(r, p)
    PROVE  Kept(r, p)
<1>1. /\ RunTypes /\ RunInv /\ work[r][p].state = "check" /\ work[r][p].state \in Busy
      /\ work[r][p] \in Jobs
    BY DEF BooksInv, Check, Busy, RunTypes
<1>2. UNCHANGED <<phase, plan, halted, commits>>
    BY DEF Check
<1>3. phase[r] = "applying" /\ Entry(r, p) = plan[r][p][work[r][p].next]
    BY <1>1, BusyIsApplying
<1>4. CASE Finish(r, p, Skipped(r, p))
  <2>1. commits' = [commits EXCEPT ![r] = @ + Skipped(r, p).uploaded]
    <3>1. commits[r] + 0 = commits[r]
      BY <1>1 DEF RunTypes
    <3> QED
      BY <1>1, <1>2, <3>1, SkippedCounts DEF RunTypes
  <2> QED
    BY <1>1, <1>2, <1>4, <2>1, SkippedCounts, FinishKeeps
<1>5. CASE ~Skips(Entry(r, p)) /\ work' = [work EXCEPT ![r][p].state = "read"] /\ UNCHANGED result
  <2>1. PICK v : v = [work[r][p] EXCEPT !.state = "read"]
    OBVIOUS
  <2>2. v \in Jobs
    BY <1>1, <2>1 DEF Jobs, Busy
  <2>3. work' = [work EXCEPT ![r][p] = v]
    BY <1>1, <1>5, <2>1 DEF RunTypes
  <2>4. GoesOn(plan[r][p], work[r][p], v)
    BY <1>1, <1>3, <1>5, <2>1 DEF GoesOn, Jobs
  <2>5. /\ phase[r] = "applying" /\ phase' = phase /\ plan' = plan /\ halted' = halted
        /\ result' = result /\ commits' = commits
    BY <1>2, <1>3, <1>5
  <2> QED
    BY <1>1, <2>2, <2>3, <2>4, <2>5, GoOnKeeps
<1> QED
    BY <1>4, <1>5 DEF Check

\* Reading the revision.
LEMMA ReadKept ==
    ASSUME BooksInv, NEW r \in Runs, NEW p \in Projects, Read(r, p)
    PROVE  Kept(r, p)
<1>1. /\ RunTypes /\ RunInv /\ work[r][p].state = "read" /\ work[r][p].state \in Busy
      /\ work[r][p] \in Jobs
    BY DEF BooksInv, Read, Busy, RunTypes
<1>2. UNCHANGED <<phase, plan, halted, commits>>
    BY DEF Read
<1>3. /\ phase[r] = "applying" /\ Entry(r, p) = plan[r][p][work[r][p].next]
      /\ JobInv(plan[r][p], work[r][p])
    BY <1>1, BusyIsApplying DEF RunInv
<1>4. CASE Fail(r, p)
  <2>1. halted' = [halted EXCEPT ![r] = halted[r]] /\ halted[r] \in {"no", "fatal", "cancelled"}
    BY <1>1, <1>2 DEF RunTypes
  <2> QED
    BY <1>1, <1>2, <1>4, <2>1, FailKeeps
<1>5. CASE /\ work' = [work EXCEPT ![r][p].state = "send", ![r][p].revision = db[p].revision]
           /\ UNCHANGED result
  <2>1. PICK v : v = [work[r][p] EXCEPT !.state = "send", !.revision = db[p].revision]
    OBVIOUS
  <2>2. v \in Jobs
    <3>1. db[p].revision \in Nat
      BY DEF BooksInv, OtherTypes, Rows
    <3> QED
      BY <1>1, <2>1, <3>1 DEF Jobs, Busy
  <2>3. work' = [work EXCEPT ![r][p] = v]
    BY <1>1, <1>5, <2>1 DEF RunTypes
  <2>4. GoesOn(plan[r][p], work[r][p], v)
    BY <1>1, <1>3, <2>1 DEF GoesOn, Jobs, JobInv
  <2>5. /\ phase[r] = "applying" /\ phase' = phase /\ plan' = plan /\ halted' = halted
        /\ result' = result /\ commits' = commits
    BY <1>2, <1>3, <1>5
  <2> QED
    BY <1>1, <2>2, <2>3, <2>4, <2>5, GoOnKeeps
<1> QED
    BY <1>4, <1>5 DEF Read

\* Sending it.
LEMMA SendKept ==
    ASSUME BooksInv, NEW r \in Runs, NEW p \in Projects, Send(r, p)
    PROVE  Kept(r, p)
<1>1. /\ RunTypes /\ RunInv /\ work[r][p].state = "send" /\ work[r][p].state \in Busy
      /\ work[r][p] \in Jobs
    BY DEF BooksInv, Send, Busy, RunTypes
<1>2. UNCHANGED <<phase, plan, halted>>
    BY DEF Send
<1>3. phase[r] = "applying" /\ ~Skips(Entry(r, p))
  <2>1. JobInv(plan[r][p], work[r][p])
    BY <1>1 DEF RunInv
  <2> QED
    BY <1>1, <2>1, BusyIsApplying DEF JobInv
<1>4. CASE Fail(r, p) /\ UNCHANGED commits
  <2>1. halted' = [halted EXCEPT ![r] = halted[r]] /\ halted[r] \in {"no", "fatal", "cancelled"}
    BY <1>1, <1>2 DEF RunTypes
  <2> QED
    BY <1>1, <1>2, <1>4, <2>1, FailKeeps
<1>5. CASE Finish(r, p, Skipped(r, p)) /\ UNCHANGED commits
  <2>1. commits' = [commits EXCEPT ![r] = @ + Skipped(r, p).uploaded]
    <3>1. commits[r] + 0 = commits[r]
      BY <1>1 DEF RunTypes
    <3> QED
      BY <1>1, <1>5, <3>1, SkippedCounts DEF RunTypes
  <2> QED
    BY <1>1, <1>2, <1>5, <2>1, SkippedCounts, FinishKeeps
<1>6. CASE Finish(r, p, Uploaded) /\ commits' = [commits EXCEPT ![r] = @ + 1]
  <2>1. /\ Uploaded \in [uploaded : Nat, skipped : Nat] /\ Uploaded.uploaded = 1
        /\ Uploaded.uploaded + Uploaded.skipped = IF Merges /\ Skips(Entry(r, p)) THEN 0 ELSE 1
    BY <1>3 DEF Uploaded
  <2>2. commits' = [commits EXCEPT ![r] = @ + Uploaded.uploaded]
    BY <1>6, <2>1
  <2> QED
    BY <1>1, <1>2, <1>6, <2>1, <2>2, FinishKeeps
<1> QED
    BY <1>4, <1>5, <1>6 DEF Send

\* Errors, and calls that are cancelled.
LEMMA BreakKept ==
    ASSUME BooksInv, NEW r \in Runs, NEW p \in Projects, NEW fatal \in BOOLEAN, Break(r, p, fatal)
    PROVE  Kept(r, p)
<1>1. RunTypes /\ RunInv /\ work[r][p].state \in Busy /\ halted[r] \in {"no", "fatal", "cancelled"}
    BY DEF BooksInv, Break, Active, RunTypes
<1>2. Fail(r, p) /\ UNCHANGED <<phase, plan, commits>>
    BY DEF Break
<1>3. PICK halt \in {"no", "fatal", "cancelled"} : halted' = [halted EXCEPT ![r] = halt]
    BY <1>1 DEF Break
<1> QED
    BY <1>1, <1>2, <1>3, FailKeeps

\* A cancelled context closes the project it is in as failed; the books stay.
LEMMA CancelledKept ==
    ASSUME BooksInv, NEW r \in Runs, NEW p \in Projects, Cancelled(r, p)
    PROVE  Kept(r, p)
<1>1. RunTypes /\ RunInv /\ work[r][p].state \in Busy /\ halted[r] \in {"no", "fatal", "cancelled"}
    BY DEF BooksInv, Cancelled, Active, RunTypes
<1>2. Fail(r, p) /\ UNCHANGED <<phase, plan, commits, halted>>
    BY DEF Cancelled
<1>3. halted' = [halted EXCEPT ![r] = halted[r]]
    BY <1>1, <1>2 DEF RunTypes
<1> QED
    BY <1>1, <1>2, <1>3, FailKeeps

\* A project that an item is sent to.
LEMMA ChangedRows ==
    ASSUME NEW row \in Rows, NEW item \in Items
    PROVE  /\ Changed(row, item) \in Rows /\ Changed(row, item).revision = row.revision + 1
           /\ Changed(row, item).deleted = row.deleted
           /\ item.kind = "file" => /\ Changed(row, item).files = Count(row.files, item)
                                    /\ Changed(row, item).logo = row.logo
                                    /\ Changed(row, item).links = row.links
           /\ item.kind = "logo" => /\ Changed(row, item).logo = item.digest
                                    /\ Changed(row, item).files = row.files
                                    /\ Changed(row, item).links = row.links
           /\ item.kind = "links" => /\ Changed(row, item).links = item.digest
                                     /\ Changed(row, item).files = row.files
                                     /\ Changed(row, item).logo = row.logo
<1>1. item.kind \in {"logo", "file", "links"} /\ item.digest \in Images
    BY DEF Items, Images
<1>2. row.revision \in Nat /\ row.files \in Counts
    BY DEF Rows
<1>3. PICK n \in Nat, files \in Counts : n = row.revision + 1 /\ files = Count(row.files, item)
  <2>1. Count(row.files, item) \in Counts
    BY <1>2, CountedFiles
  <2>2. row.revision + 1 \in Nat
    BY <1>2
  <2> QED
    BY <2>1, <2>2
<1>4. CASE item.kind = "file"
  <2>1. Changed(row, item) = [row EXCEPT !.revision = n, !.files = files]
    BY <1>3, <1>4 DEF Changed
  <2> QED
    BY <1>3, <1>4, <2>1 DEF Rows
<1>5. CASE item.kind = "logo"
  <2>1. Changed(row, item) = [row EXCEPT !.revision = n, !.logo = item.digest]
    BY <1>3, <1>5 DEF Changed
  <2> QED
    BY <1>1, <1>3, <1>5, <2>1 DEF Rows
<1>6. CASE item.kind = "links"
  <2>1. Changed(row, item) = [row EXCEPT !.revision = n, !.links = item.digest]
    BY <1>3, <1>6 DEF Changed
  <2> QED
    BY <1>1, <1>3, <1>6, <2>1 DEF Rows
<1> QED
    BY <1>1, <1>4, <1>5, <1>6

\* The steps of the workers leave the other variables typed.
LEMMA OthersTyped ==
    ASSUME BooksInv, NEW r \in Runs, NEW p \in Projects,
           \/ Begin(r, p) \/ Check(r, p) \/ Read(r, p) \/ Send(r, p) \/ Cancelled(r, p)
           \/ \E fatal \in BOOLEAN : Break(r, p, fatal)
    PROVE  OtherTypes'
<1>1. OtherTypes
    BY DEF BooksInv
<1>2. CASE Begin(r, p) \/ Check(r, p) \/ Read(r, p)
  <2>1. UNCHANGED <<db, touched, beside, edits, faults, crashes>>
    BY <1>2 DEF Begin, Check, Read
  <2> QED
    BY <1>1, <2>1 DEF OtherTypes
<1>3. CASE Send(r, p) \/ Cancelled(r, p) \/ \E fatal \in BOOLEAN : Break(r, p, fatal)
  <2>1. UNCHANGED <<touched, beside, edits, crashes>> /\ (faults' = faults \/ faults' = faults + 1)
    BY <1>3 DEF Send, Cancelled, Break
  <2>2. db' \in [Projects -> Rows]
    <3>1. CASE UNCHANGED db
      BY <1>1, <3>1 DEF OtherTypes
    <3>2. CASE db' # db
      <4>1. work[r][p].state = "send" /\ Apply(r, p)
        BY <1>3, <3>2 DEF Send, Cancelled, Break, Interrupted, CommitUnheard
      <4>2. Entry(r, p).item \in Items
        BY <4>1, BusyIsApplying DEF BooksInv, Entries, Busy
      <4>3. db[p] \in Rows
        BY <1>1 DEF OtherTypes
      <4>4. Changed(db[p], Entry(r, p).item) \in Rows
        BY <4>2, <4>3, ChangedRows
      <4> QED
        BY <1>1, <4>1, <4>4 DEF OtherTypes, Apply
    <3> QED
      BY <3>1, <3>2
  <2> QED
    BY <1>1, <2>1, <2>2 DEF OtherTypes
<1> QED
    BY <1>2, <1>3

\* What an administrator makes of a project.
LEMMA EditsAreRows ==
    ASSUME OtherTypes, NEW p \in Projects, NEW change \in EditsOf(p)
    PROVE  /\ [change EXCEPT !.revision = db[p].revision + 1] \in Rows
           /\ [change EXCEPT !.revision = db[p].revision + 1].files = change.files
           /\ \A k \in Types \X Digests : change.files[k] <= db[p].files[k]
<1>1. PICK old \in Rows : old = db[p]
    BY DEF OtherTypes
<1>2. change \in Rows /\ \A k \in Types \X Digests : change.files[k] <= old.files[k]
  <2>1. CASE change \in {old, [old EXCEPT !.deleted = TRUE], [old EXCEPT !.logo = NoLogo]}
    <3>1. old.files \in [Types \X Digests -> Nat]
      BY DEF Rows, Counts
    <3>2. \A k \in Types \X Digests : old.files[k] <= old.files[k]
      BY <3>1
    <3>3. NoLogo \in Images
      BY DEF Images
    <3>4. change \in Rows /\ change.files = old.files
      BY <2>1, <3>3 DEF Rows
    <3> QED
      BY <3>2, <3>4
  <2>2. CASE \E k \in DOMAIN old.files : change = [old EXCEPT !.files[k] = 0]
    <3>1. PICK k \in Types \X Digests : change = [old EXCEPT !.files[k] = 0]
      BY <2>2 DEF Rows, Counts
    <3>2. PICK files : files = [old.files EXCEPT ![k] = 0]
      OBVIOUS
    <3>3. old.files \in Counts
      BY DEF Rows
    <3>4. files \in Counts /\ \A j \in Types \X Digests : files[j] <= old.files[j]
      BY <3>2, <3>3 DEF Counts
    <3>5. change = [old EXCEPT !.files = files]
      BY <3>1, <3>2 DEF Rows
    <3> QED
      BY <3>4, <3>5 DEF Rows
  <2> QED
    BY <1>1, <2>1, <2>2 DEF EditsOf
<1>3. PICK n \in Nat : n = db[p].revision + 1
    BY <1>1 DEF Rows
<1>4. [change EXCEPT !.revision = n] \in Rows /\ [change EXCEPT !.revision = n].files = change.files
    BY <1>2 DEF Rows
<1> QED
    BY <1>1, <1>2, <1>3, <1>4

\* The other steps.
LEMMA CancelBooks ==
    ASSUME BooksInv, NEW r \in Runs, Cancel(r)
    PROVE  BooksInv'
<1>1. /\ RunTypes /\ RunInv /\ OtherTypes /\ phase[r] = "applying" /\ halted[r] = "fatal"
      /\ halted' = [halted EXCEPT ![r] = "cancelled"]
      /\ UNCHANGED <<db, phase, plan, work, result, commits, touched, beside, edits, faults, crashes>>
    BY DEF BooksInv, Cancel
<1>2. RunTypes' /\ OtherTypes'
    BY <1>1 DEF RunTypes, OtherTypes
<1>3. \A s \in Runs \ {r} : halted'[s] = halted[s]
    BY <1>1 DEF RunTypes
<1>4. AccountInv(phase[r], plan[r], work[r], "cancelled", result[r], commits[r])
    BY <1>1 DEF RunInv, AccountInv, Balanced
<1>5. halted'[r] = "cancelled"
    BY <1>1 DEF RunTypes
<1>6. RunInv'
    BY <1>1, <1>3, <1>4, <1>5 DEF RunInv
<1> QED
    BY <1>2, <1>6 DEF BooksInv

\* A run that ends has dispatched and finished every project; the books stay.
LEMMA OverBooks ==
    ASSUME BooksInv, NEW r \in Runs, Over(r)
    PROVE  BooksInv'
<1>1. /\ RunTypes /\ RunInv /\ OtherTypes /\ phase[r] = "applying" /\ Active(r) = {} /\ Dispatched(r)
      /\ phase' = [phase EXCEPT ![r] = "over"]
      /\ UNCHANGED <<db, plan, work, halted, result, commits, touched, beside, edits, faults, crashes>>
    BY DEF BooksInv, Over
<1>2. RunTypes' /\ OtherTypes'
    BY <1>1 DEF RunTypes, OtherTypes
<1>3. \A s \in Runs \ {r} : phase'[s] = phase[s]
    BY <1>1 DEF RunTypes
<1>4. phase'[r] = "over"
    BY <1>1 DEF RunTypes
<1>5. \A p \in Projects : work[r][p].state \in {"none", "done", "failed"}
    BY <1>1 DEF Active, RunTypes, Jobs
<1>6. AccountInv("over", plan[r], work[r], halted[r], result[r], commits[r])
  <2>1. Balanced(plan[r], work[r], halted[r], result[r], commits[r])
    BY <1>1 DEF RunInv, AccountInv
  <2>2. result[r].failed = 0 => \A p \in Projects : plan[r][p] # <<>> => work[r][p].state = "done"
    BY <1>1, <1>5, <2>1 DEF Balanced, Dispatched
  <2>3. \A p \in Projects : work[r][p].state \notin Busy
    BY <1>5 DEF Busy
  <2> QED
    BY <2>1, <2>2, <2>3 DEF AccountInv
<1>7. RunInv'
    BY <1>1, <1>3, <1>4, <1>6 DEF RunInv
<1> QED
    BY <1>2, <1>7 DEF BooksInv

\* A killed run loses its jobs; the other runs' books are not touched.
LEMMA CrashBooks ==
    ASSUME BooksInv, NEW r \in Runs, Crash(r)
    PROVE  BooksInv'
<1>1. /\ RunTypes /\ RunInv /\ OtherTypes /\ phase[r] = "applying"
      /\ phase' = [phase EXCEPT ![r] = "crashed"] /\ work' = [work EXCEPT ![r] = [p \in Projects |-> Idle]]
      /\ crashes' = crashes + 1
      /\ UNCHANGED <<db, plan, halted, result, commits, touched, beside, edits, faults>>
    BY DEF BooksInv, Crash
<1>2. [p \in Projects |-> Idle] \in [Projects -> Jobs]
    BY DEF Idle, Jobs
<1>3. RunTypes' /\ OtherTypes'
    BY <1>1, <1>2 DEF RunTypes, OtherTypes
<1>4. \A s \in Runs \ {r} : phase'[s] = phase[s] /\ work'[s] = work[s]
    BY <1>1 DEF RunTypes
<1>5. phase'[r] = "crashed" /\ \A p \in Projects : work'[r][p] = Idle
    BY <1>1 DEF RunTypes
<1>6. AccountInv(phase'[r], plan[r], work'[r], halted[r], result[r], commits[r])
    BY <1>5 DEF AccountInv, Idle, Busy
<1>7. \A p \in Projects : JobInv(plan[r][p], work'[r][p])
    BY <1>5 DEF JobInv, Idle, Busy
<1>8. RunInv'
    BY <1>1, <1>4, <1>6, <1>7 DEF RunInv
<1> QED
    BY <1>3, <1>8 DEF BooksInv

\* Somebody else's edit is in none of the books.
LEMMA EditBooks ==
    ASSUME BooksInv, NEW p \in Projects, NEW change \in EditsOf(p), Edit(p, change)
    PROVE  BooksInv'
<1>1. /\ RunTypes /\ RunInv /\ OtherTypes
      /\ UNCHANGED <<phase, plan, work, halted, result, commits, beside, faults, crashes>>
      /\ db' = [db EXCEPT ![p] = [change EXCEPT !.revision = db[p].revision + 1]]
      /\ edits' = edits + 1 /\ touched' = touched \cup {p}
    BY DEF BooksInv, Edit
<1>2. RunTypes' /\ RunInv'
    BY <1>1 DEF RunTypes, RunInv
<1>3. db' \in [Projects -> Rows]
    BY <1>1, EditsAreRows DEF OtherTypes
<1>4. OtherTypes'
    BY <1>1, <1>3 DEF OtherTypes
<1> QED
    BY <1>2, <1>4 DEF BooksInv

\* The invariant of the books is inductive.
LEMMA BooksStart ==
    ASSUME Init PROVE BooksInv
<1>1. /\ phase = [r \in Runs |-> "new"] /\ plan = [r \in Runs |-> NoPlan]
      /\ work = [r \in Runs |-> [p \in Projects |-> Idle]] /\ halted = [r \in Runs |-> "no"]
      /\ result = [r \in Runs |-> [uploaded |-> 0, skipped |-> 0, failed |-> 0]]
      /\ commits = [r \in Runs |-> 0]
      /\ touched = {} /\ beside = {} /\ edits = 0 /\ faults = 0 /\ crashes = 0
    BY DEF Init
<1>2. Idle \in Jobs /\ NoPlan \in [Projects -> Seq(Entries)]
      /\ [uploaded |-> 0, skipped |-> 0, failed |-> 0] \in Totals
    BY DEF Idle, Jobs, NoPlan, Totals
<1>3. RunTypes
    BY <1>1, <1>2 DEF RunTypes
<1>4. db \in [Projects -> Rows]
  <2>1. PICK filled : db = [p \in Projects |->
                [revision |-> 1, deleted |-> FALSE, links |-> NoLogo,
                 logo |-> IF p \in filled THEN Before ELSE NoLogo,
                 files |-> [k \in Types \X Digests |-> IF p \in filled /\ k[2] = Before THEN 1 ELSE 0]]]
    BY DEF Init
  <2>2. \A p \in Projects :
            /\ (IF p \in filled THEN Before ELSE NoLogo) \in Images /\ NoLogo \in Images
            /\ [k \in Types \X Digests |-> IF p \in filled /\ k[2] = Before THEN 1 ELSE 0] \in Counts
    BY DEF Images, Counts
  <2> QED
    BY <2>1, <2>2 DEF Rows
<1>5. OtherTypes
    BY <1>1, <1>4 DEF OtherTypes
<1>6. \A r \in Runs : AccountInv("new", plan[r], work[r], halted[r], result[r], commits[r])
    BY <1>1 DEF AccountInv, Idle, Busy
<1>7. \A r \in Runs, p \in Projects : JobInv(plan[r][p], work[r][p])
    BY <1>1 DEF JobInv, Idle, Busy
<1>8. RunInv
    BY <1>1, <1>6, <1>7 DEF RunInv
<1> QED
    BY <1>3, <1>5, <1>8 DEF BooksInv

\* Every step keeps the books.
LEMMA BooksStep ==
    ASSUME BooksInv, [Next]_vars PROVE BooksInv'
<1>1. CASE \E r \in Runs : Plan(r)
    BY <1>1, PlanBooks
<1>2. ASSUME NEW r \in Runs, NEW p \in Projects,
             \/ Begin(r, p) \/ Check(r, p) \/ Read(r, p) \/ Send(r, p) \/ Cancelled(r, p)
             \/ \E fatal \in BOOLEAN : Break(r, p, fatal)
      PROVE  BooksInv'
  <2>1. Kept(r, p)
    BY <1>2, BeginKept, CheckKept, ReadKept, SendKept, CancelledKept, BreakKept
  <2>2. RunTypes' /\ RunInv'
    BY <2>1, KeptIsEnough DEF BooksInv
  <2>3. OtherTypes'
    BY <1>2, OthersTyped
  <2> QED
    BY <2>2, <2>3 DEF BooksInv
<1>3. CASE \E r \in Runs : Cancel(r) \/ Over(r) \/ Crash(r)
    BY <1>3, CancelBooks, OverBooks, CrashBooks
<1>4. CASE \E p \in Projects : \E change \in EditsOf(p) : Edit(p, change)
    BY <1>4, EditBooks
<1>5. CASE UNCHANGED vars
  <2>1. UNCHANGED <<db, phase, plan, work, halted, result, commits, touched, beside, edits, faults, crashes>>
    BY <1>5 DEF vars
  <2> QED
    BY <2>1 DEF BooksInv, RunTypes, OtherTypes, RunInv
<1> QED
    BY <1>1, <1>2, <1>3, <1>4, <1>5 DEF Next, Work

\* Failures are only added to a result.
LEMMA FailuresStay ==
    ASSUME BooksInv, NEW r \in Runs, NEW p \in Projects, NEW counts,
           Finish(r, p, counts) \/ Fail(r, p)
    PROVE  /\ \A s \in Runs : result'[s].failed \in Nat /\ result'[s].failed >= result[s].failed
           /\ Fail(r, p) => result'[r].failed = result[r].failed + 1
<1>1. result \in [Runs -> Totals] /\ \A s \in Runs : result[s].failed \in Nat
    BY DEF BooksInv, RunTypes, Totals
<1>2. CASE Fail(r, p)
  <2>1. PICK up, skip : result' = [result EXCEPT ![r].uploaded = up, ![r].skipped = skip,
                                                 ![r].failed = @ + 1]
    BY <1>2 DEF Fail, FailedOutcome
  <2>2. result'[r].failed = result[r].failed + 1 /\ \A s \in Runs \ {r} : result'[s] = result[s]
    BY <1>1, <2>1 DEF Totals
  <2> QED
    BY <1>1, <2>2
<1>3. CASE ~Fail(r, p) /\ result' # result
  <2>1. PICK up, skip : result' = [result EXCEPT ![r].uploaded = up, ![r].skipped = skip]
    BY <1>3 DEF Finish
  <2>2. \A s \in Runs : result'[s].failed = result[s].failed
    BY <1>1, <2>1 DEF Totals
  <2> QED
    BY <1>1, <1>3, <2>2
<1>4. CASE ~Fail(r, p) /\ result' = result
    BY <1>1, <1>4
<1> QED
    BY <1>2, <1>3, <1>4

\* Nothing hides at the start, and what a step hides adds a failure.
LEMMA LostStart == ASSUME Init PROVE LostInv
<1>1. \A r \in Runs : unheard[r] = 0 /\ result[r].failed = 0
    BY DEF Init
<1> QED
    BY <1>1 DEF Init, LostInv

LEMMA LostStep ==
    ASSUME BooksInv, LostInv, [Next]_vars PROVE LostInv'
<1>1. \A r \in Runs : unheard[r] \in Nat /\ result[r].failed \in Nat /\ unheard[r] <= result[r].failed
    BY DEF LostInv, BooksInv, RunTypes, Totals
<1>2. ASSUME UNCHANGED lostVars,
             \A r \in Runs : result'[r].failed \in Nat /\ result'[r].failed >= result[r].failed
      PROVE  LostInv'
    BY <1>1, <1>2 DEF LostInv, lostVars
<1>3. CASE UNCHANGED <<lostVars, result>>
    BY <1>1, <1>2, <1>3
<1>4. ASSUME NEW r \in Runs, Plan(r)
      PROVE  LostInv'
  <2>1. UNCHANGED lostVars
    BY <1>4 DEF Plan
  <2>2. \/ result' = result
        \/ \E n : result' = [result EXCEPT ![r].skipped = n]
    BY <1>4 DEF Plan
  <2>3. \A s \in Runs : result'[s].failed = result[s].failed
    <3>1. result \in [Runs -> Totals]
      BY DEF BooksInv, RunTypes
    <3>2. CASE result' = result
      BY <3>2
    <3>3. ASSUME NEW n, result' = [result EXCEPT ![r].skipped = n]
          PROVE  \A s \in Runs : result'[s].failed = result[s].failed
      BY <3>1, <3>3 DEF Totals
    <3> QED
      BY <2>2, <3>2, <3>3
  <2> QED
    BY <1>1, <1>2, <2>1, <2>3
<1>5. ASSUME NEW r \in Runs, NEW p \in Projects, Check(r, p) \/ Read(r, p) \/ Send(r, p)
      PROVE  LostInv'
  <2>1. UNCHANGED lostVars
    BY <1>5 DEF Check, Read, Send
  <2>2. CASE result' = result
    BY <1>3, <2>1, <2>2
  <2>3. CASE result' # result
    <3>1. \E counts : Finish(r, p, counts) \/ Fail(r, p)
      BY <1>5, <2>3 DEF Check, Read, Send
    <3>2. \A s \in Runs : result'[s].failed \in Nat /\ result'[s].failed >= result[s].failed
      BY <3>1, FailuresStay
    <3> QED
      BY <1>2, <2>1, <3>2
  <2> QED
    BY <2>2, <2>3
<1>6. ASSUME NEW r \in Runs, NEW p \in Projects,
             Cancelled(r, p) \/ \E fatal \in BOOLEAN : Break(r, p, fatal)
      PROVE  LostInv'
  <2>1. Fail(r, p) /\ (UNCHANGED lostVars \/ CommitUnheard(r, p)) /\ work[r][p].state \in Busy
    BY <1>6 DEF Cancelled, Break, Interrupted, Active
  <2>2. /\ \A s \in Runs : result'[s].failed \in Nat /\ result'[s].failed >= result[s].failed
        /\ result'[r].failed = result[r].failed + 1
    BY <2>1, FailuresStay
  <2>3. CASE UNCHANGED lostVars
    BY <1>2, <2>2, <2>3
  <2>4. CASE CommitUnheard(r, p)
    <3>1. unheard' = [unheard EXCEPT ![r] = @ + 1]
      BY <2>4 DEF CommitUnheard
    <3>2. Entry(r, p).item \in Items
      BY <2>1, BusyIsApplying DEF BooksInv, Entries
    <3>3. bare' \subseteq Projects \X Items
      <4>1. bare' \subseteq bare \cup {<<p, Entry(r, p).item>>}
        BY <2>4 DEF CommitUnheard
      <4> QED
        BY <3>2, <4>1 DEF LostInv
    <3>4. unheard' \in [Runs -> Nat] /\ \A s \in Runs : unheard'[s] <= result'[s].failed
      BY <1>1, <2>2, <3>1 DEF LostInv
    <3> QED
      BY <3>3, <3>4 DEF LostInv
  <2> QED
    BY <2>1, <2>3, <2>4
<1>7. CASE \E r \in Runs : Cancel(r) \/ Over(r) \/ Crash(r)
    BY <1>3, <1>7 DEF Cancel, Over, Crash
<1>8. CASE \E r \in Runs, p \in Projects : Begin(r, p)
    BY <1>3, <1>8 DEF Begin
<1>9. CASE \E p \in Projects : \E change \in EditsOf(p) : Edit(p, change)
    BY <1>3, <1>9 DEF Edit
<1>10. CASE UNCHANGED vars
  <2>1. UNCHANGED <<lostVars, result>>
    BY <1>10 DEF vars, lostVars
  <2> QED
    BY <1>3, <2>1
<1> QED
    BY <1>4, <1>5, <1>6, <1>7, <1>8, <1>9, <1>10 DEF Next, Work

\* The variables keep their types, in particular the counts of files.
THEOREM ImportTypeCorrect == Spec => []ImportTypeOK
<1>1. BooksInv /\ LostInv => ImportTypeOK
    BY ThreeTypes DEF BooksInv
<1> QED
    BY <1>1, BooksStart, BooksStep, LostStart, LostStep, PTL DEF Spec

\* Books that are closed have nothing pending, and after a success nothing owed.
LEMMA BooksOver ==
    ASSUME NEW pls \in [Projects -> Seq(Entries)], NEW ws \in [Projects -> Jobs], NEW halt,
           NEW res \in Totals, NEW com, AccountInv("over", pls, ws, halt, res, com)
    PROVE  /\ res.uploaded = com
           /\ res.failed = 0 => res.uploaded + res.skipped = Planned(pls)
<1> DEFINE Pend == [p \in Projects |-> IF ws[p].state \in Busy THEN ws[p].uploaded ELSE 0]
           Owe == [p \in Projects |-> IF ws[p].state = "done" THEN 0 ELSE Counted(pls[p], Len(pls[p]))]
<1>1. /\ \A p \in Projects : ws[p].state \notin Busy
      /\ res.uploaded + Pending(ws) = com
      /\ res.failed = 0 => /\ res.uploaded + res.skipped + Owed(pls, ws) = Planned(pls)
                           /\ \A p \in Projects : pls[p] # <<>> => ws[p].state = "done"
    BY DEF AccountInv, Balanced
<1>2. Pending(ws) = 0
  <2>1. Pend \in [Projects -> Nat] /\ \A p \in Projects : Pend[p] = 0
    BY <1>1
  <2>2. Pending(ws) = SumOver(Pend)
    BY DEF Pending
  <2> HIDE DEF Pend
  <2> QED
    BY <2>1, <2>2, SumOfZeros
<1>3. res.failed = 0 => Owed(pls, ws) = 0
  <2> SUFFICES ASSUME res.failed = 0 PROVE Owed(pls, ws) = 0
    OBVIOUS
  <2>1. \A p \in Projects : Owe[p] = 0
    <3> SUFFICES ASSUME NEW p \in Projects, ws[p].state # "done" PROVE Counted(pls[p], Len(pls[p])) = 0
      OBVIOUS
    <3>1. pls[p] = <<>>
      BY <1>1
    <3>2. Len(pls[p]) = 0
      BY <3>1
    <3>3. Counted(pls[p], 0) = 0
      BY CountAll
    <3> QED
      BY <3>2, <3>3
  <2>2. Owe \in [Projects -> Nat]
    BY <2>1
  <2>3. Owed(pls, ws) = SumOver(Owe)
    BY DEF Owed
  <2> HIDE DEF Owe
  <2> QED
    BY <2>1, <2>2, <2>3, SumOfZeros
<1>4. res.uploaded \in Nat /\ res.skipped \in Nat
    BY DEF Totals
<1> QED
    BY <1>1, <1>2, <1>3, <1>4

\* However a run went, what it reports as done it has done, and what it has done
\* beside, not hearing of it, is in projects it reports as failed; a success
\* accounts for the whole bundle.
THEOREM ResultsHold == Spec => []ResultsAreTrue
<1>1. BooksInv /\ LostInv => ResultsAreTrue
  <2> SUFFICES ASSUME BooksInv, LostInv, NEW r \in Runs, phase[r] = "over"
               PROVE  /\ result[r].uploaded = commits[r]
                      /\ unheard[r] <= result[r].failed
                      /\ Success(r) => result[r].uploaded + result[r].skipped =
                                        SumOver([p \in Projects |-> Len(plan[r][p])])
    BY DEF ResultsAreTrue
  <2>1. AccountInv("over", plan[r], work[r], halted[r], result[r], commits[r])
    BY DEF BooksInv, RunInv
  <2>2. PICK pls \in [Projects -> Seq(Entries)], ws \in [Projects -> Jobs], res \in Totals :
            pls = plan[r] /\ ws = work[r] /\ res = result[r]
    BY DEF BooksInv, RunTypes
  <2>3. /\ result[r].uploaded = commits[r]
        /\ result[r].failed = 0 => result[r].uploaded + result[r].skipped = Planned(plan[r])
    <3>1. AccountInv("over", pls, ws, halted[r], res, commits[r])
      BY <2>1, <2>2
    <3>2. res.uploaded = commits[r] /\ (res.failed = 0 => res.uploaded + res.skipped = Planned(pls))
      BY <3>1, BooksOver
    <3> QED
      BY <2>2, <3>2
  <2> QED
    BY <2>3 DEF Success, Planned, LostInv
<1> QED
    BY <1>1, BooksStart, BooksStep, LostStart, LostStep, PTL DEF Spec

-------------------------------------------------------------------------------
(* Runs one after the other: where a project stands in its plan.             *)

\* What the bundle has for a project under either of its names, and that it is
\* one logo and one set of links.
Wished(p) ==
    UNION {{Bundle[k].items[j] : j \in DOMAIN Bundle[k].items} :
              k \in {i \in DOMAIN Bundle : Bundle[i].who \in {p, Keys[p]}}}
OneOfEach(p) ==
    \A x, y \in Wished(p) : x.kind = y.kind /\ x.kind # "file" => x.digest = y.digest

\* A plan holds what the bundle has for the project.
Wish(p, pl) ==
    /\ \A i \in 1 .. Len(pl) : pl[i].item \in Wished(p)
    /\ pl # <<>> => OneOfEach(p)

\* An item is there; all that a plan holds is.
There(row, item) ==
    /\ item.kind = "file" => Present(row.files, item)
    /\ item.kind = "logo" => row.logo = item.digest
    /\ item.kind = "links" => row.links = item.digest
Complete(row, pl) == \A i \in 1 .. Len(pl) : There(row, pl[i].item)

\* The project's files are where the plan wants them, and it fits to its end.
Within(pl, W) == W[Len(pl)] = W[0] \/ ActiveBytes(W[Len(pl)]) <= Quota
OnCourse(row, pl, w) ==
    \E W : /\ Course(pl, W) /\ Within(pl, W)
           /\ w.state = "none" => row.files = W[0]
           /\ w.state \in Busy => row.files = W[w.next - 1]

\* What planning knew of the logo still holds.
LogosStand(row, pl) ==
    \A i \in 1 .. Len(pl) :
        /\ pl[i].item.kind = "logo" /\ Skips(pl[i]) => There(row, pl[i].item)
        /\ pl[i].item.kind = "links" => ~Skips(pl[i])

\* A project that only this run works on.
Alone(row, pl, w) ==
    /\ OnCourse(row, pl, w) /\ LogosStand(row, pl)
    /\ w.state = "send" => w.revision = row.revision
    /\ w.state \in Busy => \A i \in 1 .. w.next - 1 : There(row, pl[i].item)
    /\ w.state = "done" => Complete(row, pl)

InTurnInv(p) ==
    /\ \A k \in Types \X Digests : db[p].files[k] <= 1
    /\ \A r \in Runs :
        /\ phase[r] = "applying" => Alone(db[p], plan[r][p], work[r][p])
        /\ Success(r) => Complete(db[p], plan[r][p])
        /\ faults = 0 => work[r][p].state # "failed"

OrderInv ==
    /\ \A r \in Runs, p \in Projects : Wish(p, plan[r][p])
    /\ faults = 0 => \A r \in Runs : halted[r] = "no"
    /\ \A p \in Projects \ touched : ~db[p].deleted
    /\ beside = {} =>
        /\ \A r, s \in Runs : phase[r] = "applying" /\ phase[s] = "applying" => r = s
        /\ \A p \in Projects \ touched : InTurnInv(p)


-------------------------------------------------------------------------------

\* More files have more bytes.
LEMMA MoreBytes ==
    ASSUME NEW f \in Counts, NEW g \in Counts, \A k \in Types \X Digests : f[k] <= g[k]
    PROVE  ActiveBytes(f) <= ActiveBytes(g) /\ ActiveBytes(f) \in Nat /\ ActiveBytes(g) \in Nat
<1> DEFINE Bytes(h) == [k \in Types \X Digests |-> h[k] * Size[k[2]]]
<1>1. IsFiniteSet(Types \X Digests)
    BY ImportAssumption, FS_Product
<1>2. \A k \in Types \X Digests : Size[k[2]] \in Nat /\ f[k] \in Nat /\ g[k] \in Nat
    BY ImportAssumption DEF Counts
<1>3. \A x, y, z \in Nat : x <= y => x * z \in Nat /\ y * z \in Nat /\ x * z <= y * z
    OBVIOUS
<1>4. \A k \in Types \X Digests : f[k] * Size[k[2]] \in Nat /\ g[k] * Size[k[2]] \in Nat
                                  /\ f[k] * Size[k[2]] <= g[k] * Size[k[2]]
    BY <1>2, <1>3
<1>5. /\ Bytes(f) \in [Types \X Digests -> Nat] /\ Bytes(g) \in [Types \X Digests -> Nat]
      /\ \A k \in Types \X Digests : Bytes(f)[k] <= Bytes(g)[k]
    BY <1>4
<1>6. ActiveBytes(f) = SumOver(Bytes(f)) /\ ActiveBytes(g) = SumOver(Bytes(g))
    BY DEF ActiveBytes
<1> HIDE DEF Bytes
<1> QED
    BY <1>1, <1>5, <1>6, SumUpTo, SumIsNat

\* The items of a plan.
LEMMA PlanItems ==
    ASSUME NEW pl \in Seq(Entries), NEW m \in 1 .. Len(pl)
    PROVE  /\ pl[m] \in Entries /\ pl[m].item \in Items
           /\ Len(pl) \in Nat /\ m \in Nat /\ m # 0 /\ m - 1 \in 0 .. Len(pl) /\ m \in 0 .. Len(pl)
<1>1. pl[m] \in Entries
    OBVIOUS
<1>2. Len(pl) \in Nat
    OBVIOUS
<1> QED
    BY <1>1, <1>2 DEF Entries

\* One entry of a course.
LEMMA CourseStep ==
    ASSUME NEW pl \in Seq(Entries), NEW W, Course(pl, W), NEW m \in 1 .. Len(pl)
    PROVE  /\ W[m - 1] \in Counts /\ W[m] \in Counts
           /\ \A k \in Types \X Digests : W[m - 1][k] <= W[m][k]
<1>1. /\ pl[m].item \in Items /\ m - 1 \in 0 .. Len(pl) /\ m \in 0 .. Len(pl)
    BY PlanItems
<1>2. PICK f, g : f = W[m - 1] /\ g = W[m]
    OBVIOUS
<1>3. f \in Counts /\ g \in Counts /\ (g = f \/ g = Count(f, pl[m].item))
    BY <1>1, <1>2 DEF Course
<1>4. \A k \in Types \X Digests : f[k] \in Nat
    BY <1>3 DEF Counts
<1>5. \A k \in Types \X Digests : f[k] <= g[k]
  <2>1. CASE g = f
    BY <1>4, <2>1
  <2>2. CASE g = Count(f, pl[m].item)
    <3>1. PICK item \in Items : item = pl[m].item
      BY <1>1
    <3>2. PICK k0 : k0 = <<item.type, item.digest>>
      OBVIOUS
    <3>3. /\ g[k0] = f[k0] + 1 /\ k0 \in Types \X Digests
          /\ \A k \in Types \X Digests : k # k0 => g[k] = f[k]
      BY ZenonT(30), <1>3, <2>2, <3>1, <3>2, CountedFiles
    <3> QED
      BY <1>4, <3>3
  <2> QED
    BY <1>3, <2>1, <2>2
<1> QED
    BY <1>2, <1>3, <1>5

\* The files of a course only become more.
LEMMA CourseGrows ==
    ASSUME NEW pl \in Seq(Entries), NEW W, Course(pl, W), NEW i \in 0 .. Len(pl)
    PROVE  \A j \in 0 .. i : \A k \in Types \X Digests : W[j][k] <= W[i][k]
<1> DEFINE P == {m \in 0 .. Len(pl) : \A j \in 0 .. m : \A k \in Types \X Digests : W[j][k] <= W[m][k]}
<1>1. PICK n : n \in Nat /\ n = Len(pl)
    OBVIOUS
<1>2. \A m \in 0 .. n : W[m] \in Counts
    BY <1>1 DEF Course
<1>3. 0 \in P
  <2>1. \A k \in Types \X Digests : W[0][k] <= W[0][k]
    BY <1>1, <1>2 DEF Counts
  <2> QED
    BY <1>1, <2>1
<1>4. ASSUME NEW m \in 0 .. n, m \in P, m < n
      PROVE  m + 1 \in P
  <2>1. \A k \in Types \X Digests : W[m][k] <= W[m + 1][k]
    <3>1. PICK m1 \in 1 .. Len(pl) : m1 = m + 1 /\ m1 - 1 = m
      BY <1>1, <1>4
    <3> QED
      BY <3>1, CourseStep
  <2>2. \A j \in 0 .. m : \A k \in Types \X Digests : W[j][k] <= W[m][k]
    BY <1>4
  <2>3. ASSUME NEW j \in 0 .. m + 1, NEW k \in Types \X Digests PROVE W[j][k] <= W[m + 1][k]
    <3>1. m + 1 \in 0 .. n
      BY <1>1, <1>4
    <3>2. W[m][k] \in Nat /\ W[m + 1][k] \in Nat
      BY <1>2, <3>1 DEF Counts
    <3>3. CASE j = m + 1
      BY <3>2, <3>3
    <3>4. CASE j # m + 1
      <4>1. j \in 0 .. m
        BY <3>4
      <4>2. W[j][k] \in Nat
        <5>1. j \in 0 .. n
          BY <1>1, <1>4, <4>1
        <5> QED
          BY <1>2, <5>1 DEF Counts
      <4> QED
        BY <2>1, <2>2, <3>2, <4>1, <4>2
    <3> QED
      BY <3>3, <3>4
  <2>4. m + 1 \in 0 .. Len(pl)
    BY <1>1, <1>4
  <2> QED
    BY <2>3, <2>4
<1>5. 0 .. n \subseteq P
  <2> HIDE DEF P
  <2>1. \A m \in 0 .. n : m \in P /\ m < n => m + 1 \in P
    BY <1>4
  <2> QED
    BY <1>1, <1>3, <2>1, UpTo
<1> QED
    BY <1>1, <1>5

\* What the quota allowed when planning it allows when sending.
LEMMA FitsLater ==
    ASSUME NEW pl \in Seq(Entries), NEW W, Course(pl, W), Within(pl, W), NEW m \in 1 .. Len(pl),
           pl[m].item.kind = "file", ~Skips(pl[m])
    PROVE  /\ ~Present(W[m - 1], pl[m].item) /\ W[m] = Count(W[m - 1], pl[m].item)
           /\ ActiveBytes(Count(W[m - 1], pl[m].item)) <= Quota
<1>1. PICK n : n \in Nat /\ n = Len(pl)
    OBVIOUS
<1>2. \A i \in 0 .. n : W[i] \in Counts
    BY <1>1 DEF Course
<1>3. ~Present(W[m - 1], pl[m].item) /\ W[m] = Count(W[m - 1], pl[m].item)
    BY DEF Course
<1>4. /\ pl[m].item \in Items /\ m - 1 \in 0 .. n /\ m \in 0 .. n /\ m \in Nat /\ m # 0
      /\ m - 1 \in 0 .. Len(pl)
    BY <1>1, PlanItems
<1>5. PICK k \in Types \X Digests : W[m][k] = W[m - 1][k] + 1
  <2>1. PICK f \in Counts, item \in Items : f = W[m - 1] /\ item = pl[m].item
    BY <1>2, <1>4
  <2>2. /\ <<item.type, item.digest>> \in Types \X Digests
        /\ Count(f, item)[<<item.type, item.digest>>] = f[<<item.type, item.digest>>] + 1
    BY CountedFiles
  <2> QED
    BY <1>3, <2>1, <2>2
<1>6. \A j \in Types \X Digests : W[0][j] <= W[m - 1][j] /\ W[m][j] <= W[n][j]
  <2>1. m - 1 \in 0 .. Len(pl)
    BY <1>1, <1>4
  <2>2. \A j \in 0 .. m - 1 : \A i \in Types \X Digests : W[j][i] <= W[m - 1][i]
    BY <2>1, CourseGrows
  <2>3. \A j \in 0 .. n : \A i \in Types \X Digests : W[j][i] <= W[n][i]
    <3>1. n \in 0 .. Len(pl)
      BY <1>1
    <3> QED
      BY <3>1, CourseGrows
  <2>4. 0 \in 0 .. m - 1
    BY <1>4
  <2> QED
    BY <1>4, <2>2, <2>3, <2>4
<1>7. W[n] # W[0]
  <2>1. W[0][k] \in Nat /\ W[m - 1][k] \in Nat /\ W[n][k] \in Nat
    <3>1. 0 \in 0 .. n /\ n \in 0 .. n
      BY <1>1
    <3> QED
      BY <1>2, <1>4, <3>1 DEF Counts
  <2> QED
    BY <1>5, <1>6, <2>1
<1>8. ActiveBytes(W[n]) <= Quota
    BY <1>1, <1>7 DEF Within
<1>9. ActiveBytes(W[m]) <= ActiveBytes(W[n]) /\ ActiveBytes(W[m]) \in Nat /\ ActiveBytes(W[n]) \in Nat
  <2>1. W[m] \in Counts /\ W[n] \in Counts
    BY <1>1, <1>2, <1>4
  <2> QED
    BY <1>6, <2>1, MoreBytes
<1> QED
    BY <1>3, <1>8, <1>9, ImportAssumption

\* What is there stays there while the plans of the bundle are carried out.
LEMMA ThereStays ==
    ASSUME NEW row \in Rows, NEW x \in Items, NEW item \in Items, There(row, x),
           x.kind = item.kind /\ x.kind # "file" => x.digest = item.digest
    PROVE  There(Changed(row, item), x)
<1>1. item.kind \in {"logo", "file", "links"}
    BY DEF Items
<1>2. CASE item.kind = "file"
  <2>1. /\ Changed(row, item).files = Count(row.files, item)
        /\ Changed(row, item).logo = row.logo /\ Changed(row, item).links = row.links
    BY <1>2, ChangedRows
  <2>2. x.kind = "file" => Present(Count(row.files, item), x)
    <3>1. row.files \in Counts
      BY DEF Rows
    <3>2. \A k \in Types \X Digests : row.files[k] > 0 => Count(row.files, item)[k] > 0
      <4>1. PICK k0 : k0 = <<item.type, item.digest>>
        OBVIOUS
      <4>2. /\ k0 \in Types \X Digests
            /\ Count(row.files, item)[k0] = row.files[k0] + 1
            /\ \A k \in Types \X Digests : k # k0 => Count(row.files, item)[k] = row.files[k]
        BY <3>1, <4>1, CountedFiles
      <4>3. \A k \in Types \X Digests : row.files[k] \in Nat
        BY <3>1 DEF Counts
      <4> QED
        BY <4>2, <4>3
    <3>3. x.type \in Types /\ x.digest \in Digests
      BY DEF Items
    <3> QED
      BY <3>2, <3>3 DEF There, Present
  <2> QED
    BY <2>1, <2>2 DEF There
<1>3. CASE item.kind = "logo"
    BY <1>3, ChangedRows DEF There
<1>4. CASE item.kind = "links"
    BY <1>4, ChangedRows DEF There
<1> QED
    BY <1>1, <1>2, <1>3, <1>4

\* And what is sent is there afterwards.
LEMMA SentIsThere ==
    ASSUME NEW row \in Rows, NEW item \in Items
    PROVE  There(Changed(row, item), item)
<1>1. CASE item.kind = "file"
  <2>1. /\ Changed(row, item).files[<<item.type, item.digest>>] = row.files[<<item.type, item.digest>>] + 1
        /\ row.files[<<item.type, item.digest>>] \in Nat
    <3>1. PICK files \in Counts : files = row.files
      BY DEF Rows
    <3>2. PICK k : k = <<item.type, item.digest>>
      OBVIOUS
    <3>3. Count(files, item)[k] = files[k] + 1 /\ k \in Types \X Digests
      BY <3>1, <3>2, CountedFiles
    <3>4. Changed(row, item).files = Count(row.files, item)
      BY <1>1, ChangedRows
    <3> QED
      BY <3>1, <3>2, <3>3, <3>4 DEF Counts
  <2>2. item.digest \in Digests
    BY DEF Items
  <2> QED
    BY <1>1, <2>1, <2>2 DEF There, Present
<1>2. CASE item.kind # "file"
    BY <1>2, ChangedRows DEF There
<1> QED
    BY <1>1, <1>2

\* The bundle has one logo and one set of links for a project that a plan could be made of.
LEMMA OneIsResolved ==
    ASSUME Resolved, NEW p \in Projects, ~db[p].deleted
    PROVE  OneOfEach(p)
<1> SUFFICES ASSUME NEW x \in Wished(p), NEW y \in Wished(p), x.kind = y.kind, x.kind # "file"
             PROVE  x.digest = y.digest
    BY DEF OneOfEach
<1>1. PICK i \in DOMAIN Bundle : Bundle[i].who \in {p, Keys[p]}
                                 /\ \E m \in DOMAIN Bundle[i].items : x = Bundle[i].items[m]
    BY DEF Wished
<1>2. PICK j \in DOMAIN Bundle : Bundle[j].who \in {p, Keys[p]}
                                 /\ \E m \in DOMAIN Bundle[j].items : y = Bundle[j].items[m]
    BY DEF Wished
<1>3. p \in Resolve(Bundle[i].who) /\ p \in Resolve(Bundle[j].who)
    BY <1>1, <1>2 DEF Resolve
<1>4. ~Merges
    BY <1>1, ImportAssumption
<1>5. Resolve(Bundle[i].who) = {p} /\ Resolve(Bundle[j].who) = {p}
  <2>1. ASSUME NEW who, Cardinality(Resolve(who)) = 1, p \in Resolve(who)
        PROVE  Resolve(who) = {p}
    <3>1. IsFiniteSet(Resolve(who))
      BY ImportAssumption, FS_Subset DEF Resolve
    <3>2. \E z : Resolve(who) = {z}
      BY <2>1, <3>1, FS_Singleton
    <3> QED
      BY <2>1, <3>2
  <2> QED
    BY <1>3, <2>1 DEF Resolved
<1>6. i = j
    BY <1>4, <1>5 DEF Resolved
<1> QED
    BY <1>1, <1>2, <1>6, ImportAssumption

\* A plan just made.
LEMMA AloneOpens ==
    ASSUME NEW p \in Projects, db[p] \in Rows, Resolved
    PROVE  /\ Wish(p, Classified(p).plan)
           /\ Classified(p).fits => Alone(db[p], Classified(p).plan, Idle)
<1>1. PICK pl : pl = Classified(p).plan
    OBVIOUS
<1>2. db[p].files \in Counts
    BY DEF Rows
<1>3. /\ pl \in Seq(Entries)
      /\ \A i \in 1 .. Len(pl) :
            /\ pl[i].item \in Wanted(p)
            /\ pl[i].item.kind = "logo" => (Skips(pl[i]) <=> SameLogo(db[p].logo, pl[i].item))
            /\ pl[i].item.kind = "links" => ~Skips(pl[i])
      /\ \E W : /\ Course(pl, W) /\ W[0] = db[p].files
                /\ Classified(p).fits => W[Len(pl)] = W[0] \/ ActiveBytes(W[Len(pl)]) <= Quota
    BY <1>1, <1>2, PlanFollowsItems
<1>4. Wish(p, pl)
  <2>1. \A x \in Wanted(p) : x \in Wished(p) /\ ~db[p].deleted
    BY DEF Wanted, Wished, Resolve
  <2>2. \A i \in 1 .. Len(pl) : pl[i].item \in Wished(p)
    BY <1>3, <2>1
  <2>3. ASSUME pl # <<>> PROVE OneOfEach(p)
    <3>1. 1 \in 1 .. Len(pl)
      BY <1>3, <2>3
    <3>2. ~db[p].deleted
      BY <1>3, <2>1, <3>1
    <3> QED
      BY <3>2, OneIsResolved
  <2> QED
    BY <2>2, <2>3 DEF Wish
<1>5. Classified(p).fits => Alone(db[p], pl, Idle)
  <2> SUFFICES ASSUME Classified(p).fits PROVE Alone(db[p], pl, Idle)
    OBVIOUS
  <2>1. PICK W : Course(pl, W) /\ W[0] = db[p].files /\ Within(pl, W)
    BY <1>3 DEF Within
  <2>2. OnCourse(db[p], pl, Idle)
    BY <2>1 DEF OnCourse, Idle, Busy
  <2>3. LogosStand(db[p], pl)
    BY <1>3 DEF LogosStand, There, SameLogo
  <2> QED
    BY <2>2, <2>3 DEF Alone, Idle, Busy
<1> QED
    BY <1>1, <1>4, <1>5

\* Beginning, looking and reading leave the project as it is.
LEMMA AloneGoes ==
    ASSUME NEW row, NEW pl, NEW w, NEW v, Alone(row, pl, w), GoesOn(pl, w, v), JobInv(pl, w),
           v.state = "send" => v.revision = row.revision
    PROVE  Alone(row, pl, v) /\ v.state \in Busy
<1>1. /\ v.state \in Busy /\ v.state # "none" /\ v.state # "done"
      /\ \/ w.state = "none" /\ v.next = 1
         \/ w.state \in Busy /\ v.next = w.next
  <2>1. CASE w.state = "none" /\ pl # <<>> /\ v = [w EXCEPT !.state = "check", !.next = 1]
    BY <2>1 DEF JobInv, Idle, Busy
  <2>2. CASE w.state \in Busy /\ v.state \in {"read", "send"} /\ v.next = w.next
    BY <2>2 DEF Busy
  <2> QED
    BY <2>1, <2>2 DEF GoesOn
<1>2. OnCourse(row, pl, v)
  <2>1. PICK W : /\ Course(pl, W) /\ Within(pl, W)
                 /\ w.state = "none" => row.files = W[0]
                 /\ w.state \in Busy => row.files = W[w.next - 1]
    BY DEF Alone, OnCourse
  <2>2. row.files = W[v.next - 1]
    BY <1>1, <2>1
  <2> QED
    BY <1>1, <2>1, <2>2 DEF OnCourse
<1>3. \A i \in 1 .. v.next - 1 : There(row, pl[i].item)
    BY <1>1 DEF Alone
<1> QED
    BY <1>1, <1>2, <1>3 DEF Alone

\* A project that fails.
LEMMA AloneFails ==
    ASSUME NEW row, NEW row2, NEW pl, NEW w, NEW v, Alone(row, pl, w), v.state = "failed",
           \A i \in 1 .. Len(pl) : There(row, pl[i].item) => There(row2, pl[i].item), Len(pl) \in Nat
    PROVE  Alone(row2, pl, v)
<1>1. OnCourse(row2, pl, v)
    BY DEF Alone, OnCourse, Busy
<1>2. LogosStand(row2, pl)
    BY DEF Alone, LogosStand
<1> QED
    BY <1>1, <1>2 DEF Alone, Busy

\* The next entry, or the end.
Proceeds(pl, w, v) ==
    IF w.next = Len(pl) THEN v.state = "done" ELSE v.state = "check" /\ v.next = w.next + 1

\* Dealing with an entry.
LEMMA AloneFinishes ==
    ASSUME NEW row, NEW row2, NEW pl \in Seq(Entries), NEW w, NEW v,
           Alone(row, pl, w), w.state \in Busy, w.next \in 1 .. Len(pl), Proceeds(pl, w, v),
           There(row2, pl[w.next].item),
           \A i \in 1 .. Len(pl) : There(row, pl[i].item) => There(row2, pl[i].item),
           row2.files = IF pl[w.next].item.kind = "file" /\ ~Skips(pl[w.next])
                        THEN Count(row.files, pl[w.next].item) ELSE row.files
    PROVE  Alone(row2, pl, v)
<1>1. PICK n, m : n \in Nat /\ n = Len(pl) /\ m = w.next /\ m \in 1 .. n
    OBVIOUS
<1>2. \A i \in 1 .. m : There(row2, pl[i].item)
  <2>1. \A i \in 1 .. m - 1 : There(row, pl[i].item)
    BY <1>1 DEF Alone
  <2>2. ASSUME NEW i \in 1 .. m PROVE There(row2, pl[i].item)
    <3>1. i = m \/ (i \in 1 .. m - 1 /\ i \in 1 .. n)
      BY <1>1
    <3> QED
      BY <1>1, <2>1, <3>1
  <2> QED
    BY <2>2
<1>3. LogosStand(row2, pl)
    BY DEF Alone, LogosStand
<1>4. PICK W : Course(pl, W) /\ Within(pl, W) /\ row.files = W[m - 1]
    BY <1>1 DEF Alone, OnCourse
<1>5. row2.files = W[m]
    BY <1>1, <1>4 DEF Course
<1>6. CASE m = n
  <2>1. v.state = "done"
    BY <1>1, <1>6 DEF Proceeds
  <2>2. OnCourse(row2, pl, v)
    BY <1>4, <2>1 DEF OnCourse, Busy
  <2> QED
    BY <1>1, <1>2, <1>3, <1>6, <2>1, <2>2 DEF Alone, Complete, Busy
<1>7. CASE m # n
  <2>1. v.state = "check" /\ v.next - 1 = m
    BY <1>1, <1>7 DEF Proceeds
  <2>2. OnCourse(row2, pl, v)
    BY <1>4, <1>5, <2>1 DEF OnCourse
  <2> QED
    BY <1>2, <1>3, <2>1, <2>2 DEF Alone
<1> QED
    BY <1>6, <1>7

\* Passing an entry that is planned as a skip, or found to be there.
LEMMA AlonePasses ==
    ASSUME NEW row, NEW pl \in Seq(Entries), NEW w, NEW v,
           Alone(row, pl, w), w.state \in Busy, w.next \in 1 .. Len(pl), Proceeds(pl, w, v),
           Skips(pl[w.next]) \/ There(row, pl[w.next].item)
    PROVE  Alone(row, pl, v)
<1>1. PICK n, m : n \in Nat /\ n = Len(pl) /\ m = w.next /\ m \in 1 .. n
    OBVIOUS
<1>2. PICK W : Course(pl, W) /\ Within(pl, W) /\ row.files = W[m - 1]
    BY <1>1 DEF Alone, OnCourse
<1>3. pl[m].item.kind \in {"logo", "file", "links"}
  <2>1. pl[m].item \in Items
    BY <1>1, PlanItems
  <2> QED
    BY <2>1 DEF Items
<1>4. pl[m].item.kind = "file" => (Skips(pl[m]) <=> Present(row.files, pl[m].item))
    BY <1>1, <1>2 DEF Course
<1>5. There(row, pl[m].item)
  <2>1. CASE Skips(pl[m])
    BY <1>1, <1>3, <1>4, <2>1 DEF Alone, LogosStand, There
  <2> QED
    BY <1>1, <2>1
<1>6. row.files = IF pl[m].item.kind = "file" /\ ~Skips(pl[m])
                  THEN Count(row.files, pl[m].item) ELSE row.files
    BY <1>4, <1>5 DEF There
<1> QED
    BY <1>1, <1>5, <1>6, AloneFinishes

\* A file that is not planned as a skip is not there yet, and fits.
LEMMA AloneSends ==
    ASSUME NEW row, NEW pl \in Seq(Entries), NEW w, Alone(row, pl, w), w.state \in Busy,
           w.next \in 1 .. Len(pl), ~Skips(pl[w.next]), pl[w.next].item.kind = "file"
    PROVE  /\ ~Present(row.files, pl[w.next].item)
           /\ ActiveBytes(Count(row.files, pl[w.next].item)) <= Quota
<1>1. PICK m \in 1 .. Len(pl) : m = w.next
    OBVIOUS
<1>2. PICK W : Course(pl, W) /\ Within(pl, W) /\ row.files = W[m - 1]
    BY <1>1 DEF Alone, OnCourse
<1> QED
    BY <1>1, <1>2, FitsLater

\* What is sent to a project for one plan leaves the items of its plans there.
LEMMA PlansStay ==
    ASSUME NEW p, NEW row \in Rows, NEW pl \in Seq(Entries), NEW pm \in Seq(Entries),
           Wish(p, pl), Wish(p, pm), NEW m \in 1 .. Len(pm)
    PROVE  \A i \in 1 .. Len(pl) : There(row, pl[i].item) => There(Changed(row, pm[m].item), pl[i].item)
<1> SUFFICES ASSUME NEW i \in 1 .. Len(pl), There(row, pl[i].item)
             PROVE  There(Changed(row, pm[m].item), pl[i].item)
    OBVIOUS
<1>1. pl[i].item \in Items /\ pm[m].item \in Items
    BY PlanItems
<1>2. pl[i].item \in Wished(p) /\ pm[m].item \in Wished(p) /\ OneOfEach(p)
  <2>1. pl # <<>>
    OBVIOUS
  <2> QED
    BY <2>1 DEF Wish
<1>3. pl[i].item.kind = pm[m].item.kind /\ pl[i].item.kind # "file" => pl[i].item.digest = pm[m].item.digest
    BY <1>2 DEF OneOfEach
<1> QED
    BY <1>1, <1>3, ThereStays

\* A step of a run's work on one project, as far as the others see it.
Elsewhere(r, p) ==
    /\ r \in Runs /\ p \in Projects /\ phase[r] = "applying"
    /\ UNCHANGED <<phase, plan, touched, beside>>
    /\ \A s \in Runs, q \in Projects : s # r \/ q # p => work'[s][q] = work[s][q]
    /\ \A s \in Runs \ {r} : result'[s] = result[s]
    /\ \A q \in Projects \ {p} : db'[q] = db[q]
    /\ db'[p].deleted = db[p].deleted
    /\ faults' = 0 => faults = 0 /\ halted' = halted

\* And what it does to the project while runs come one after the other.
Orderly(r, p) ==
    beside = {} /\ p \notin touched =>
        /\ \A k \in Types \X Digests : db'[p].files[k] <= 1
        /\ Alone(db'[p], plan[r][p], work'[r][p])
        /\ faults' = 0 => work'[r][p].state # "failed"
        /\ \A s \in Runs : Complete(db[p], plan[s][p]) => Complete(db'[p], plan[s][p])

\* Such a step keeps the order.
LEMMA OrderlyIsEnough ==
    ASSUME OrderInv, NEW r, NEW p, Elsewhere(r, p), Orderly(r, p)
    PROVE  OrderInv'
<1>1. /\ r \in Runs /\ p \in Projects /\ phase[r] = "applying"
      /\ phase' = phase /\ plan' = plan /\ touched' = touched /\ beside' = beside
      /\ \A s \in Runs, q \in Projects : s # r \/ q # p => work'[s][q] = work[s][q]
      /\ \A s \in Runs \ {r} : result'[s] = result[s]
      /\ \A q \in Projects \ {p} : db'[q] = db[q]
      /\ db'[p].deleted = db[p].deleted
      /\ faults' = 0 => faults = 0 /\ halted' = halted
    BY DEF Elsewhere
<1>2. \A s \in Runs, q \in Projects : Wish(q, plan'[s][q])
    BY <1>1 DEF OrderInv
<1>3. faults' = 0 => \A s \in Runs : halted'[s] = "no"
    BY <1>1 DEF OrderInv
<1>4. \A q \in Projects \ touched' : ~db'[q].deleted
    BY <1>1 DEF OrderInv
<1>5. ASSUME beside = {}
      PROVE  /\ \A s, t \in Runs : phase[s] = "applying" /\ phase[t] = "applying" => s = t
             /\ \A q \in Projects \ touched : InTurnInv(q)
    BY <1>5 DEF OrderInv
<1>6. ASSUME beside = {}, NEW q \in Projects \ touched PROVE InTurnInv(q)'
  <2>1. /\ \A k \in Types \X Digests : db[q].files[k] <= 1
        /\ \A s \in Runs :
            /\ phase[s] = "applying" => Alone(db[q], plan[s][q], work[s][q])
            /\ Success(s) => Complete(db[q], plan[s][q])
            /\ faults = 0 => work[s][q].state # "failed"
    BY <1>5, <1>6 DEF InTurnInv
  <2>2. \A s \in Runs : Success(s)' => s # r /\ Success(s)
    BY <1>1 DEF Success
  <2>3. CASE q # p
    <3>1. db'[q] = db[q] /\ \A s \in Runs : work'[s][q] = work[s][q]
      BY <1>1, <1>6, <2>3
    <3> QED
      BY <1>1, <2>1, <2>2, <3>1 DEF InTurnInv
  <2>4. CASE q = p
    <3>1. /\ \A k \in Types \X Digests : db'[p].files[k] <= 1
          /\ Alone(db'[p], plan[r][p], work'[r][p])
          /\ faults' = 0 => work'[r][p].state # "failed"
          /\ \A s \in Runs : Complete(db[p], plan[s][p]) => Complete(db'[p], plan[s][p])
      BY <1>6, <2>4 DEF Orderly
    <3>2. \A s \in Runs : phase[s] = "applying" => s = r
      BY <1>1, <1>5, <1>6
    <3>3. \A s \in Runs : phase'[s] = "applying" => Alone(db'[p], plan'[s][p], work'[s][p])
      BY <1>1, <3>1, <3>2
    <3>4. \A s \in Runs : Success(s)' => Complete(db'[p], plan'[s][p])
      BY <1>1, <2>1, <2>2, <2>4, <3>1
    <3>5. \A s \in Runs : faults' = 0 => work'[s][p].state # "failed"
      BY <1>1, <2>1, <2>4, <3>1
    <3> QED
      BY <2>4, <3>1, <3>3, <3>4, <3>5 DEF InTurnInv
  <2> QED
    BY <2>3, <2>4
<1> QED
    BY <1>1, <1>2, <1>3, <1>4, <1>5, <1>6 DEF OrderInv

\* What is known of a project under work.
LEMMA UnderWork ==
    ASSUME BooksInv, NEW r \in Runs, NEW p \in Projects
    PROVE  /\ plan[r][p] \in Seq(Entries) /\ work[r][p] \in Jobs /\ db[p] \in Rows
           /\ JobInv(plan[r][p], work[r][p])
           /\ work[r][p].state \in Busy =>
                /\ phase[r] = "applying" /\ work[r][p].next \in 1 .. Len(plan[r][p])
                /\ Entry(r, p) = plan[r][p][work[r][p].next] /\ Entry(r, p).item \in Items
<1>1. /\ plan[r][p] \in Seq(Entries) /\ work[r][p] \in Jobs /\ db[p] \in Rows
      /\ JobInv(plan[r][p], work[r][p])
    BY DEF BooksInv, RunTypes, OtherTypes, RunInv
<1> QED
    BY <1>1, BusyIsApplying DEF BooksInv, Entries

\* What order says of it.
LEMMA InOrder ==
    ASSUME OrderInv, NEW r \in Runs, NEW p \in Projects, phase[r] = "applying",
           beside = {}, p \notin touched
    PROVE  /\ \A k \in Types \X Digests : db[p].files[k] <= 1
           /\ Alone(db[p], plan[r][p], work[r][p])
           /\ faults = 0 => work[r][p].state # "failed" /\ halted[r] = "no"
           /\ ~db[p].deleted
           /\ \A s \in Runs : Wish(p, plan[s][p])
    BY DEF OrderInv, InTurnInv

\* How the work moves.
LEMMA FinishProceeds ==
    ASSUME RunTypes, NEW r \in Runs, NEW p \in Projects, NEW counts, Finish(r, p, counts)
    PROVE  /\ \A s \in Runs, q \in Projects : s # r \/ q # p => work'[s][q] = work[s][q]
           /\ \A s \in Runs \ {r} : result'[s] = result[s]
           /\ Proceeds(plan[r][p], work[r][p], work'[r][p])
<1> DEFINE w == work[r][p]
           sum == [w EXCEPT !.uploaded = @ + counts.uploaded, !.skipped = @ + counts.skipped]
           v == IF w.next = Len(plan[r][p]) THEN [sum EXCEPT !.state = "done"]
                ELSE [sum EXCEPT !.state = "check", !.next = @ + 1]
<1>1. work' = [work EXCEPT ![r][p] = v]
    BY DEF Finish
<1>2. /\ \A s \in Runs, q \in Projects : s # r \/ q # p => work'[s][q] = work[s][q]
      /\ work'[r][p] = v
  <2> HIDE DEF v
  <2> QED
    BY <1>1 DEF RunTypes
<1>3. \A s \in Runs \ {r} : result'[s] = result[s]
  <2>1. \/ result' = result
        \/ \E a, b : result' = [result EXCEPT ![r].uploaded = a, ![r].skipped = b]
    BY DEF Finish
  <2> QED
    BY <2>1 DEF RunTypes
<1>4. PICK old \in Jobs : old = w
    BY DEF RunTypes
<1>5. "state" \in DOMAIN sum /\ "next" \in DOMAIN sum /\ sum.next = w.next
    BY <1>4 DEF Jobs
<1>6. w.next = Len(plan[r][p]) => v.state = "done"
  <2> HIDE DEF sum, w
  <2> QED
    BY <1>5
<1>7. w.next # Len(plan[r][p]) => v.state = "check" /\ v.next = w.next + 1
  <2> HIDE DEF sum, w
  <2> QED
    BY <1>5
<1> HIDE DEF v, sum
<1> QED
    BY <1>2, <1>3, <1>6, <1>7 DEF Proceeds

\* What Fail leaves alone, and what it sets.
LEMMA FailFails ==
    ASSUME RunTypes, NEW r \in Runs, NEW p \in Projects, Fail(r, p)
    PROVE  /\ \A s \in Runs, q \in Projects : s # r \/ q # p => work'[s][q] = work[s][q]
           /\ \A s \in Runs \ {r} : result'[s] = result[s]
           /\ work'[r][p].state = "failed"
<1>1. work' = [work EXCEPT ![r][p].state = "failed"]
    BY DEF Fail
<1>2. /\ \A s \in Runs, q \in Projects : s # r \/ q # p => work'[s][q] = work[s][q]
      /\ work'[r][p].state = "failed"
    BY <1>1 DEF RunTypes, Jobs
<1>3. \A s \in Runs \ {r} : result'[s] = result[s]
    BY DEF Fail, FailedOutcome, RunTypes
<1> QED
    BY <1>2, <1>3

\* What the services refuse, has been changed by somebody else, or is planned beside.
LEMMA NotRefused ==
    ASSUME BooksInv, OrderInv, NEW r \in Runs, NEW p \in Projects, work[r][p].state = "send",
           beside = {}, p \notin touched
    PROVE  /\ ~db[p].deleted /\ db[p].revision = work[r][p].revision /\ Fits(p, Entry(r, p).item)
           /\ Entry(r, p).item.kind = "file" => ~Present(db[p].files, Entry(r, p).item)
<1>1. work[r][p].state \in Busy
    BY DEF Busy
<1>2. /\ phase[r] = "applying" /\ plan[r][p] \in Seq(Entries) /\ JobInv(plan[r][p], work[r][p])
      /\ work[r][p].next \in 1 .. Len(plan[r][p]) /\ Entry(r, p) = plan[r][p][work[r][p].next]
    BY <1>1, UnderWork
<1>3. Alone(db[p], plan[r][p], work[r][p]) /\ ~db[p].deleted
    BY <1>2, InOrder
<1>4. db[p].revision = work[r][p].revision
    BY <1>3 DEF Alone
<1>5. ~Skips(plan[r][p][work[r][p].next])
    BY <1>2 DEF JobInv
<1>6. Entry(r, p).item.kind = "file" =>
        /\ ~Present(db[p].files, Entry(r, p).item)
        /\ ActiveBytes(Count(db[p].files, Entry(r, p).item)) <= Quota
    BY <1>1, <1>2, <1>3, <1>5, AloneSends
<1> QED
    BY <1>3, <1>4, <1>6 DEF Fits

\* A file that was not there is there once.
LEMMA OnceMore ==
    ASSUME NEW files \in Counts, NEW item \in Items, ~Present(files, item),
           \A k \in Types \X Digests : files[k] <= 1
    PROVE  \A k \in Types \X Digests : Count(files, item)[k] <= 1
<1>1. PICK k0 : k0 = <<item.type, item.digest>>
    OBVIOUS
<1>2. /\ k0 \in Types \X Digests /\ Count(files, item)[k0] = files[k0] + 1
      /\ \A k \in Types \X Digests : k # k0 => Count(files, item)[k] = files[k]
    BY <1>1, CountedFiles
<1>3. files[k0] = 0
  <2>1. files[k0] \in Nat
    BY <1>2 DEF Counts
  <2>2. item.digest \in Digests
    BY DEF Items
  <2> QED
    BY <1>1, <2>1, <2>2 DEF Present
<1> QED
    BY <1>2, <1>3

\* An item that is sent leaves every file once and what is there for any plan.
LEMMA SentStays ==
    ASSUME BooksInv, OrderInv, NEW r \in Runs, NEW p \in Projects, work[r][p].state = "send",
           beside = {}, p \notin touched
    PROVE  LET row2 == Changed(db[p], Entry(r, p).item)
           IN /\ \A k \in Types \X Digests : row2.files[k] <= 1
              /\ \A s \in Runs : \A i \in 1 .. Len(plan[s][p]) :
                    There(db[p], plan[s][p][i].item) => There(row2, plan[s][p][i].item)
<1>1. work[r][p].state \in Busy
    BY DEF Busy
<1>2. PICK item \in Items, m \in 1 .. Len(plan[r][p]) :
        /\ item = Entry(r, p).item /\ m = work[r][p].next /\ Entry(r, p) = plan[r][p][m]
    BY <1>1, UnderWork
<1>3. PICK row \in Rows, pl \in Seq(Entries) : row = db[p] /\ pl = plan[r][p]
    BY UnderWork
<1>4. PICK row2 : row2 = Changed(row, item)
    OBVIOUS
<1>5. /\ \A k \in Types \X Digests : row.files[k] <= 1
      /\ \A s \in Runs : Wish(p, plan[s][p])
  <2>1. phase[r] = "applying"
    BY <1>1, UnderWork
  <2> QED
    BY <1>3, <2>1, InOrder
<1>6. /\ item.kind = "file" => row2.files = Count(row.files, item)
      /\ item.kind # "file" => row2.files = row.files
  <2>1. item.kind \in {"logo", "file", "links"}
    BY DEF Items
  <2> QED
    BY <1>4, <2>1, ChangedRows
<1>7. \A k \in Types \X Digests : row2.files[k] <= 1
  <2>1. row.files \in Counts
    BY DEF Rows
  <2>2. CASE item.kind = "file"
    <3>1. ~Present(row.files, item)
      BY <1>2, <1>3, <2>2, NotRefused
    <3> QED
      BY <1>5, <1>6, <2>1, <2>2, <3>1, OnceMore
  <2>3. CASE item.kind # "file"
    BY <1>5, <1>6, <2>3
  <2> QED
    BY <2>2, <2>3
<1>8. ASSUME NEW s \in Runs
      PROVE  \A i \in 1 .. Len(plan[s][p]) : There(row, plan[s][p][i].item) => There(row2, plan[s][p][i].item)
  <2>1. PICK ps \in Seq(Entries) : ps = plan[s][p]
    BY UnderWork
  <2>2. Wish(p, ps) /\ Wish(p, pl) /\ m \in 1 .. Len(pl)
    BY <1>2, <1>3, <1>5, <2>1
  <2>3. \A i \in 1 .. Len(ps) : There(row, ps[i].item) => There(Changed(row, pl[m].item), ps[i].item)
    BY <2>2, PlansStay
  <2>4. pl[m].item = item
    BY <1>2, <1>3
  <2> QED
    BY <1>4, <2>1, <2>3, <2>4
<1> QED
    BY <1>2, <1>3, <1>4, <1>7, <1>8

\* Failing needs a fault; the change may be made all the same.
LEMMA FailOrder ==
    ASSUME BooksInv, OrderInv, NEW r \in Runs, NEW p \in Projects, work[r][p].state \in Busy, Fail(r, p),
           UNCHANGED db \/ CommitUnheard(r, p), UNCHANGED <<phase, plan, touched, beside>>,
           faults' = 0 => faults = 0 /\ halted' = halted,
           beside = {} /\ p \notin touched => faults' # 0
    PROVE  OrderInv'
<1>1. phase[r] = "applying"
    BY UnderWork
<1>2. Elsewhere(r, p)
  <2>1. db[p] \in Rows /\ Entry(r, p).item \in Items
    BY UnderWork
  <2>2. (\A q \in Projects \ {p} : db'[q] = db[q]) /\ db'[p].deleted = db[p].deleted
    BY <2>1, ChangedRows DEF CommitUnheard, Apply, BooksInv, OtherTypes
  <2> QED
    BY <1>1, <2>2, FailFails DEF Elsewhere, BooksInv
<1>3. Orderly(r, p)
  <2> SUFFICES ASSUME beside = {}, p \notin touched
               PROVE  /\ \A k \in Types \X Digests : db'[p].files[k] <= 1
                      /\ Alone(db'[p], plan[r][p], work'[r][p])
                      /\ faults' # 0
                      /\ \A s \in Runs : Complete(db[p], plan[s][p]) => Complete(db'[p], plan[s][p])
    BY DEF Orderly
  <2>1. Alone(db[p], plan[r][p], work[r][p]) /\ \A k \in Types \X Digests : db[p].files[k] <= 1
    BY <1>1, InOrder
  <2>2. /\ \A k \in Types \X Digests : db'[p].files[k] <= 1
        /\ \A s \in Runs : \A i \in 1 .. Len(plan[s][p]) :
              There(db[p], plan[s][p][i].item) => There(db'[p], plan[s][p][i].item)
    <3>1. CASE UNCHANGED db
      BY <2>1, <3>1
    <3>2. CASE CommitUnheard(r, p)
      <4>1. work[r][p].state = "send" /\ db'[p] = Changed(db[p], Entry(r, p).item)
        BY <3>2 DEF CommitUnheard, Apply, BooksInv, OtherTypes
      <4> QED
        BY <4>1, SentStays
    <3> QED
      BY <3>1, <3>2
  <2>3. PICK row, row2, pl, w, v :
          row = db[p] /\ row2 = db'[p] /\ pl = plan[r][p] /\ w = work[r][p] /\ v = work'[r][p]
    OBVIOUS
  <2>4. Alone(row2, pl, v)
    <3>1. v.state = "failed" /\ Len(pl) \in Nat
      BY <2>3, FailFails, UnderWork DEF BooksInv
    <3>2. Alone(row, pl, w) /\ \A i \in 1 .. Len(pl) : There(row, pl[i].item) => There(row2, pl[i].item)
      BY <2>1, <2>2, <2>3
    <3> QED
      BY <3>1, <3>2, AloneFails
  <2>5. \A s \in Runs : Complete(db[p], plan[s][p]) => Complete(db'[p], plan[s][p])
    BY <2>2 DEF Complete
  <2> QED
    BY <2>2, <2>3, <2>4, <2>5
<1> QED
    BY <1>2, <1>3, OrderlyIsEnough

\* Passing an entry.
LEMMA PassOrder ==
    ASSUME BooksInv, OrderInv, NEW r \in Runs, NEW p \in Projects, work[r][p].state \in Busy,
           NEW counts, Finish(r, p, counts),
           Skips(Entry(r, p)) \/ There(db[p], Entry(r, p).item),
           UNCHANGED <<db, phase, plan, halted, touched, beside, faults>>
    PROVE  OrderInv'
<1>1. /\ phase[r] = "applying" /\ work[r][p].next \in 1 .. Len(plan[r][p])
      /\ Entry(r, p) = plan[r][p][work[r][p].next] /\ plan[r][p] \in Seq(Entries)
    BY UnderWork
<1>2. /\ \A s \in Runs, q \in Projects : s # r \/ q # p => work'[s][q] = work[s][q]
      /\ \A s \in Runs \ {r} : result'[s] = result[s]
      /\ Proceeds(plan[r][p], work[r][p], work'[r][p])
    BY FinishProceeds DEF BooksInv
<1>3. Elsewhere(r, p)
    BY <1>1, <1>2 DEF Elsewhere
<1>4. Orderly(r, p)
  <2> SUFFICES ASSUME beside = {}, p \notin touched
               PROVE  /\ \A k \in Types \X Digests : db'[p].files[k] <= 1
                      /\ Alone(db'[p], plan[r][p], work'[r][p])
                      /\ work'[r][p].state # "failed"
                      /\ \A s \in Runs : Complete(db[p], plan[s][p]) => Complete(db'[p], plan[s][p])
    BY DEF Orderly
  <2>1. Alone(db[p], plan[r][p], work[r][p]) /\ \A k \in Types \X Digests : db[p].files[k] <= 1
    BY <1>1, InOrder
  <2>2. PICK row, pl, w, v : row = db[p] /\ pl = plan[r][p] /\ w = work[r][p] /\ v = work'[r][p]
    OBVIOUS
  <2>3. Alone(row, pl, v)
    BY <1>1, <1>2, <2>1, <2>2, AlonePasses
  <2>4. v.state # "failed"
    BY <1>2, <2>2 DEF Proceeds
  <2> QED
    BY <2>1, <2>2, <2>3, <2>4
<1> QED
    BY <1>3, <1>4, OrderlyIsEnough

\* Going on with the same entry, or beginning.
LEMMA GoOnOrder ==
    ASSUME BooksInv, OrderInv, NEW r \in Runs, NEW p \in Projects, phase[r] = "applying", NEW v,
           work' = [work EXCEPT ![r][p] = v], GoesOn(plan[r][p], work[r][p], v),
           v.state = "send" => v.revision = db[p].revision,
           UNCHANGED <<db, phase, plan, halted, result, touched, beside, faults>>
    PROVE  OrderInv'
<1>1. /\ \A s \in Runs, q \in Projects : s # r \/ q # p => work'[s][q] = work[s][q]
      /\ work'[r][p] = v
    BY DEF BooksInv, RunTypes
<1>2. Elsewhere(r, p)
    BY <1>1 DEF Elsewhere
<1>3. Orderly(r, p)
  <2> SUFFICES ASSUME beside = {}, p \notin touched
               PROVE  /\ \A k \in Types \X Digests : db'[p].files[k] <= 1
                      /\ Alone(db'[p], plan[r][p], work'[r][p])
                      /\ work'[r][p].state # "failed"
                      /\ \A s \in Runs : Complete(db[p], plan[s][p]) => Complete(db'[p], plan[s][p])
    BY DEF Orderly
  <2>1. Alone(db[p], plan[r][p], work[r][p]) /\ \A k \in Types \X Digests : db[p].files[k] <= 1
    BY InOrder
  <2>2. PICK row, pl, w : row = db[p] /\ pl = plan[r][p] /\ w = work[r][p]
    OBVIOUS
  <2>3. Alone(row, pl, v) /\ v.state \in Busy
    <3>1. JobInv(pl, w)
      BY <2>2, UnderWork
    <3> QED
      BY <2>1, <2>2, <3>1, AloneGoes
  <2> QED
    BY <1>1, <2>1, <2>2, <2>3 DEF Busy
<1> QED
    BY <1>2, <1>3, OrderlyIsEnough

\* Looking for an item.
LEMMA CheckOrder ==
    ASSUME BooksInv, OrderInv, NEW r \in Runs, NEW p \in Projects, Check(r, p)
    PROVE  OrderInv'
<1>1. work[r][p].state = "check" /\ work[r][p].state \in Busy
    BY DEF Check, Busy
<1>2. UNCHANGED <<db, phase, plan, halted, commits, touched, beside, edits, faults, crashes>>
    BY DEF Check
<1>3. CASE Skips(Entry(r, p)) \/ IsThere(p, db[p].files, Entry(r, p).item)
  <2>1. Finish(r, p, Skipped(r, p))
    BY <1>3 DEF Check
  <2>2. Skips(Entry(r, p)) \/ There(db[p], Entry(r, p).item)
    <3>1. Entry(r, p).item.kind \in {"logo", "file", "links"}
      BY <1>1, UnderWork DEF Items
    <3> QED
      BY <1>3, <3>1 DEF IsThere, There, SameLogo
  <2> QED
    BY <1>1, <1>2, <2>1, <2>2, PassOrder
<1>4. CASE ~(Skips(Entry(r, p)) \/ IsThere(p, db[p].files, Entry(r, p).item))
  <2>1. work' = [work EXCEPT ![r][p].state = "read"] /\ result' = result
    BY <1>4 DEF Check
  <2>2. PICK w \in Jobs : w = work[r][p]
    BY UnderWork
  <2>3. PICK v : v = [w EXCEPT !.state = "read"]
    OBVIOUS
  <2>4. work' = [work EXCEPT ![r][p] = v]
    BY <2>1, <2>2, <2>3 DEF BooksInv, RunTypes
  <2>5. GoesOn(plan[r][p], work[r][p], v) /\ v.state # "send"
    BY <1>1, <1>4, <2>2, <2>3, UnderWork DEF GoesOn, Jobs
  <2>6. phase[r] = "applying"
    BY <1>1, UnderWork
  <2> QED
    BY ZenonT(30), <1>2, <2>1, <2>4, <2>5, <2>6, GoOnOrder
<1> QED
    BY <1>3, <1>4

\* Beginning, and reading the revision.
LEMMA BeginOrder ==
    ASSUME BooksInv, OrderInv, NEW r \in Runs, NEW p \in Projects, Begin(r, p)
    PROVE  OrderInv'
<1>1. /\ phase[r] = "applying" /\ work[r][p].state = "none" /\ plan[r][p] # <<>>
      /\ work' = [work EXCEPT ![r][p].state = "check", ![r][p].next = 1]
      /\ UNCHANGED <<db, phase, plan, halted, result, commits, touched, beside, edits, faults, crashes>>
    BY DEF Begin
<1>2. PICK w \in Jobs : w = work[r][p]
    BY UnderWork
<1>3. PICK v : v = [w EXCEPT !.state = "check", !.next = 1]
    OBVIOUS
<1>4. work' = [work EXCEPT ![r][p] = v]
    BY <1>1, <1>2, <1>3 DEF BooksInv, RunTypes
<1>5. GoesOn(plan[r][p], work[r][p], v)
    BY <1>1, <1>2, <1>3 DEF GoesOn
<1>6. v.state # "send"
    BY <1>2, <1>3 DEF Jobs
<1>7. phase[r] = "applying" /\ UNCHANGED <<db, phase, plan, halted, result, touched, beside, faults>>
    BY <1>1
<1> QED
    BY <1>4, <1>5, <1>6, <1>7, GoOnOrder

\* Reading a project's file keeps the order.
LEMMA ReadOrder ==
    ASSUME BooksInv, OrderInv, NEW r \in Runs, NEW p \in Projects, Read(r, p)
    PROVE  OrderInv'
<1>1. work[r][p].state = "read" /\ work[r][p].state \in Busy
    BY DEF Read, Busy
<1>2. UNCHANGED <<db, phase, plan, halted, commits, touched, beside, edits, faults, crashes>>
    BY DEF Read
<1>3. phase[r] = "applying"
    BY <1>1, UnderWork
<1>4. CASE db[p].deleted
  <2>1. Fail(r, p)
    BY <1>4 DEF Read
  <2>2. ~(beside = {} /\ p \notin touched)
    BY <1>3, <1>4, InOrder
  <2> QED
    BY <1>1, <1>2, <2>1, <2>2, FailOrder
<1>5. CASE ~db[p].deleted
  <2>1. work' = [work EXCEPT ![r][p].state = "send", ![r][p].revision = db[p].revision] /\ result' = result
    BY <1>5 DEF Read
  <2>2. PICK w \in Jobs : w = work[r][p]
    BY UnderWork
  <2>3. PICK v : v = [w EXCEPT !.state = "send", !.revision = db[p].revision]
    OBVIOUS
  <2>4. work' = [work EXCEPT ![r][p] = v]
    BY <2>1, <2>2, <2>3 DEF BooksInv, RunTypes
  <2>5. GoesOn(plan[r][p], work[r][p], v)
    <3>1. ~Skips(plan[r][p][work[r][p].next])
      BY <1>1, UnderWork DEF JobInv
    <3> QED
      BY <1>1, <2>2, <2>3, <3>1 DEF GoesOn, Jobs
  <2>6. v.revision = db[p].revision
    BY <2>2, <2>3 DEF Jobs
  <2>7. UNCHANGED <<db, phase, plan, halted, result, touched, beside, faults>>
    BY <1>2, <2>1
  <2> QED
    BY <1>3, <2>4, <2>5, <2>6, <2>7, GoOnOrder
<1> QED
    BY <1>4, <1>5

\* Sending an item.
LEMMA SendOrder ==
    ASSUME BooksInv, OrderInv, NEW r \in Runs, NEW p \in Projects, Send(r, p)
    PROVE  OrderInv'
<1>1. work[r][p].state = "send" /\ work[r][p].state \in Busy
    BY DEF Send, Busy
<1>2. UNCHANGED <<phase, plan, halted, touched, beside, edits, faults, crashes>>
    BY DEF Send
<1>3. PICK item \in Items, m \in 1 .. Len(plan[r][p]) :
        /\ item = Entry(r, p).item /\ m = work[r][p].next /\ Entry(r, p) = plan[r][p][m]
    BY <1>1, UnderWork
<1>4. phase[r] = "applying" /\ plan[r][p] \in Seq(Entries) /\ db[p] \in Rows
    BY <1>1, UnderWork
<1>5. CASE Refuses(r, p)
  <2>1. Fail(r, p) /\ UNCHANGED <<db, commits>>
    BY <1>3, <1>5 DEF Send
  <2>2. ~(beside = {} /\ p \notin touched)
    BY <1>1, <1>5, NotRefused DEF Refuses
  <2> QED
    BY <1>1, <1>2, <2>1, <2>2, FailOrder
<1>6. CASE ~Refuses(r, p) /\ Unchanged(r, p)
  <2>1. Finish(r, p, Skipped(r, p)) /\ UNCHANGED <<db, commits>>
    BY <1>3, <1>6 DEF Send
  <2>2. There(db[p], Entry(r, p).item)
    BY <1>6 DEF There, Unchanged
  <2> QED
    BY <1>1, <1>2, <2>1, <2>2, PassOrder
<1>7. CASE ~Refuses(r, p) /\ ~Unchanged(r, p)
  <2>1. db' = [db EXCEPT ![p] = Changed(@, item)] /\ Finish(r, p, Uploaded)
    BY <1>3, <1>7 DEF Send, Apply
  <2>2. /\ \A q \in Projects \ {p} : db'[q] = db[q]
        /\ db'[p] = Changed(db[p], item)
    BY <2>1 DEF BooksInv, OtherTypes
  <2>3. /\ \A s \in Runs, q \in Projects : s # r \/ q # p => work'[s][q] = work[s][q]
        /\ \A s \in Runs \ {r} : result'[s] = result[s]
        /\ Proceeds(plan[r][p], work[r][p], work'[r][p])
    BY <2>1, FinishProceeds DEF BooksInv
  <2>4. db'[p].deleted = db[p].deleted
    BY <1>4, <2>2, ChangedRows
  <2>5. Elsewhere(r, p)
    BY <1>2, <1>4, <2>2, <2>3, <2>4 DEF Elsewhere
  <2>6. Orderly(r, p)
    <3> SUFFICES ASSUME beside = {}, p \notin touched
                 PROVE  /\ \A k \in Types \X Digests : db'[p].files[k] <= 1
                        /\ Alone(db'[p], plan[r][p], work'[r][p])
                        /\ work'[r][p].state # "failed"
                        /\ \A s \in Runs : Complete(db[p], plan[s][p]) => Complete(db'[p], plan[s][p])
      BY DEF Orderly
    <3>1. /\ Alone(db[p], plan[r][p], work[r][p]) /\ \A k \in Types \X Digests : db[p].files[k] <= 1
          /\ \A s \in Runs : Wish(p, plan[s][p])
      BY <1>4, InOrder
    <3>0. PICK row \in Rows, pl \in Seq(Entries) : row = db[p] /\ pl = plan[r][p]
      BY <1>4
    <3>3. PICK w, v, row2 :
            /\ row = db[p] /\ pl = plan[r][p] /\ w = work[r][p] /\ v = work'[r][p]
            /\ row2 = Changed(row, item)
      BY <3>0
    <3>4. /\ item.kind = "file" => row2.files = Count(row.files, item)
          /\ item.kind # "file" => row2.files = row.files
          /\ item.kind \in {"logo", "file", "links"}
      <4>1. item.kind \in {"logo", "file", "links"}
        BY DEF Items
      <4> QED
        BY <3>3, <4>1, ChangedRows
    <3>5. \A k \in Types \X Digests : row2.files[k] <= 1
      BY <1>1, <1>3, <3>3, SentStays
    <3>6. \A s \in Runs : \A i \in 1 .. Len(plan[s][p]) :
            There(row, plan[s][p][i].item) => There(row2, plan[s][p][i].item)
      BY <1>1, <1>3, <3>3, SentStays
    <3>7. ~Skips(pl[m])
      BY <1>1, <1>3, <3>3, UnderWork DEF JobInv
    <3>8. Alone(row2, pl, v)
      <4>1. There(row2, pl[w.next].item)
        BY <1>3, <3>3, SentIsThere
      <4>2. row2.files = IF pl[w.next].item.kind = "file" /\ ~Skips(pl[w.next])
                         THEN Count(row.files, pl[w.next].item) ELSE row.files
        BY <1>3, <3>3, <3>4, <3>7
      <4>3. /\ Alone(row, pl, w) /\ w.state \in Busy /\ w.next \in 1 .. Len(pl) /\ Proceeds(pl, w, v)
            /\ \A i \in 1 .. Len(pl) : There(row, pl[i].item) => There(row2, pl[i].item)
        BY <1>1, <1>3, <2>3, <3>1, <3>3, <3>6
      <4> QED
        BY <4>1, <4>2, <4>3, AloneFinishes
    <3>9. v.state # "failed"
      BY <2>3, <3>3 DEF Proceeds
    <3>10. \A s \in Runs : Complete(row, plan[s][p]) => Complete(row2, plan[s][p])
      BY <3>6 DEF Complete
    <3> QED
      BY <2>2, <3>3, <3>5, <3>8, <3>9, <3>10
  <2> QED
    BY <2>5, <2>6, OrderlyIsEnough
<1> QED
    BY <1>5, <1>6, <1>7

\* Errors are faults; calls are cancelled after one.
LEMMA BreakOrder ==
    ASSUME BooksInv, OrderInv, NEW r \in Runs, NEW p \in Projects, NEW fatal \in BOOLEAN, Break(r, p, fatal)
    PROVE  OrderInv'
<1>1. /\ work[r][p].state \in Busy /\ Fail(r, p)
      /\ UNCHANGED db \/ CommitUnheard(r, p)
      /\ UNCHANGED <<phase, plan, touched, beside>>
    BY DEF Break, Active, Interrupted
<1>2. faults' # 0
    BY DEF Break, BooksInv, OtherTypes
<1> QED
    BY <1>1, <1>2, FailOrder

\* A run is only cancelled after a fault, so a failed project is accounted for.
LEMMA CancelledOrder ==
    ASSUME BooksInv, OrderInv, NEW r \in Runs, NEW p \in Projects, Cancelled(r, p)
    PROVE  OrderInv'
<1>1. /\ work[r][p].state \in Busy /\ Fail(r, p) /\ halted[r] = "cancelled"
      /\ UNCHANGED db \/ CommitUnheard(r, p)
      /\ UNCHANGED <<phase, plan, touched, beside, faults, halted>>
    BY DEF Cancelled, Active, Interrupted
<1>2. faults' # 0
    BY <1>1 DEF OrderInv
<1> QED
    BY <1>1, <1>2, FailOrder

\* Cancelling follows a fatal fault, which was counted.
LEMMA CancelOrder ==
    ASSUME BooksInv, OrderInv, NEW r \in Runs, Cancel(r)
    PROVE  OrderInv'
<1>1. /\ halted[r] = "fatal"
      /\ UNCHANGED <<db, phase, plan, work, result, commits, touched, beside, edits, faults, crashes>>
    BY DEF Cancel
<1>2. faults # 0
    BY <1>1 DEF OrderInv
<1> QED
    BY <1>1, <1>2 DEF OrderInv, InTurnInv, Success

\* Planning.
LEMMA PlanOrder ==
    ASSUME BooksInv, OrderInv, NEW r \in Runs, Plan(r)
    PROVE  OrderInv'
<1> DEFINE plans == [p \in Projects |-> Classified(p).plan]
<1>1. phase[r] = "new" /\ UNCHANGED <<db, work, halted, touched, edits, faults, crashes>>
    BY DEF Plan
<1>2. \A s \in Runs, p \in Projects : work[r][p] = Idle
    BY <1>1 DEF BooksInv, RunInv, AccountInv
<1>3. CASE Resolved /\ \A p \in Projects : Classified(p).fits
  <2>1. /\ phase' = [phase EXCEPT ![r] = "applying"] /\ plan' = [plan EXCEPT ![r] = plans]
        /\ result' = [result EXCEPT ![r].skipped = IF Merges THEN PlannedSkips(plans) ELSE 0]
        /\ beside' = beside \cup {s \in Runs : phase[s] = "applying"}
    BY <1>3 DEF Plan
  <2>2. /\ \A s \in Runs \ {r} : phase'[s] = phase[s] /\ plan'[s] = plan[s] /\ result'[s] = result[s]
        /\ phase'[r] = "applying" /\ plan'[r] = plans
    <3> HIDE DEF plans
    <3> QED
      BY <2>1 DEF BooksInv, RunTypes
  <2>3. \A p \in Projects : Wish(p, plans[p]) /\ Alone(db[p], plans[p], Idle)
    <3> SUFFICES ASSUME NEW p \in Projects PROVE Wish(p, plans[p]) /\ Alone(db[p], plans[p], Idle)
      OBVIOUS
    <3>1. db[p] \in Rows
      BY DEF BooksInv, OtherTypes
    <3>2. Wish(p, Classified(p).plan) /\ Alone(db[p], Classified(p).plan, Idle)
      BY <1>3, <3>1, AloneOpens
    <3> QED
      BY <3>2
  <2> HIDE DEF plans
  <2>4. \A s \in Runs, p \in Projects : Wish(p, plan'[s][p])
    BY <2>2, <2>3 DEF OrderInv
  <2>5. ASSUME beside' = {}
        PROVE  beside = {} /\ \A s \in Runs : phase[s] # "applying"
    BY <2>1, <2>5
  <2>6. ASSUME beside' = {}, NEW p \in Projects \ touched PROVE InTurnInv(p)'
    <3>1. /\ \A k \in Types \X Digests : db[p].files[k] <= 1
          /\ \A s \in Runs : /\ Success(s) => Complete(db[p], plan[s][p])
                             /\ faults = 0 => work[s][p].state # "failed"
      BY <2>5, <2>6 DEF OrderInv, InTurnInv
    <3>2. \A s \in Runs : Success(s)' => s # r /\ Success(s)
      BY <2>2 DEF Success
    <3>3. \A s \in Runs : phase'[s] = "applying" => s = r
      BY <2>2, <2>5, <2>6
    <3>4. \A s \in Runs : phase'[s] = "applying" => Alone(db'[p], plan'[s][p], work'[s][p])
      BY <1>1, <1>2, <2>2, <2>3, <3>3
    <3>5. \A s \in Runs : Success(s)' => Complete(db'[p], plan'[s][p])
      BY <1>1, <2>2, <3>1, <3>2
    <3> QED
      BY <1>1, <3>1, <3>4, <3>5 DEF InTurnInv
  <2>7. ASSUME beside' = {}
        PROVE  \A s, t \in Runs : phase'[s] = "applying" /\ phase'[t] = "applying" => s = t
    BY <2>2, <2>5, <2>7
  <2>8. /\ faults' = 0 => \A s \in Runs : halted'[s] = "no"
        /\ \A p \in Projects \ touched' : ~db'[p].deleted
    BY <1>1 DEF OrderInv
  <2> QED
    BY <1>1, <2>4, <2>6, <2>7, <2>8 DEF OrderInv
<1>4. CASE ~(Resolved /\ \A p \in Projects : Classified(p).fits)
  <2>1. phase' = [phase EXCEPT ![r] = "refused"] /\ UNCHANGED <<plan, result, beside>>
    BY <1>4 DEF Plan
  <2>2. \A s \in Runs : /\ phase'[s] = "applying" => phase[s] = "applying"
                        /\ Success(s)' => Success(s)
    BY <2>1 DEF BooksInv, RunTypes, Success
  <2> QED
    BY <1>1, <2>1, <2>2 DEF OrderInv, InTurnInv
<1> QED
    BY <1>3, <1>4

\* A run ends: what it has done is there.
LEMMA OverOrder ==
    ASSUME BooksInv, OrderInv, NEW r \in Runs, Over(r)
    PROVE  OrderInv'
<1>1. /\ phase[r] = "applying" /\ phase' = [phase EXCEPT ![r] = "over"]
      /\ UNCHANGED <<db, plan, work, halted, result, commits, touched, beside, edits, faults, crashes>>
    BY DEF Over
<1>2. /\ \A s \in Runs \ {r} : phase'[s] = phase[s]
      /\ phase'[r] = "over"
    BY <1>1 DEF BooksInv, RunTypes
<1>3. result[r].failed = 0 => \A p \in Projects : plan[r][p] # <<>> => work[r][p].state = "done"
  <2>1. BooksInv'
    BY OverBooks
  <2>2. AccountInv("over", plan[r], work[r], halted[r], result[r], commits[r])
    BY <1>1, <1>2, <2>1 DEF BooksInv, RunInv
  <2> QED
    BY <2>2 DEF AccountInv
<1>4. ASSUME beside = {}, NEW p \in Projects \ touched PROVE InTurnInv(p)'
  <2>1. InTurnInv(p)
    BY <1>4 DEF OrderInv
  <2>2. ASSUME result[r].failed = 0 PROVE Complete(db[p], plan[r][p])
    <3>1. CASE plan[r][p] = <<>>
      BY <3>1 DEF Complete
    <3>2. CASE plan[r][p] # <<>>
      <4>1. work[r][p].state = "done" /\ Alone(db[p], plan[r][p], work[r][p])
        BY <1>1, <1>3, <2>1, <2>2, <3>2 DEF InTurnInv
      <4> QED
        BY <4>1 DEF Alone
    <3> QED
      BY <3>1, <3>2
  <2>3. \A s \in Runs : Success(s)' => Complete(db[p], plan[s][p])
    BY <1>1, <1>2, <2>1, <2>2 DEF Success, InTurnInv
  <2>4. \A s \in Runs : phase'[s] = "applying" => Alone(db[p], plan[s][p], work[s][p])
    BY <1>2, <2>1 DEF InTurnInv
  <2> QED
    BY <1>1, <2>1, <2>3, <2>4 DEF InTurnInv
<1>5. \A s \in Runs : phase'[s] = "applying" => phase[s] = "applying"
    BY <1>2
<1> QED
    BY <1>1, <1>4, <1>5 DEF OrderInv

\* A killed run is no longer the one applying; what is in the database stands.
LEMMA CrashOrder ==
    ASSUME BooksInv, OrderInv, NEW r \in Runs, Crash(r)
    PROVE  OrderInv'
<1>1. /\ phase[r] = "applying" /\ phase' = [phase EXCEPT ![r] = "crashed"]
      /\ work' = [work EXCEPT ![r] = [p \in Projects |-> Idle]]
      /\ UNCHANGED <<db, plan, halted, result, commits, touched, beside, edits, faults>>
    BY DEF Crash
<1>2. /\ \A s \in Runs \ {r} : phase'[s] = phase[s] /\ work'[s] = work[s]
      /\ phase'[r] = "crashed" /\ \A p \in Projects : work'[r][p] = Idle
    BY <1>1 DEF BooksInv, RunTypes
<1>3. \A s \in Runs : /\ phase'[s] = "applying" => phase[s] = "applying" /\ work'[s] = work[s]
                      /\ Success(s)' => Success(s)
    BY <1>1, <1>2 DEF Success
<1>4. ASSUME beside = {}, NEW p \in Projects \ touched PROVE InTurnInv(p)'
  <2>1. InTurnInv(p)
    BY <1>4 DEF OrderInv
  <2>2. \A s \in Runs : faults = 0 => work'[s][p].state # "failed"
    BY <1>2, <2>1 DEF InTurnInv, Idle
  <2> QED
    BY <1>1, <1>3, <2>1, <2>2 DEF InTurnInv
<1> QED
    BY <1>1, <1>3, <1>4 DEF OrderInv

\* Somebody else's edit takes the project out.
LEMMA EditOrder ==
    ASSUME BooksInv, OrderInv, NEW p \in Projects, NEW change, Edit(p, change)
    PROVE  OrderInv'
<1>1. /\ UNCHANGED <<phase, plan, work, halted, result, commits, beside, faults, crashes>>
      /\ db' = [db EXCEPT ![p] = [change EXCEPT !.revision = db[p].revision + 1]]
      /\ touched' = touched \cup {p}
    BY DEF Edit
<1>2. \A q \in Projects \ touched' : q \in Projects \ touched /\ db'[q] = db[q]
    BY <1>1 DEF BooksInv, OtherTypes
<1>3. ASSUME beside = {}, NEW q \in Projects \ touched' PROVE InTurnInv(q)'
  <2>1. InTurnInv(q)
    BY <1>2, <1>3 DEF OrderInv
  <2> QED
    BY <1>1, <1>2, <1>3, <2>1 DEF InTurnInv, Success
<1> QED
    BY <1>1, <1>2, <1>3 DEF OrderInv

\* The order is inductive.
LEMMA OrderStarts ==
    ASSUME Init PROVE OrderInv
<1>1. PICK filled : db = [p \in Projects |->
                [revision |-> 1, deleted |-> FALSE, links |-> NoLogo,
                 logo |-> IF p \in filled THEN Before ELSE NoLogo,
                 files |-> [k \in Types \X Digests |-> IF p \in filled /\ k[2] = Before THEN 1 ELSE 0]]]
    BY DEF Init
<1>2. /\ phase = [r \in Runs |-> "new"] /\ plan = [r \in Runs |-> NoPlan]
      /\ work = [r \in Runs |-> [p \in Projects |-> Idle]] /\ halted = [r \in Runs |-> "no"]
    BY DEF Init
<1>3. \A r \in Runs, p \in Projects : Wish(p, plan[r][p])
    BY <1>2 DEF Wish, NoPlan
<1>4. \A p \in Projects : InTurnInv(p)
    BY <1>1, <1>2 DEF InTurnInv, Success, Idle
<1> QED
    BY <1>1, <1>2, <1>3, <1>4 DEF OrderInv

\* Every step keeps the order.
LEMMA OrderSteps ==
    ASSUME BooksInv, OrderInv, [Next]_vars PROVE OrderInv'
<1>1. CASE \E r \in Runs : Plan(r) \/ Cancel(r) \/ Over(r) \/ Crash(r)
    BY <1>1, PlanOrder, CancelOrder, OverOrder, CrashOrder
<1>2. CASE \E r \in Runs, p \in Projects :
             Begin(r, p) \/ Check(r, p) \/ Read(r, p) \/ Send(r, p) \/ Cancelled(r, p)
    BY <1>2, BeginOrder, CheckOrder, ReadOrder, SendOrder, CancelledOrder
<1>3. CASE \E r \in Runs, p \in Projects, fatal \in BOOLEAN : Break(r, p, fatal)
    BY <1>3, BreakOrder
<1>4. CASE \E p \in Projects : \E change \in EditsOf(p) : Edit(p, change)
    BY <1>4, EditOrder
<1>5. CASE UNCHANGED vars
  <2>1. UNCHANGED <<db, phase, plan, work, halted, result, commits, touched, beside, edits, faults, crashes>>
    BY <1>5 DEF vars
  <2> QED
    BY <2>1 DEF OrderInv, InTurnInv, Success
<1> QED
    BY <1>1, <1>2, <1>3, <1>4, <1>5 DEF Next, Work

\* No step brings a project over its quota.
LEMMA QuotaStep ==
    ASSUME BooksInv, WithinQuota, [Next]_vars PROVE WithinQuota'
<1>1. \A p \in Projects : db[p] \in Rows /\ db[p].files \in Counts /\ ActiveBytes(db[p].files) <= Quota
    BY DEF BooksInv, OtherTypes, Rows, WithinQuota
<1>2. CASE UNCHANGED db
    BY <1>2 DEF WithinQuota
<1>3. ASSUME NEW r \in Runs, NEW p \in Projects, work[r][p].state = "send", ~Refuses(r, p), Apply(r, p)
      PROVE  WithinQuota'
  <2>1. PICK item \in Items : item = Entry(r, p).item
    BY <1>3, UnderWork DEF Busy
  <2>2. Fits(p, item) /\ db' = [db EXCEPT ![p] = Changed(@, item)]
    BY <1>3, <2>1 DEF Refuses, Apply
  <2>3. ActiveBytes(Changed(db[p], item).files) <= Quota
    <3>1. CASE item.kind = "file"
      BY <1>1, <2>2, <3>1, ChangedRows DEF Fits
    <3>2. CASE item.kind # "file"
      <4>1. item.kind \in {"logo", "links"}
        BY <3>2 DEF Items
      <4>2. Changed(db[p], item).files = db[p].files
        BY <1>1, <4>1, ChangedRows
      <4> QED
        BY <1>1, <4>2
    <3> QED
      BY <3>1, <3>2
  <2> QED
    BY <1>1, <2>2, <2>3 DEF WithinQuota, BooksInv, OtherTypes
<1>4. ASSUME NEW p \in Projects, NEW change \in EditsOf(p), Edit(p, change)
      PROVE  WithinQuota'
  <2>1. PICK row : row = [change EXCEPT !.revision = db[p].revision + 1]
    OBVIOUS
  <2>2. db' = [db EXCEPT ![p] = row]
    BY <1>4, <2>1 DEF Edit
  <2>3. row \in Rows /\ \A k \in Types \X Digests : row.files[k] <= db[p].files[k]
    BY <2>1, EditsAreRows DEF BooksInv
  <2>4. ActiveBytes(row.files) <= Quota
    <3>1. PICK f \in Counts, g \in Counts : f = row.files /\ g = db[p].files
      BY <1>1, <2>3 DEF Rows
    <3>2. ActiveBytes(f) <= ActiveBytes(g) /\ ActiveBytes(f) \in Nat /\ ActiveBytes(g) \in Nat
      BY <2>3, <3>1, MoreBytes
    <3> QED
      BY <1>1, <3>1, <3>2, ImportAssumption
  <2> QED
    BY <1>1, <2>2, <2>4 DEF WithinQuota, BooksInv, OtherTypes
<1>5. \/ UNCHANGED db
      \/ \E r \in Runs, p \in Projects : work[r][p].state = "send" /\ ~Refuses(r, p) /\ Apply(r, p)
      \/ \E p \in Projects : \E change \in EditsOf(p) : Edit(p, change)
  <2>1. CASE UNCHANGED vars
    BY <2>1 DEF vars
  <2>2. CASE \E r \in Runs : Plan(r) \/ Cancel(r) \/ Over(r) \/ Crash(r)
    BY <2>2 DEF Plan, Cancel, Over, Crash
  <2>3. CASE \E r \in Runs, p \in Projects : Begin(r, p) \/ Check(r, p) \/ Read(r, p)
    BY <2>3 DEF Begin, Check, Read
  <2>4. CASE \E r \in Runs, p \in Projects :
               Send(r, p) \/ Cancelled(r, p) \/ \E fatal \in BOOLEAN : Break(r, p, fatal)
    BY <2>4 DEF Send, Cancelled, Break, Interrupted, CommitUnheard
  <2> QED
    BY <2>1, <2>2, <2>3, <2>4 DEF Next, Work
<1> QED
    BY <1>2, <1>3, <1>4, <1>5

\* Killed anywhere, repeated and edited: what a run that reports success was to
\* do is there, no file twice, nothing planned is refused, and no quota exceeded.
THEOREM BundlesHold == Spec => []BundlesAreApplied
<1>1. Init => BooksInv /\ LostInv /\ OrderInv /\ WithinQuota
    BY BooksStart, LostStart, OrderStarts DEF Init
<1>2. BooksInv /\ LostInv /\ OrderInv /\ WithinQuota /\ [Next]_vars
        => BooksInv' /\ LostInv' /\ OrderInv' /\ WithinQuota'
    BY BooksStep, LostStep, OrderSteps, QuotaStep
<1>3. BooksInv /\ LostInv /\ OrderInv /\ WithinQuota => BundlesAreApplied
  <2> SUFFICES ASSUME BooksInv, LostInv, OrderInv, WithinQuota PROVE BundlesAreApplied
    OBVIOUS
  <2>1. ImportTypeOK
    BY ThreeTypes DEF BooksInv
  <2>2. NoFileTwice
    BY DEF OrderInv, InTurnInv, NoFileTwice
  <2>3. PlannedRunsFit
    BY DEF OrderInv, InTurnInv, PlannedRunsFit
  <2>4. BundleIsThere
    <3> SUFFICES ASSUME beside = {}, NEW r \in Runs, NEW p \in Projects \ touched, Success(r),
                        NEW i \in DOMAIN plan[r][p]
                 PROVE  LET item == plan[r][p][i].item
                        IN CASE item.kind = "file" ->
                                    \E d \in IF item.byType THEN Digests ELSE {item.digest} :
                                        db[p].files[<<item.type, d>>] > 0
                             [] item.kind = "logo" -> db[p].logo = item.digest
                             [] item.kind = "links" -> db[p].links = item.digest
      BY DEF BundleIsThere
    <3>1. plan[r][p] \in Seq(Entries) /\ i \in 1 .. Len(plan[r][p])
      BY UnderWork
    <3>2. PICK item \in Items : item = plan[r][p][i].item
      BY <3>1, PlanItems
    <3>3. There(db[p], item)
      BY <3>1, <3>2 DEF OrderInv, InTurnInv, Complete
    <3>4. item.kind \in {"file", "logo", "links"}
      BY DEF Items
    <3>5. item.kind = "file" => \E d \in IF item.byType THEN Digests ELSE {item.digest} :
                                    db[p].files[<<item.type, d>>] > 0
      BY <3>3 DEF There, Present
    <3> QED
      BY <3>2, <3>3, <3>4, <3>5 DEF There
  <2> QED
    BY <2>1, <2>2, <2>3, <2>4 DEF BundlesAreApplied
<1> QED
    BY <1>1, <1>2, <1>3, PTL DEF Spec
===============================================================================
