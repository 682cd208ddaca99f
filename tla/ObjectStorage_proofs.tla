-------------------------- MODULE ObjectStorage_proofs --------------------------
(***************************************************************************)
(* Proofs about the two ways a process reads from its bucket: the shared   *)
(* readiness probe, for any number of callers and list requests, any times *)
(* to live and any bound on the clock, and the reader behind a ranged      *)
(* download, for objects and ranges of any size.                           *)
(***************************************************************************)
EXTENDS ReadinessProbe, RangedReader, FiniteSetTheorems, SequenceTheorems, TLAPS

-------------------------------------------------------------------------------
(* The readiness probe.                                                      *)

CallerStates ==
    [pc : {"idle", "asking", "leading", "waiting", "answered"},
     alive : BOOLEAN, since : 0 .. MaxTime, joined : Calls \cup {NoCall},
     answer : Verdicts \cup {"none", "refused", "gone"}]
CallStates ==
    [state : {"unused", "flying", "replied", "done"},
     verdict : Verdicts \cup {"none"}, provider : Verdicts \cup {"none"},
     began : 0 .. MaxTime, ended : 0 .. MaxTime]

Done(k) == call[k].state = "done"

\* Every list request but the one in flight is over before the next begins, and
\* the next begins when its verdict has run out.
CallsInv ==
    /\ \A k \in Calls : call[k].state \in {"flying", "replied"} <=> leader = k
    /\ \A j, k \in Calls : j < k /\ call[k].state # "unused" => Done(j)
    /\ \A j, k \in Calls :
          k = j + 1 /\ call[k].state # "unused" =>
              call[k].began - call[j].ended >= TTL(call[j].verdict)
    /\ \A k \in Calls : call[k].verdict = "ready" => call[k].provider = "ready"
    /\ \A k \in Calls : Done(k) => call[k].ended <= now

\* The cache holds the verdict of the last request that is over.
CacheInv ==
    /\ cached.verdict # "none" =>
          \E k \in Calls : /\ Done(k)
                           /\ cached = [verdict |-> call[k].verdict, at |-> call[k].ended]
    /\ \A k \in Calls :
          Done(k) /\ (\A j \in Calls : j = k + 1 => call[j].state = "unused") =>
              cached = [verdict |-> call[k].verdict, at |-> call[k].ended]

\* A waiter's request was not over when it asked; an answer has its evidence.
CallerOK(c) ==
    /\ caller[c].since <= now
    /\ At(c, "leading") => caller[c].joined \in Calls /\ leader = caller[c].joined
    /\ At(c, "waiting") =>
          /\ caller[c].joined \in Calls
          /\ call[caller[c].joined].state # "unused"
          /\ Done(caller[c].joined) => caller[c].since <= call[caller[c].joined].ended
    /\ caller[c].answer = "ready" =>
          \E k \in Calls : /\ Done(k)
                           /\ call[k].provider = "ready"
                           /\ call[k].ended + SuccessTTL > caller[c].since
    /\ caller[c].answer = "unavailable" =>
          \E k \in Calls : /\ Done(k)
                           /\ call[k].verdict = "unavailable"
                           /\ call[k].ended + FailureTTL > caller[c].since

OneLeader == \A c, d \in Callers : At(c, "leading") /\ At(d, "leading") => c = d

ProbeInv ==
    ProbeTypeOK /\ CallsInv /\ CacheInv /\ OneLeader /\ \A c \in Callers : CallerOK(c)

-------------------------------------------------------------------------------

\* Nobody has asked and nothing is in flight.
LEMMA ProbeStarts == ASSUME ProbeAssumption PROVE ProbeInit => ProbeInv
<1> SUFFICES ASSUME ProbeInit PROVE ProbeInv
    OBVIOUS
<1>1. ProbeTypeOK
    BY DEF ProbeInit, ProbeTypeOK, Absent, ProbeAssumption, Verdicts, Calls
<1>2. CallsInv /\ CacheInv
    BY DEF ProbeInit, CallsInv, CacheInv, Done, ProbeAssumption, Calls
<1>3. OneLeader /\ \A c \in Callers : CallerOK(c)
    BY DEF ProbeInit, OneLeader, CallerOK, At, Absent
<1> QED
    BY <1>1, <1>2, <1>3 DEF ProbeInv

\* What the handlers do to a caller's record: it loses patience, ...
LEMMA ExpiredCaller ==
    ASSUME NEW r \in CallerStates
    PROVE  LET x == [r EXCEPT !.alive = FALSE]
           IN  /\ x \in CallerStates
               /\ x.pc = r.pc /\ x.since = r.since
               /\ x.joined = r.joined /\ x.answer = r.answer
BY DEF CallerStates

\* ... leads or joins a request, ...
LEMMA JoinedCaller ==
    ASSUME NEW r \in CallerStates, NEW k \in Calls \cup {NoCall},
           NEW p \in {"leading", "waiting"}
    PROVE  LET x == [r EXCEPT !.pc = p, !.joined = k]
           IN  /\ x \in CallerStates
               /\ x.pc = p /\ x.since = r.since
               /\ x.joined = k /\ x.answer = r.answer
BY DEF CallerStates

\* ... or asks.
LEMMA AskingCaller ==
    ASSUME NEW r \in CallerStates, NEW t \in 0 .. MaxTime
    PROVE  LET x == [r EXCEPT !.pc = "asking", !.since = t]
           IN  /\ x \in CallerStates
               /\ x.pc = "asking" /\ x.since = t /\ x.answer = r.answer
BY DEF CallerStates

\* The record of a caller that asks anew.
LEMMA AbsentCaller ==
    ASSUME ProbeAssumption PROVE Absent \in CallerStates /\ Absent.answer = "none"
BY DEF Absent, CallerStates, ProbeAssumption

\* The types, with the records named.
LEMMA CallerIsRecord ==
    ASSUME ProbeTypeOK
    PROVE  /\ caller \in [Callers -> CallerStates]
           /\ call \in [Calls -> CallStates]
           /\ now \in 0 .. MaxTime
BY DEF ProbeTypeOK, CallerStates, CallStates

\* What becomes of a request when the provider replies, ...
LEMMA CallIsReplied ==
    ASSUME call \in [Calls -> CallStates], NEW k \in Calls,
           NEW seen \in Verdicts \cup {"none"}, NEW verdict \in Verdicts,
           call' = [call EXCEPT ![k] = [call[k] EXCEPT !.state = "replied",
                                           !.provider = seen, !.verdict = verdict]]
    PROVE  /\ call'[k] \in CallStates
           /\ call'[k].state = "replied" /\ call'[k].verdict = verdict
           /\ call'[k].provider = seen
           /\ call'[k].began = call[k].began /\ call'[k].ended = call[k].ended
           /\ \A j \in Calls \ {k} : call'[j] = call[j]
BY DEF CallStates

\* ... and when its verdict is recorded.
LEMMA CallIsDone ==
    ASSUME call \in [Calls -> CallStates], NEW k \in Calls, now \in 0 .. MaxTime,
           call' = [call EXCEPT ![k] = [call[k] EXCEPT !.state = "done", !.ended = now]]
    PROVE  /\ call'[k] \in CallStates
           /\ call'[k].state = "done" /\ call'[k].verdict = call[k].verdict
           /\ call'[k].provider = call[k].provider
           /\ call'[k].began = call[k].began /\ call'[k].ended = now
           /\ \A j \in Calls \ {k} : call'[j] = call[j]
BY DEF CallStates

\* A caller that stays a caller keeps the types.
LEMMA CallerTyped ==
    ASSUME ProbeTypeOK, NEW c \in Callers, NEW x \in CallerStates,
           caller' = [caller EXCEPT ![c] = x], UNCHANGED <<now, leader, cached, call>>
    PROVE  ProbeTypeOK' /\ caller'[c] = x
<1>1. caller \in [Callers -> CallerStates]
    BY DEF ProbeTypeOK, CallerStates
<1>2. caller' \in [Callers -> CallerStates] /\ caller'[c] = x
    BY <1>1
<1> QED
    BY <1>2 DEF ProbeTypeOK, CallerStates

\* What an answer leaves of its caller.
LEMMA AnswerOfCaller ==
    ASSUME ProbeAssumption, ProbeTypeOK, NEW c \in Callers,
           NEW answer \in Verdicts \cup {"refused", "gone"}, Answered(c, answer)
    PROVE  /\ caller' \in [Callers -> CallerStates]
           /\ caller'[c].pc = "answered"
           /\ caller'[c].answer = answer
           /\ caller'[c].since = caller[c].since
           /\ \A d \in Callers \ {c} : caller'[d] = caller[d]
<1> PICK t \in 0 .. MaxTime : t = caller[c].since
    BY DEF ProbeTypeOK
<1> DEFINE x == [Absent EXCEPT !.pc = "answered", !.answer = answer, !.since = t]
<1>1. Absent \in CallerStates
    BY AbsentCaller
<1>2. /\ x \in CallerStates
      /\ x.pc = "answered" /\ x.answer = answer /\ x.since = t
    BY <1>1 DEF CallerStates
<1>3. caller' = [caller EXCEPT ![c] = x] /\ caller \in [Callers -> CallerStates]
    BY CallerIsRecord DEF Answered
<1> HIDE DEF x
<1>4. /\ caller' \in [Callers -> CallerStates] /\ caller'[c] = x
      /\ \A d \in Callers \ {c} : caller'[d] = caller[d]
    BY <1>2, <1>3
<1> QED
    BY <1>2, <1>4

\* An answer that leaves the probe as it is keeps the types.
LEMMA AnsweredCaller ==
    ASSUME ProbeAssumption, ProbeTypeOK, NEW c \in Callers,
           NEW answer \in Verdicts \cup {"refused", "gone"}, Answered(c, answer),
           UNCHANGED <<now, leader, cached, call>>
    PROVE  /\ ProbeTypeOK'
           /\ caller'[c].pc = "answered"
           /\ caller'[c].answer = answer
           /\ caller'[c].since = caller[c].since
           /\ \A d \in Callers \ {c} : caller'[d] = caller[d]
<1>1. caller' \in [Callers -> CallerStates]
    BY AnswerOfCaller
<1>2. ProbeTypeOK'
    BY <1>1 DEF ProbeTypeOK, CallerStates
<1> QED
    BY <1>2, AnswerOfCaller

\* Steps of one caller that leave the probe as it is.
LEMMA OneCallerMoves ==
    ASSUME ProbeInv, NEW c \in Callers, UNCHANGED <<now, leader, cached, call>>,
           ProbeTypeOK', CallerOK(c)',
           \A d \in Callers \ {c} : caller'[d] = caller[d],
           caller'[c].pc = "leading" => caller[c].pc = "leading"
    PROVE  ProbeInv'
<1>1. CallsInv' /\ CacheInv'
    BY DEF ProbeInv, CallsInv, CacheInv, Done, TTL
<1>2. OneLeader'
    BY DEF ProbeInv, OneLeader, At
<1>3. ASSUME NEW d \in Callers \ {c} PROVE CallerOK(d)'
  <2>1. CallerOK(d) /\ caller'[d] = caller[d]
    BY DEF ProbeInv
  <2> QED
    BY <2>1 DEF CallerOK, At, Done
<1> QED
    BY <1>1, <1>2, <1>3 DEF ProbeInv

\* Asking, losing patience, and being told to go.
LEMMA CallersComeAndGo ==
    ASSUME ProbeAssumption, ProbeInv, NEW c \in Callers,
           \/ Ask(c) \/ Expire(c) \/ Refuse(c) \/ AskTooLate(c) \/ LeaveEarly(c)
    PROVE  ProbeInv'
<1>0. ProbeTypeOK /\ CallerOK(c)
    BY DEF ProbeInv
<1>1. CASE Ask(c)
  <2> DEFINE x == [Absent EXCEPT !.pc = "asking", !.since = now]
  <2>a. /\ x \in CallerStates
        /\ x.pc = "asking" /\ x.since = now /\ x.answer = "none"
    <3>1. PICK r \in CallerStates : r = Absent /\ r.answer = "none"
      BY AbsentCaller
    <3>2. now \in 0 .. MaxTime
      BY <1>0 DEF ProbeTypeOK
    <3>3. x = [r EXCEPT !.pc = "asking", !.since = now]
      BY <3>1
    <3> HIDE DEF x
    <3> QED
      BY <3>1, <3>2, <3>3 DEF CallerStates
  <2>1. /\ caller' = [caller EXCEPT ![c] = x]
        /\ UNCHANGED <<now, leader, cached, call>>
    BY <1>1 DEF Ask
  <2> HIDE DEF x
  <2>2. ProbeTypeOK' /\ caller'[c] = x
    BY <1>0, <2>1, <2>a, CallerTyped
  <2>3. /\ caller'[c].pc = "asking" /\ caller'[c].since = now
        /\ caller'[c].answer = "none"
    BY <2>a, <2>2
  <2>4. now <= now
    BY <1>0 DEF ProbeTypeOK
  <2>5. CallerOK(c)'
    BY <2>1, <2>3, <2>4 DEF CallerOK, At
  <2> QED
    BY <1>0, <2>1, <2>2, <2>3, <2>5, OneCallerMoves DEF ProbeTypeOK
<1>2. CASE Expire(c)
  <2>1. /\ caller' = [caller EXCEPT ![c] = [caller[c] EXCEPT !.alive = FALSE]]
        /\ UNCHANGED <<now, leader, cached, call>>
    BY <1>0, <1>2 DEF Expire, ProbeTypeOK
  <2> DEFINE x == [caller[c] EXCEPT !.alive = FALSE]
  <2>a. /\ x \in CallerStates
        /\ x.pc = caller[c].pc /\ x.since = caller[c].since
        /\ x.joined = caller[c].joined /\ x.answer = caller[c].answer
    BY <1>0, CallerIsRecord, ExpiredCaller
  <2> HIDE DEF x
  <2>2. ProbeTypeOK' /\ caller'[c] = x
    BY <1>0, <2>1, <2>a, CallerTyped DEF x
  <2>3. /\ caller'[c].pc = caller[c].pc /\ caller'[c].since = caller[c].since
        /\ caller'[c].joined = caller[c].joined /\ caller'[c].answer = caller[c].answer
    BY <2>a, <2>2
  <2>4. CallerOK(c)'
    BY <1>0, <2>1, <2>3 DEF CallerOK, At, Done
  <2> QED
    BY <1>0, <2>1, <2>2, <2>3, <2>4, OneCallerMoves DEF ProbeTypeOK
<1>3. CASE Refuse(c) \/ AskTooLate(c) \/ LeaveEarly(c)
  <2>1. PICK answer \in {"refused", "gone"} : Answered(c, answer)
    BY <1>3 DEF Refuse, AskTooLate, LeaveEarly
  <2>2. UNCHANGED <<now, leader, cached, call>>
    BY <1>3 DEF Refuse, AskTooLate, LeaveEarly
  <2>3. /\ ProbeTypeOK' /\ caller'[c].pc = "answered" /\ caller'[c].answer = answer
        /\ caller'[c].since = caller[c].since
        /\ \A d \in Callers \ {c} : caller'[d] = caller[d]
    BY <1>0, <2>1, <2>2, AnsweredCaller DEF ProbeAssumption
  <2>4. CallerOK(c)'
    BY <1>0, <2>1, <2>2, <2>3 DEF CallerOK, At
  <2> QED
    BY <2>2, <2>3, <2>4, OneCallerMoves
<1> QED
    BY <1>1, <1>2, <1>3

\* A verdict from the cache has not run out.
LEMMA CacheAnswers ==
    ASSUME ProbeAssumption, ProbeInv, NEW c \in Callers, AnswerFromCache(c)
    PROVE  ProbeInv'
<1>0. ProbeTypeOK /\ CallerOK(c) /\ CallsInv
    BY DEF ProbeInv
<1>1. /\ Answered(c, cached.verdict) /\ Fresh
      /\ UNCHANGED <<now, leader, cached, call>>
    BY DEF AnswerFromCache
<1>2. PICK k \in Calls : /\ Done(k)
                         /\ cached = [verdict |-> call[k].verdict, at |-> call[k].ended]
    BY <1>1 DEF Fresh, ProbeInv, CacheInv
<1>3. cached.verdict = call[k].verdict /\ cached.at = call[k].ended
    BY <1>2
<1>4. cached.verdict \in Verdicts
    BY <1>0, <1>1 DEF Fresh, ProbeTypeOK
<1>5. /\ ProbeTypeOK' /\ caller'[c].pc = "answered" /\ caller'[c].answer = cached.verdict
      /\ caller'[c].since = caller[c].since
      /\ \A d \in Callers \ {c} : caller'[d] = caller[d]
    BY <1>0, <1>1, <1>4, AnsweredCaller DEF ProbeAssumption
<1>6. call[k].ended + TTL(cached.verdict) > caller[c].since
  <2>1. /\ now \in Nat /\ call[k].ended \in Nat /\ caller[c].since \in Nat
        /\ caller[c].since <= now
    BY <1>0 DEF ProbeTypeOK, CallerOK
  <2>2. TTL(cached.verdict) \in Nat
    BY DEF TTL, ProbeAssumption
  <2> QED
    BY <1>1, <1>3, <2>1, <2>2 DEF Fresh
<1>7. cached.verdict = "ready" => call[k].provider = "ready"
    BY <1>0, <1>3 DEF CallsInv
<1>8. CallerOK(c)'
    BY <1>0, <1>1, <1>2, <1>3, <1>5, <1>6, <1>7 DEF CallerOK, At, Done, TTL
<1> QED
    BY <1>1, <1>5, <1>8, OneCallerMoves

\* Whoever joins the request in flight asked before it is over.
LEMMA CallersJoin ==
    ASSUME ProbeAssumption, ProbeInv, NEW c \in Callers, Join(c)
    PROVE  ProbeInv'
<1>0. ProbeTypeOK /\ CallerOK(c) /\ CallsInv
    BY DEF ProbeInv
<1>1. /\ caller' = [caller EXCEPT ![c] =
                       [caller[c] EXCEPT !.pc = "waiting", !.joined = leader]]
      /\ leader \in Calls
      /\ UNCHANGED <<now, leader, cached, call>>
    BY <1>0 DEF Join, ProbeTypeOK
<1> DEFINE x == [caller[c] EXCEPT !.pc = "waiting", !.joined = leader]
<1>2. /\ x \in CallerStates /\ x.pc = "waiting" /\ x.joined = leader
      /\ x.since = caller[c].since /\ x.answer = caller[c].answer
  <2>1. PICK r \in CallerStates : r = caller[c]
    BY <1>0, CallerIsRecord
  <2>2. x = [r EXCEPT !.pc = "waiting", !.joined = leader]
    BY <2>1
  <2> HIDE DEF x
  <2> QED
    BY <1>1, <2>1, <2>2 DEF CallerStates
<1>3. call[leader].state \in {"flying", "replied"}
    BY <1>0, <1>1 DEF CallsInv
<1>4. ProbeTypeOK' /\ caller'[c] = x
    BY <1>0, <1>1, <1>2, CallerTyped
<1> HIDE DEF x
<1>5. CallerOK(c)'
    BY <1>0, <1>1, <1>2, <1>3, <1>4 DEF CallerOK, At, Done
<1>6. \A d \in Callers \ {c} : caller'[d] = caller[d]
    BY <1>0, <1>1 DEF ProbeTypeOK
<1> QED
    BY <1>1, <1>2, <1>4, <1>5, <1>6, OneCallerMoves

\* A woken waiter takes a verdict that came in after it had asked.
LEMMA WaitersWake ==
    ASSUME ProbeAssumption, ProbeInv, NEW c \in Callers, Wake(c)
    PROVE  ProbeInv'
<1> DEFINE k == caller[c].joined
<1>0. ProbeTypeOK /\ CallerOK(c) /\ CallsInv
    BY DEF ProbeInv
<1>1. /\ Answered(c, call[k].verdict) /\ At(c, "waiting") /\ Done(k)
      /\ UNCHANGED <<now, leader, cached, call>>
    BY DEF Wake, Done
<1>2. k \in Calls /\ caller[c].since <= call[k].ended
    BY <1>0, <1>1 DEF CallerOK
<1>3. call[k].verdict \in Verdicts
    BY <1>0, <1>1, <1>2 DEF ProbeTypeOK, Done
<1>4. /\ ProbeTypeOK' /\ caller'[c].pc = "answered" /\ caller'[c].answer = call[k].verdict
      /\ caller'[c].since = caller[c].since
      /\ \A d \in Callers \ {c} : caller'[d] = caller[d]
    BY <1>0, <1>1, <1>3, AnsweredCaller DEF ProbeAssumption
<1>5. /\ call[k].ended + SuccessTTL > caller[c].since
      /\ call[k].ended + FailureTTL > caller[c].since
  <2>1. call[k].ended \in Nat /\ caller[c].since \in Nat
    BY <1>0, <1>2 DEF ProbeTypeOK
  <2> QED
    BY <1>2, <2>1 DEF ProbeAssumption
<1>6. CallerOK(c)'
  <2>2. call[k].verdict = "ready" => call[k].provider = "ready"
    BY <1>0, <1>2 DEF CallsInv
  <2> QED
    BY <1>0, <1>1, <1>2, <1>4, <1>5, <2>2 DEF CallerOK, At, Done
<1> QED
    BY <1>1, <1>4, <1>6, OneCallerMoves

\* A request begins when the last verdict has run out and nothing is in flight.
LEMMA CallersLead ==
    ASSUME ProbeAssumption, ProbeInv, NEW c \in Callers, Lead(c)
    PROVE  ProbeInv'
<1>0. ProbeTypeOK /\ CallerOK(c) /\ CallsInv /\ CacheInv /\ OneLeader
    BY DEF ProbeInv
<1> PICK k \in Calls :
        /\ At(c, "asking") /\ ~Fresh /\ leader = NoCall
        /\ call[k].state = "unused"
        /\ \A j \in 1 .. k - 1 : call[j].state # "unused"
        /\ BeginCall(c, k)
    BY DEF Lead
<1>1. /\ leader' = k
      /\ call' = [call EXCEPT ![k] = [call[k] EXCEPT !.state = "flying", !.began = now]]
      /\ caller' = [caller EXCEPT ![c] =
                       [caller[c] EXCEPT !.pc = "leading", !.joined = k]]
      /\ UNCHANGED <<now, cached>>
    BY <1>0 DEF BeginCall, ProbeTypeOK
<1>2. /\ call'[k].state = "flying" /\ call'[k].began = now
      /\ call'[k].verdict = call[k].verdict /\ call'[k].provider = call[k].provider
      /\ call'[k].ended = call[k].ended
      /\ \A j \in Calls \ {k} : call'[j] = call[j]
    BY <1>0, <1>1 DEF ProbeTypeOK
<1>3. /\ caller'[c].pc = "leading" /\ caller'[c].joined = k
      /\ caller'[c].since = caller[c].since /\ caller'[c].answer = caller[c].answer
      /\ \A d \in Callers \ {c} : caller'[d] = caller[d]
    BY <1>0, <1>1 DEF ProbeTypeOK
<1>4. ProbeTypeOK'
  <2>1. call'[k] \in CallStates
    BY <1>0, <1>1 DEF ProbeTypeOK, CallStates
  <2>2. \A j \in Calls :
          (call'[j].verdict = "none") = (call'[j].state \in {"unused", "flying"})
    BY <1>0, <1>2 DEF ProbeTypeOK
  <2>3. [caller[c] EXCEPT !.pc = "leading", !.joined = k] \in CallerStates
    BY <1>0, CallerIsRecord, JoinedCaller
  <2>4. caller' \in [Callers -> CallerStates]
    BY <1>0, <1>1, <2>3 DEF ProbeTypeOK, CallerStates
  <2>5. call' \in [Calls -> CallStates]
    BY <1>0, <1>1, <2>1 DEF ProbeTypeOK, CallStates
  <2> QED
    BY <1>0, <1>1, <2>2, <2>4, <2>5 DEF ProbeTypeOK, CallerStates, CallStates
<1>5. \A j \in Calls : call[j].state \in {"unused", "done"}
  <2>1. \A j \in Calls : j # NoCall
    BY DEF Calls, ProbeAssumption
  <2> QED
    BY <1>0, <2>1 DEF ProbeTypeOK, CallsInv
<1>6. \A j \in Calls : j < k => Done(j)
  <2>1. \A j \in Calls : j < k => j \in 1 .. k - 1
    BY DEF Calls, ProbeAssumption
  <2> QED
    BY <1>5, <2>1 DEF Done
<1>7. \A j \in Calls : k < j => call[j].state = "unused"
    BY <1>0 DEF CallsInv, Done
<1>8. ASSUME NEW j \in Calls, k = j + 1
      PROVE  now - call[j].ended >= TTL(call[j].verdict)
  <2>1. Done(j) /\ \A i \in Calls : i = j + 1 => call[i].state = "unused"
    BY <1>6, <1>8 DEF Calls, ProbeAssumption
  <2>2. cached.verdict = call[j].verdict /\ cached.at = call[j].ended
    BY <1>0, <2>1 DEF CacheInv
  <2>3. call[j].verdict # "none"
    BY <1>0, <2>1 DEF ProbeTypeOK, Done
  <2>4. now \in Nat /\ call[j].ended \in Nat /\ TTL(call[j].verdict) \in Nat
    BY <1>0 DEF ProbeTypeOK, TTL, ProbeAssumption
  <2> QED
    BY <2>2, <2>3, <2>4 DEF Fresh
<1>9. CallsInv'
  <2>1. \A j \in Calls : call'[j].state \in {"flying", "replied"} <=> leader' = j
    BY <1>1, <1>2, <1>5
  <2>2. \A i, j \in Calls : i < j /\ call'[j].state # "unused" => Done(i)'
    <3> SUFFICES ASSUME NEW i \in Calls, NEW j \in Calls, i < j,
                        call'[j].state # "unused"
                 PROVE  Done(i)'
      OBVIOUS
    <3>1. Done(i)
      BY <1>0, <1>2, <1>6 DEF CallsInv
    <3> QED
      BY <1>2, <3>1 DEF Done
  <2>3. \A i, j \in Calls : j = i + 1 /\ call'[j].state # "unused" =>
          call'[j].began - call'[i].ended >= TTL(call'[i].verdict)
    <3> SUFFICES ASSUME NEW i \in Calls, NEW j \in Calls, j = i + 1,
                        call'[j].state # "unused"
                 PROVE  call'[j].began - call'[i].ended >= TTL(call'[i].verdict)
      OBVIOUS
    <3>1. call'[i].ended = call[i].ended /\ call'[i].verdict = call[i].verdict
      BY <1>2
    <3>2. CASE j = k
      BY <1>2, <1>8, <3>1, <3>2
    <3>3. CASE j # k
      BY <1>0, <1>2, <3>1, <3>3 DEF CallsInv
    <3> QED
      BY <3>2, <3>3
  <2>4. \A j \in Calls : call'[j].verdict = "ready" => call'[j].provider = "ready"
    BY <1>0, <1>2 DEF CallsInv
  <2>5. \A j \in Calls : Done(j)' => call'[j].ended <= now'
    BY <1>0, <1>1, <1>2 DEF CallsInv, Done
  <2> QED
    BY <2>1, <2>2, <2>3, <2>4, <2>5 DEF CallsInv, TTL
<1>10. CacheInv'
  <2>1. \A j \in Calls : Done(j)' <=> Done(j)
    BY <1>2 DEF Done
  <2>2. \A j \in Calls : Done(j) => call'[j] = call[j]
    BY <1>2 DEF Done
  <2>3. \A j \in Calls : call'[j].state = "unused" => call[j].state = "unused"
    BY <1>2
  <2> QED
    BY <1>0, <1>1, <2>1, <2>2, <2>3 DEF CacheInv
<1>11. OneLeader'
  <2>1. \A d \in Callers : ~At(d, "leading")
    BY <1>0 DEF ProbeInv, CallerOK, Calls, ProbeAssumption
  <2> QED
    BY <1>3, <2>1 DEF OneLeader, At
<1>12. ASSUME NEW d \in Callers PROVE CallerOK(d)'
  <2>1. CallerOK(d) /\ ~At(d, "leading")
    BY <1>0 DEF ProbeInv, CallerOK, Calls, ProbeAssumption
  <2>2. \A j \in Calls : Done(j) => Done(j)' /\ call'[j] = call[j]
    BY <1>2 DEF Done
  <2>3. /\ caller'[d].since = caller[d].since /\ caller'[d].answer = caller[d].answer
        /\ caller'[d].pc = "waiting" =>
              caller[d].pc = "waiting" /\ caller'[d].joined = caller[d].joined
        /\ caller'[d].pc = "leading" => caller'[d].joined = k
    BY <1>3, <2>1 DEF At
  <2>4. At(d, "waiting")' =>
          /\ caller'[d].joined \in Calls
          /\ call'[caller'[d].joined].state # "unused"
          /\ Done(caller[d].joined)' =>
                caller'[d].since <= call'[caller'[d].joined].ended
    BY <1>2, <2>1, <2>3 DEF CallerOK, At, Done
  <2> QED
    BY <1>1, <2>1, <2>2, <2>3, <2>4 DEF CallerOK, At
<1> QED
    BY <1>4, <1>9, <1>10, <1>11, <1>12 DEF ProbeInv

\* The provider's answer, or the failure of a leader that has gone away.
LEMMA ProviderReplies ==
    ASSUME ProbeAssumption, ProbeInv, NEW c \in Callers, Reply(c)
    PROVE  ProbeInv'
<1> PICK k \in Calls : k = caller[c].joined
    BY DEF ProbeInv, CallerOK, Reply
<1>0. ProbeTypeOK /\ CallerOK(c) /\ CallsInv /\ CacheInv /\ OneLeader
    BY DEF ProbeInv
<1>1. PICK provider \in Verdicts :
        /\ call[k].state = "flying"
        /\ call' = [call EXCEPT ![k].state = "replied",
                       ![k].provider = IF caller[c].alive THEN provider ELSE "none",
                       ![k].verdict = IF caller[c].alive THEN provider
                                      ELSE "unavailable"]
        /\ UNCHANGED <<now, caller, leader, cached>>
    BY DEF Reply
<1>2. PICK seen \in Verdicts \cup {"none"}, verdict \in Verdicts :
        /\ call' = [call EXCEPT ![k] = [call[k] EXCEPT !.state = "replied",
                                           !.provider = seen, !.verdict = verdict]]
        /\ verdict = "ready" => seen = "ready"
  <2> DEFINE seen == IF caller[c].alive THEN provider ELSE "none"
             verdict == IF caller[c].alive THEN provider ELSE "unavailable"
  <2>1. call' = [call EXCEPT ![k] = [call[k] EXCEPT !.state = "replied",
                                        !.provider = seen, !.verdict = verdict]]
    BY <1>0, <1>1 DEF ProbeTypeOK
  <2>2. /\ seen \in Verdicts \cup {"none"} /\ verdict \in Verdicts
        /\ verdict = "ready" => seen = "ready"
    BY DEF Verdicts
  <2> QED
    BY <2>1, <2>2
<1>3. /\ call'[k] \in CallStates
      /\ call'[k].state = "replied" /\ call'[k].verdict = verdict
      /\ call'[k].provider = seen
      /\ call'[k].began = call[k].began /\ call'[k].ended = call[k].ended
      /\ \A j \in Calls \ {k} : call'[j] = call[j]
  <2>1. call \in [Calls -> CallStates]
    BY <1>0, CallerIsRecord
  <2>2. call[k] \in CallStates /\ call'[k] = [call[k] EXCEPT !.state = "replied",
                                             !.provider = seen, !.verdict = verdict]
    BY <1>2, <2>1
  <2>3. \A j \in Calls \ {k} : call'[j] = call[j]
    BY <1>2, <2>1
  <2> QED
    BY <2>2, <2>3 DEF CallStates
<1>4. ProbeTypeOK'
  <2>1. call' \in [Calls -> CallStates]
    BY <1>0, <1>2, <1>3, CallerIsRecord
  <2>2. \A j \in Calls :
          (call'[j].verdict = "none") = (call'[j].state \in {"unused", "flying"})
    BY <1>0, <1>3 DEF ProbeTypeOK, Verdicts
  <2> QED
    BY <1>0, <1>1, <2>1, <2>2 DEF ProbeTypeOK, CallStates
<1>5. \A j \in Calls : Done(j)' <=> Done(j)
    BY <1>1, <1>3 DEF Done
<1>6. \A j \in Calls : /\ Done(j) => call'[j] = call[j]
                       /\ call'[j].state = "unused" <=> call[j].state = "unused"
    BY <1>1, <1>3 DEF Done
<1>7. CallsInv'
  <2>1. ASSUME NEW j \in Calls
        PROVE  call'[j].state \in {"flying", "replied"} <=> leader' = j
    <3>1. call[j].state \in {"flying", "replied"} <=> leader' = j
      BY <1>0, <1>1 DEF CallsInv
    <3>2. CASE j = k
      BY <1>1, <1>3, <3>1, <3>2
    <3>3. CASE j # k
      BY <1>3, <3>1, <3>3
    <3> QED
      BY <3>2, <3>3
  <2>2. \A i, j \in Calls : i < j /\ call'[j].state # "unused" => Done(i)'
    BY <1>0, <1>5, <1>6 DEF CallsInv
  <2>3. ASSUME NEW i \in Calls, NEW j \in Calls, j = i + 1, call'[j].state # "unused"
        PROVE  call'[j].began - call'[i].ended >= TTL(call'[i].verdict)
    <3>1. Done(i)
      BY <1>0, <1>6, <2>3 DEF CallsInv, Calls
    <3>2. call'[i] = call[i] /\ call'[j].began = call[j].began
      BY <1>3, <1>6, <3>1
    <3> QED
      BY <1>0, <1>6, <2>3, <3>2 DEF CallsInv
  <2>4. \A j \in Calls : call'[j].verdict = "ready" => call'[j].provider = "ready"
    BY <1>0, <1>2, <1>3 DEF CallsInv
  <2>5. \A j \in Calls : Done(j)' => call'[j].ended <= now'
    BY <1>0, <1>1, <1>5, <1>6 DEF CallsInv
  <2> QED
    BY <2>1, <2>2, <2>3, <2>4, <2>5 DEF CallsInv, TTL
<1>8. CacheInv'
  <2>1. cached'.verdict # "none" =>
          \E j \in Calls : /\ Done(j)'
                          /\ cached' = [verdict |-> call'[j].verdict, at |-> call'[j].ended]
    <3>1. cached' = cached
      BY <1>1
    <3>2. CASE cached.verdict = "none"
      BY <3>1, <3>2
    <3>3. CASE cached.verdict # "none"
      <4>1. PICK j \in Calls :
              Done(j) /\ cached = [verdict |-> call[j].verdict, at |-> call[j].ended]
        BY <1>0, <3>3 DEF CacheInv
      <4>2. Done(j)' /\ call'[j] = call[j]
        BY <1>5, <1>6, <4>1
      <4> QED
        BY <3>1, <4>1, <4>2
    <3> QED
      BY <3>2, <3>3
  <2>2. ASSUME NEW j \in Calls, Done(j)',
               \A i \in Calls : i = j + 1 => call'[i].state = "unused"
        PROVE  cached' = [verdict |-> call'[j].verdict, at |-> call'[j].ended]
    <3>1. Done(j) /\ call'[j] = call[j]
      BY <1>5, <1>6, <2>2
    <3>2. \A i \in Calls : i = j + 1 => call[i].state = "unused"
      BY <1>6, <2>2
    <3>3. cached = [verdict |-> call[j].verdict, at |-> call[j].ended]
      BY <1>0, <3>1, <3>2 DEF CacheInv
    <3> QED
      BY <1>1, <3>1, <3>3
  <2> QED
    BY <2>1, <2>2 DEF CacheInv, Done
<1>9. OneLeader'
    BY <1>0, <1>1 DEF OneLeader, At
<1>10. ASSUME NEW d \in Callers PROVE CallerOK(d)'
  <2>1. CallerOK(d)
    BY DEF ProbeInv
  <2>2. caller' = caller /\ now' = now /\ leader' = leader
    BY <1>1
  <2> QED
    BY <1>5, <1>6, <2>1, <2>2 DEF CallerOK, At
<1> QED
    BY <1>4, <1>7, <1>8, <1>9, <1>10 DEF ProbeInv

\* The verdict is cached and the leader answered in one critical section.
LEMMA LeadersRecord ==
    ASSUME ProbeAssumption, ProbeInv, NEW c \in Callers, Record(c)
    PROVE  ProbeInv'
<1> PICK k \in Calls : k = caller[c].joined
    BY DEF ProbeInv, CallerOK, Record
<1>0. ProbeTypeOK /\ CallerOK(c) /\ CallsInv /\ CacheInv /\ OneLeader
    BY DEF ProbeInv
<1>1. /\ At(c, "leading") /\ leader = k
      /\ call[k].state = "replied"
      /\ leader' = NoCall
      /\ cached' = [verdict |-> call[k].verdict, at |-> now]
      /\ call' = [call EXCEPT ![k] = [call[k] EXCEPT !.state = "done", !.ended = now]]
      /\ Answered(c, call[k].verdict)
      /\ now' = now
    BY <1>0 DEF Record, CallerOK, ProbeTypeOK
<1>2. /\ now \in 0 .. MaxTime
      /\ call'[k] \in CallStates
      /\ call'[k].state = "done" /\ call'[k].verdict = call[k].verdict
      /\ call'[k].provider = call[k].provider
      /\ call'[k].began = call[k].began /\ call'[k].ended = now
      /\ \A j \in Calls \ {k} : call'[j] = call[j]
    BY <1>0, <1>1, CallIsDone, CallerIsRecord
<1>3. call[k].verdict \in Verdicts
    BY <1>0, <1>1 DEF ProbeTypeOK
<1>4. /\ caller' \in [Callers -> CallerStates]
      /\ caller'[c].pc = "answered" /\ caller'[c].answer = call[k].verdict
      /\ caller'[c].since = caller[c].since
      /\ \A d \in Callers \ {c} : caller'[d] = caller[d]
    BY <1>0, <1>1, <1>3, AnswerOfCaller
<1>5. ProbeTypeOK'
  <2>1. call' \in [Calls -> CallStates]
    BY <1>0, <1>1, <1>2, CallerIsRecord
  <2>2. \A j \in Calls :
          (call'[j].verdict = "none") = (call'[j].state \in {"unused", "flying"})
    BY <1>0, <1>1, <1>2 DEF ProbeTypeOK
  <2>3. cached' \in [verdict : Verdicts \cup {"none"}, at : 0 .. MaxTime]
    BY <1>1, <1>2, <1>3
  <2> QED
    BY <1>1, <1>2, <1>4, <2>1, <2>2, <2>3 DEF ProbeTypeOK, CallStates, CallerStates
<1>6. \A j \in Calls : Done(j)' <=> Done(j) \/ j = k
    BY <1>2 DEF Done
<1>7. ~Done(k) /\ \A j \in Calls : j # k => call[j].state \in {"unused", "done"}
    BY <1>0, <1>1 DEF Done, CallsInv, ProbeTypeOK
<1>8. \A j \in Calls : k < j => call[j].state = "unused"
    BY <1>0, <1>7 DEF CallsInv
<1>9. CallsInv'
  <2>1. \A j \in Calls : call'[j].state \in {"flying", "replied"} <=> leader' = j
      <3>1. \A j \in Calls : j # NoCall
      BY DEF Calls, ProbeAssumption
    <3> QED
      BY <1>1, <1>2, <1>7, <3>1
  <2>2. \A i, j \in Calls : i < j /\ call'[j].state # "unused" => Done(i)'
    BY <1>0, <1>1, <1>2, <1>6 DEF CallsInv
  <2>3. ASSUME NEW i \in Calls, NEW j \in Calls, j = i + 1, call'[j].state # "unused"
        PROVE  call'[j].began - call'[i].ended >= TTL(call'[i].verdict)
    <3>1. call[j].state # "unused"
      BY <1>1, <1>2, <2>3
    <3>2. i # k
      BY <1>8, <2>3, <3>1 DEF Calls
    <3> QED
      BY <1>0, <1>2, <2>3, <3>1, <3>2 DEF CallsInv
  <2>4. \A j \in Calls : call'[j].verdict = "ready" => call'[j].provider = "ready"
    BY <1>0, <1>2 DEF CallsInv
  <2>5. ASSUME NEW j \in Calls, Done(j)' PROVE call'[j].ended <= now'
    <3>1. CASE j = k
      BY <1>1, <1>2, <3>1
    <3>2. CASE j # k
      BY <1>0, <1>1, <1>2, <1>6, <2>5, <3>2 DEF CallsInv
    <3> QED
      BY <3>1, <3>2
  <2> QED
    BY <2>1, <2>2, <2>3, <2>4, <2>5 DEF CallsInv, TTL
<1>10. CacheInv'
  <2>1. cached' = [verdict |-> call'[k].verdict, at |-> call'[k].ended] /\ Done(k)'
    BY <1>1, <1>2 DEF Done
  <2>2. ASSUME NEW j \in Calls, Done(j)', j # k,
               \A i \in Calls : i = j + 1 => call'[i].state = "unused"
        PROVE  FALSE
    <3>1. Done(j) /\ j < k
      <4>1. Done(j) /\ ~(k < j)
        BY <1>6, <1>8, <2>2 DEF Done
      <4> QED
        BY <2>2, <4>1 DEF Calls
    <3>2. j + 1 \in Calls /\ (j + 1 = k \/ j + 1 < k)
      BY <3>1 DEF Calls, ProbeAssumption
    <3>3. call[j + 1].state # "unused"
      BY <1>0, <1>1, <3>2 DEF CallsInv, Done
    <3> QED
      BY <1>2, <2>2, <3>2, <3>3
  <2> QED
    BY <2>1, <2>2 DEF CacheInv
<1>11. OneLeader'
    BY <1>0, <1>4 DEF OneLeader, At
<1>12. ASSUME NEW d \in Callers PROVE CallerOK(d)'
  <2>1. CallerOK(d)
    BY DEF ProbeInv
  <2>2. \A j \in Calls : Done(j) => Done(j)' /\ call'[j] = call[j]
    BY <1>2, <1>6, <1>7
  <2>3. CASE d = c
    <3>1. /\ caller[c].since \in Nat /\ now \in Nat /\ caller[c].since <= now
          /\ now + SuccessTTL > caller[c].since /\ now + FailureTTL > caller[c].since
      <4>1. caller[c].since \in Nat /\ now \in Nat /\ caller[c].since <= now
        BY <1>0 DEF ProbeTypeOK, CallerOK
      <4> QED
        BY <4>1 DEF ProbeAssumption
    <3>2. call[k].verdict = "ready" => call[k].provider = "ready"
      BY <1>0 DEF CallsInv
    <3> QED
      BY <1>1, <1>2, <1>4, <1>6, <2>3, <3>1, <3>2 DEF CallerOK, At
  <2>4. CASE d # c
    <3>1. caller'[d] = caller[d] /\ caller[d].pc # "leading"
      BY <1>0, <1>1, <1>4, <2>4 DEF OneLeader, At
    <3>2. At(d, "waiting")' =>
            /\ caller[d].joined \in Calls
            /\ call'[caller[d].joined].state # "unused"
            /\ Done(caller[d].joined)' => caller[d].since <= call'[caller[d].joined].ended
      <4> SUFFICES ASSUME At(d, "waiting")'
                   PROVE  /\ caller[d].joined \in Calls
                          /\ call'[caller[d].joined].state # "unused"
                          /\ Done(caller[d].joined)' =>
                                caller[d].since <= call'[caller[d].joined].ended
        OBVIOUS
      <4>1. At(d, "waiting") /\ caller[d].since <= now
        BY <2>1, <3>1 DEF At, CallerOK
      <4>2. caller[d].joined \in Calls /\ call[caller[d].joined].state # "unused"
        BY <2>1, <4>1 DEF CallerOK
      <4>3. CASE caller[d].joined = k
        BY <1>2, <4>1, <4>2, <4>3
      <4>4. CASE caller[d].joined # k
        <5>1. call'[caller[d].joined] = call[caller[d].joined]
          BY <1>2, <4>2, <4>4
        <5>2. Done(caller[d].joined) => caller[d].since <= call[caller[d].joined].ended
          BY <2>1, <4>1 DEF CallerOK
        <5> QED
          BY <3>1, <4>2, <5>1, <5>2 DEF Done
      <4> QED
        BY <4>3, <4>4
    <3> QED
      BY <1>1, <2>1, <2>2, <3>1, <3>2 DEF CallerOK, At
  <2> QED
    BY <2>3, <2>4
<1> QED
    BY <1>5, <1>9, <1>10, <1>11, <1>12 DEF ProbeInv

\* Time passes.
LEMMA ClockTicks ==
    ASSUME ProbeAssumption, ProbeInv, TimePasses
    PROVE  ProbeInv'
<1>0. ProbeTypeOK /\ CallsInv /\ CacheInv /\ OneLeader
    BY DEF ProbeInv
<1>1. /\ now' = now + 1 /\ now \in Nat /\ now' \in 0 .. MaxTime
      /\ UNCHANGED <<caller, leader, cached, call>>
    BY <1>0 DEF TimePasses, ProbeTypeOK, ProbeAssumption
<1>2. ProbeTypeOK'
    BY <1>0, <1>1 DEF ProbeTypeOK
<1>3. CacheInv' /\ OneLeader'
    BY <1>0, <1>1 DEF CacheInv, OneLeader, Done, At
<1>4. CallsInv'
  <2>1. \A k \in Calls : Done(k) => call[k].ended <= now + 1
    BY <1>0, <1>1 DEF ProbeTypeOK, CallsInv
  <2> QED
    BY <1>0, <1>1, <2>1 DEF CallsInv, Done, TTL
<1>5. ASSUME NEW c \in Callers PROVE CallerOK(c)'
  <2>1. CallerOK(c) /\ caller[c].since \in Nat
    BY <1>0 DEF ProbeInv, ProbeTypeOK
  <2>2. caller[c].since <= now + 1
    BY <1>1, <2>1 DEF CallerOK
  <2> QED
    BY <1>1, <2>1, <2>2 DEF CallerOK, At, Done
<1> QED
    BY <1>2, <1>3, <1>4, <1>5 DEF ProbeInv

-------------------------------------------------------------------------------
(* The theorems.                                                             *)

\* What the probe remembers stays true.
THEOREM ProbeInvariant == ASSUME ProbeAssumption PROVE ProbeSpec => []ProbeInv
<1>1. ProbeInit => ProbeInv
    BY ProbeStarts
<1>2. ProbeInv /\ [ProbeNext]_probeVars => ProbeInv'
  <2> SUFFICES ASSUME ProbeInv, [ProbeNext]_probeVars PROVE ProbeInv'
    OBVIOUS
  <2>1. CASE UNCHANGED probeVars
    BY <2>1 DEF probeVars, ProbeInv, ProbeTypeOK, CallsInv, CacheInv, OneLeader, CallerOK, At, Done,
        TTL
  <2> QED
    BY <2>1, ClockTicks, CallersComeAndGo, CacheAnswers, CallersJoin, CallersLead,
       ProviderReplies, LeadersRecord, WaitersWake
    DEF ProbeNext, Check, Follow
<1> QED
    BY <1>1, <1>2, PTL DEF ProbeSpec

\* However many ask at once, one list request is under way at most, whoever
\* leads it and whoever goes away.
THEOREM OneRequestTheorem == ASSUME ProbeAssumption PROVE ProbeSpec => []OneRequestAtATime
<1>1. ProbeInv => OneRequestAtATime
  <2> SUFFICES ASSUME ProbeInv PROVE OneRequestAtATime
    OBVIOUS
  <2> DEFINE S == {k \in Calls : call[k].state \in {"flying", "replied"}}
  <2>1. S \subseteq {leader}
    BY DEF ProbeInv, CallsInv
  <2>2. IsFiniteSet({leader}) /\ Cardinality({leader}) = 1
    BY FS_Singleton
  <2>3. Cardinality(S) <= 1
    BY <2>1, <2>2, FS_Subset
  <2> QED
    BY <2>3 DEF OneRequestAtATime
<1> QED
    BY <1>1, ProbeInvariant, PTL

\* The bucket is not listed again before the last verdict has run out.
THEOREM SpacingTheorem == ASSUME ProbeAssumption PROVE ProbeSpec => []RequestsAreSpaced
<1>1. ProbeInv => RequestsAreSpaced
  <2> SUFFICES ASSUME ProbeInv, NEW k \in Calls, k > 1, call[k].state # "unused"
               PROVE  call[k].began - call[k - 1].ended >= TTL(call[k - 1].verdict)
    BY DEF RequestsAreSpaced
  <2>1. k - 1 \in Calls /\ k = (k - 1) + 1
    BY DEF Calls, ProbeAssumption
  <2> QED
    BY <2>1 DEF ProbeInv, CallsInv
<1> QED
    BY <1>1, ProbeInvariant, PTL

\* A verdict that is reported, from the cache, from a request that was joined or
\* from one's own, was recent when its caller asked.
THEOREM VerdictsTheorem ==
    ASSUME ProbeAssumption
    PROVE  ProbeSpec => [](ReadyIsRecent /\ FailureIsRecent)
<1>1. ProbeInv => ReadyIsRecent /\ FailureIsRecent
    BY DEF ProbeInv, CallerOK, ReadyIsRecent, FailureIsRecent
<1> QED
    BY <1>1, ProbeInvariant, PTL

\* What callers of the readiness endpoint may rely on, however many they are.
THEOREM VerdictsAreRecentTheorem ==
    ASSUME ProbeAssumption
    PROVE  ProbeSpec => []VerdictsAreRecent
<1>1. ProbeInv => ProbeTypeOK
    BY DEF ProbeInv
<1> QED
    BY <1>1, ProbeInvariant, OneRequestTheorem, SpacingTheorem, VerdictsTheorem, PTL
       DEF VerdictsAreRecent

-------------------------------------------------------------------------------
(* The reader of a download.                                                 *)

\* Where the reader stands in each phase.  Before the first range no stream is
\* open; after one, the last seek went to its first byte, so that a seek to
\* another byte closes the stream.  While a range is copied that does not begin
\* again, the reader is at the byte that is wanted.
Position ==
    /\ phase \in {"size", "rewind"} => body = NoStream /\ current = 1
    /\ phase = "seek" =>
          IF current = 1 THEN body = NoStream ELSE offset = download[current - 1].first
    /\ phase = "copy" =>
        /\ current <= Len(download)
        /\ offset = download[current].first
        /\ left \in 1 .. download[current].length
        /\ ~BeginsAgain(current) => ReadPosition = Wanted

ReaderInv == SeeksAreEnough /\ Position

-------------------------------------------------------------------------------

\* A download begins at rest, with the ranges it will serve.
LEMMA ReaderStarts == ASSUME ReaderAssumption PROVE ReaderInit => ReaderInv
<1> SUFFICES ASSUME ReaderInit PROVE ReaderInv
    OBVIOUS
<1>1. PICK n \in 1 .. MaxRanges : download \in [1 .. n -> Ranges]
    BY DEF ReaderInit, Downloads
<1>2. n \in Nat
    BY ReaderAssumption DEF ReaderAssumption
<1>3. download \in Seq(Ranges)
    BY <1>1, <1>2, SeqDef
<1>4. Len(download) \in Nat
    BY <1>3
<1> QED
    BY <1>3, <1>4 DEF ReaderInit, ReaderAssumption, ReaderInv, SeeksAreEnough, ReaderTypeOK,
        Position

\* What is known of the range that is next, or being served.
LEMMA ServedRange ==
    ASSUME ReaderTypeOK, current <= Len(download)
    PROVE  /\ Len(download) \in Nat
           /\ current \in 1 .. Len(download)
           /\ download[current].first \in 0 .. ObjectSize - 1
           /\ download[current].length \in 1 .. ObjectSize
           /\ download[current].first + download[current].length <= ObjectSize
<1>1. download \in Seq(Ranges) /\ Len(download) \in Nat /\ current \in 1 .. Len(download)
    BY DEF ReaderTypeOK
<1>2. download[current] \in Ranges
    BY <1>1
<1> QED
    BY <1>1, <1>2 DEF Ranges

\* Seeking to the next range leaves no stream of an earlier one open, unless it
\* began at the same byte.
LEMMA ReaderSeeks ==
    ASSUME ReaderAssumption, ReaderInv, FindSize \/ Rewind \/ SeekRange
    PROVE  ReaderInv'
<1>1. CASE FindSize \/ Rewind
  <2>1. /\ body' = NoStream /\ offset' \in 0 .. ObjectSize /\ current = 1
        /\ phase' \in {"rewind", "seek"}
        /\ UNCHANGED <<download, current, left, wrong>>
    <3>1. body = NoStream /\ current = 1
      BY <1>1 DEF FindSize, Rewind, ReaderInv, Position
    <3>2. 0 \in 0 .. ObjectSize /\ ObjectSize \in 0 .. ObjectSize
      BY ReaderAssumption DEF ReaderAssumption
    <3> QED
      BY <1>1, <3>1, <3>2 DEF FindSize, Rewind, Seek
  <2> QED
    BY <2>1 DEF ReaderInv, SeeksAreEnough, BeginsAgain, ReaderTypeOK, Position
<1>2. CASE SeekRange
  <2>1. /\ Len(download) \in Nat /\ current \in 1 .. Len(download)
        /\ download[current].first \in 0 .. ObjectSize - 1
        /\ download[current].length \in 1 .. ObjectSize
        /\ download[current].first + download[current].length <= ObjectSize
    BY <1>2, ServedRange DEF SeekRange, ReaderInv, SeeksAreEnough
  <2>2. /\ offset' = download[current].first /\ left' = download[current].length
        /\ body' = IF download[current].first # offset THEN NoStream ELSE body
        /\ phase' = "copy" /\ UNCHANGED <<download, current, wrong>>
    BY <1>2 DEF SeekRange, Seek
  <2>3. ~BeginsAgain(current) => body' = NoStream
    BY <1>2, <2>1, <2>2 DEF SeekRange, ReaderInv, Position, BeginsAgain
  <2>4. SeeksAreEnough'
    BY <2>1, <2>2, ReaderAssumption
       DEF ReaderInv, SeeksAreEnough, BeginsAgain, ReaderTypeOK, ReaderAssumption
  <2>5. Position'
    BY <2>1, <2>2, <2>3 DEF Position, BeginsAgain, ReadPosition, Wanted
  <2> QED
    BY <2>4, <2>5 DEF ReaderInv
<1> QED
    BY <1>1, <1>2

\* A read continues at the stream, or opens one where the last seek went: either
\* way at the byte that is wanted, unless the range begins again.
LEMMA ReaderReads == ASSUME ReaderAssumption, ReaderInv, Read PROVE ReaderInv'
<1>1. /\ phase = "copy" /\ current <= Len(download)
      /\ offset = download[current].first
      /\ left \in 1 .. download[current].length
      /\ ~BeginsAgain(current) => ReadPosition = Wanted
    BY DEF Read, ReaderInv, Position
<1>2. /\ Len(download) \in Nat /\ current \in 1 .. Len(download)
      /\ download[current].first \in 0 .. ObjectSize - 1
      /\ download[current].length \in 1 .. ObjectSize
    BY <1>1, ServedRange DEF ReaderInv, SeeksAreEnough
<1>3. ReadPosition \in 0 .. ObjectSize
    BY DEF ReadPosition, ReaderInv, SeeksAreEnough, ReaderTypeOK
<1>4. PICK n \in 1 .. left :
        /\ ReadPosition + n <= ObjectSize
        /\ body' = ReadPosition + n
        /\ wrong' = IF ReadPosition = Wanted THEN wrong ELSE wrong \cup {current}
        /\ left' = left - n
        /\ IF n = left THEN phase' = "seek" /\ current' = current + 1
           ELSE UNCHANGED <<phase, current>>
    BY DEF Read
<1>5. UNCHANGED <<offset, download>>
    BY DEF Read
<1>6. wrong' \subseteq 1 .. Len(download) /\ \A i \in wrong' : BeginsAgain(i)
    BY <1>1, <1>2, <1>4 DEF ReaderInv, SeeksAreEnough, ReaderTypeOK
<1>7. /\ body' \in 0 .. ObjectSize /\ body' # NoStream
      /\ left' \in 0 .. ObjectSize /\ left' <= download[current].length
    BY <1>1, <1>2, <1>3, <1>4, ReaderAssumption DEF ReaderAssumption
<1>8. SeeksAreEnough'
  <2>1. current' \in 1 .. Len(download) + 1 /\ phase' \in {"copy", "seek"}
    BY <1>1, <1>2, <1>4
  <2> QED
    BY <2>1, <1>5, <1>6, <1>7 DEF ReaderInv, SeeksAreEnough, ReaderTypeOK, BeginsAgain
<1>9. Position'
  <2>1. CASE n = left
    BY <2>1, <1>1, <1>2, <1>4, <1>5 DEF Position
  <2>2. CASE n # left
    <3>1. phase' = "copy" /\ current' = current /\ left' \in 1 .. download[current].length
      BY <2>2, <1>1, <1>2, <1>4, <1>7
    <3>2. ASSUME ~BeginsAgain(current) PROVE (ReadPosition = Wanted)'
      <4>1. Wanted' = Wanted + n
        BY <3>1, <1>1, <1>2, <1>4, <1>5 DEF Wanted
      <4>2. ReadPosition' = ReadPosition + n
        BY <1>4, <1>7 DEF ReadPosition
      <4> QED
        BY <4>1, <4>2, <3>2, <1>1
    <3>3. BeginsAgain(current)' = BeginsAgain(current)
      BY <1>5, <3>1 DEF BeginsAgain
    <3> QED
      BY <3>1, <3>2, <3>3, <1>1, <1>5 DEF Position
  <2> QED
    BY <2>1, <2>2
<1> QED
    BY <1>8, <1>9 DEF ReaderInv

\* The stream ends early only in a range that begins again: elsewhere the byte
\* that is wanted lies inside the object.
LEMMA ReaderIsCut == ASSUME ReaderAssumption, ReaderInv, CutShort PROVE ReaderInv'
<1>1. /\ phase = "copy" /\ current <= Len(download)
      /\ left \in 1 .. download[current].length
      /\ ~BeginsAgain(current) => ReadPosition = Wanted
    BY DEF CutShort, ReaderInv, Position
<1>2. /\ Len(download) \in Nat /\ current \in 1 .. Len(download)
      /\ download[current].first \in 0 .. ObjectSize - 1
      /\ download[current].length \in 1 .. ObjectSize
      /\ download[current].first + download[current].length <= ObjectSize
    BY <1>1, ServedRange DEF ReaderInv, SeeksAreEnough
<1>3. Wanted < ObjectSize
    BY <1>1, <1>2, ReaderAssumption DEF Wanted, ReaderAssumption
<1>4. BeginsAgain(current)
    BY <1>1, <1>3, ReaderAssumption DEF CutShort, ReaderAssumption
<1>5. ObjectSize \in 0 .. ObjectSize
    BY ReaderAssumption DEF ReaderAssumption
<1> QED
    BY <1>2, <1>4, <1>5
       DEF CutShort, ReaderInv, SeeksAreEnough, ReaderTypeOK, BeginsAgain, Position

\* The reader's invariant is inductive.
LEMMA ReaderGoesOn ==
    ASSUME ReaderAssumption, ReaderInv, [ReaderNext]_readerVars
    PROVE  ReaderInv'
<1>1. CASE Close
    BY <1>1 DEF Close, ReaderInv, SeeksAreEnough, BeginsAgain, ReaderTypeOK, Position,
        ReaderAssumption
<1>2. CASE UNCHANGED readerVars
    BY <1>2 DEF readerVars, ReaderInv, SeeksAreEnough, BeginsAgain, ReaderTypeOK, Position,
        ReadPosition, Wanted
<1> QED
    BY <1>1, <1>2, ReaderSeeks, ReaderReads, ReaderIsCut DEF ReaderNext

\* A range is answered with its bytes and all of them unless it begins where the
\* range before it began, whatever the object's size, however many ranges a
\* download has, overlapping or not, and however many bytes each read returns.
THEOREM ReaderDelivers ==
    ASSUME ReaderAssumption
    PROVE  ReaderSpec => []SeeksAreEnough
<1>1. ReaderInit => ReaderInv
    BY ReaderStarts
<1>2. ReaderInv /\ [ReaderNext]_readerVars => ReaderInv'
    BY ReaderGoesOn
<1>3. ReaderInv => SeeksAreEnough
    BY DEF ReaderInv
<1> QED
    BY <1>1, <1>2, <1>3, PTL DEF ReaderSpec

===============================================================================
