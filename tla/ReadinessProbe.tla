----------------------------- MODULE ReadinessProbe -----------------------------
(***************************************************************************)
(* The readiness endpoint of one API process whose default storage backend *)
(* is B2.  Every request for readiness checks the schema and the import    *)
(* directory and then the bucket, through a probe its callers share: one   *)
(* list request at a time, its verdict handed to whoever waits for it and  *)
(* kept for a while.                                                       *)
(***************************************************************************)
EXTENDS Integers, FiniteSets

CONSTANTS
    Callers,      \* handlers of readiness requests
    MaxCalls,     \* bound on the list requests made
    SuccessTTL, FailureTTL,
    MaxTime,      \* bound on the clock
    NoCall

\* What the theorems suppose.
ProbeAssumption ==
    /\ MaxCalls \in Nat /\ MaxTime \in Nat
    /\ SuccessTTL \in Nat \ {0} /\ FailureTTL \in Nat \ {0}
    /\ NoCall \notin Int

Calls == 1 .. MaxCalls

VARIABLES
    now,       \* the clock, in units of the shorter time to live
    caller,    \* the callers: where they are, their contexts, their answers
    leader,    \* the call in flight, as the probe's mutex protects it
    cached,    \* the cached verdict and when it was cached
    call       \* the list requests

probeVars == <<now, caller, leader, cached, call>>

Verdicts == {"ready", "unavailable"}

ProbeTypeOK ==
    /\ now \in 0 .. MaxTime
    /\ caller \in [Callers ->
         [pc : {"idle", "asking", "leading", "waiting", "answered"},
          alive : BOOLEAN, since : 0 .. MaxTime, joined : Calls \cup {NoCall},
          answer : Verdicts \cup {"none", "refused", "gone"}]]
    /\ leader \in Calls \cup {NoCall}
    /\ cached \in [verdict : Verdicts \cup {"none"}, at : 0 .. MaxTime]
    /\ call \in [Calls ->
         [state : {"unused", "flying", "replied", "done"},
          verdict : Verdicts \cup {"none"}, provider : Verdicts \cup {"none"},
          began : 0 .. MaxTime, ended : 0 .. MaxTime]]
    /\ \A k \in Calls :
          (call[k].verdict = "none") = (call[k].state \in {"unused", "flying"})

Absent == [pc |-> "idle", alive |-> TRUE, since |-> 0, joined |-> NoCall,
           answer |-> "none"]

ProbeInit ==
    /\ now = 0
    /\ caller = [c \in Callers |-> Absent]
    /\ leader = NoCall
    /\ cached = [verdict |-> "none", at |-> 0]
    /\ call = [k \in Calls |-> [state |-> "unused", verdict |-> "none",
                                provider |-> "none", began |-> 0, ended |-> 0]]

At(c, pc) == caller[c].pc = pc

Answered(c, answer) ==
    caller' = [caller EXCEPT ![c] =
                 [Absent EXCEPT !.pc = "answered", !.answer = answer,
                                !.since = caller[c].since]]

TimePasses ==
    /\ now < MaxTime
    /\ now' = now + 1
    /\ UNCHANGED <<caller, leader, cached, call>>

\* GetReadyHealth starts its deadline and calls CheckReadiness.
Ask(c) ==
    /\ At(c, "idle") \/ At(c, "answered")
    /\ caller' = [caller EXCEPT ![c] =
                    [Absent EXCEPT !.pc = "asking", !.since = now]]
    /\ UNCHANGED <<now, leader, cached, call>>

\* The deadline passes or the client goes away.
Expire(c) ==
    /\ caller[c].pc \in {"asking", "leading", "waiting"}
    /\ caller[c].alive
    /\ caller' = [caller EXCEPT ![c].alive = FALSE]
    /\ UNCHANGED <<now, leader, cached, call>>

\* The schema or the import directory is not as it should be: the bucket is
\* not asked.
Refuse(c) ==
    /\ At(c, "asking")
    /\ Answered(c, "refused")
    /\ UNCHANGED <<now, leader, cached, call>>

AskTooLate(c) ==
    /\ At(c, "asking")
    /\ ~caller[c].alive
    /\ Answered(c, "gone")
    /\ UNCHANGED <<now, leader, cached, call>>

TTL(verdict) == IF verdict = "ready" THEN SuccessTTL ELSE FailureTTL

Fresh == cached.verdict # "none" /\ now - cached.at < TTL(cached.verdict)

\* The rest of check runs in one critical section up to the request or wait.
AnswerFromCache(c) ==
    /\ At(c, "asking")
    /\ Fresh
    /\ Answered(c, cached.verdict)
    /\ UNCHANGED <<now, leader, cached, call>>

Join(c) ==
    /\ At(c, "asking")
    /\ ~Fresh
    /\ leader # NoCall
    /\ caller' = [caller EXCEPT ![c].pc = "waiting", ![c].joined = leader]
    /\ UNCHANGED <<now, leader, cached, call>>

BeginCall(c, k) ==
    /\ leader' = k
    /\ call' = [call EXCEPT ![k].state = "flying", ![k].began = now]
    /\ caller' = [caller EXCEPT ![c].pc = "leading", ![c].joined = k]
    /\ UNCHANGED <<now, cached>>

\* A mutated form: the call in flight is not looked at.
LeadAnyway(c) ==
    \E k \in Calls :
        /\ At(c, "asking")
        /\ ~Fresh
        /\ call[k].state = "unused"
        /\ \A j \in 1 .. k - 1 : call[j].state # "unused"
        /\ BeginCall(c, k)

Lead(c) ==
    \E k \in Calls :
        /\ At(c, "asking")
        /\ ~Fresh
        /\ leader = NoCall
        /\ call[k].state = "unused"
        /\ \A j \in 1 .. k - 1 : call[j].state # "unused"
        /\ BeginCall(c, k)

\* ListObjectsV2 returns; it fails when the provider fails and when the
\* leader's own context has ended.
Reply(c) ==
    LET k == caller[c].joined
    IN  \E provider \in Verdicts :
        /\ At(c, "leading")
        /\ call[k].state = "flying"
        /\ call' = [call EXCEPT ![k].state = "replied",
                       ![k].provider = IF caller[c].alive THEN provider ELSE "none",
                       ![k].verdict = IF caller[c].alive THEN provider
                                      ELSE "unavailable"]
        /\ UNCHANGED <<now, caller, leader, cached>>

\* Under the mutex the verdict is cached and the leader reset; then the
\* waiters are woken.
Record(c) ==
    LET k == caller[c].joined
    IN  /\ At(c, "leading")
        /\ call[k].state = "replied"
        /\ leader' = NoCall
        /\ cached' = [verdict |-> call[k].verdict, at |-> now]
        /\ call' = [call EXCEPT ![k].state = "done", ![k].ended = now]
        /\ Answered(c, call[k].verdict)
        /\ UNCHANGED now

\* A woken waiter takes the call's verdict, not what the cache holds by now.
Wake(c) ==
    /\ At(c, "waiting")
    /\ call[caller[c].joined].state = "done"
    /\ Answered(c, call[caller[c].joined].verdict)
    /\ UNCHANGED <<now, leader, cached, call>>

\* A waiter whose context ends leaves; if both happened either may be chosen.
LeaveEarly(c) ==
    /\ At(c, "waiting")
    /\ ~caller[c].alive
    /\ Answered(c, "gone")
    /\ UNCHANGED <<now, leader, cached, call>>

-------------------------------------------------------------------------------

Check(c) == AskTooLate(c) \/ AnswerFromCache(c) \/ Join(c) \/ Lead(c)

Follow(c) == Reply(c) \/ Record(c) \/ Wake(c) \/ LeaveEarly(c)

ProbeNext ==
    \/ TimePasses
    \/ \E c \in Callers : Ask(c) \/ Expire(c) \/ Refuse(c) \/ Check(c) \/ Follow(c)

ProbeSpec == ProbeInit /\ [][ProbeNext]_probeVars

-------------------------------------------------------------------------------
(* Properties.                                                               *)

\* However many ask at once, one list request is under way at most.
OneRequestAtATime ==
    Cardinality({k \in Calls : call[k].state \in {"flying", "replied"}}) <= 1

\* Requests are billed: none begins before the verdict of the one before it
\* has run out, a failure's after FailureTTL and a success's after SuccessTTL.
RequestsAreSpaced ==
    \A k \in Calls :
        k > 1 /\ call[k].state # "unused" =>
            call[k].began - call[k - 1].ended >= TTL(call[k - 1].verdict)

\* A success is never reported on the strength of an answer of the provider
\* that was older than SuccessTTL when the caller asked - whichever way the
\* verdict reached the caller, and however long it then waited.
ReadyIsRecent ==
    \A c \in Callers :
        caller[c].answer = "ready" =>
            \E k \in Calls : /\ call[k].provider = "ready"
                             /\ call[k].ended + SuccessTTL > caller[c].since

\* A failure is reported as such for FailureTTL only: callers that ask later
\* are told of a newer answer.
FailureIsRecent ==
    \A c \in Callers :
        caller[c].answer = "unavailable" =>
            \E k \in Calls : /\ call[k].verdict = "unavailable"
                             /\ call[k].ended + FailureTTL > caller[c].since

\* However many ask, one billed request at a time, none before the last verdict
\* has run out, and no verdict older than its time to live.
VerdictsAreRecent ==
    ProbeTypeOK /\ OneRequestAtATime /\ RequestsAreSpaced /\ ReadyIsRecent /\ FailureIsRecent

\* Whoever asks is answered: a leader that goes away takes nobody with it.
EveryCallerIsAnswered ==
    \A c \in Callers : At(c, "waiting") \/ At(c, "leading") ~> At(c, "answered")
===============================================================================
