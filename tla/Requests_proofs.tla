---------------------------- MODULE Requests_proofs ----------------------------
(***************************************************************************)
(* Proofs about what requests keep between them: logins and sessions, for  *)
(* any number of attempts, sessions and passwords, any times and limits;   *)
(* the administrators' lists, for any rows, transactions and pages; and    *)
(* searches and their cursors, for any documents, queries and limits.      *)
(***************************************************************************)
EXTENDS AuthSessions, KeysetPaging, SearchPaging, FiniteSetTheorems, SequenceTheorems,
        WellFoundedInduction, TLAPS

-------------------------------------------------------------------------------
(* Logins and sessions.                                                      *)

Records == [made : BOOLEAN, idle : -MaxWait..IdleTTL, absolute : -MaxWait..AbsoluteTTL,
            revoked : BOOLEAN]
Stages == {NoRequest} \cup [pc : {"begun", "locked"}, session : Ids, age : 0..MaxWait]
Places ==
    {Idle} \cup [pc : {"counted"}, password : Passwords]
           \cup [pc : {"verified", "refused"}]
           \cup [pc : {"replacing"}, seen : SUBSET Ids]

\* Attempts that have been counted and may still record a failure.
InFlight == {a \in Attempts : attempt[a].pc \in {"counted", "refused"}}

\* An attempt passes the limit once, before it is in flight, with the others that
\* run by then.
CountInv ==
    Len(failures) + Cardinality(InFlight) <= LoginFailureLimit - 1 + most

\* Until two logins overlap, the session a login leaves is the only one that is not
\* revoked: it has seen the others, those that have expired among them.
AloneInv ==
    most <= 1 =>
        /\ \A s, t \in Unrevoked : s = t
        /\ \A a \in Attempts : attempt[a].pc = "replacing" => Unrevoked \subseteq attempt[a].seen

\* The rows of the user are held by one request, for a session that had not expired
\* when the request began.
LocksInv ==
    /\ \A p, q \in Holding : p = q
    /\ \A q \in Holding : ActiveAt(request[q].session, request[q].age)

\* The history variable keeps its promise.
RunningInv == Cardinality(Running) <= most

LoginInv == TypeOK /\ RunningInv /\ CountInv /\ AloneInv /\ LocksInv

\* A login goes from one place to another.
LEMMA MovedAttempt ==
    ASSUME TypeOK, NEW a \in Attempts, NEW place \in Places,
           attempt' = [attempt EXCEPT ![a] = place]
    PROVE  /\ attempt' \in [Attempts -> Places]
           /\ attempt'[a] = place
           /\ \A b \in Attempts : b # a => attempt'[b] = attempt[b]
BY DEF TypeOK, Places

\* What revoking does to the sessions.
LEMMA RevokedSessions ==
    ASSUME TypeOK, NEW S
    PROVE  /\ Revoked(S) \in [Ids -> Records]
           /\ \A s \in Ids :
                 /\ Revoked(S)[s].made = sessions[s].made
                 /\ Revoked(S)[s].idle = sessions[s].idle
                 /\ Revoked(S)[s].absolute = sessions[s].absolute
                 /\ s \in S => Revoked(S)[s].revoked
                 /\ s \notin S => Revoked(S)[s].revoked = sessions[s].revoked
<1>1. sessions \in [Ids -> Records]
    BY DEF TypeOK, Records
<1>2. ASSUME NEW s \in Ids
      PROVE  /\ Revoked(S)[s] \in Records
             /\ Revoked(S)[s].made = sessions[s].made
             /\ Revoked(S)[s].idle = sessions[s].idle
             /\ Revoked(S)[s].absolute = sessions[s].absolute
             /\ s \in S => Revoked(S)[s].revoked
             /\ s \notin S => Revoked(S)[s].revoked = sessions[s].revoked
  <2>1. CASE s \in S
    BY <1>1, <2>1 DEF Revoked, Records
  <2>2. CASE s \notin S
    BY <1>1, <2>2 DEF Revoked, Records
  <2> QED
    BY <2>1, <2>2
<1>3. Revoked(S) \in [Ids -> Records]
    BY <1>2 DEF Revoked
<1> QED
    BY <1>2, <1>3

\* The session a login makes.
LEMMA MadeSession ==
    ASSUME LoginAssumption, TypeOK, NEW a \in Attempts, NEW s \in Ids, CommitLogin(a, s)
    PROVE  /\ sessions' \in [Ids -> Records]
           /\ ~Made(s) /\ Made(s)'
           /\ \A t \in Ids \ {s} : sessions'[t] = Revoked(attempt[a].seen)[t]
<1>1. Revoked(attempt[a].seen) \in [Ids -> Records]
    BY RevokedSessions
<1>2. [made |-> TRUE, idle |-> IdleTTL, absolute |-> AbsoluteTTL, revoked |-> FALSE] \in Records
    BY DEF LoginAssumption, Records
<1> QED
    BY <1>1, <1>2 DEF CommitLogin, Made

\* A request goes from one stage to another.
LEMMA MovedRequest ==
    ASSUME TypeOK, NEW p \in Requests, NEW stage \in Stages,
           request' = [request EXCEPT ![p] = stage]
    PROVE  /\ request' \in [Requests -> Stages]
           /\ request'[p] = stage
           /\ \A q \in Requests : q # p => request'[q] = request[q]
BY DEF TypeOK, Stages

\* The session a request uses.
LEMMA UsedSession ==
    ASSUME LoginAssumption, TypeOK, NEW p \in Requests, TouchSession(p)
    PROVE  /\ sessions' \in [Ids -> Records]
           /\ p \in Holding /\ request[p].session \in Ids
           /\ \A t \in Ids : /\ sessions'[t].made = sessions[t].made
                             /\ sessions'[t].revoked = sessions[t].revoked
                             /\ sessions'[t].absolute = sessions[t].absolute
                             /\ t # request[p].session => sessions'[t] = sessions[t]
           /\ request' \in [Requests -> Stages] /\ request'[p] = NoRequest
           /\ \A q \in Requests : q # p => request'[q] = request[q]
<1>1. sessions \in [Ids -> Records] /\ request[p] \in Stages /\ request[p].pc = "locked"
    BY DEF TypeOK, Records, Stages, TouchSession
<1>2. PICK s \in Ids : s = request[p].session
    BY <1>1 DEF Stages, NoRequest
<1>3. IdleExpiry(s) \in -MaxWait..IdleTTL
    BY <1>1 DEF LoginAssumption, IdleExpiry, Smaller, Records
<1>4. sessions' = [sessions EXCEPT ![s].idle = IdleExpiry(s)]
    BY <1>2 DEF TouchSession
<1>5. /\ sessions' \in [Ids -> Records]
      /\ \A t \in Ids : /\ sessions'[t].made = sessions[t].made
                        /\ sessions'[t].revoked = sessions[t].revoked
                        /\ sessions'[t].absolute = sessions[t].absolute
                        /\ t # s => sessions'[t] = sessions[t]
    BY <1>1, <1>3, <1>4 DEF Records
<1>6. NoRequest \in Stages
    BY DEF Stages
<1> QED
    BY <1>1, <1>2, <1>5, <1>6, MovedRequest DEF TouchSession, Holding

\* What a request does to the requests.
LEMMA RequestSteps ==
    ASSUME LoginAssumption, TypeOK, NEW p \in Requests,
           LockSession(p) \/ EndRequest(p) \/ \E s \in Ids : BeginRequest(p, s)
    PROVE  request' \in [Requests -> Stages] /\ \A q \in Requests : q # p => request'[q] = request[q]
<1>1. CASE LockSession(p)
  <2>1. PICK stage \in [pc : {"begun", "locked"}, session : Ids, age : 0..MaxWait] :
          stage = request[p]
    BY <1>1 DEF LockSession, TypeOK, NoRequest
  <2>2. [stage EXCEPT !.pc = "locked"] \in Stages
    BY DEF Stages
  <2> QED
    BY <1>1, <2>1, <2>2, MovedRequest DEF LockSession
<1>2. CASE EndRequest(p)
    BY <1>2, MovedRequest DEF EndRequest, Stages
<1>3. ASSUME NEW s \in Ids, BeginRequest(p, s)
      PROVE  request' \in [Requests -> Stages] /\ \A q \in Requests : q # p => request'[q] = request[q]
  <2>1. [pc |-> "begun", session |-> s, age |-> 0] \in Stages
    BY DEF Stages, LoginAssumption
  <2> QED
    BY <1>3, <2>1, MovedRequest DEF BeginRequest
<1> QED
    BY <1>1, <1>2, <1>3

\* Transactions grow older together.
LEMMA OlderRequests ==
    ASSUME LoginAssumption, TypeOK, Tick
    PROVE  /\ request' \in [Requests -> Stages]
           /\ \A q \in Requests :
                 IF request[q] = NoRequest THEN request'[q] = NoRequest
                 ELSE /\ request'[q].pc = request[q].pc
                      /\ request'[q].session = request[q].session
                      /\ request'[q].age = request[q].age + 1
<1>1. ASSUME NEW q \in Requests
      PROVE  /\ request'[q] \in Stages
             /\ IF request[q] = NoRequest THEN request'[q] = NoRequest
                ELSE /\ request'[q].pc = request[q].pc
                     /\ request'[q].session = request[q].session
                     /\ request'[q].age = request[q].age + 1
  <2>1. CASE request[q] = NoRequest
    BY <2>1 DEF Tick, Stages
  <2>2. CASE request[q] # NoRequest
    <3>1. PICK stage \in [pc : {"begun", "locked"}, session : Ids, age : 0..MaxWait] :
            stage = request[q]
      BY <2>2 DEF TypeOK
    <3>2. stage.age < MaxWait /\ request'[q] = [stage EXCEPT !.age = @ + 1]
      BY <2>2, <3>1 DEF Tick
    <3>3. stage.age + 1 \in 0..MaxWait
      BY <3>1, <3>2 DEF LoginAssumption
    <3> QED
      BY <2>2, <3>1, <3>2, <3>3 DEF Stages
  <2> QED
    BY <2>1, <2>2
<1>2. request' \in [Requests -> Stages]
    BY <1>1 DEF Tick
<1> QED
    BY <1>1, <1>2

\* Time takes from what is left and gives nothing back.
LEMMA OlderSessions ==
    ASSUME LoginAssumption, TypeOK, Tick
    PROVE  /\ sessions' \in [Ids -> Records]
           /\ \A s \in Ids :
                 /\ sessions'[s].made = sessions[s].made
                 /\ sessions'[s].revoked = sessions[s].revoked
                 /\ sessions'[s].idle <= sessions[s].idle
                 /\ sessions'[s].absolute <= sessions[s].absolute
                 /\ sessions[s].idle > -MaxWait => sessions'[s].idle = sessions[s].idle - 1
                 /\ sessions[s].absolute > -MaxWait =>
                      sessions'[s].absolute = sessions[s].absolute - 1
<1>1. sessions \in [Ids -> Records]
    BY DEF TypeOK, Records
<1>2. ASSUME NEW s \in Ids
      PROVE  /\ sessions'[s] \in Records
             /\ sessions'[s].made = sessions[s].made
             /\ sessions'[s].revoked = sessions[s].revoked
             /\ sessions'[s].idle <= sessions[s].idle
             /\ sessions'[s].absolute <= sessions[s].absolute
             /\ sessions[s].idle > -MaxWait => sessions'[s].idle = sessions[s].idle - 1
             /\ sessions[s].absolute > -MaxWait => sessions'[s].absolute = sessions[s].absolute - 1
  <2>1. PICK r \in Records : r = sessions[s]
    BY <1>1
  <2>2. /\ Later(r.idle) \in -MaxWait..r.idle /\ Later(r.absolute) \in -MaxWait..r.absolute
        /\ r.idle > -MaxWait => Later(r.idle) = r.idle - 1
        /\ r.absolute > -MaxWait => Later(r.absolute) = r.absolute - 1
    BY <2>1 DEF Records, Later, LoginAssumption
  <2>3. sessions'[s] = [made |-> r.made, idle |-> Later(r.idle), absolute |-> Later(r.absolute),
                        revoked |-> r.revoked]
    BY <2>1 DEF Tick, Records
  <2> QED
    BY <2>1, <2>2, <2>3 DEF Records, LoginAssumption
<1>3. sessions' = [s \in Ids |-> sessions'[s]]
    BY DEF Tick
<1> QED
    BY <1>2, <1>3

\* Failures grow old, and the first of them cease to count.
LEMMA OlderFailures ==
    ASSUME LoginAssumption, TypeOK, Tick
    PROVE  failures' \in Seq(1..LoginFailureWindow) /\ Len(failures') <= Len(failures)
<1> DEFINE aged == [i \in DOMAIN failures |-> Older(failures[i])]
<1>1. failures \in Seq(1..LoginFailureWindow) /\ Len(failures) \in Nat
    BY DEF TypeOK
<1>2. PICK n \in 0..Len(failures) :
        /\ \A i \in DOMAIN failures : aged[i] > 0 <=> i > n
        /\ failures' = SubSeq(aged, n + 1, Len(failures))
    BY DEF Tick
<1>3. PICK k \in Nat : k = Len(failures)
    BY <1>1
<1>4. DOMAIN failures = 1..k /\ n \in 0..k /\ failures' = SubSeq(aged, n + 1, k)
    BY <1>1, <1>2, <1>3, LenProperties
<1>5. \A i \in 1..k : failures[i] \in 1..LoginFailureWindow
    BY <1>1, <1>3, ElementOfSeq
<1>6. \A i \in (n + 1)..k : aged[i] \in 1..LoginFailureWindow
  <2>1. ASSUME NEW i \in (n + 1)..k PROVE aged[i] \in 1..LoginFailureWindow
    <3>1. i \in 1..k /\ i > n
      BY <1>4
    <3>2. aged[i] = failures[i] - 1 /\ aged[i] > 0
      BY <1>2, <1>4, <3>1 DEF Older
    <3> QED
      BY <1>5, <3>1, <3>2 DEF LoginAssumption
  <2> QED
    BY <2>1
<1>7. /\ SubSeq(aged, n + 1, k) \in Seq(1..LoginFailureWindow)
      /\ Len(SubSeq(aged, n + 1, k)) <= k
  <2> HIDE DEF aged
  <2>1. n + 1 \in Int /\ k \in Int
    BY <1>4
  <2> QED
    BY <1>4, <1>6, <2>1, SubSeqProperties
<1> QED
    BY <1>3, <1>4, <1>7

\* Logins that run and logins in flight, when the attempt a moves.
LEMMA RunningMoves ==
    ASSUME LoginAssumption, TypeOK, NEW a \in Attempts, NEW place \in Places,
           attempt' = [attempt EXCEPT ![a] = place]
    PROVE  /\ IsFiniteSet(Running) /\ Cardinality(Running) \in Nat
           /\ IsFiniteSet(Running') /\ Cardinality(Running') \in Nat
           /\ IsFiniteSet(InFlight) /\ Cardinality(InFlight) \in Nat
           /\ IsFiniteSet(InFlight') /\ Cardinality(InFlight') \in Nat
           /\ Cardinality(InFlight') <= Cardinality(Running')
           /\ place.pc \notin {"counted", "refused"} => InFlight' = InFlight \ {a}
           /\ place.pc \in {"counted", "refused"} => InFlight' = InFlight \cup {a}
           /\ Running' \subseteq Running \cup {a}
<1>1. /\ InFlight \subseteq Attempts /\ InFlight' \subseteq Attempts /\ IsFiniteSet(Attempts)
      /\ Running \subseteq Attempts /\ Running' \subseteq Attempts
    BY DEF InFlight, Running, LoginAssumption
<1>2. attempt'[a] = place /\ \A b \in Attempts : b # a => attempt'[b] = attempt[b]
    BY MovedAttempt
<1>3. InFlight' \subseteq Running'
    BY DEF InFlight, Running, Idle
<1>4. Running' \subseteq Running \cup {a}
    BY <1>2 DEF Running
<1> QED
    BY <1>1, <1>2, <1>3, <1>4, FS_Subset, FS_CardinalityType DEF InFlight

\* Logins begin at rest.
LEMMA LoginStarts == ASSUME LoginAssumption, Init PROVE LoginInv
<1>1. TypeOK
  <2>1. NoSession \in Records
    BY DEF LoginAssumption, NoSession, Records
  <2>2. /\ sessions \in [Ids -> Records] /\ attempt \in [Attempts -> Places]
        /\ request \in [Requests -> Stages]
    BY <2>1 DEF Init, Places, Stages
  <2>3. failures \in Seq(1..LoginFailureWindow)
    BY EmptySeq DEF Init
  <2> QED
    BY <2>2, <2>3 DEF Init, TypeOK, Records, Places, Stages, LoginAssumption
<1>2. CountInv
  <2>1. InFlight = {} /\ most = 0
    BY DEF Init, Idle, InFlight
  <2>2. Cardinality(InFlight) = 0
    BY <2>1, FS_EmptySet
  <2>3. Len(failures) = 0
    BY EmptySeq DEF Init
  <2> QED
    BY <2>1, <2>2, <2>3 DEF CountInv, LoginAssumption
<1>3. AloneInv
    BY DEF Init, AloneInv, Unrevoked, Made, NoSession, Idle
<1>4. RunningInv
  <2>1. Running = {} /\ most = 0
    BY DEF Init, Running
  <2> QED
    BY <2>1, FS_EmptySet DEF RunningInv
<1>5. LocksInv
    BY DEF Init, LocksInv, Holding, NoRequest
<1> QED
    BY <1>1, <1>2, <1>3, <1>4, <1>5 DEF LoginInv

\* The types are kept.
LEMMA LoginTypes ==
    ASSUME LoginAssumption, TypeOK, [Next]_vars
    PROVE  TypeOK'
<1>2. /\ user \in [status : {"absent", "active", "disabled"}, password : Passwords]
      /\ sessions \in [Ids -> Records] /\ failures \in Seq(1..LoginFailureWindow)
      /\ attempt \in [Attempts -> Places] /\ request \in [Requests -> Stages]
      /\ wrong \in 0..MaxWrong /\ most \in Nat
    BY DEF TypeOK, Records, Places, Stages
<1>3. SUFFICES /\ user' \in [status : {"absent", "active", "disabled"}, password : Passwords]
               /\ sessions' \in [Ids -> Records] /\ failures' \in Seq(1..LoginFailureWindow)
               /\ attempt' \in [Attempts -> Places] /\ request' \in [Requests -> Stages]
               /\ wrong' \in 0..MaxWrong /\ most' \in Nat
    BY DEF TypeOK, Records, Places, Stages
<1>4. CASE CreateUser
    BY <1>2, <1>4 DEF CreateUser
<1>5. CASE ResetPassword
    BY <1>2, <1>5, RevokedSessions DEF ResetPassword
<1>6. CASE DisableUser
    BY <1>2, <1>6, RevokedSessions DEF DisableUser
<1>7. CASE Tick
    BY <1>2, <1>7, OlderSessions, OlderFailures, OlderRequests DEF Tick
<1>8. ASSUME NEW a \in Attempts, NEW password \in Passwords, BeginLogin(a, password)
      PROVE  TypeOK'
  <2>1. [pc |-> "counted", password |-> password] \in Places
    BY DEF Places
  <2>2. attempt' \in [Attempts -> Places]
    BY <1>8, <2>1, MovedAttempt DEF BeginLogin
  <2>3. wrong' \in 0..MaxWrong
    BY <1>2, <1>8 DEF BeginLogin, LoginAssumption
  <2>4. most' \in Nat
    BY <1>2, <1>8, <2>1, RunningMoves DEF BeginLogin, Larger
  <2> QED
    BY <1>2, <1>8, <2>2, <2>3, <2>4 DEF BeginLogin, TypeOK, Records, Places, Stages
<1>9. ASSUME NEW a \in Attempts, CheckCredential(a) PROVE TypeOK'
  <2>1. PICK p \in {"verified", "refused"} : attempt' = [attempt EXCEPT ![a] = [pc |-> p]]
    BY <1>9 DEF CheckCredential
  <2>2. [pc |-> p] \in Places
    BY DEF Places
  <2>3. attempt' \in [Attempts -> Places]
    BY <2>1, <2>2, MovedAttempt
  <2> QED
    BY <1>2, <1>9, <2>3 DEF CheckCredential, TypeOK, Records, Places, Stages
<1>10. ASSUME NEW a \in Attempts, RefuseLogin(a) PROVE TypeOK'
  <2>1. attempt' \in [Attempts -> Places]
    <3>1. Idle \in Places
      BY DEF Places
    <3> QED
      BY <1>10, <3>1, MovedAttempt DEF RefuseLogin
  <2>2. failures' \in Seq(1..LoginFailureWindow)
    <3>1. LoginFailureWindow \in 1..LoginFailureWindow
      BY DEF LoginAssumption
    <3>2. Append(failures, LoginFailureWindow) \in Seq(1..LoginFailureWindow)
      BY <1>2, <3>1, AppendProperties
    <3>3. failures' = failures \/ failures' = Append(failures, LoginFailureWindow)
      BY <1>10 DEF RefuseLogin
    <3> QED
      BY <1>2, <3>2, <3>3
  <2> QED
    BY <1>2, <1>10, <2>1, <2>2 DEF RefuseLogin, TypeOK, Records, Places, Stages
<1>11. ASSUME NEW a \in Attempts, ReplaceSessions(a) PROVE TypeOK'
  <2>1. [pc |-> "replacing", seen |-> Unrevoked] \in Places
    BY DEF Places, Unrevoked
  <2>2. attempt' \in [Attempts -> Places]
    BY <1>11, <2>1, MovedAttempt DEF ReplaceSessions
  <2> QED
    BY <1>2, <1>11, <2>2 DEF ReplaceSessions, TypeOK, Records, Places, Stages
<1>12. ASSUME NEW a \in Attempts, NEW s \in Ids, CommitLogin(a, s) PROVE TypeOK'
  <2>1. Idle \in Places
    BY DEF Places
  <2>2. attempt' \in [Attempts -> Places] /\ sessions' \in [Ids -> Records]
    BY <1>12, <2>1, MovedAttempt, MadeSession DEF CommitLogin
  <2> QED
    BY <1>2, <1>12, <2>2 DEF CommitLogin, TypeOK, Records, Places, Stages
<1>13. ASSUME NEW a \in Attempts, FailLogin(a) PROVE TypeOK'
  <2>1. Idle \in Places
    BY DEF Places
  <2>2. attempt' \in [Attempts -> Places]
    BY <1>13, <2>1, MovedAttempt DEF FailLogin
  <2> QED
    BY <1>2, <1>13, <2>2 DEF FailLogin, TypeOK, Records, Places, Stages
<1>14. ASSUME NEW p \in Requests,
              TouchSession(p) \/ LockSession(p) \/ EndRequest(p) \/ \E s \in Ids : BeginRequest(p, s)
       PROVE  TypeOK'
  <2>1. request' \in [Requests -> Stages] /\ sessions' \in [Ids -> Records]
    BY <1>2, <1>14, UsedSession, RequestSteps DEF LockSession, EndRequest, BeginRequest
  <2> QED
    BY <1>2, <1>14, <2>1
       DEF TouchSession, LockSession, EndRequest, BeginRequest, TypeOK, Records, Places, Stages
<1>15. ASSUME NEW s \in Ids, Revoke(s) PROVE TypeOK'
    BY <1>2, <1>15, RevokedSessions DEF Revoke, TypeOK, Records, Places, Stages
<1>16. CASE UNCHANGED vars
    BY <1>2, <1>16 DEF vars
<1>17. TypeOK' => /\ user' \in [status : {"absent", "active", "disabled"}, password : Passwords]
                  /\ sessions' \in [Ids -> Records] /\ failures' \in Seq(1..LoginFailureWindow)
                  /\ attempt' \in [Attempts -> Places] /\ request' \in [Requests -> Stages]
                  /\ wrong' \in 0..MaxWrong /\ most' \in Nat
    BY DEF TypeOK, Records, Places, Stages
<1> QED
    BY <1>4, <1>5, <1>6, <1>7, <1>8, <1>9, <1>10, <1>11, <1>12, <1>13, <1>14, <1>15, <1>16, <1>17
       DEF Next, Login

\* The most logins that ran at once are no fewer than those that run now.
LEMMA RunningKept ==
    ASSUME LoginAssumption, TypeOK, RunningInv, [Next]_vars
    PROVE  RunningInv' /\ most <= most'
<1>1. most \in Nat /\ Idle \in Places /\ Idle.pc = "idle"
    BY DEF TypeOK, Places, Idle
<1>2. CASE UNCHANGED <<attempt, most>>
    BY <1>1, <1>2 DEF RunningInv, Running
<1>3. ASSUME NEW a \in Attempts, NEW password \in Passwords, BeginLogin(a, password)
      PROVE  RunningInv' /\ most <= most'
  <2> DEFINE place == [pc |-> "counted", password |-> password]
  <2>1. place \in Places /\ attempt' = [attempt EXCEPT ![a] = place]
    BY <1>3 DEF Places, BeginLogin
  <2>2. Cardinality(Running') \in Nat
    BY <2>1, RunningMoves
  <2> QED
    BY <1>1, <1>3, <2>2 DEF BeginLogin, Larger, RunningInv
<1>4. ASSUME NEW a \in Attempts, attempt[a].pc # "idle", NEW place \in Places,
             attempt' = [attempt EXCEPT ![a] = place], most' = most
      PROVE  RunningInv' /\ most <= most'
  <2>1. a \in Running
    BY <1>1, <1>4 DEF Running
  <2>2. /\ IsFiniteSet(Running) /\ Cardinality(Running) \in Nat
        /\ Cardinality(Running') \in Nat /\ Running' \subseteq Running
    BY <1>4, <2>1, RunningMoves
  <2>3. Cardinality(Running') <= Cardinality(Running)
    BY <2>2, FS_Subset
  <2> QED
    BY <1>1, <1>4, <2>2, <2>3 DEF RunningInv
<1>5. ASSUME NEW a \in Attempts, CheckCredential(a) PROVE RunningInv' /\ most <= most'
  <2>1. PICK p \in {"verified", "refused"} : attempt' = [attempt EXCEPT ![a] = [pc |-> p]]
    BY <1>5 DEF CheckCredential
  <2>2. [pc |-> p] \in Places
    BY DEF Places
  <2>3. attempt[a].pc # "idle" /\ most' = most
    BY <1>5 DEF CheckCredential
  <2> QED
    BY <1>4, <2>1, <2>2, <2>3
<1>6. ASSUME NEW a \in Attempts, ReplaceSessions(a) PROVE RunningInv' /\ most <= most'
  <2> DEFINE place == [pc |-> "replacing", seen |-> Unrevoked]
  <2>1. place \in Places
    BY DEF Places, Unrevoked
  <2> QED
    BY <1>4, <1>6, <2>1 DEF ReplaceSessions
<1>7. ASSUME NEW a \in Attempts, RefuseLogin(a) \/ FailLogin(a) \/ \E s \in Ids : CommitLogin(a, s)
      PROVE  RunningInv' /\ most <= most'
    BY <1>1, <1>4, <1>7 DEF RefuseLogin, FailLogin, CommitLogin
<1> QED
    BY <1>2, <1>3, <1>5, <1>6, <1>7
       DEF Next, vars, Login, CreateUser, ResetPassword, DisableUser, Tick, BeginRequest,
           LockSession, TouchSession, EndRequest, Revoke

\* In a set of at most one element two elements are the same.
LEMMA OneElement ==
    ASSUME NEW S, IsFiniteSet(S), Cardinality(S) <= 1, NEW a \in S, NEW b \in S
    PROVE  a = b
<1>1. SUFFICES ASSUME a # b PROVE FALSE
    OBVIOUS
<1>2. IsFiniteSet({a}) /\ Cardinality({a}) = 1
    BY FS_Singleton
<1>3. IsFiniteSet({a} \cup {b}) /\ Cardinality({a} \cup {b}) = 2
  <2>1. b \notin {a}
    BY <1>1
  <2>2. IsFiniteSet({a} \cup {b}) /\ Cardinality({a} \cup {b}) = Cardinality({a}) + 1
    BY <1>2, <2>1, FS_AddElement
  <2> QED
    BY <1>2, <2>2
<1>4. {a} \cup {b} \subseteq S
    OBVIOUS
<1>5. Cardinality({a} \cup {b}) <= Cardinality(S) /\ Cardinality(S) \in Nat
    BY <1>4, FS_Subset, FS_CardinalityType
<1> QED
    BY <1>3, <1>5

\* Whoever is counted finds the failures below the limit, and whoever records
\* one is in flight no longer.
LEMMA CountKept ==
    ASSUME LoginAssumption, TypeOK, RunningInv, CountInv, [Next]_vars
    PROVE  CountInv'
<1>1. /\ failures \in Seq(1..LoginFailureWindow) /\ Len(failures) \in Nat
      /\ IsFiniteSet(Attempts) /\ most \in Nat
    BY DEF TypeOK, LoginAssumption
<1>2. InFlight \subseteq Attempts /\ IsFiniteSet(InFlight) /\ Cardinality(InFlight) \in Nat
    BY <1>1, FS_Subset, FS_CardinalityType DEF InFlight
<1>3. ASSUME UNCHANGED <<failures, attempt, most>> PROVE CountInv'
    BY <1>3 DEF CountInv, InFlight
<1>4. CASE Tick
  <2>1. Len(failures') <= Len(failures) /\ Len(failures') \in Nat
    BY <1>4, OlderFailures, LenProperties
  <2>2. InFlight' = InFlight /\ most' = most
    BY <1>4 DEF Tick, InFlight
  <2> QED
    BY <1>1, <1>2, <2>1, <2>2 DEF CountInv, LoginAssumption
<1>5. ASSUME NEW a \in Attempts, NEW password \in Passwords, BeginLogin(a, password)
      PROVE  CountInv'
  <2> DEFINE place == [pc |-> "counted", password |-> password]
  <2>1. place \in Places
    BY DEF Places
  <2>2. /\ Cardinality(InFlight') \in Nat /\ Cardinality(Running') \in Nat
        /\ Cardinality(InFlight') <= Cardinality(Running')
    BY <1>5, <2>1, RunningMoves DEF BeginLogin
  <2>3. Len(failures) < LoginFailureLimit /\ failures' = failures
    BY <1>1, <1>5 DEF BeginLogin, Throttled, LoginAssumption
  <2>4. Cardinality(Running') <= most' /\ most' \in Nat
    <3>1. [Next]_vars
      BY <1>5 DEF Next
    <3>2. RunningInv' /\ most' \in Nat
      BY <3>1, RunningKept, LoginTypes DEF TypeOK
    <3> QED
      BY <3>2 DEF RunningInv
  <2> QED
    BY <1>1, <2>2, <2>3, <2>4 DEF CountInv, LoginAssumption
<1>6. ASSUME NEW a \in Attempts, CheckCredential(a) PROVE CountInv'
  <2>1. PICK p \in {"verified", "refused"} : attempt' = [attempt EXCEPT ![a] = [pc |-> p]]
    BY <1>6 DEF CheckCredential
  <2>2. [pc |-> p] \in Places
    BY DEF Places
  <2>3. a \in InFlight /\ failures' = failures /\ most' = most
    BY <1>6 DEF CheckCredential, InFlight
  <2>4. /\ IsFiniteSet(InFlight') /\ Cardinality(InFlight') \in Nat
        /\ InFlight' = InFlight \ {a} \/ InFlight' = InFlight \cup {a}
    BY <2>1, <2>2, RunningMoves
  <2>5. InFlight' \subseteq InFlight
    BY <2>3, <2>4
  <2>6. Cardinality(InFlight') <= Cardinality(InFlight)
    BY <1>2, <2>5, FS_Subset
  <2> QED
    BY <1>1, <1>2, <2>3, <2>4, <2>6 DEF CountInv, LoginAssumption
<1>7. ASSUME NEW a \in Attempts, RefuseLogin(a) PROVE CountInv'
  <2>1. Idle \in Places /\ Idle.pc = "idle"
    BY DEF Places, Idle
  <2>2. InFlight' = InFlight \ {a} /\ a \in InFlight /\ most' = most
    BY <1>7, <2>1, RunningMoves DEF RefuseLogin, InFlight
  <2>3. Cardinality(InFlight') = Cardinality(InFlight) - 1
    BY <1>2, <2>2, FS_RemoveElement
  <2>4. Len(failures') = Len(failures) \/ Len(failures') = Len(failures) + 1
    <3>1. Len(Append(failures, LoginFailureWindow)) = Len(failures) + 1
      BY <1>1, AppendProperties DEF LoginAssumption
    <3>2. failures' = failures \/ failures' = Append(failures, LoginFailureWindow)
      BY <1>7 DEF RefuseLogin
    <3> QED
      BY <3>1, <3>2
  <2> QED
    BY <1>1, <1>2, <2>2, <2>3, <2>4 DEF CountInv, LoginAssumption
<1>8. ASSUME NEW a \in Attempts, NEW place \in Places, place.pc \notin {"counted", "refused"},
             attempt' = [attempt EXCEPT ![a] = place], UNCHANGED <<failures, most>>
      PROVE  CountInv'
  <2>1. InFlight' = InFlight \ {a} /\ Cardinality(InFlight') \in Nat
    BY <1>8, RunningMoves
  <2>2. Cardinality(InFlight') <= Cardinality(InFlight)
    BY <1>2, <2>1, FS_Subset
  <2> QED
    BY <1>1, <1>2, <1>8, <2>1, <2>2 DEF CountInv, LoginAssumption
<1>9. Idle \in Places /\ Idle.pc = "idle"
    BY DEF Places, Idle
<1>10. ASSUME NEW a \in Attempts, ReplaceSessions(a) PROVE CountInv'
  <2> DEFINE place == [pc |-> "replacing", seen |-> Unrevoked]
  <2>1. place \in Places /\ place.pc = "replacing"
    BY DEF Places, Unrevoked
  <2> QED
    BY <1>8, <1>10, <2>1 DEF ReplaceSessions
<1>11. ASSUME NEW a \in Attempts, FailLogin(a) \/ \E s \in Ids : CommitLogin(a, s)
       PROVE  CountInv'
    BY <1>8, <1>9, <1>11 DEF FailLogin, CommitLogin
<1> QED
    BY <1>3, <1>4, <1>5, <1>6, <1>7, <1>10, <1>11
       DEF Next, vars, Login, CreateUser, ResetPassword, DisableUser, BeginRequest,
           LockSession, TouchSession, EndRequest, Revoke

\* What a step may do to a session that it does not make: no step takes a revocation
\* back or adds to the life of a session, and only a request that uses it gives it
\* time to idle.
LEMMA SessionSteps ==
    ASSUME LoginAssumption, TypeOK, [Next]_vars,
           NEW s \in Ids, ~(\E a \in Attempts : CommitLogin(a, s))
    PROVE  /\ sessions'[s].made = sessions[s].made
           /\ sessions[s].revoked => sessions'[s].revoked
           /\ sessions'[s].absolute <= sessions[s].absolute
           /\ \/ sessions'[s].idle <= sessions[s].idle
              \/ \E p \in Holding : request[p].session = s
<1> DEFINE Goal == /\ sessions'[s].made = sessions[s].made
                   /\ sessions[s].revoked => sessions'[s].revoked
                   /\ sessions'[s].absolute <= sessions[s].absolute
                   /\ \/ sessions'[s].idle <= sessions[s].idle
                      \/ \E p \in Holding : request[p].session = s
<1>1. sessions[s] \in Records /\ sessions[s].idle \in Int /\ sessions[s].absolute \in Int
    BY DEF TypeOK, Records, LoginAssumption
<1>2. ASSUME NEW S, \/ sessions' = Revoked(S)
                    \/ sessions'[s] = Revoked(S)[s]
      PROVE  Goal
  <2>1. /\ Revoked(S)[s].made = sessions[s].made
        /\ Revoked(S)[s].idle = sessions[s].idle
        /\ Revoked(S)[s].absolute = sessions[s].absolute
        /\ s \in S => Revoked(S)[s].revoked
        /\ s \notin S => Revoked(S)[s].revoked = sessions[s].revoked
    BY RevokedSessions
  <2>2. sessions'[s] = Revoked(S)[s]
    BY <1>2
  <2> QED
    BY <1>1, <2>1, <2>2
<1>3. CASE ResetPassword \/ DisableUser
    BY <1>2, <1>3 DEF ResetPassword, DisableUser
<1>4. CASE Tick
    BY <1>4, OlderSessions
<1>5. ASSUME NEW a \in Attempts, NEW t \in Ids, CommitLogin(a, t) PROVE Goal
  <2>1. t # s
    BY <1>5
  <2>2. sessions'[s] = Revoked(attempt[a].seen)[s]
    BY <1>5, <2>1, MadeSession
  <2> QED
    BY <1>2, <2>2
<1>6. ASSUME NEW p \in Requests, TouchSession(p) PROVE Goal
  <2>1. p \in Holding
    BY <1>6, UsedSession
  <2>2. /\ sessions'[s].made = sessions[s].made
        /\ sessions'[s].revoked = sessions[s].revoked
        /\ sessions'[s].absolute = sessions[s].absolute
        /\ s # request[p].session => sessions'[s] = sessions[s]
    BY <1>6, UsedSession
  <2> QED
    BY <1>1, <2>1, <2>2
<1>7. ASSUME NEW t \in Ids, Revoke(t) PROVE Goal
    BY <1>2, <1>7 DEF Revoke
<1>8. ASSUME UNCHANGED sessions PROVE Goal
    BY <1>1, <1>8
<1> QED
    BY <1>3, <1>4, <1>5, <1>6, <1>7, <1>8
       DEF Next, vars, Login, CreateUser, BeginLogin, CheckCredential, RefuseLogin,
           ReplaceSessions, FailLogin, BeginRequest, LockSession, EndRequest

\* A session that is not revoked now was not before, unless it is made now.
LEMMA NothingRevives ==
    ASSUME LoginAssumption, TypeOK, [Next]_vars,
           NEW s \in Ids, s \in Unrevoked', ~(\E a \in Attempts : CommitLogin(a, s))
    PROVE  s \in Unrevoked
BY SessionSteps DEF Unrevoked, Made

\* The rows are held by one request at a time, and while they are held nothing
\* happens to the session but that time passes, as it does for the transaction.
LEMMA HeldKept ==
    ASSUME LoginAssumption, TypeOK, LocksInv, [Next]_vars
    PROVE  LocksInv'
<1>1. ASSUME Holding' = {} PROVE LocksInv'
    BY <1>1 DEF LocksInv
<1>2. ASSUME UNCHANGED <<sessions, request>> PROVE LocksInv'
    BY <1>2 DEF LocksInv, Holding, ActiveAt, Made
<1>3. ASSUME Holding = {}, UNCHANGED request PROVE LocksInv'
    BY <1>1, <1>3 DEF Holding
<1>4. CASE Tick
  <2>1. Holding' = Holding
    BY <1>4, OlderRequests DEF Holding, NoRequest
  <2>2. ASSUME NEW q \in Holding
        PROVE  ActiveAt(request[q].session, request[q].age)'
    <3>1. PICK stage \in [pc : {"begun", "locked"}, session : Ids, age : 0..MaxWait] :
            stage = request[q]
      BY DEF Holding, TypeOK, NoRequest
    <3>2. PICK s \in Ids : s = stage.session
      OBVIOUS
    <3>3. request'[q].session = s /\ request'[q].age = stage.age + 1
      BY <1>4, <3>1, <3>2, OlderRequests DEF Holding, NoRequest
    <3>4. /\ sessions[s] \in Records /\ ActiveAt(s, stage.age)
      BY <3>1, <3>2 DEF LocksInv, TypeOK, Records
    <3>5. sessions[s].idle > -MaxWait /\ sessions[s].absolute > -MaxWait
      BY <3>4 DEF ActiveAt, Records, LoginAssumption
    <3>6. /\ sessions'[s].made = sessions[s].made /\ sessions'[s].revoked = sessions[s].revoked
          /\ sessions'[s].idle = sessions[s].idle - 1
          /\ sessions'[s].absolute = sessions[s].absolute - 1
      BY <1>4, <3>5, OlderSessions
    <3> QED
      BY <3>3, <3>4, <3>6 DEF ActiveAt, Made, Records, LoginAssumption
  <2> QED
    BY <2>1, <2>2 DEF LocksInv
<1>5. ASSUME NEW p \in Requests, TouchSession(p) PROVE LocksInv'
  <2>1. p \in Holding /\ request'[p] = NoRequest /\ \A q \in Requests : q # p => request'[q] = request[q]
    BY <1>5, UsedSession
  <2>2. Holding' = {}
    BY <2>1 DEF LocksInv, Holding, NoRequest
  <2> QED
    BY <1>1, <2>2
<1>6. ASSUME NEW p \in Requests, LockSession(p) PROVE LocksInv'
  <2>1. \A q \in Requests : q # p => request'[q] = request[q]
    BY <1>6, RequestSteps
  <2>2. Holding' \subseteq {p}
    BY <1>6, <2>1 DEF LockSession, Holding
  <2>3. request'[p].session = request[p].session /\ request'[p].age = request[p].age
    BY <1>6 DEF LockSession, TypeOK
  <2>4. ActiveAt(request[p].session, request[p].age) /\ UNCHANGED sessions
    BY <1>6 DEF LockSession, Accepted
  <2> QED
    BY <2>2, <2>3, <2>4 DEF LocksInv, ActiveAt, Made
<1>7. ASSUME NEW p \in Requests, UNCHANGED sessions, p \notin Holding',
             \A q \in Requests : q # p => request'[q] = request[q]
      PROVE  LocksInv'
  <2>1. \A q \in Holding' : q \in Holding /\ request'[q] = request[q]
    BY <1>7 DEF Holding
  <2> QED
    BY <1>7, <2>1 DEF LocksInv, ActiveAt, Made
<1>8. ASSUME NEW p \in Requests, EndRequest(p) PROVE LocksInv'
  <2>1. p \notin Holding'
    BY <1>8 DEF EndRequest, Holding, NoRequest, TypeOK
  <2> QED
    BY <1>7, <1>8, <2>1, RequestSteps DEF EndRequest
<1>9. ASSUME NEW p \in Requests, NEW s \in Ids, BeginRequest(p, s) PROVE LocksInv'
  <2>1. p \notin Holding'
    BY <1>9 DEF BeginRequest, Holding, TypeOK
  <2> QED
    BY <1>7, <1>9, <2>1, RequestSteps DEF BeginRequest
<1> QED
    BY <1>2, <1>3, <1>4, <1>5, <1>6, <1>8, <1>9
       DEF Next, vars, Login, CreateUser, ResetPassword, DisableUser, BeginLogin, CheckCredential,
           RefuseLogin, ReplaceSessions, CommitLogin, FailLogin, Revoke

\* A login that has seen every session that is not revoked leaves its own as the
\* only one.
LEMMA AloneKept ==
    ASSUME LoginAssumption, TypeOK, RunningInv, AloneInv, [Next]_vars
    PROVE  AloneInv'
<1> SUFFICES ASSUME most' <= 1
             PROVE  /\ \A s, t \in Unrevoked' : s = t
                    /\ \A a \in Attempts :
                          attempt'[a].pc = "replacing" => Unrevoked' \subseteq attempt'[a].seen
    BY DEF AloneInv
<1>0. /\ most <= 1 /\ TypeOK' /\ RunningInv'
      /\ \A a, b \in Running : a = b
      /\ \A a, b \in Running' : a = b
  <2>1. TypeOK' /\ RunningInv' /\ most <= most'
    BY LoginTypes, RunningKept
  <2>2. most <= 1
    BY <2>1 DEF TypeOK
  <2>3. /\ IsFiniteSet(Running) /\ Cardinality(Running) <= 1
        /\ IsFiniteSet(Running') /\ Cardinality(Running') <= 1
    <3>1. IsFiniteSet(Running) /\ IsFiniteSet(Running')
      BY FS_Subset DEF Running, LoginAssumption
    <3>2. Cardinality(Running) \in Nat /\ Cardinality(Running') \in Nat
      BY <3>1, FS_CardinalityType
    <3> QED
      BY <2>1, <2>2, <3>1, <3>2 DEF TypeOK, RunningInv
  <2> QED
    BY <2>1, <2>2, <2>3, OneElement
<1>1. /\ \A s, t \in Unrevoked : s = t
      /\ \A a \in Attempts :
            attempt[a].pc = "replacing" => Unrevoked \subseteq attempt[a].seen
    BY <1>0 DEF AloneInv
<1>2. ASSUME NEW a \in Attempts, NEW s \in Ids, CommitLogin(a, s)
      PROVE  /\ \A t, u \in Unrevoked' : t = u
             /\ \A b \in Attempts :
                   attempt'[b].pc = "replacing" => Unrevoked' \subseteq attempt'[b].seen
  <2>1. ASSUME NEW t \in Unrevoked', t # s PROVE FALSE
    <3>0. t \in Ids /\ ~sessions'[t].revoked
      BY DEF Unrevoked
    <3>1. ~(\E b \in Attempts : CommitLogin(b, t))
      <4>1. ~Made(s) /\ Made(s)'
        BY <1>2, MadeSession
      <4>2. ASSUME NEW b \in Attempts, CommitLogin(b, t) PROVE FALSE
        <5>1. sessions'[s] = Revoked(attempt[b].seen)[s]
          BY <2>1, <3>0, <4>2, MadeSession
        <5>2. Revoked(attempt[b].seen)[s].made = sessions[s].made
          BY RevokedSessions
        <5> QED
          BY <4>1, <5>1, <5>2 DEF Made
      <4> QED
        BY <4>2
    <3>2. t \in Unrevoked
      BY <3>0, <3>1, NothingRevives
    <3>3. t \in attempt[a].seen
      BY <1>1, <1>2, <3>2 DEF CommitLogin
    <3>4. sessions'[t].revoked
      BY <1>2, <2>1, <3>0, <3>3, MadeSession, RevokedSessions
    <3> QED
      BY <3>0, <3>4
  <2>2. \A b \in Attempts : attempt'[b] = Idle
    <3>1. Idle \in Places /\ a \in Running
      BY <1>2 DEF Places, CommitLogin, Running, Idle
    <3> QED
      BY <1>0, <1>2, <3>1, MovedAttempt DEF CommitLogin, Running
  <2> QED
    BY <2>1, <2>2 DEF Idle, Unrevoked
<1>3. ASSUME \A a \in Attempts, s \in Ids : ~CommitLogin(a, s)
      PROVE  /\ \A t, u \in Unrevoked' : t = u
             /\ \A b \in Attempts :
                   attempt'[b].pc = "replacing" => Unrevoked' \subseteq attempt'[b].seen
  <2>1. Unrevoked' \subseteq Unrevoked
    BY <1>3, NothingRevives DEF Unrevoked
  <2>2. ASSUME NEW b \in Attempts, NEW t \in Unrevoked', attempt'[b].pc = "replacing"
        PROVE  t \in attempt'[b].seen
    <3>1. CASE attempt'[b] = attempt[b]
      BY <1>1, <2>1, <2>2, <3>1
    <3>2. ASSUME NEW a \in Attempts, ReplaceSessions(a) PROVE t \in attempt'[b].seen
      <4> DEFINE place == [pc |-> "replacing", seen |-> Unrevoked]
      <4>1. place \in Places
        BY DEF Places, Unrevoked
      <4>2. attempt' = [attempt EXCEPT ![a] = place]
        BY <3>2 DEF ReplaceSessions
      <4>3. attempt'[a] = place
        BY <4>1, <4>2, MovedAttempt
      <4>4. b = a
        BY <1>0, <2>2, <4>3 DEF Running, Idle
      <4>5. attempt'[b] = place
        BY <4>3, <4>4
      <4> QED
        BY <2>1, <2>2, <4>5
    <3>3. ASSUME NEW a \in Attempts, NEW place \in Places, place.pc # "replacing",
                 attempt' = [attempt EXCEPT ![a] = place]
          PROVE  t \in attempt'[b].seen
        BY <2>2, <3>1, <3>3, MovedAttempt
    <3>4. Idle \in Places /\ Idle.pc # "replacing"
      BY DEF Places, Idle
    <3>5. ASSUME NEW a \in Attempts, CheckCredential(a) PROVE t \in attempt'[b].seen
      <4>1. PICK p \in {"verified", "refused"} : attempt' = [attempt EXCEPT ![a] = [pc |-> p]]
        BY <3>5 DEF CheckCredential
      <4>2. [pc |-> p] \in Places /\ [pc |-> p].pc # "replacing"
        BY DEF Places
      <4> QED
        BY <3>3, <4>1, <4>2
    <3>6. ASSUME NEW a \in Attempts, NEW password \in Passwords, BeginLogin(a, password)
          PROVE  t \in attempt'[b].seen
      <4> DEFINE place == [pc |-> "counted", password |-> password]
      <4>1. place \in Places /\ place.pc # "replacing"
        BY DEF Places
      <4> QED
        BY <3>3, <3>6, <4>1 DEF BeginLogin
    <3>7. ASSUME NEW a \in Attempts, RefuseLogin(a) \/ FailLogin(a)
          PROVE  t \in attempt'[b].seen
      BY <3>3, <3>4, <3>7 DEF RefuseLogin, FailLogin
    <3> QED
      BY <1>3, <3>1, <3>2, <3>5, <3>6, <3>7
         DEF Next, vars, Login, CreateUser, ResetPassword, DisableUser, Tick, BeginRequest,
             LockSession, TouchSession, EndRequest, Revoke
  <2> QED
    BY <1>1, <2>1, <2>2
<1> QED
    BY <1>2, <1>3

\* The invariant of the logins holds in every state.
THEOREM LoginInvariant == ASSUME LoginAssumption PROVE Spec => []LoginInv
<1>1. Init => LoginInv
    BY LoginStarts
<1>2. LoginInv /\ [Next]_vars => LoginInv'
    BY LoginTypes, RunningKept, CountKept, AloneKept, HeldKept DEF LoginInv
<1> QED
    BY <1>1, <1>2, PTL DEF Spec

\* Attempts pass the failure limit by no more than ever overlapped, and logins that
\* do not overlap leave a user one session.
THEOREM LoginsTheorem == ASSUME LoginAssumption PROVE Spec => []LoginsAreBounded
<1>1. LoginInv => LoginsAreBounded
  <2> SUFFICES ASSUME LoginInv PROVE LoginsAreBounded
    OBVIOUS
  <2>1. /\ Len(failures) \in Nat /\ most \in Nat
        /\ InFlight \subseteq Attempts /\ IsFiniteSet(Attempts)
    BY DEF LoginInv, TypeOK, LoginAssumption, InFlight
  <2>2. Cardinality(InFlight) \in Nat
    BY <2>1, FS_Subset, FS_CardinalityType
  <2> QED
    BY <2>1, <2>2 DEF LoginInv, CountInv, AloneInv, LoginsAreBounded, OvershootIsBounded,
                      OneSession, Unrevoked, Active, ActiveAt, LoginAssumption
<1> QED
    BY <1>1, LoginInvariant, PTL

\* A session that ended by revocation or by age never comes back, although every
\* request that uses a session writes its row again; one that has idled out comes
\* back only through a request that began before and was held up since.
THEOREM EndedTheorem == ASSUME LoginAssumption PROVE Spec => EndedStaysEnded
<1>1. TypeOK /\ LocksInv /\ [Next]_vars =>
        [\A s \in Ids : (Ended(s) => Ended(s)') /\ (Over(s) => Over(s)' \/ InTime(s) # {})]_vars
  <2> SUFFICES ASSUME TypeOK, LocksInv, [Next]_vars, NEW s \in Ids, Made(s)
               PROVE  (Ended(s) => Ended(s)') /\ (Over(s) => Over(s)' \/ InTime(s) # {})
    BY DEF Ended, Over
  <2>1. ~(\E a \in Attempts : CommitLogin(a, s))
    BY MadeSession
  <2>2. /\ sessions'[s].made = sessions[s].made
        /\ sessions[s].revoked => sessions'[s].revoked
        /\ sessions'[s].absolute <= sessions[s].absolute
        /\ \/ sessions'[s].idle <= sessions[s].idle
           \/ \E p \in Holding : request[p].session = s
    BY <2>1, SessionSteps
  <2>3. /\ sessions[s].idle \in Int /\ sessions[s].absolute \in Int
        /\ sessions'[s].idle \in Int /\ sessions'[s].absolute \in Int
    <3>1. sessions[s] \in Records /\ sessions'[s] \in Records
      BY LoginTypes DEF TypeOK, Records
    <3> QED
      BY <3>1 DEF Records, LoginAssumption
  <2>4. Ended(s) => Ended(s)'
    BY <2>2, <2>3 DEF Ended, Made
  <2>5. CASE \E p \in Holding : request[p].session = s
    BY <2>4, <2>5 DEF InTime, LocksInv
  <2>6. CASE sessions'[s].idle <= sessions[s].idle
    BY <2>2, <2>3, <2>4, <2>6 DEF Over, Active, ActiveAt, Made
  <2> QED
    BY <2>2, <2>5, <2>6
<1>2. LoginInv => TypeOK /\ LocksInv
    BY DEF LoginInv
<1> QED
    BY <1>1, <1>2, LoginInvariant, PTL DEF Spec, EndedStaysEnded

-------------------------------------------------------------------------------
(* Lists and their pages.                                                    *)

Positions == [key : Int, id : Int]

\* The order of a list is a strict total order of positions.
LEMMA ListOrder ==
    ASSUME NEW p \in Positions, NEW q \in Positions, NEW r \in Positions
    PROVE  /\ ~Before(p, p)
           /\ Before(p, q) => ~Before(q, p)
           /\ Before(p, q) /\ Before(q, r) => Before(p, r)
           /\ Before(p, q) \/ Before(q, p) \/ p = q
BY DEF Before, Positions

\* Row r comes before row s in the list; the rows of B before r, and behind it.
Above(r, s) == Before(Position(r), Position(s))
AllAbove(B, r) == {s \in B : Above(s, r)}
AllBelow(B, r) == {s \in B : Above(r, s)}

\* The first n rows of B, as LIMIT n takes them.
First(B, n) == {r \in B : Cardinality(AllAbove(B, r)) < n}

\* The order of the list, for rows.
LEMMA RowOrder ==
    ASSUME ListsAssumption, key \in [Rows -> Int],
           NEW r \in Rows, NEW s \in Rows, NEW t \in Rows
    PROVE  /\ Position(r) \in Positions /\ Position(s) \in Positions
           /\ ~Above(r, r)
           /\ Above(r, s) => ~Above(s, r)
           /\ Above(r, s) /\ Above(s, t) => Above(r, t)
           /\ r = s \/ Above(r, s) \/ Above(s, r)
<1>1. \A x \in Rows : Position(x) \in Positions /\ Position(x).id = x
    BY DEF Position, Positions, ListsAssumption
<1>2. \A x, y \in Rows : Position(x) = Position(y) => x = y
    BY <1>1
<1> QED
    BY <1>1, <1>2, ListOrder DEF Above

\* Rows and their numbers.
LEMMA RowCounts ==
    ASSUME ListsAssumption, NEW B, B \subseteq Rows
    PROVE  /\ IsFiniteSet(B) /\ Cardinality(B) \in Nat
           /\ \A C : C \subseteq B => /\ IsFiniteSet(C) /\ Cardinality(C) \in Nat
                                      /\ Cardinality(C) <= Cardinality(B)
                                      /\ Cardinality(C) = Cardinality(B) => C = B
<1>1. IsFiniteSet(B)
    BY FS_Subset DEF ListsAssumption
<1> QED
    BY <1>1, FS_Subset, FS_CardinalityType

\* Sets of subsets have a least one.
LEMMA LeastSubset ==
    ASSUME NEW S, IsFiniteSet(S), NEW B, B \subseteq SUBSET S, B # {}
    PROVE  \E T \in B : \A U \in B : U \subseteq T => U = T
<1>1. IsWellFoundedOn(StrictSubsetOrdering(S), SUBSET S)
    BY FS_StrictSubsetOrderingWellFounded, FS_FiniteSubsetsOfFinite
<1>2. PICK T \in B : \A U \in B : ~(<<U, T>> \in StrictSubsetOrdering(S))
    BY <1>1, WFMin
<1> QED
    BY <1>2 DEF StrictSubsetOrdering

\* Rows have a first one.
LEMMA FirstRow ==
    ASSUME ListsAssumption, key \in [Rows -> Int], NEW B, B \subseteq Rows, B # {}
    PROVE  \E r \in B : \A s \in B : ~Above(s, r)
<1> DEFINE F == {AllAbove(B, r) : r \in B}
<1>1. IsFiniteSet(B) /\ F \subseteq SUBSET B /\ F # {}
  <2>1. \A r \in B : AllAbove(B, r) \subseteq B
    BY DEF AllAbove
  <2>2. F \subseteq SUBSET B /\ F # {}
    BY <2>1
  <2> QED
    BY <2>2, RowCounts
<1>2. PICK r \in B :
        \A s \in B : AllAbove(B, s) \subseteq AllAbove(B, r) => AllAbove(B, s) = AllAbove(B, r)
  <2>1. PICK T \in F : \A U \in F : U \subseteq T => U = T
    <3> HIDE DEF F
    <3> QED
      BY <1>1, LeastSubset
  <2> QED
    BY <2>1
<1>3. ASSUME NEW s \in B, Above(s, r) PROVE FALSE
  <2>1. AllAbove(B, s) \subseteq AllAbove(B, r)
    BY <1>3, RowOrder DEF AllAbove
  <2>2. s \in AllAbove(B, r) /\ s \notin AllAbove(B, s)
    BY <1>3, RowOrder DEF AllAbove
  <2> QED
    BY <1>2, <2>1, <2>2
<1> QED
    BY <1>3

\* And a last one.
LEMMA LastRow ==
    ASSUME ListsAssumption, key \in [Rows -> Int], NEW B, B \subseteq Rows, B # {}
    PROVE  \E r \in B : \A s \in B : ~Above(r, s)
<1> DEFINE F == {AllBelow(B, r) : r \in B}
<1>1. IsFiniteSet(B) /\ F \subseteq SUBSET B /\ F # {}
  <2>1. \A r \in B : AllBelow(B, r) \subseteq B
    BY DEF AllBelow
  <2>2. F \subseteq SUBSET B /\ F # {}
    BY <2>1
  <2> QED
    BY <2>2, RowCounts
<1>2. PICK r \in B :
        \A s \in B : AllBelow(B, s) \subseteq AllBelow(B, r) => AllBelow(B, s) = AllBelow(B, r)
  <2>1. PICK T \in F : \A U \in F : U \subseteq T => U = T
    <3> HIDE DEF F
    <3> QED
      BY <1>1, LeastSubset
  <2> QED
    BY <2>1
<1>3. ASSUME NEW s \in B, Above(r, s) PROVE FALSE
  <2>1. AllBelow(B, s) \subseteq AllBelow(B, r)
    BY <1>3, RowOrder DEF AllBelow
  <2>2. s \in AllBelow(B, r) /\ s \notin AllBelow(B, s)
    BY <1>3, RowOrder DEF AllBelow
  <2> QED
    BY <1>2, <2>1, <2>2
<1> QED
    BY <1>3

\* A page is an initial piece of the list: it has what is above any of its rows.
LEMMA PageIsInitial ==
    ASSUME ListsAssumption, key \in [Rows -> Int], NEW B, B \subseteq Rows, NEW n \in Nat,
           NEW r \in First(B, n), NEW s \in B, ~Above(r, s)
    PROVE  s \in First(B, n)
<1>1. CASE s = r
    BY <1>1
<1>2. CASE s # r
  <2>1. r \in Rows /\ Above(s, r)
    BY <1>2, RowOrder DEF First
  <2>2. AllAbove(B, s) \subseteq AllAbove(B, r) /\ AllAbove(B, r) \subseteq Rows
    BY <2>1, RowOrder DEF AllAbove
  <2>3. /\ Cardinality(AllAbove(B, s)) \in Nat /\ Cardinality(AllAbove(B, r)) \in Nat
        /\ Cardinality(AllAbove(B, s)) <= Cardinality(AllAbove(B, r))
    BY <2>2, RowCounts
  <2> QED
    BY <2>3 DEF First
<1> QED
    BY <1>1, <1>2

\* One row more than the page holds tells whether the list goes on.
LEMMA OneMoreTells ==
    ASSUME ListsAssumption, key \in [Rows -> Int], NEW B, B \subseteq Rows, NEW n \in Nat \ {0}
    PROVE  /\ Cardinality(First(B, n + 1)) > n => First(B, n) # {}
           /\ ~(Cardinality(First(B, n + 1)) > n) => First(B, n) = B
<1>1. First(B, n) \subseteq B /\ First(B, n + 1) \subseteq B
    BY DEF First
<1>2. Cardinality(First(B, n + 1)) \in Nat
    BY <1>1, RowCounts
<1>3. ASSUME Cardinality(First(B, n + 1)) > n PROVE First(B, n) # {}
  <2>1. B # {}
    BY <1>1, <1>2, <1>3, FS_EmptySet
  <2>2. PICK r \in B : \A s \in B : ~Above(s, r)
    BY <2>1, FirstRow
  <2>3. Cardinality(AllAbove(B, r)) = 0
    BY <2>2, FS_EmptySet DEF AllAbove
  <2> QED
    BY <2>3 DEF First
<1>4. ASSUME First(B, n) # B PROVE Cardinality(First(B, n + 1)) > n
  <2>1. PICK r \in B \ First(B, n) : \A s \in B \ First(B, n) : ~Above(s, r)
    BY <1>1, <1>4, FirstRow
  <2>2. AllAbove(B, r) \subseteq First(B, n)
    BY <2>1 DEF AllAbove
  <2>3. \A s \in B : Cardinality(AllAbove(B, s)) \in Nat
    BY RowCounts DEF AllAbove
  <2>4. First(B, n) \subseteq First(B, n + 1)
    BY <2>3 DEF First
  <2>5. Cardinality(AllAbove(B, r)) >= n /\ IsFiniteSet(AllAbove(B, r))
    BY <2>1, <2>3, RowCounts DEF First, AllAbove
  <2>6. CASE Cardinality(AllAbove(B, r)) > n
    <3>1. AllAbove(B, r) \subseteq First(B, n + 1) /\ First(B, n + 1) \subseteq Rows
      BY <1>1, <2>2, <2>4
    <3> QED
      BY <1>2, <2>3, <2>6, <3>1, RowCounts
  <2>7. CASE Cardinality(AllAbove(B, r)) = n
    <3>1. r \in First(B, n + 1) /\ r \notin AllAbove(B, r)
      BY <2>7, RowOrder DEF First, AllAbove
    <3>2. AllAbove(B, r) \cup {r} \subseteq First(B, n + 1) /\ First(B, n + 1) \subseteq Rows
      BY <1>1, <2>2, <2>4, <3>1
    <3>3. Cardinality(AllAbove(B, r) \cup {r}) = n + 1
      BY <2>5, <2>7, <3>1, FS_AddElement
    <3> QED
      BY <1>2, <3>2, <3>3, RowCounts
  <2> QED
    BY <2>3, <2>5, <2>6, <2>7
<1> QED
    BY <1>3, <1>4

-------------------------------------------------------------------------------
(* Walks.                                                                    *)

Cursors == [key : 0 .. MaxKey, id : Rows]
Walks == [state : {"idle", "walking", "done"}, cursor : Cursors \cup {NoPosition},
          seen : [Rows -> 0 .. 2]]
Changes == [state : {"none", "open", "done"}, row : Rows \cup {0}, since : 0 .. MaxKey,
            expects : Nat]

\* Of the rows that stay as they are, those up to the cursor were shown, once.
UntouchedInv ==
    /\ walk.state = "walking" =>
         /\ walk.cursor \in Cursors
         /\ \A r \in was \ touched :
              /\ r \in exists
              /\ walk.seen[r] = IF Before(walk.cursor, Position(r)) THEN 0 ELSE 1
    /\ walk.state = "done" => \A r \in was \ touched : walk.seen[r] = 1
    /\ walk.state = "idle" => was = {}

\* Only the lists by time have transactions; a change that may still be carried
\* out has a time that is not before that of the row it replaces.
TimesInv ==
    /\ list # "people" => \A r \in Rows : key[r] <= clock
    /\ \A t \in Transactions :
          open[t].state = "open" =>
             /\ list # "people"
             /\ open[t].row \in Rows
             /\ open[t].since <= clock
             /\ open[t].expects <= revision[open[t].row]
             /\ open[t].expects = revision[open[t].row] => key[open[t].row] <= open[t].since

\* In the lists by time what was shown stays up to the cursor.
ShownInv ==
    list # "people" =>
        \A r \in Rows :
           /\ walk.seen[r] <= 1
           /\ walk.state = "walking" /\ walk.seen[r] = 1 =>
                 r \in exists /\ ~Before(walk.cursor, Position(r))

ListInv == ListsTypeOK /\ UntouchedInv /\ TimesInv /\ ShownInv

\* Positions and cursors.
LEMMA CursorFacts ==
    ASSUME ListsAssumption, ListsTypeOK
    PROVE  /\ key \in [Rows -> Int]
           /\ \A r \in Rows : Position(r) \in Cursors /\ Position(r) \in Positions
           /\ Cursors \subseteq Positions
           /\ NoPosition \notin Cursors
<1>1. key \in [Rows -> 0 .. MaxKey] /\ \A k \in 0 .. MaxKey : k \in Int
    BY DEF ListsTypeOK
<1>2. key \in [Rows -> Int] /\ \A r \in Rows : r \in Int
    BY <1>1 DEF ListsAssumption
<1>3. NoPosition \notin Cursors
  <2>1. -1 \notin 0 .. MaxKey
    BY DEF ListsAssumption
  <2> QED
    BY <2>1 DEF NoPosition, Cursors
<1>4. \A r \in Rows : Position(r) \in Cursors /\ Position(r) \in Positions
  <2> TAKE r \in Rows
  <2>1. key[r] \in 0 .. MaxKey /\ key[r] \in Int /\ r \in Int
    BY <1>1, <1>2
  <2> QED
    BY <2>1 DEF Position, Cursors, Positions
<1>5. ASSUME NEW p \in Cursors PROVE p \in Positions
    BY <1>1, <1>2 DEF Cursors, Positions
<1> QED
    BY <1>2, <1>3, <1>4, <1>5

\* What a page shows, and where it leaves the cursor.
LEMMA PageShown ==
    ASSUME ListsAssumption, ListsTypeOK,
           NEW cursor \in Cursors \cup {NoPosition}, NEW seen \in [Rows -> 0 .. 2],
           ShowPage(cursor, seen)
    PROVE  \E page \in SUBSET {r \in exists : Behind(r, cursor)} :
              /\ walk' \in Walks /\ walk'.state \in {"walking", "done"}
              /\ \A r \in Rows :
                    walk'.seen[r] = IF r \in page /\ seen[r] < 2 THEN seen[r] + 1 ELSE seen[r]
              /\ walk'.state = "done" => page = {r \in exists : Behind(r, cursor)}
              /\ walk'.state = "walking" =>
                    \E last \in page :
                       /\ walk'.cursor = Position(last)
                       /\ \A s \in exists : Behind(s, cursor) => (s \in page <=> ~Above(last, s))
<1> DEFINE B == {r \in exists : Behind(r, cursor)}
           page == First(B, PageLimit)
           last == CHOOSE r \in page : \A s \in page : ~Before(Position(r), Position(s))
           grown == [r \in Rows |-> IF r \in page /\ seen[r] < 2 THEN seen[r] + 1 ELSE seen[r]]
           more == Cardinality(First(B, PageLimit + 1)) > PageLimit
<1>1. B \subseteq Rows /\ page \subseteq B /\ key \in [Rows -> Int] /\ PageLimit \in Nat \ {0}
    BY CursorFacts DEF ListsTypeOK, First, ListsAssumption
<1>2. Listed(cursor, PageLimit) = page /\ Listed(cursor, Fetched) = First(B, PageLimit + 1)
    BY DEF Listed, First, AllAbove, Above, Fetched
<1>3. walk' = IF more THEN [state |-> "walking", cursor |-> Position(last), seen |-> grown]
              ELSE [state |-> "done", cursor |-> NoPosition, seen |-> grown]
    BY <1>2 DEF ShowPage
<1>4. grown \in [Rows -> 0 .. 2]
    OBVIOUS
<1>5. ASSUME more
      PROVE  last \in page /\ \A s \in B : s \in page <=> ~Above(last, s)
  <2>1. page # {}
    <3> HIDE DEF B
    <3> QED
      BY <1>1, <1>5, OneMoreTells
  <2>2. \E r \in page : \A s \in page : ~Above(r, s)
    <3>1. page \subseteq Rows
      BY <1>1
    <3> HIDE DEF page
    <3> QED
      BY <1>1, <2>1, <3>1, LastRow
  <2>3. last \in page /\ \A s \in page : ~Above(last, s)
    <3> HIDE DEF page
    <3> QED
      BY <2>2 DEF Above
  <2>4. ASSUME NEW s \in B, ~Above(last, s) PROVE s \in page
    <3> HIDE DEF B, last
    <3> QED
      BY <1>1, <2>3, <2>4, PageIsInitial
  <2> QED
    BY <2>3, <2>4
<1>6. ~more => page = B
  <2> HIDE DEF B
  <2> QED
    BY <1>1, OneMoreTells
<1> HIDE DEF last, more, grown
<1>7. \A r \in Rows : grown[r] = IF r \in page /\ seen[r] < 2 THEN seen[r] + 1 ELSE seen[r]
    BY DEF grown
<1> HIDE DEF page
<1>8. CASE more
  <2>1. Position(last) \in Cursors
    BY <1>1, <1>5, <1>8, CursorFacts
  <2>2. /\ walk' \in Walks /\ walk'.state = "walking" /\ walk'.cursor = Position(last)
        /\ walk'.seen = grown
    BY <1>3, <1>4, <1>8, <2>1 DEF Walks
  <2> QED
    BY <1>1, <1>5, <1>7, <1>8, <2>2
<1>9. CASE ~more
  <2>1. walk' \in Walks /\ walk'.state = "done" /\ walk'.seen = grown
    BY <1>3, <1>4, <1>9 DEF Walks
  <2> QED
    BY <1>1, <1>6, <1>7, <1>9, <2>1
<1> QED
    BY <1>8, <1>9
\* The lists before any change and any walk.
LEMMA ListsStart == ASSUME ListsAssumption, ListsInit PROVE ListInv
<1>1. 0 \in 0 .. MaxKey /\ NotSeen \in [Rows -> 0 .. 2] /\ \A r \in Rows : NotSeen[r] = 0
    BY DEF ListsAssumption, NotSeen
<1>2. key \in [Rows -> 0 .. MaxKey] /\ (list # "people" => \A r \in Rows : key[r] = 0)
    BY <1>1 DEF ListsInit
<1>3. ListsTypeOK
    BY <1>1, <1>2 DEF ListsInit, ListsTypeOK, Closed
<1>4. UntouchedInv /\ ShownInv
    BY <1>1 DEF ListsInit, UntouchedInv, ShownInv
<1>5. TimesInv
    BY <1>2 DEF ListsInit, TimesInv, Closed
<1> QED
    BY <1>3, <1>4, <1>5 DEF ListInv

\* What a commit does to the row of its transaction.
LEMMA CommitsOneRow ==
    ASSUME ListsAssumption, ListsTypeOK, TimesInv, NEW t \in Transactions, Commit(t)
    PROVE  /\ open[t].row \in Rows /\ list # "people"
           /\ open' = [open EXCEPT ![t].state = "done"]
           /\ open[t].since \in 0 .. MaxKey
           /\ \/ /\ key' = [key EXCEPT ![open[t].row] = open[t].since]
                 /\ key[open[t].row] <= open[t].since
                 /\ open[t].since <= clock
                 /\ exists' = exists \cup {open[t].row}
                 /\ revision' = [revision EXCEPT ![open[t].row] = revision[open[t].row] + 1]
                 /\ touched' = touched \cup {open[t].row}
              \/ UNCHANGED <<key, exists, revision, touched>>
           /\ UNCHANGED <<list, clock, renames, starts, walk, was>>
<1>1. open[t].state = "open" /\ open[t] \in Changes
    BY DEF Commit, ListsTypeOK, Changes
<1> QED
    BY <1>1 DEF Commit, Guard, TimesInv, Changes

\* Every step keeps the types.
LEMMA ListsTypes ==
    ASSUME ListsAssumption, ListInv, [ListsNext]_listVars
    PROVE  ListsTypeOK'
<1> USE DEF ListInv
<1>1. /\ list \in {"people", "projects", "audit"}
      /\ key \in [Rows -> 0 .. MaxKey] /\ exists \subseteq Rows /\ revision \in [Rows -> Nat]
      /\ clock \in 0 .. MaxKey /\ open \in [Transactions -> Changes]
      /\ renames \in Nat /\ starts \in Nat /\ walk \in Walks
      /\ was \subseteq Rows /\ touched \subseteq Rows
    BY DEF ListsTypeOK, Changes, Walks, Cursors
<1>2. ASSUME /\ list' \in {"people", "projects", "audit"}
             /\ key' \in [Rows -> 0 .. MaxKey] /\ exists' \subseteq Rows
             /\ revision' \in [Rows -> Nat]
             /\ clock' \in 0 .. MaxKey /\ open' \in [Transactions -> Changes]
             /\ renames' \in Nat /\ starts' \in Nat /\ walk' \in Walks
             /\ was' \subseteq Rows /\ touched' \subseteq Rows
      PROVE  ListsTypeOK'
    BY <1>2 DEF ListsTypeOK, Changes, Walks, Cursors
<1>3. ASSUME NEW r \in Rows, NEW name \in 0 .. MaxKey, Rename(r, name) PROVE ListsTypeOK'
    BY <1>1, <1>2, <1>3 DEF Rename
<1>4. ASSUME NEW t \in Transactions, NEW r \in Rows, Begin(t, r) PROVE ListsTypeOK'
  <2> DEFINE change == [state |-> "open", row |-> r, since |-> clock, expects |-> revision[r]]
  <2>1. change \in Changes
    BY <1>1 DEF Changes
  <2>2. open' = [open EXCEPT ![t] = change]
    BY <1>4 DEF Begin
  <2> HIDE DEF change
  <2> QED
    BY <1>1, <1>2, <1>4, <2>1, <2>2 DEF Begin
<1>5. ASSUME NEW t \in Transactions, Commit(t) PROVE ListsTypeOK'
  <2>1. open' = [open EXCEPT ![t].state = "done"] /\ open[t].row \in Rows
    BY <1>5, CommitsOneRow
  <2>2. open' \in [Transactions -> Changes]
    BY <1>1, <2>1 DEF Changes
  <2> QED
    BY <1>1, <1>2, <1>5, <2>2, CommitsOneRow
<1>6. CASE ClockTicks
    BY <1>1, <1>2, <1>6 DEF ClockTicks, ListsAssumption
<1>7. CASE FirstPage
  <2>1. NotSeen \in [Rows -> 0 .. 2] /\ ShowPage(NoPosition, NotSeen)
    BY <1>7 DEF NotSeen, FirstPage
  <2>2. walk' \in Walks
    BY <2>1, PageShown
  <2> QED
    BY <1>1, <1>2, <1>7, <2>2 DEF FirstPage
<1>8. CASE NextPage
  <2>1. walk' \in Walks
    BY <1>1, <1>8, PageShown DEF NextPage, Walks
  <2> QED
    BY <1>1, <1>2, <1>8, <2>1 DEF NextPage
<1>9. CASE UNCHANGED listVars
    BY <1>1, <1>2, <1>9 DEF listVars
<1> QED
    BY <1>3, <1>4, <1>5, <1>6, <1>7, <1>8, <1>9 DEF ListsNext, Change

\* Times of open changes stay behind the clock and not before their rows.
LEMMA TimesKept ==
    ASSUME ListsAssumption, ListInv, [ListsNext]_listVars
    PROVE  TimesInv'
<1> USE DEF ListInv
<1>1. /\ key \in [Rows -> 0 .. MaxKey] /\ revision \in [Rows -> Nat]
      /\ clock \in 0 .. MaxKey /\ open \in [Transactions -> Changes]
    BY DEF ListsTypeOK, Changes
<1>2. ASSUME NEW r \in Rows, NEW name \in 0 .. MaxKey, Rename(r, name) PROVE TimesInv'
    BY <1>2 DEF Rename, TimesInv
<1>3. ASSUME NEW t \in Transactions, NEW r \in Rows, Begin(t, r) PROVE TimesInv'
  <2> DEFINE change == [state |-> "open", row |-> r, since |-> clock, expects |-> revision[r]]
  <2>1. /\ open' = [open EXCEPT ![t] = change] /\ list # "people"
        /\ UNCHANGED <<list, key, revision, clock>>
    BY <1>3 DEF Begin
  <2>2. ASSUME NEW u \in Transactions, u # t PROVE open'[u] = open[u]
    BY <1>1, <2>1, <2>2
  <2>3. open'[t] = change
    BY <1>1, <2>1
  <2> QED
    BY <1>1, <2>1, <2>2, <2>3 DEF TimesInv
<1>4. ASSUME NEW t \in Transactions, Commit(t) PROVE TimesInv'
  <2>1. /\ open' = [open EXCEPT ![t].state = "done"] /\ open[t].row \in Rows
        /\ UNCHANGED <<list, clock>> /\ list # "people"
    BY <1>4, CommitsOneRow
  <2>2. \A u \in Transactions : open'[u].state = "open" => u # t /\ open'[u] = open[u]
    BY <1>1, <2>1 DEF Changes
  <2>3. CASE UNCHANGED <<key, revision>>
    BY <2>1, <2>2, <2>3 DEF TimesInv
  <2>4. CASE /\ key' = [key EXCEPT ![open[t].row] = open[t].since]
             /\ open[t].since <= clock
             /\ revision' = [revision EXCEPT ![open[t].row] = revision[open[t].row] + 1]
    <3>1. \A r \in Rows : key'[r] <= clock'
      BY <1>1, <2>1, <2>4 DEF TimesInv
    <3>2. ASSUME NEW u \in Transactions, open'[u].state = "open"
          PROVE  /\ open'[u].row \in Rows /\ open'[u].since <= clock'
                 /\ open'[u].expects <= revision'[open'[u].row]
                 /\ open'[u].expects = revision'[open'[u].row] =>
                       key'[open'[u].row] <= open'[u].since
      <4>1. /\ open'[u] = open[u] /\ open[u].state = "open" /\ open[u] \in Changes
        BY <1>1, <2>2, <3>2
      <4>2. /\ open[u].row \in Rows /\ open[u].since <= clock /\ open[u].expects \in Nat
            /\ open[u].expects <= revision[open[u].row]
            /\ open[u].expects = revision[open[u].row] => key[open[u].row] <= open[u].since
        BY <4>1 DEF TimesInv, Changes
      <4>3. CASE open[u].row = open[t].row
        <5>1. revision'[open[u].row] = revision[open[u].row] + 1
              /\ revision[open[u].row] \in Nat
          BY <1>1, <2>1, <2>4, <4>3
        <5> QED
          BY <2>1, <4>1, <4>2, <5>1
      <4>4. CASE open[u].row # open[t].row
        <5>1. /\ revision'[open[u].row] = revision[open[u].row]
              /\ key'[open[u].row] = key[open[u].row]
          BY <1>1, <2>4, <4>2, <4>4
        <5> QED
          BY <2>1, <4>1, <4>2, <5>1
      <4> QED
        BY <4>3, <4>4
    <3> QED
      BY <2>1, <3>1, <3>2 DEF TimesInv
  <2> QED
    BY <1>4, <2>3, <2>4, CommitsOneRow
<1>5. CASE ClockTicks
    BY <1>1, <1>5 DEF ClockTicks, TimesInv, Changes
<1>6. CASE UNCHANGED <<list, key, revision, clock, open>>
    BY <1>6 DEF TimesInv
<1> QED
    BY <1>2, <1>3, <1>4, <1>5, <1>6 DEF ListsNext, Change, FirstPage, NextPage, listVars
\* A cursor only moves on: rows that are not behind it are not behind the next.
LEMMA CursorMovesOn ==
    ASSUME ListsAssumption, ListsTypeOK, NEW cursor \in Cursors \cup {NoPosition},
           NEW last \in Rows, Behind(last, cursor), NEW r \in Rows, ~Behind(r, cursor)
    PROVE  ~Above(last, r)
<1>1. cursor \in Cursors /\ Before(cursor, Position(last)) /\ ~Before(cursor, Position(r))
    BY DEF Behind
<1>2. cursor \in Positions /\ Position(last) \in Positions /\ Position(r) \in Positions
    BY <1>1, CursorFacts
<1> QED
    BY <1>1, <1>2, ListOrder DEF Above

\* A page leaves the rows it did not change where the list has them.
LEMMA UntouchedPages ==
    ASSUME ListsAssumption, ListsTypeOK,
           NEW cursor \in Cursors \cup {NoPosition}, NEW seen \in [Rows -> 0 .. 2],
           ShowPage(cursor, seen), UNCHANGED <<list, key, exists>>,
           \A r \in was' \ touched' :
              r \in exists /\ seen[r] = IF Behind(r, cursor) THEN 0 ELSE 1
    PROVE  UntouchedInv'
<1>1. PICK page \in SUBSET {r \in exists : Behind(r, cursor)} :
        /\ walk' \in Walks /\ walk'.state \in {"walking", "done"}
        /\ \A r \in Rows :
              walk'.seen[r] = IF r \in page /\ seen[r] < 2 THEN seen[r] + 1 ELSE seen[r]
        /\ walk'.state = "done" => page = {r \in exists : Behind(r, cursor)}
        /\ walk'.state = "walking" =>
              \E last \in page :
                 /\ walk'.cursor = Position(last)
                 /\ \A s \in exists : Behind(s, cursor) => (s \in page <=> ~Above(last, s))
    BY PageShown
<1>2. exists \subseteq Rows /\ \A r \in Rows : Position(r) \in Cursors
    BY CursorFacts DEF ListsTypeOK
<1>3. \A r \in was' \ touched' : walk'.seen[r] = IF r \in page \/ ~Behind(r, cursor) THEN 1 ELSE 0
    BY <1>1, <1>2
<1>4. CASE walk'.state = "done"
    BY <1>1, <1>3, <1>4 DEF UntouchedInv
<1>5. CASE walk'.state = "walking"
  <2>1. PICK last \in page :
          /\ walk'.cursor = Position(last)
          /\ \A s \in exists : Behind(s, cursor) => (s \in page <=> ~Above(last, s))
    BY <1>1, <1>5
  <2>2. last \in Rows /\ Behind(last, cursor)
    BY <1>2
  <2>3. ASSUME NEW r \in was' \ touched'
        PROVE  walk'.seen[r] = IF Above(last, r) THEN 0 ELSE 1
    BY <1>2, <1>3, <2>1, <2>2, CursorMovesOn
  <2>4. \A r \in Rows : Position(r)' = Position(r)
    BY DEF Position
  <2> QED
    BY <1>2, <1>5, <2>1, <2>2, <2>3, <2>4 DEF UntouchedInv, Above, Before
<1> QED
    BY <1>1, <1>4, <1>5

\* Rows that stay as they are keep their place between the pages.
LEMMA UntouchedKept ==
    ASSUME ListsAssumption, ListInv, [ListsNext]_listVars
    PROVE  UntouchedInv'
<1> USE DEF ListInv
<1>1. /\ key \in [Rows -> 0 .. MaxKey] /\ exists \subseteq Rows /\ walk \in Walks
      /\ was \subseteq Rows /\ open \in [Transactions -> Changes]
    BY DEF ListsTypeOK, Changes, Walks, Cursors
<1>2. ASSUME UNCHANGED <<list, walk, was>>, touched \subseteq touched', exists \subseteq exists',
             \A r \in Rows \ touched' : key'[r] = key[r]
      PROVE  UntouchedInv'
  <2>1. \A r \in was' \ touched' : r \in was \ touched /\ Position(r)' = Position(r)
    BY <1>1, <1>2 DEF Position
  <2> QED
    BY <1>2, <2>1 DEF UntouchedInv, Before
<1>3. ASSUME NEW r \in Rows, NEW name \in 0 .. MaxKey, Rename(r, name) PROVE UntouchedInv'
    BY <1>1, <1>2, <1>3 DEF Rename
<1>4. ASSUME NEW t \in Transactions, Commit(t) PROVE UntouchedInv'
    BY <1>1, <1>2, <1>4, CommitsOneRow
<1>5. CASE FirstPage
  <2>1. /\ ShowPage(NoPosition, NotSeen) /\ NotSeen \in [Rows -> 0 .. 2]
        /\ was' = exists /\ touched' = {} /\ UNCHANGED <<list, key, exists>>
    BY <1>5 DEF FirstPage, NotSeen
  <2>2. \A r \in was' \ touched' :
          r \in exists /\ NotSeen[r] = IF Behind(r, NoPosition) THEN 0 ELSE 1
    BY <1>1, <2>1 DEF NotSeen, Behind
  <2> QED
    BY <2>1, <2>2, UntouchedPages
<1>6. CASE NextPage
  <2>1. /\ walk.state = "walking" /\ ShowPage(walk.cursor, walk.seen)
        /\ UNCHANGED <<list, key, exists, was, touched>>
    BY <1>6 DEF NextPage
  <2>2. walk.cursor \in Cursors /\ walk.cursor # NoPosition /\ walk.seen \in [Rows -> 0 .. 2]
    BY <1>1, <2>1, CursorFacts DEF UntouchedInv, Walks
  <2>3. \A r \in was' \ touched' :
          r \in exists /\ walk.seen[r] = IF Behind(r, walk.cursor) THEN 0 ELSE 1
    BY <2>1, <2>2 DEF UntouchedInv, Behind
  <2> QED
    BY <2>1, <2>2, <2>3, UntouchedPages
<1>7. CASE UNCHANGED <<list, walk, was, touched, exists, key>>
    BY <1>2, <1>7
<1> QED
    BY <1>3, <1>4, <1>5, <1>6, <1>7 DEF ListsNext, Change, Begin, ClockTicks, listVars

\* A page shows rows that no page before it has shown.
LEMMA ShownPages ==
    ASSUME ListsAssumption, ListsTypeOK,
           NEW cursor \in Cursors \cup {NoPosition}, NEW seen \in [Rows -> 0 .. 2],
           ShowPage(cursor, seen), UNCHANGED <<list, key, exists>>,
           list # "people" =>
              \A r \in Rows : /\ seen[r] <= 1
                              /\ seen[r] = 1 => r \in exists /\ ~Behind(r, cursor)
    PROVE  ShownInv'
<1> SUFFICES ASSUME list # "people" PROVE ShownInv'
    BY DEF ShownInv
<1>1. PICK page \in SUBSET {r \in exists : Behind(r, cursor)} :
        /\ \A r \in Rows :
              walk'.seen[r] = IF r \in page /\ seen[r] < 2 THEN seen[r] + 1 ELSE seen[r]
        /\ walk'.state = "walking" =>
              \E last \in page :
                 /\ walk'.cursor = Position(last)
                 /\ \A s \in exists : Behind(s, cursor) => (s \in page <=> ~Above(last, s))
    BY PageShown
<1>2. exists \subseteq Rows
    BY DEF ListsTypeOK
<1>3. ASSUME NEW r \in Rows
      PROVE  /\ walk'.seen[r] <= 1
             /\ walk'.seen[r] = 1 => r \in exists /\ (r \in page \/ ~Behind(r, cursor))
    BY <1>1
<1>4. ASSUME NEW r \in Rows, walk'.state = "walking", walk'.seen[r] = 1
      PROVE  r \in exists' /\ ~Before(walk'.cursor, Position(r)')
  <2>1. PICK last \in page :
          /\ walk'.cursor = Position(last)
          /\ \A s \in exists : Behind(s, cursor) => (s \in page <=> ~Above(last, s))
    BY <1>1, <1>4
  <2>2. last \in Rows /\ Behind(last, cursor)
    BY <1>2
  <2>3. r \in exists /\ ~Above(last, r)
    BY <1>3, <1>4, <2>1, <2>2, CursorMovesOn
  <2> QED
    BY <2>1, <2>3 DEF Above, Position, Before
<1> QED
    BY <1>3, <1>4 DEF ShownInv, Before

\* In the lists by time rows only move up, before what was shown.
LEMMA ShownKept ==
    ASSUME ListsAssumption, ListInv, [ListsNext]_listVars
    PROVE  ShownInv'
<1> USE DEF ListInv
<1>1. /\ key \in [Rows -> 0 .. MaxKey] /\ exists \subseteq Rows /\ walk \in Walks
      /\ open \in [Transactions -> Changes]
    BY DEF ListsTypeOK, Changes, Walks, Cursors
<1>2. ASSUME NEW r \in Rows, NEW name \in 0 .. MaxKey, Rename(r, name) PROVE ShownInv'
    BY <1>2 DEF Rename, ShownInv
<1>3. ASSUME NEW t \in Transactions, Commit(t) PROVE ShownInv'
  <2>1. list # "people" /\ UNCHANGED <<list, walk>> /\ exists \subseteq exists'
    BY <1>3, CommitsOneRow
  <2>2. \A r \in Rows : key'[r] \in Int /\ key[r] \in Int /\ key[r] <= key'[r]
    BY <1>1, <1>3, CommitsOneRow
  <2>3. ASSUME NEW r \in Rows, walk.state = "walking", walk.seen[r] = 1
        PROVE  r \in exists' /\ ~Before(walk.cursor, Position(r)')
    <3>1. r \in exists /\ ~Before(walk.cursor, Position(r)) /\ walk.cursor \in Cursors
      BY <2>1, <2>3 DEF ShownInv, UntouchedInv
    <3>2. walk.cursor.key \in Int /\ walk.cursor.id \in Int /\ r \in Int
      BY <3>1, CursorFacts DEF Positions, ListsAssumption
    <3> QED
      BY <2>1, <2>2, <3>1, <3>2 DEF Before, Position
  <2> QED
    BY <2>1, <2>3 DEF ShownInv, Before
<1>4. CASE FirstPage
  <2>1. /\ ShowPage(NoPosition, NotSeen) /\ NotSeen \in [Rows -> 0 .. 2]
        /\ UNCHANGED <<list, key, exists>> /\ \A r \in Rows : NotSeen[r] = 0
    BY <1>4 DEF FirstPage, NotSeen
  <2> QED
    BY <2>1, ShownPages
<1>5. CASE NextPage
  <2>1. /\ walk.state = "walking" /\ ShowPage(walk.cursor, walk.seen)
        /\ UNCHANGED <<list, key, exists>>
    BY <1>5 DEF NextPage
  <2>2. walk.cursor \in Cursors /\ walk.cursor # NoPosition /\ walk.seen \in [Rows -> 0 .. 2]
    BY <1>1, <2>1, CursorFacts DEF UntouchedInv, Walks
  <2> QED
    BY <2>1, <2>2, ShownPages DEF ShownInv, Behind
<1>6. CASE UNCHANGED <<list, walk, exists, key>>
    BY <1>6 DEF ShownInv, Position, Before
<1> QED
    BY <1>2, <1>3, <1>4, <1>5, <1>6 DEF ListsNext, Change, Begin, ClockTicks, listVars

\* However others change a list while it is paged through, nothing that stays as
\* it is is left out or shown twice, and the lists by time show nothing twice.
THEOREM ListsTheorem == ASSUME ListsAssumption PROVE ListsSpec => []ListWalksAreFaithful
<1>1. ListsInit => ListInv
    BY ListsStart
<1>2. ListInv /\ [ListsNext]_listVars => ListInv'
  <2> SUFFICES ASSUME ListInv, [ListsNext]_listVars PROVE ListInv'
    OBVIOUS
  <2> QED
    BY ListsTypes, TimesKept, UntouchedKept, ShownKept DEF ListInv
<1>3. ListInv => ListWalksAreFaithful
  <2> SUFFICES ASSUME ListInv PROVE ListWalksAreFaithful
    OBVIOUS
  <2>1. walk.state \in {"idle", "walking", "done"} /\ was \subseteq Rows
    BY DEF ListInv, ListsTypeOK
  <2>2. UntouchedAreSeenOnce
    BY <2>1 DEF ListInv, UntouchedInv, UntouchedAreSeenOnce
  <2>3. NothingIsSeenTwice
    BY DEF ListInv, ShownInv, NothingIsSeenTwice
  <2> QED
    BY <2>2, <2>3 DEF ListInv, ListWalksAreFaithful
<1> QED
    BY <1>1, <1>2, <1>3, PTL DEF ListsSpec

-------------------------------------------------------------------------------
(* Searches and their cursors.                                               *)

\* The document before which none of the list comes has the first place, and so on.
Place(found, order, words, d) == 1 + Cardinality({e \in found : Ahead(order, words, e, d)})

\* What the engine compares documents by.
KeyOf(order, words, x) ==
    CASE order = "oldest" -> <<x.year, x.semester, x.title, x.id>>
      [] order = "title" -> <<x.title, -x.year, -x.semester, x.id>>
      [] order = "newest" -> <<-x.year, -x.semester, x.title, x.id>>
      [] OTHER -> <<-Score(x, words), -x.year, -x.semester, x.title, x.id>>

Less(k, l) == \E i \in DOMAIN k : k[i] < l[i] /\ \A j \in 1 .. i - 1 : k[j] = l[j]

\* The engine compares keys.
LEMMA AheadLess ==
    ASSUME NEW order, NEW words, NEW d, NEW e
    PROVE  Ahead(order, words, d, e) <=> Less(KeyOf(order, words, d), KeyOf(order, words, e))
BY Zenon DEF Ahead, Less, KeyOf

\* Two keys of integers, as long as each other.
Keys(k, l, n) ==
    /\ DOMAIN k = 1 .. n /\ DOMAIN l = 1 .. n
    /\ \A i \in 1 .. n : k[i] \in Int /\ l[i] \in Int

\* Keys that differ at the end, if not before, come one before the other.
LEMMA LessApart ==
    ASSUME NEW k, NEW l, NEW n \in {4, 5}, Keys(k, l, n), k[n] # l[n]
    PROVE  Less(k, l) \/ Less(l, k)
<1>2. CASE k[1] # l[1]
    BY <1>2 DEF Less, Keys
<1>3. CASE k[1] = l[1] /\ k[2] # l[2]
    BY <1>3 DEF Less, Keys
<1>4. CASE k[1] = l[1] /\ k[2] = l[2] /\ k[3] # l[3]
  <2>1. \A j \in 1 .. 3 - 1 : k[j] = l[j]
    BY <1>4
  <2>2. 3 \in DOMAIN k /\ 3 \in DOMAIN l /\ (k[3] < l[3] \/ l[3] < k[3])
    BY <1>4 DEF Keys
  <2>3. ASSUME k[3] < l[3] PROVE Less(k, l)
    BY <2>1, <2>2, <2>3, Zenon DEF Less
  <2>4. ASSUME l[3] < k[3] PROVE Less(l, k)
    BY <2>1, <2>2, <2>4, Zenon DEF Less
  <2> QED
    BY <2>2, <2>3, <2>4
<1>5. CASE k[1] = l[1] /\ k[2] = l[2] /\ k[3] = l[3] /\ k[4] # l[4]
  <2>1. \A j \in 1 .. 4 - 1 : k[j] = l[j]
    BY <1>5
  <2>2. 4 \in DOMAIN k /\ 4 \in DOMAIN l /\ (k[4] < l[4] \/ l[4] < k[4])
    BY <1>5 DEF Keys
  <2>3. ASSUME k[4] < l[4] PROVE Less(k, l)
    BY <2>1, <2>2, <2>3, Zenon DEF Less
  <2>4. ASSUME l[4] < k[4] PROVE Less(l, k)
    BY <2>1, <2>2, <2>4, Zenon DEF Less
  <2> QED
    BY <2>2, <2>3, <2>4
<1>6. CASE k[1] = l[1] /\ k[2] = l[2] /\ k[3] = l[3] /\ k[4] = l[4]
  <2>1. \A j \in 1 .. 5 - 1 : k[j] = l[j]
    BY <1>6
  <2>2. 5 \in DOMAIN k /\ 5 \in DOMAIN l /\ (k[5] < l[5] \/ l[5] < k[5])
    BY <1>6 DEF Keys
  <2>3. ASSUME k[5] < l[5] PROVE Less(k, l)
    BY <2>1, <2>2, <2>3, Zenon DEF Less
  <2>4. ASSUME l[5] < k[5] PROVE Less(l, k)
    BY <2>1, <2>2, <2>4, Zenon DEF Less
  <2> QED
    BY <2>2, <2>3, <2>4
<1> QED
    BY <1>2, <1>3, <1>4, <1>5, <1>6

\* Documents have keys of integers in every order, which end in their ids.
LEMMA KeysFit ==
    ASSUME SearchAssumption, NEW order, NEW words, IsFiniteSet(words),
           NEW d \in Documents, NEW e \in Documents
    PROVE  \E n \in {4, 5} : /\ Keys(KeyOf(order, words, d), KeyOf(order, words, e), n)
                            /\ KeyOf(order, words, d)[n] = d.id /\ KeyOf(order, words, e)[n] = e.id
<1>1. /\ d.id \in Int /\ d.year \in Int /\ d.semester \in Int /\ d.title \in Int
      /\ e.id \in Int /\ e.year \in Int /\ e.semester \in Int /\ e.title \in Int
    BY DEF SearchAssumption
<1>2. -Score(d, words) \in Int /\ -Score(e, words) \in Int
  <2>1. IsFiniteSet(d.words \cap words) /\ IsFiniteSet(e.words \cap words)
    BY FS_Subset
  <2>2. Score(d, words) \in Nat /\ Score(e, words) \in Nat
    BY <2>1, FS_CardinalityType DEF Score
  <2> QED
    BY <2>2
<1>3. \E n \in {4, 5} : /\ Keys(KeyOf(order, words, d), KeyOf(order, words, e), n)
                        /\ KeyOf(order, words, d)[n] = d.id /\ KeyOf(order, words, e)[n] = e.id
  <2>1. CASE order = "oldest"
    <3> DEFINE k == <<d.year, d.semester, d.title, d.id>>
               l == <<e.year, e.semester, e.title, e.id>>
    <3>1. KeyOf(order, words, d) = k /\ KeyOf(order, words, e) = l
      BY <2>1 DEF KeyOf
    <3>2. DOMAIN k = 1 .. 4 /\ DOMAIN l = 1 .. 4 /\ k[4] = d.id /\ l[4] = e.id
      OBVIOUS
    <3>3. k[1] \in Int /\ k[2] \in Int /\ k[3] \in Int /\ k[4] \in Int
      BY <1>1, <1>2
    <3>4. l[1] \in Int /\ l[2] \in Int /\ l[3] \in Int /\ l[4] \in Int
      BY <1>1, <1>2
    <3> HIDE DEF k, l
    <3> QED
      BY <3>1, <3>2, <3>3, <3>4 DEF Keys
  <2>2. CASE order = "title"
    <3> DEFINE k == <<d.title, -d.year, -d.semester, d.id>>
               l == <<e.title, -e.year, -e.semester, e.id>>
    <3>1. KeyOf(order, words, d) = k /\ KeyOf(order, words, e) = l
      BY <2>2 DEF KeyOf
    <3>2. DOMAIN k = 1 .. 4 /\ DOMAIN l = 1 .. 4 /\ k[4] = d.id /\ l[4] = e.id
      OBVIOUS
    <3>3. k[1] \in Int /\ k[2] \in Int /\ k[3] \in Int /\ k[4] \in Int
      BY SMTT(30), <1>1, <1>2
    <3>4. l[1] \in Int /\ l[2] \in Int /\ l[3] \in Int /\ l[4] \in Int
      BY <1>1, <1>2
    <3> HIDE DEF k, l
    <3> QED
      BY <3>1, <3>2, <3>3, <3>4 DEF Keys
  <2>3. CASE order = "newest"
    <3> DEFINE k == <<-d.year, -d.semester, d.title, d.id>>
               l == <<-e.year, -e.semester, e.title, e.id>>
    <3>1. KeyOf(order, words, d) = k /\ KeyOf(order, words, e) = l
      BY <2>3 DEF KeyOf
    <3>2. DOMAIN k = 1 .. 4 /\ DOMAIN l = 1 .. 4 /\ k[4] = d.id /\ l[4] = e.id
      OBVIOUS
    <3>3. k[1] \in Int /\ k[2] \in Int /\ k[3] \in Int /\ k[4] \in Int
      BY SMTT(30), <1>1, <1>2
    <3>4. l[1] \in Int /\ l[2] \in Int /\ l[3] \in Int /\ l[4] \in Int
      BY <1>1, <1>2
    <3> HIDE DEF k, l
    <3> QED
      BY <3>1, <3>2, <3>3, <3>4 DEF Keys
  <2>4. CASE order \notin {"oldest", "title", "newest"}
    <3> DEFINE k == <<-Score(d, words), -d.year, -d.semester, d.title, d.id>>
               l == <<-Score(e, words), -e.year, -e.semester, e.title, e.id>>
    <3>1. KeyOf(order, words, d) = k /\ KeyOf(order, words, e) = l
      BY <2>4 DEF KeyOf
    <3>2. DOMAIN k = 1 .. 5 /\ DOMAIN l = 1 .. 5 /\ k[5] = d.id /\ l[5] = e.id
      OBVIOUS
    <3>3. k[1] \in Int /\ k[2] \in Int /\ k[3] \in Int /\ k[4] \in Int /\ k[5] \in Int
      BY SMTT(30), <1>1, <1>2
    <3>4. l[1] \in Int /\ l[2] \in Int /\ l[3] \in Int /\ l[4] \in Int /\ l[5] \in Int
      BY <1>1, <1>2
    <3> HIDE DEF k, l
    <3> QED
      BY <3>1, <3>2, <3>3, <3>4 DEF Keys
  <2> QED
    BY <2>1, <2>2, <2>3, <2>4
<1> QED
    BY <1>3

\* The order is strict, and documents of different ids are ordered.
LEMMA AheadStrict ==
    ASSUME SearchAssumption, NEW order, NEW words, IsFiniteSet(words),
           NEW d \in Documents, NEW e \in Documents
    PROVE  /\ ~Ahead(order, words, d, d)
           /\ d.id # e.id => Ahead(order, words, d, e) \/ Ahead(order, words, e, d)
<1>1. ~Less(KeyOf(order, words, d), KeyOf(order, words, d))
  <2>1. PICK n \in {4, 5} : Keys(KeyOf(order, words, d), KeyOf(order, words, d), n)
    BY KeysFit
  <2> QED
    BY <2>1 DEF Keys, Less
<1>2. ASSUME d.id # e.id
      PROVE  \/ Less(KeyOf(order, words, d), KeyOf(order, words, e))
             \/ Less(KeyOf(order, words, e), KeyOf(order, words, d))
    BY <1>2, KeysFit, LessApart
<1> QED
    BY <1>1, <1>2, AheadLess

\* A text has finitely many words, and blanks around it add none.
LEMMA WordsFinite ==
    ASSUME NEW text \in Seq(STRING) PROVE IsFiniteSet(WordsOf(text))
<1> DEFINE T == {text[i] : i \in DOMAIN text}
<1>1. PICK n \in Nat : n = Len(text)
    OBVIOUS
<1>2. text \in Surjection(1 .. n, T)
    BY <1>1 DEF Surjection
<1> HIDE DEF T
<1>3. IsFiniteSet(1 .. n)
    BY <1>1, FS_Interval
<1>4. IsFiniteSet(T)
    BY <1>2, <1>3, FS_Surjection
<1> QED
    BY <1>4, FS_Subset DEF WordsOf, T

\* In every order the engine may choose each document stands at its place.
LEMMA RankedInPlace ==
    ASSUME SearchAssumption, NEW found, found \subseteq Documents, IsFiniteSet(found), OneEach(found),
           NEW order, NEW words, IsFiniteSet(words), NEW s \in Rankings(order, words, found)
    PROVE  /\ s \in Seq(found) /\ Len(s) = Cardinality(found)
           /\ \A i \in 1 .. Len(s) : s[i] \in found /\ Place(found, order, words, s[i]) = i
<1> DEFINE n == Cardinality(found)
<1>1. n \in Nat
    BY FS_CardinalityType
<1>2. /\ s \in [1 .. n -> found] /\ \A i, j \in 1 .. n : i # j => s[i] # s[j]
      /\ \A i, j \in 1 .. n : i < j => ~Ahead(order, words, s[j], s[i])
  <2>1. s \in SetToSeqs(found) /\ \A i, j \in DOMAIN s : i < j => ~Ahead(order, words, s[j], s[i])
    BY DEF Rankings
  <2> QED
    BY <2>1 DEF SetToSeqs
<1>3. s \in Seq(found) /\ Len(s) = n
    BY <1>1, <1>2
<1>4. s \in Surjection(1 .. n, found)
  <2>1. s \in Injection(1 .. n, found)
    BY <1>2 DEF Injection, IsInjective
  <2>2. Cardinality(1 .. n) = n
    BY <1>1, FS_Interval
  <2> QED
    BY <2>1, <2>2, FS_Injection
<1> HIDE DEF n
<1>5. ASSUME NEW i \in 1 .. n PROVE Place(found, order, words, s[i]) = i
  <2>1. ASSUME NEW j \in 1 .. n PROVE Ahead(order, words, s[j], s[i]) <=> j < i
    <3>1. s[i] \in Documents /\ s[j] \in Documents
      BY <1>2
    <3>2. CASE j = i
      BY <3>1, <3>2, AheadStrict
    <3>3. CASE j # i
      <4>1. s[i].id # s[j].id
        BY <1>2, <3>3 DEF OneEach
      <4>2. Ahead(order, words, s[i], s[j]) \/ Ahead(order, words, s[j], s[i])
        BY <3>1, <4>1, AheadStrict
      <4>3. i < j \/ j < i
        BY <1>1, <3>3
      <4> QED
        BY <1>1, <1>2, <4>2, <4>3
    <3> QED
      BY <3>2, <3>3
  <2> DEFINE B == {e \in found : Ahead(order, words, e, s[i])}
             f == [j \in 1 .. i - 1 |-> s[j]]
  <2>2. B = {s[j] : j \in 1 .. i - 1}
    BY <1>1, <1>2, <1>4, <2>1 DEF Surjection
  <2>3. f \in Bijection(1 .. i - 1, B)
    <3>1. f \in [1 .. i - 1 -> B] /\ \A b \in B : \E j \in 1 .. i - 1 : f[j] = b
      BY <2>2
    <3>2. \A j, k \in 1 .. i - 1 : f[j] = f[k] => j = k
      BY <1>1, <1>2
    <3> QED
      BY <3>1, <3>2 DEF Bijection, Injection, Surjection, IsInjective
  <2> HIDE DEF B, f
  <2>4. PICK m \in Nat : m = i - 1
    BY <1>1
  <2>5. ExistsBijection(1 .. m, B)
    BY <2>3, <2>4 DEF ExistsBijection
  <2>6. Cardinality(B) = m
    BY <2>5, FS_CountingElements
  <2> QED
    BY <1>1, <2>4, <2>6 DEF Place, B
<1> QED
    BY <1>2, <1>3, <1>5 DEF n

\* Sets of positions have a first one.
LEMMA FirstPosition ==
    ASSUME NEW n \in Nat, NEW B, B \subseteq 1 .. n, B # {}
    PROVE  \E i \in B : \A j \in B : i <= j
<1> DEFINE S == 1 .. n
           F == {1 .. i : i \in B}
<1>1. PICK T \in F : \A U \in F : U \subseteq T => U = T
  <2>1. IsFiniteSet(S)
    BY FS_Interval
  <2>2. F \subseteq SUBSET S /\ F # {}
    <3>1. \A i \in B : 1 .. i \subseteq S
      OBVIOUS
    <3> QED
      BY <3>1, Zenon
  <2> HIDE DEF F, S
  <2> QED
    BY <2>1, <2>2, LeastSubset
<1>2. PICK i \in B : T = 1 .. i
    OBVIOUS
<1>3. ASSUME NEW j \in B, ~(i <= j) PROVE FALSE
  <2>1. 1 .. j \subseteq 1 .. i /\ i \in 1 .. i /\ i \notin 1 .. j
    BY <1>3
  <2> QED
    BY <1>1, <1>2, <2>1
<1> QED
    BY <1>3

\* And a last one.
LEMMA LastPosition ==
    ASSUME NEW n \in Nat, NEW B, B \subseteq 1 .. n, B # {}
    PROVE  \E i \in B : \A j \in B : i >= j
<1> DEFINE S == 1 .. n
           F == {i .. n : i \in B}
<1>1. PICK T \in F : \A U \in F : U \subseteq T => U = T
  <2>1. IsFiniteSet(S)
    BY FS_Interval
  <2>2. F \subseteq SUBSET S /\ F # {}
    <3>1. \A i \in B : i .. n \subseteq S
      OBVIOUS
    <3> QED
      BY <3>1, Zenon
  <2> HIDE DEF F, S
  <2> QED
    BY <2>1, <2>2, LeastSubset
<1>2. PICK i \in B : T = i .. n
    OBVIOUS
<1>3. ASSUME NEW j \in B, ~(i >= j) PROVE FALSE
  <2>1. j .. n \subseteq i .. n /\ i \in i .. n /\ i \notin j .. n
    BY <1>3
  <2> QED
    BY <1>1, <1>2, <2>1
<1> QED
    BY <1>3

\* Trimming takes blanks away and no word; a single word is left alone.
LEMMA TrimKeepsWords ==
    ASSUME NEW text \in Seq(STRING)
    PROVE  /\ Trim(text) \in Seq(STRING) /\ WordsOf(Trim(text)) = WordsOf(text)
           /\ Trim(text) = <<>> <=> WordsOf(text) = {}
           /\ \A i \in DOMAIN text :
                text[i] # Space /\ (\A j \in DOMAIN text \ {i} : text[j] = Space)
                => Len(Trim(text)) = 1 /\ Trim(text)[1] = text[i]
<1> DEFINE inner == {i \in DOMAIN text : text[i] # Space}
<1>1. CASE inner = {}
  <2>1. Trim(text) = <<>> /\ WordsOf(text) = {}
    BY <1>1 DEF Trim, WordsOf
  <2>2. WordsOf(<<>>) = {} /\ <<>> \in Seq(STRING)
    BY DEF WordsOf
  <2> QED
    BY <1>1, <2>1, <2>2
<1>2. CASE inner # {}
  <2>1. PICK n \in Nat : n = Len(text) /\ DOMAIN text = 1 .. n
    OBVIOUS
  <2>2. inner \subseteq 1 .. n
    BY <2>1
  <2> HIDE DEF inner
  <2> DEFINE a == CHOOSE i \in inner : \A j \in inner : i <= j
             b == CHOOSE i \in inner : \A j \in inner : i >= j
             trimmed == SubSeq(text, a, b)
  <2>3. a \in inner /\ \A j \in inner : a <= j
    BY <1>2, <2>1, <2>2, FirstPosition
  <2>4. b \in inner /\ \A j \in inner : b >= j
    BY <1>2, <2>1, <2>2, LastPosition
  <2>5. Trim(text) = trimmed
    BY <1>2 DEF Trim, inner
  <2> HIDE DEF a, b
  <2>6. /\ a \in 1 .. n /\ b \in 1 .. n /\ a <= b
    BY <2>2, <2>3, <2>4
  <2>7. /\ trimmed \in Seq(STRING) /\ Len(trimmed) = b - a + 1
        /\ \A i \in 1 .. b - a + 1 : trimmed[i] = text[a + i - 1]
    <3>1. \A i \in a .. b : text[i] \in STRING
      BY <2>1, <2>6
    <3> QED
      BY <2>6, <3>1, SubSeqProperties
  <2> HIDE DEF trimmed
  <2>8. DOMAIN trimmed = 1 .. b - a + 1
    BY <2>6, <2>7
  <2>9. WordsOf(trimmed) = WordsOf(text)
    <3>1. ASSUME NEW w \in WordsOf(trimmed) PROVE w \in WordsOf(text)
      <4>1. PICK i \in 1 .. b - a + 1 : w = trimmed[i] /\ w # Space
        BY <2>8, <3>1 DEF WordsOf
      <4>2. a + i - 1 \in DOMAIN text /\ w = text[a + i - 1]
        BY <2>1, <2>6, <2>7, <4>1
      <4> QED
        BY <4>1, <4>2 DEF WordsOf
    <3>2. ASSUME NEW w \in WordsOf(text) PROVE w \in WordsOf(trimmed)
      <4>1. PICK i \in 1 .. n : w = text[i] /\ w # Space
        BY <2>1, <3>2 DEF WordsOf
      <4>2. a <= i /\ i <= b
        BY <2>1, <2>3, <2>4, <4>1 DEF inner
      <4>3. PICK k \in Int : k = i - a + 1
        BY <2>6
      <4>4. k \in 1 .. b - a + 1 /\ trimmed[k] = text[i]
        BY <2>6, <2>7, <4>2, <4>3
      <4> QED
        BY <2>8, <4>1, <4>4 DEF WordsOf
    <3> QED
      BY <3>1, <3>2
  <2>10. trimmed # <<>> /\ WordsOf(text) # {}
    <3>1. text[a] \in WordsOf(text)
      BY <2>3 DEF WordsOf, inner
    <3>2. Len(trimmed) # 0
      BY <2>6, <2>7
    <3> QED
      BY <3>1, <3>2
  <2>11. ASSUME NEW i \in DOMAIN text, text[i] # Space, \A j \in DOMAIN text \ {i} : text[j] = Space
         PROVE  Len(trimmed) = 1 /\ trimmed[1] = text[i]
    <3>1. a = i /\ b = i
      BY <2>3, <2>4, <2>11 DEF inner
    <3>2. b - a + 1 = 1 /\ a + 1 - 1 = i
      BY <2>6, <3>1
    <3>3. 1 \in 1 .. b - a + 1
      BY <3>2
    <3> QED
      BY <2>7, <3>2, <3>3
  <2> QED
    BY <2>5, <2>7, <2>9, <2>10, <2>11
<1> QED
    BY <1>1, <1>2

\* What is held with a cursor, and what a page shows: the beginning of the list.
Shows(query, seen) ==
    \A i \in DOMAIN seen :
        /\ seen[i] \in Found(index, query)
        /\ Place(Found(index, query), ResolveOrder(query.sort, query.text), WordsOf(query.text), seen[i]) = i

Ways == [query : Queries, since : Nat, seen : Seq(Documents)]

\* A walk knows how far it has come; as long as the index does not change, what
\* it has seen is the beginning of the list, and the list goes on.
WalkInv(way, offset) ==
    /\ way \in Ways /\ way.since <= changes /\ ValidateQuery(way.query)
    /\ way.since = changes => Len(way.seen) = offset /\ Shows(way.query, way.seen)

HeldInv ==
    \A held \in issued :
        /\ held.cursor.offset \in Nat /\ held.cursor.hash = QueryHash(held.walk.query)
        /\ WalkInv(held.walk, held.cursor.offset)
        /\ held.walk.since = changes => held.cursor.offset < Total(index, held.walk.query)

\* What a page shows, of the index that gave it or of a later one.
PageInv ==
    Paged =>
        /\ answer.query \in Queries /\ answer.walk.query \in Queries
        /\ QueryHash(answer.query) = QueryHash(answer.walk.query)
        /\ answer.walk.since \in Nat /\ answer.walk.since <= changes
        /\ answer.walk.since = changes =>
            /\ Shows(answer.query, answer.walk.seen)
            /\ ~answer.more => Len(answer.walk.seen) = answer.total
        /\ answer.more => answer.hits # <<>>
        /\ \E docs \in SUBSET Documents :
            \A i \in DOMAIN answer.hits : answer.hits[i] \in Found(docs, answer.query)

RefusedInv ==
    answer.kind = "invalid_cursor" =>
        /\ answer.query \in Queries /\ answer.held.walk.query \in Queries
        /\ ValidateQuery(answer.query) /\ ValidateQuery(answer.held.walk.query)
        /\ QueryHash(answer.held.walk.query) # QueryHash(answer.query)

SearchInv == SearchTypeOK /\ HeldInv /\ PageInv /\ RefusedInv

\* Queries of one hash list the same documents in the same order.
LEMMA HashDecides ==
    ASSUME SearchAssumption, NEW p \in Queries, NEW q \in Queries, QueryHash(p) = QueryHash(q)
    PROVE  /\ Trim(p.text) = Trim(q.text) /\ WordsOf(p.text) = WordsOf(q.text)
           /\ ResolveOrder(p.sort, p.text) = ResolveOrder(q.sort, q.text)
           /\ Limit(p) = Limit(q)
           /\ \A docs : Found(docs, p) = Found(docs, q)
           /\ \A docs : Total(docs, p) = Total(docs, q)
<1>1. /\ Trim(p.text) = Trim(q.text) /\ p.filters = q.filters /\ Limit(p) = Limit(q)
      /\ ResolveOrder(p.sort, p.text) = ResolveOrder(q.sort, q.text)
    BY DEF QueryHash
<1>2. p.text \in Seq(STRING) /\ q.text \in Seq(STRING)
    BY DEF SearchAssumption
<1>3. WordsOf(p.text) = WordsOf(q.text)
    BY <1>1, <1>2, TrimKeepsWords
<1>4. ASSUME NEW docs PROVE Found(docs, p) = Found(docs, q)
  <2>1. \A d : BuildFilters(p, d) <=> BuildFilters(q, d)
    BY <1>1 DEF BuildFilters
  <2>2. Matches(docs, p) = Matches(docs, q)
    BY <1>1, <1>3, <2>1 DEF Matches
  <2> QED
    BY <1>1, <2>2 DEF Found
<1>5. \A docs : Total(docs, p) = Total(docs, q)
    BY <1>4 DEF Total
<1> QED
    BY <1>1, <1>3, <1>4, <1>5

\* Only documents of the index are found, and they match.
LEMMA FoundMatch ==
    ASSUME NEW docs, NEW query PROVE Found(docs, query) \subseteq Matches(docs, query) /\ Matches(docs, query) \subseteq docs
BY DEF Found, Matches

\* A page in the engine's ranking continues the list where the walk has got to.
LEMMA PageContinues ==
    ASSUME SearchAssumption, SearchTypeOK, NEW query \in Queries, NEW offset \in Nat,
           NEW ranking \in Rankings(ResolveOrder(query.sort, query.text), WordsOf(query.text),
                                    Found(index, query)),
           NEW hits, hits = Page(ranking, Total(index, query), offset, Limit(query))
    PROVE  /\ hits \in Seq(Documents) /\ Total(index, query) \in Nat
           /\ \A i \in DOMAIN hits : hits[i] \in Found(index, query)
           /\ offset < Total(index, query) => hits # <<>> /\ offset + Len(hits) <= Total(index, query)
           /\ offset = 0 => Len(hits) <= Total(index, query)
           /\ \A i \in DOMAIN hits :
                Place(Found(index, query), ResolveOrder(query.sort, query.text), WordsOf(query.text),
                      hits[i]) = offset + i
<1> DEFINE found == Found(index, query)
           order == ResolveOrder(query.sort, query.text)
           words == WordsOf(query.text)
<1>1. /\ found \subseteq Documents /\ IsFiniteSet(found) /\ OneEach(found)
  <2>1. found \subseteq index
    BY FoundMatch
  <2> QED
    BY <2>1, FS_Subset DEF SearchTypeOK, OneEach
<1>2. IsFiniteSet(words)
    BY WordsFinite DEF SearchAssumption
<1>3. ranking \in Rankings(order, words, found)
    OBVIOUS
<1> HIDE DEF found, order, words
<1>4. /\ ranking \in Seq(found) /\ Len(ranking) = Cardinality(found)
      /\ \A i \in 1 .. Len(ranking) : ranking[i] \in found /\ Place(found, order, words, ranking[i]) = i
    BY <1>1, <1>2, <1>3, RankedInPlace
<1>5. PICK total \in Nat : total = Total(index, query) /\ total <= Len(ranking)
    BY <1>1, <1>4, FS_CardinalityType DEF Total, SearchAssumption, found
<1>6. PICK limit \in Nat \ {0} : limit = Limit(query)
    BY DEF Limit, SearchAssumption
<1>7. PICK last \in Nat : last = IF offset + limit < total THEN offset + limit ELSE total
    OBVIOUS
<1>8. PICK first \in Nat : first = offset + 1
    OBVIOUS
<1>9. hits = SubSeq(ranking, first, last)
    BY <1>5, <1>6, <1>7, <1>8 DEF Page
<1>10. \A i \in first .. last : ranking[i] \in found
    BY <1>4, <1>5, <1>7, <1>8
<1>11. /\ hits \in Seq(found)
       /\ Len(hits) = IF first <= last THEN last - first + 1 ELSE 0
       /\ \A i \in 1 .. last - first + 1 : hits[i] = ranking[first + i - 1]
  <2>1. first \in Int /\ last \in Int
    OBVIOUS
  <2> QED
    BY <1>9, <1>10, <2>1, SubSeqProperties
<1>12. DOMAIN hits = 1 .. Len(hits) /\ Len(hits) \in Nat /\ last <= total
    BY SMTT(30), <1>6, <1>7, <1>11
<1>13. ASSUME NEW i \in 1 .. Len(hits)
       PROVE  hits[i] \in found /\ Place(found, order, words, hits[i]) = offset + i
  <2>1. first <= last /\ i <= last - first + 1
    BY <1>11, <1>12
  <2>2. PICK k \in Nat : k = offset + i
    BY <1>12
  <2>3. k = first + i - 1 /\ k <= last /\ i \in 1 .. last - first + 1
    BY <1>8, <1>12, <2>1, <2>2
  <2>4. hits[i] = ranking[k]
    BY <1>11, <2>3
  <2>5. k \in 1 .. Len(ranking)
    BY <1>4, <1>5, <1>12, <2>2, <2>3
  <2> QED
    BY <1>4, <2>2, <2>4, <2>5
<1>14. hits \in Seq(Documents)
    BY <1>1, <1>11
<1>15. /\ offset < total => Len(hits) # 0 /\ offset + Len(hits) <= total
       /\ offset = 0 => Len(hits) <= total
  <2>1. CASE first <= last
    BY <1>7, <1>8, <1>11, <1>12, <2>1
  <2>2. CASE ~(first <= last)
    BY <1>6, <1>7, <1>8, <1>11, <2>2
  <2> QED
    BY <2>1, <2>2
<1> QED
    BY <1>5, <1>12, <1>13, <1>14, <1>15 DEF found, order, words

\* The invariant holds of an index nobody has searched.
LEMMA SearchStarts == ASSUME SearchAssumption, SearchInit PROVE SearchInv
<1>1. SearchTypeOK
    BY DEF SearchInit, SearchTypeOK, SearchAssumption
<1>2. HeldInv
    BY DEF SearchInit, HeldInv
<1>3. PageInv /\ RefusedInv
    BY DEF SearchInit, PageInv, RefusedInv, Paged, NoAnswer
<1> QED
    BY <1>1, <1>2, <1>3 DEF SearchInv

\* A changed index is a later one: no walk has seen anything of it.
LEMMA ChangeKeeps == ASSUME SearchInv, ChangeIndex PROVE SearchInv'
<1>1. PICK d \in Documents :
        index' = {e \in index : e.id # d.id} \/ index' = {e \in index : e.id # d.id} \cup {d}
    BY DEF ChangeIndex
<1>2. changes' = changes + 1 /\ UNCHANGED <<issued, requests, answer>>
    BY DEF ChangeIndex
<1>3. changes \in Nat /\ requests \in Nat
    BY DEF SearchInv, SearchTypeOK
<1>4. SearchTypeOK'
  <2> DEFINE rest == {e \in index : e.id # d.id}
  <2>1. rest \subseteq Documents /\ IsFiniteSet(rest) /\ OneEach(rest)
    BY FS_Subset DEF SearchInv, SearchTypeOK, OneEach
  <2>2. IsFiniteSet(rest \cup {d})
    BY <2>1, FS_AddElement
  <2>3. OneEach(rest \cup {d})
    BY <2>1 DEF OneEach
  <2> DEFINE new == rest \cup {d}
  <2>4. new \subseteq Documents /\ IsFiniteSet(new) /\ OneEach(new) /\ (index' = rest \/ index' = new)
    BY <1>1, <2>1, <2>2, <2>3
  <2> HIDE DEF rest, new
  <2>5. changes' \in Nat /\ requests' \in Nat
    BY <1>2, <1>3
  <2> QED
    BY <2>1, <2>4, <2>5 DEF SearchTypeOK
<1>5. HeldInv'
  <2> SUFFICES ASSUME NEW held \in issued
               PROVE  /\ held.cursor.offset \in Nat /\ held.cursor.hash = QueryHash(held.walk.query)
                      /\ WalkInv(held.walk, held.cursor.offset)'
                      /\ held.walk.since # changes'
    BY <1>2 DEF HeldInv
  <2>1. /\ held.cursor.offset \in Nat /\ held.cursor.hash = QueryHash(held.walk.query)
        /\ held.walk \in Ways /\ held.walk.since <= changes /\ ValidateQuery(held.walk.query)
    BY DEF SearchInv, HeldInv, WalkInv
  <2>2. held.walk.since \in Nat
    BY <2>1 DEF Ways
  <2>3. held.walk.since <= changes' /\ held.walk.since # changes'
    BY <1>2, <1>3, <2>1, <2>2
  <2> QED
    BY <2>1, <2>3 DEF WalkInv
<1>6. PageInv'
  <2> SUFFICES ASSUME Paged PROVE PageInv'
    BY <1>2 DEF PageInv, Paged
  <2>1. PICK since \in Nat : since = answer.walk.since
    BY DEF SearchInv, PageInv
  <2>2. since <= changes
    BY <2>1 DEF SearchInv, PageInv
  <2>3. since <= changes' /\ since # changes'
    BY <1>2, <1>3, <2>2
  <2> QED
    BY <1>2, <2>1, <2>3 DEF SearchInv, PageInv, Paged
<1>7. RefusedInv'
    BY <1>2 DEF SearchInv, RefusedInv
<1> QED
    BY <1>4, <1>5, <1>6, <1>7 DEF SearchInv

\* A walk that may be continued at the offset.
Continues(query, offset, way) ==
    /\ query \in Queries /\ ValidateQuery(query) /\ offset \in Nat
    /\ WalkInv(way, offset) /\ QueryHash(query) = QueryHash(way.query)
    /\ way.since = changes => offset = 0 \/ offset < Total(index, query)

\* A sequence laid after another.
LEMMA Appended ==
    ASSUME NEW S, NEW s \in Seq(S), NEW t \in Seq(S)
    PROVE  /\ s \o t \in Seq(S) /\ Len(s \o t) = Len(s) + Len(t) /\ DOMAIN (s \o t) = 1 .. Len(s) + Len(t)
           /\ \A i \in 1 .. Len(s) : (s \o t)[i] = s[i]
           /\ \A i \in 1 .. Len(t) : (s \o t)[Len(s) + i] = t[i]
OBVIOUS

\* A page and the cursor with it continue the walk.
LEMMA AnswerKeeps ==
    ASSUME SearchAssumption, SearchInv, NEW query, NEW offset, NEW way, Continues(query, offset, way),
           Answer(query, offset, way), requests' = requests + 1, UNCHANGED <<index, changes>>
    PROVE  SearchInv'
<1>1. /\ query \in Queries /\ offset \in Nat /\ changes \in Nat /\ SearchTypeOK /\ SearchTypeOK'
      /\ way \in Ways /\ way.query \in Queries /\ way.since \in Nat /\ way.seen \in Seq(Documents)
    BY DEF Continues, WalkInv, Ways, SearchInv, SearchTypeOK
<1>2. PICK total : total = Total(index, query)
    OBVIOUS
<1>3. PICK ranking \in Rankings(ResolveOrder(query.sort, query.text), WordsOf(query.text),
                                Found(index, query)) :
        LET hits == Page(ranking, total, offset, Limit(query))
            grown == [way EXCEPT !.seen = @ \o hits]
            more == HasNext(offset, Len(hits), total)
            cursor == [offset |-> offset + Len(hits), hash |-> QueryHash(query)]
        IN /\ answer' = [kind |-> "page", query |-> query, hits |-> hits, total |-> total,
                         offset |-> offset, walk |-> grown, more |-> more]
           /\ issued' = IF more THEN issued \cup {[cursor |-> cursor, walk |-> grown]} ELSE issued
    BY <1>2 DEF Answer
<1> DEFINE hits == Page(ranking, total, offset, Limit(query))
           grown == [way EXCEPT !.seen = @ \o hits]
           more == HasNext(offset, Len(hits), total)
           new == [cursor |-> [offset |-> offset + Len(hits), hash |-> QueryHash(query)], walk |-> grown]
<1>4. /\ hits \in Seq(Documents) /\ total \in Nat
      /\ \A i \in DOMAIN hits : hits[i] \in Found(index, query)
      /\ offset < total => hits # <<>> /\ offset + Len(hits) <= total
      /\ offset = 0 => Len(hits) <= total
      /\ \A i \in DOMAIN hits :
            Place(Found(index, query), ResolveOrder(query.sort, query.text), WordsOf(query.text),
                  hits[i]) = offset + i
    BY <1>1, <1>2, PageContinues
<1> HIDE DEF hits
<1>5. PICK n \in Nat : n = Len(hits) /\ DOMAIN hits = 1 .. n
    BY <1>4
<1>6. /\ grown \in Ways /\ grown.query = way.query /\ grown.since = way.since
      /\ Len(grown.seen) = Len(way.seen) + n /\ DOMAIN grown.seen = 1 .. Len(way.seen) + n
      /\ \A i \in 1 .. Len(way.seen) : grown.seen[i] = way.seen[i]
      /\ \A i \in 1 .. n : grown.seen[Len(way.seen) + i] = hits[i]
  <2>1. PICK s \in Seq(Documents) : s = way.seen
    BY <1>1
  <2>2. PICK seen : seen = s \o hits
    OBVIOUS
  <2>3. /\ seen \in Seq(Documents) /\ Len(seen) = Len(s) + n /\ DOMAIN seen = 1 .. Len(s) + n
        /\ \A i \in 1 .. Len(s) : seen[i] = s[i]
        /\ \A i \in 1 .. n : seen[Len(s) + i] = hits[i]
    BY <1>4, <1>5, <2>2, Appended
  <2>4. grown = [way EXCEPT !.seen = seen]
    BY <1>1, <2>1, <2>2 DEF Ways, grown
  <2>5. [way EXCEPT !.seen = seen] \in Ways
    BY <1>1, <2>3 DEF Ways
  <2> QED
    BY <1>1, <2>1, <2>3, <2>4, <2>5 DEF Ways
<1>7. /\ more <=> offset + n < total
      /\ new.cursor.offset = offset + n /\ new.cursor.hash = QueryHash(query) /\ new.walk = grown
    BY <1>5 DEF HasNext
<1>8. /\ answer' = [kind |-> "page", query |-> query, hits |-> hits, total |-> total,
                     offset |-> offset, walk |-> grown, more |-> more]
      /\ issued' = IF more THEN issued \cup {new} ELSE issued
    BY <1>3 DEF hits
<1> HIDE DEF grown, more, new
<1>9. /\ WordsOf(query.text) = WordsOf(way.query.text) /\ total = Total(index, way.query)
      /\ ResolveOrder(query.sort, query.text) = ResolveOrder(way.query.sort, way.query.text)
      /\ Found(index, query) = Found(index, way.query)
    BY <1>1, <1>2, HashDecides DEF Continues
<1>10. ASSUME way.since = changes
      PROVE  /\ Len(grown.seen) = offset + n /\ Shows(query, grown.seen) /\ Shows(way.query, grown.seen)
             /\ offset + n <= total
  <2>1. Len(way.seen) = offset /\ Shows(way.query, way.seen) /\ (offset = 0 \/ offset < total)
    BY <1>2, <1>10 DEF Continues, WalkInv
  <2>2. Shows(query, way.seen)
    BY <1>9, <2>1 DEF Shows
  <2>3. Len(grown.seen) = offset + n /\ offset + n <= total
    BY <1>1, <1>4, <1>5, <1>6, <2>1
  <2>4. ASSUME NEW i \in DOMAIN grown.seen
        PROVE  /\ grown.seen[i] \in Found(index, query)
               /\ Place(Found(index, query), ResolveOrder(query.sort, query.text), WordsOf(query.text),
                        grown.seen[i]) = i
    <3>1. i \in 1 .. offset + n
      BY <1>6, <2>1
    <3>2. CASE i <= offset
      <4>1. grown.seen[i] = way.seen[i] /\ i \in DOMAIN way.seen
        BY <1>1, <1>6, <2>1, <3>1, <3>2
      <4> QED
        BY <2>2, <4>1 DEF Shows
    <3>3. CASE ~(i <= offset)
      <4>1. PICK k \in 1 .. n : i = offset + k
        <5>1. i - offset \in 1 .. n /\ i = offset + (i - offset)
          BY <1>1, <3>1, <3>3
        <5> QED
          BY <5>1
      <4>2. grown.seen[i] = hits[k]
        BY <1>6, <2>1, <4>1
      <4> QED
        BY <1>4, <1>5, <4>1, <4>2
    <3> QED
      BY <3>2, <3>3
  <2>5. Shows(query, grown.seen)
    BY <2>4 DEF Shows
  <2> QED
    BY <1>9, <2>3, <2>5 DEF Shows
<1>11. WalkInv(grown, offset + n)
    BY <1>1, <1>6, <1>10 DEF WalkInv, Continues
<1>12. HeldInv'
  <2>1. ASSUME NEW held \in issued
        PROVE  /\ held.cursor.offset \in Nat /\ held.cursor.hash = QueryHash(held.walk.query)
               /\ WalkInv(held.walk, held.cursor.offset)'
               /\ held.walk.since = changes => held.cursor.offset < Total(index, held.walk.query)
    BY DEF SearchInv, HeldInv, WalkInv, Shows
  <2>2. CASE ~more
    BY <1>8, <2>1, <2>2 DEF HeldInv
  <2>3. CASE more
    <3>4. WalkInv(grown, offset + n)'
      BY <1>11 DEF WalkInv, Shows
    <3>5. /\ new.cursor.offset \in Nat /\ new.cursor.hash = QueryHash(new.walk.query)
          /\ WalkInv(new.walk, new.cursor.offset)'
          /\ new.cursor.offset < Total(index, new.walk.query)
      BY <1>1, <1>6, <1>9, <1>7, <2>3, <3>4 DEF Continues
    <3> QED
      BY <1>8, <2>1, <2>3, <3>5 DEF HeldInv
  <2> QED
    BY <2>2, <2>3
<1>13. PageInv'
  <2>1. /\ answer'.query = query /\ answer'.walk = grown /\ answer'.hits = hits /\ answer'.total = total
        /\ answer'.more = more
    BY <1>8
  <2>2. QueryHash(query) = QueryHash(grown.query) /\ grown.query \in Queries /\ grown.since <= changes
    BY <1>1, <1>6 DEF Continues, WalkInv
  <2>3. more => hits # <<>>
    BY <1>1, <1>4, <1>5, <1>7
  <2>4. ASSUME ~more, grown.since = changes PROVE Len(grown.seen) = total
    <3>1. Len(grown.seen) = offset + n /\ offset + n <= total
      BY <1>6, <1>10, <2>4
    <3>2. ~(offset + n < total)
      BY <1>7, <2>4, Zenon
    <3>3. offset + n = total
      BY <1>1, <1>4, <1>5, <3>1, <3>2
    <3> QED
      BY <3>1, <3>3
  <2>5. grown.since = changes => Shows(query, grown.seen)
    BY <1>6, <1>10
  <2>6. index \in SUBSET Documents /\ \A i \in DOMAIN hits : hits[i] \in Found(index, query)
    BY <1>1, <1>4 DEF SearchTypeOK
  <2>7. \E docs \in SUBSET Documents : \A i \in DOMAIN hits : hits[i] \in Found(docs, query)
    BY <2>6
  <2>8. Shows(query, grown.seen)' <=> Shows(query, grown.seen)
    BY DEF Shows
  <2>9. grown.since \in Nat
    BY <1>6 DEF Ways
  <2>10. PageInv' <=>
            (Paged' =>
                /\ query \in Queries /\ grown.query \in Queries
                /\ QueryHash(query) = QueryHash(grown.query)
                /\ grown.since \in Nat /\ grown.since <= changes
                /\ grown.since = changes =>
                    Shows(query, grown.seen)' /\ (~more => Len(grown.seen) = total)
                /\ more => hits # <<>>
                /\ \E docs \in SUBSET Documents : \A i \in DOMAIN hits : hits[i] \in Found(docs, query))
    BY <2>1 DEF PageInv
  <2> QED
    BY <1>1, <2>2, <2>3, <2>4, <2>5, <2>7, <2>8, <2>9, <2>10
<1>14. RefusedInv'
    BY <1>8 DEF RefusedInv
<1> QED
    BY <1>1, <1>12, <1>13, <1>14 DEF SearchInv

\* A refusal hands nothing out; a refused cursor was of another query.
LEMMA RefuseKeeps ==
    ASSUME SearchInv, NEW query, NEW held, NEW why \in {"invalid_filter", "invalid_cursor"},
           RefuseSearch(query, held, why), requests' = requests + 1, UNCHANGED <<index, changes>>,
           why = "invalid_cursor" =>
                /\ query \in Queries /\ ValidateQuery(query) /\ held \in issued
                /\ held.cursor.hash # QueryHash(query)
    PROVE  SearchInv'
<1>1. answer' = [kind |-> why, query |-> query, held |-> held] /\ issued' = issued
    BY DEF RefuseSearch
<1>2. SearchTypeOK'
    BY DEF SearchInv, SearchTypeOK
<1>3. HeldInv'
    BY <1>1 DEF SearchInv, HeldInv, WalkInv, Shows
<1>4. PageInv'
    BY <1>1 DEF PageInv, Paged
<1>5. RefusedInv'
  <2>1. ASSUME why = "invalid_cursor"
        PROVE  /\ held.walk.query \in Queries /\ ValidateQuery(held.walk.query)
               /\ QueryHash(held.walk.query) # QueryHash(query)
    BY <2>1 DEF SearchInv, HeldInv, WalkInv, Ways
  <2> QED
    BY <1>1, <2>1 DEF RefusedInv
<1> QED
    BY <1>2, <1>3, <1>4, <1>5 DEF SearchInv

\* Every request keeps the invariant, with a cursor and without.
LEMMA SearchKeeps ==
    ASSUME SearchAssumption, SearchInv, NEW query \in Queries, NEW held \in issued \cup {NoCursor},
           Search(query, held)
    PROVE  SearchInv'
<1>1. requests' = requests + 1 /\ UNCHANGED <<index, changes>> /\ changes \in Nat
    BY DEF Search, SearchInv, SearchTypeOK
<1>2. CASE ~ValidateQuery(query)
  <2>1. RefuseSearch(query, held, "invalid_filter")
    BY <1>2 DEF Search
  <2> QED
    BY <1>1, <2>1, RefuseKeeps
<1>3. CASE ValidateQuery(query) /\ held = NoCursor
  <2> DEFINE way == [query |-> query, since |-> changes, seen |-> <<>>]
  <2>1. Answer(query, 0, way)
    BY <1>3 DEF Search
  <2>2. Continues(query, 0, way)
    BY <1>1, <1>3 DEF Continues, WalkInv, Ways, Shows
  <2> HIDE DEF way
  <2> QED
    BY <1>1, <2>1, <2>2, AnswerKeeps
<1>4. CASE ValidateQuery(query) /\ held # NoCursor /\ held.cursor.hash # QueryHash(query)
  <2>1. RefuseSearch(query, held, "invalid_cursor")
    BY <1>4 DEF Search
  <2> QED
    BY <1>1, <1>4, <2>1, RefuseKeeps
<1>5. CASE ValidateQuery(query) /\ held # NoCursor /\ held.cursor.hash = QueryHash(query)
  <2>1. Answer(query, held.cursor.offset, held.walk)
    BY <1>5 DEF Search
  <2>2. /\ held.cursor.offset \in Nat /\ QueryHash(query) = QueryHash(held.walk.query)
        /\ WalkInv(held.walk, held.cursor.offset) /\ held.walk.query \in Queries
        /\ held.walk.since = changes => held.cursor.offset < Total(index, held.walk.query)
    BY <1>5 DEF SearchInv, HeldInv, WalkInv, Ways
  <2>3. Total(index, query) = Total(index, held.walk.query)
    BY <2>2, HashDecides
  <2>4. Continues(query, held.cursor.offset, held.walk)
    BY <1>5, <2>2, <2>3 DEF Continues
  <2> QED
    BY <1>1, <2>1, <2>4, AnswerKeeps
<1> QED
    BY <1>2, <1>3, <1>4, <1>5

\* Every step keeps the invariant.
LEMMA SearchSteps == ASSUME SearchAssumption, SearchInv, [SearchNext]_searchVars PROVE SearchInv'
<1>1. CASE ChangeIndex
    BY <1>1, ChangeKeeps
<1>2. CASE FirstSearch
  <2>1. PICK query \in Queries : Search(query, NoCursor)
    BY <1>2 DEF FirstSearch
  <2> QED
    BY <2>1, SearchKeeps
<1>3. CASE NextSearch
  <2>1. PICK held \in issued : Search(held.walk.query, held)
    BY <1>3 DEF NextSearch
  <2>2. held.walk.query \in Queries
    BY DEF SearchInv, HeldInv, WalkInv, Ways
  <2> QED
    BY <2>1, <2>2, SearchKeeps
<1>4. CASE OtherQuery
  <2>1. PICK held \in issued, query \in Queries : Search(query, held)
    BY <1>4 DEF OtherQuery
  <2> QED
    BY <2>1, SearchKeeps
<1>5. CASE UNCHANGED searchVars
  <2>1. UNCHANGED <<index, changes, issued, requests, answer>>
    BY <1>5 DEF searchVars
  <2>2. SearchTypeOK' /\ HeldInv'
    BY <2>1 DEF SearchInv, SearchTypeOK, HeldInv, WalkInv, Shows
  <2>3. PageInv' /\ RefusedInv'
    BY <2>1 DEF SearchInv, PageInv, Paged, Shows, RefusedInv
  <2> QED
    BY <2>2, <2>3 DEF SearchInv
<1> QED
    BY <1>1, <1>2, <1>3, <1>4, <1>5 DEF SearchNext

\* What names the same order: an omitted one, and the one it stands for.
LEMMA MeaningIsOrder ==
    ASSUME NEW query \in Queries, SearchAssumption, ValidateQuery(query)
    PROVE  ResolveOrder(query.sort, query.text) = Meaning(query.sort, WordsOf(query.text) = {})
<1>1. Trim(query.text) = <<>> <=> WordsOf(query.text) = {}
    BY TrimKeepsWords DEF SearchAssumption
<1>2. query.sort \in {"", "relevance", "newest", "oldest", "title"}
    BY DEF ValidateQuery
<1> QED
    BY <1>1, <1>2 DEF ResolveOrder, Meaning

\* An identifier that a shown document carries was looked for as one.
LEMMA ExactPage ==
    ASSUME SearchAssumption, NEW query \in Queries, NEW docs, NEW i \in DOMAIN query.text,
           query.text[i] \in Identifiers, \A j \in DOMAIN query.text \ {i} : query.text[j] = Space,
           NEW d \in Found(docs, query), query.text[i] \in d.ids,
           NEW e \in Found(docs, query)
    PROVE  query.text[i] \in e.ids
<1>1. query.text \in Seq(STRING) /\ query.text[i] # Space
    BY DEF SearchAssumption
<1>2. Len(Trim(query.text)) = 1 /\ Trim(query.text)[1] = query.text[i]
    BY <1>1, TrimKeepsWords
<1>3. Exact(Trim(query.text))
    BY <1>2 DEF Exact
<1> DEFINE exact == {x \in Matches(docs, query) : Trim(query.text)[1] \in x.ids}
<1>4. d \in exact
    BY <1>2, FoundMatch
<1>5. Found(docs, query) = exact
    BY <1>3, <1>4 DEF Found
<1> QED
    BY <1>2, <1>5

\* The invariant is strong enough.
LEMMA SearchInvSuffices == ASSUME SearchAssumption, SearchInv PROVE SearchWalksAreComplete
<1>1. SearchTypeOK
    BY DEF SearchInv
<1>2. Paged => /\ answer.query \in Queries /\ answer.walk.query \in Queries
               /\ QueryHash(answer.query) = QueryHash(answer.walk.query)
    BY DEF SearchInv, PageInv
<1>3. WalkSeesEveryHit
  <2> SUFFICES ASSUME Paged, answer.walk.since = changes
               PROVE  LET seen == answer.walk.seen
                          place == Reference(answer.query)
                      IN /\ \A i \in DOMAIN seen : seen[i] \in DOMAIN place /\ place[seen[i]] = i
                         /\ ~answer.more => Len(seen) = answer.total
    BY DEF WalkSeesEveryHit
  <2>1. /\ Shows(answer.query, answer.walk.seen)
        /\ ~answer.more => Len(answer.walk.seen) = answer.total
    BY DEF SearchInv, PageInv
  <2>2. \A d \in Found(index, answer.query) :
          /\ d \in DOMAIN Reference(answer.query)
          /\ Reference(answer.query)[d] =
                Place(Found(index, answer.query), ResolveOrder(answer.query.sort, answer.query.text),
                      WordsOf(answer.query.text), d)
    BY DEF Reference, Place
  <2> QED
    BY <2>1, <2>2 DEF Shows
<1>4. WalksGetOn
    BY DEF SearchInv, PageInv, WalksGetOn
<1>5. CursorsKeepTheirList
    BY <1>2, HashDecides DEF CursorsKeepTheirList, Reference
<1>6. EquivalentQueriesShareCursors
  <2> SUFFICES ASSUME answer.kind = "invalid_cursor", NEW p, NEW q,
                      p = answer.query, q = answer.held.walk.query,
                      <<p.filters, Limit(p), Trim(p.text)>> = <<q.filters, Limit(q), Trim(q.text)>>,
                      Meaning(p.sort, WordsOf(p.text) = {}) = Meaning(q.sort, WordsOf(q.text) = {})
               PROVE  FALSE
    BY DEF EquivalentQueriesShareCursors
  <2>1. /\ p \in Queries /\ q \in Queries /\ ValidateQuery(p) /\ ValidateQuery(q)
        /\ QueryHash(q) # QueryHash(p)
    BY DEF SearchInv, RefusedInv
  <2>2. ResolveOrder(p.sort, p.text) = ResolveOrder(q.sort, q.text)
    BY <2>1, MeaningIsOrder
  <2> QED
    BY <2>1, <2>2 DEF QueryHash
<1>7. ASSUME Paged
      PROVE  \E docs \in SUBSET Documents :
                \A i \in DOMAIN answer.hits : answer.hits[i] \in Found(docs, answer.query)
    BY <1>7 DEF SearchInv, PageInv
<1>8. FiltersAlwaysApply
    BY <1>7, FoundMatch DEF FiltersAlwaysApply, Matches
<1>9. IdentifiersAreExact
  <2> SUFFICES ASSUME Paged, NEW i \in DOMAIN answer.query.text, answer.query.text[i] \in Identifiers,
                      \A j \in DOMAIN answer.query.text \ {i} : answer.query.text[j] = Space,
                      NEW m \in DOMAIN answer.hits, answer.query.text[i] \in answer.hits[m].ids,
                      NEW n \in DOMAIN answer.hits
               PROVE  answer.query.text[i] \in answer.hits[n].ids
    BY DEF IdentifiersAreExact
  <2>1. PICK docs \in SUBSET Documents :
            \A k \in DOMAIN answer.hits : answer.hits[k] \in Found(docs, answer.query)
    BY <1>7
  <2> QED
    BY <1>2, <2>1, ExactPage
<1> QED
    BY <1>1, <1>3, <1>4, <1>5, <1>6, <1>8, <1>9 DEF SearchWalksAreComplete

\* Searches answer faithfully, for any documents, queries and limits, however the
\* index changes between requests and whatever cursors come back: the pages of a
\* walk are the list, a cursor belongs to one list, filters and identifiers apply
\* (search/query.go, Search).
THEOREM SearchesTheorem == ASSUME SearchAssumption PROVE SearchSpec => []SearchWalksAreComplete
<1>1. SearchInit => SearchInv
    BY SearchStarts
<1>2. SearchInv /\ [SearchNext]_searchVars => SearchInv'
    BY SearchSteps
<1>3. SearchInv => SearchWalksAreComplete
    BY SearchInvSuffices
<1> QED
    BY <1>1, <1>2, <1>3, PTL DEF SearchSpec

===============================================================================
