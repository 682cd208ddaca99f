---------------------------- MODULE AuthSessions ----------------------------
(***************************************************************************)
(* Administrators' sessions (internal/auth): logins that are counted,      *)
(* checked and answered in separate steps, requests that check a session   *)
(* as of the start of their transaction and write its row later, sessions  *)
(* that end by idling, by age or by revocation, password resets and        *)
(* disabled users.  One user and one source address; times are what is     *)
(* left of them, below 0 when they are over.                               *)
(***************************************************************************)
EXTENDS Integers, FiniteSets, Sequences

CONSTANTS
  Attempts,       \* logins that may run at the same time
  Requests,       \* requests of the API that may run at the same time
  Ids,            \* session identifiers 1..n; bound: sessions ever made
  Passwords,      \* 0..n: the password after so many resets
  MaxWrong,       \* bound: wrong passwords given
  MaxWait,        \* bound: time a request's transaction stays open
  IdleTTL, AbsoluteTTL, LoginFailureLimit, LoginFailureWindow

\* What the theorems suppose; a session may be told to idle longer than it lives.
LoginAssumption ==
  /\ {IdleTTL, AbsoluteTTL, LoginFailureLimit, LoginFailureWindow} \subseteq Nat \ {0}
  /\ Ids \subseteq Nat \ {0} /\ IsFiniteSet(Attempts)
  /\ Passwords \subseteq Nat /\ 0 \in Passwords /\ {MaxWrong, MaxWait} \subseteq Nat

VARIABLES
  user,       \* application_users and local_credentials: status, password
  sessions,   \* sessions: time left to idle and to live, revoked
  failures,   \* login_failures: time each still counts
  attempt,    \* where each login is
  request,    \* the session of each request, and the age of its transaction
  wrong,      \* wrong passwords given
  most        \* most logins that ever ran at the same time

vars == <<user, sessions, failures, attempt, request, wrong, most>>

Idle == [pc |-> "idle"]
NoRequest == [pc |-> "none"]
NoSession == [made |-> FALSE, idle |-> 0, absolute |-> 0, revoked |-> FALSE]
Smaller(x, y) == IF x < y THEN x ELSE y
Larger(x, y) == IF x < y THEN y ELSE x

\* Logins that have begun and not ended.
Running == {a \in Attempts : attempt[a] # Idle}

Made(s) == sessions[s].made
\* What the queries take for an active session: unrevoked and, compared with the
\* start of a transaction that is so old, expired by neither time.
ActiveAt(s, age) ==
  Made(s) /\ ~sessions[s].revoked /\ sessions[s].idle + age > 0 /\ sessions[s].absolute + age > 0
Active(s) == ActiveAt(s, 0)
\* The UPDATE that revokes does not look at expiry.
Unrevoked == {s \in Ids : Made(s) /\ ~sessions[s].revoked}

Revoked(revoke) ==
  [s \in Ids |-> IF s \in revoke THEN [sessions[s] EXCEPT !.revoked = TRUE] ELSE sessions[s]]

\* Rows a login's transaction has updated and not committed.
LockedBy(a) == IF attempt[a].pc = "replacing" THEN attempt[a].seen ELSE {}
Free(s) == \A a \in Attempts : s \notin LockedBy(a)

\* Requests that hold the rows of their session and of the user: FOR UPDATE locks
\* both, and whoever changes a session or records the user in the audit waits.
Holding == {r \in Requests : request[r].pc = "locked"}

Init ==
  /\ user = [status |-> "absent", password |-> 0]
  /\ sessions = [s \in Ids |-> NoSession]
  /\ failures = << >>
  /\ attempt = [a \in Attempts |-> Idle]
  /\ request = [r \in Requests |-> NoRequest]
  /\ wrong = 0
  /\ most = 0

----------------------------------------------------------------------------
CreateUser ==
  /\ user.status = "absent"
  /\ user' = [user EXCEPT !.status = "active"]
  /\ UNCHANGED <<sessions, failures, attempt, request, wrong, most>>

\* The credential and the sessions change in one transaction, which waits for
\* the rows of a login's transaction and of a request's.
ResetPassword ==
  /\ user.status # "absent" /\ user.password + 1 \in Passwords
  /\ Holding = {} /\ \A s \in Unrevoked : Free(s)
  /\ user' = [user EXCEPT !.password = @ + 1]
  /\ sessions' = Revoked(Unrevoked)
  /\ UNCHANGED <<failures, attempt, request, wrong, most>>

DisableUser ==
  /\ user.status # "absent"
  /\ Holding = {} /\ \A s \in Unrevoked : Free(s)
  /\ user' = [user EXCEPT !.status = "disabled"]
  /\ sessions' = Revoked(Unrevoked)
  /\ UNCHANGED <<failures, attempt, request, wrong, most>>

\* Mutated form: the limit is passed before it counts.
Throttled_Late == Len(failures) > LoginFailureLimit

Throttled == Len(failures) >= LoginFailureLimit

\* Login counts the recent failures before anything else.
BeginLogin(a, password) ==
  /\ attempt[a] = Idle /\ ~Throttled
  /\ wrong < MaxWrong \/ password = user.password
  /\ wrong' = IF password = user.password THEN wrong ELSE wrong + 1
  /\ attempt' = [attempt EXCEPT ![a] = [pc |-> "counted", password |-> password]]
  /\ most' = Larger(most, Cardinality(Running'))
  /\ UNCHANGED <<user, sessions, failures, request>>

\* The credential is read and the password verified.
CheckCredential(a) ==
  /\ attempt[a].pc = "counted"
  /\ LET right == user.status = "active" /\ attempt[a].password = user.password IN
     attempt' = [attempt EXCEPT ![a] = [pc |-> IF right THEN "verified" ELSE "refused"]]
  /\ UNCHANGED <<user, sessions, failures, request, wrong, most>>

\* The failure is recorded; that its insertion fails is ignored.
RefuseLogin(a) ==
  /\ attempt[a].pc = "refused"
  /\ failures' \in {failures, Append(failures, LoginFailureWindow)}
  /\ attempt' = [attempt EXCEPT ![a] = Idle]
  /\ UNCHANGED <<user, sessions, request, wrong, most>>

\* The transaction's UPDATE revokes the sessions its snapshot shows ...
ReplaceSessions(a) ==
  /\ attempt[a].pc = "verified"
  /\ attempt' = [attempt EXCEPT ![a] = [pc |-> "replacing", seen |-> Unrevoked]]
  /\ UNCHANGED <<user, sessions, failures, request, wrong, most>>

\* ... when it has their rows, and a new one is inserted and committed with it.
\* The table refuses a session that would idle longer than it lives.
CommitLogin(a, s) ==
  /\ attempt[a].pc = "replacing" /\ ~Made(s) /\ \A t \in Ids : t < s => Made(t)
  /\ Holding = {} /\ IdleTTL <= AbsoluteTTL
  /\ sessions' = [Revoked(attempt[a].seen) EXCEPT ![s] =
       [made |-> TRUE, idle |-> IdleTTL, absolute |-> AbsoluteTTL, revoked |-> FALSE]]
  /\ attempt' = [attempt EXCEPT ![a] = Idle]
  /\ UNCHANGED <<user, failures, request, wrong, most>>

FailLogin(a) ==
  /\ attempt[a].pc # "idle"
  /\ attempt' = [attempt EXCEPT ![a] = Idle]
  /\ UNCHANGED <<user, sessions, failures, request, wrong, most>>

----------------------------------------------------------------------------
IdleExpiry(s) == Smaller(IdleTTL, sessions[s].absolute)

\* Authenticate begins a transaction, whose start is what its query calls now().
BeginRequest(r, s) ==
  /\ request[r] = NoRequest /\ Made(s)
  /\ request' = [request EXCEPT ![r] = [pc |-> "begun", session |-> s, age |-> 0]]
  /\ UNCHANGED <<user, sessions, failures, attempt, wrong, most>>

\* Mutated form: a session that has idled too long is taken.
Accepted_Idle(s, age) ==
  Made(s) /\ ~sessions[s].revoked /\ sessions[s].absolute + age > 0 /\ user.status = "active"

Accepted(s, age) == ActiveAt(s, age) /\ user.status = "active"

\* The session's row is read again when its lock is granted, however late, and
\* compared with the transaction's start.
LockSession(r) ==
  /\ request[r].pc = "begun" /\ Holding = {}
  /\ Accepted(request[r].session, request[r].age)
  /\ request' = [request EXCEPT ![r].pc = "locked"]
  /\ UNCHANGED <<user, sessions, failures, attempt, wrong, most>>

\* TouchSession looks at revocation only, and writes an expiry of its own now.
TouchSession(r) ==
  /\ request[r].pc = "locked"
  /\ LET s == request[r].session IN
     /\ ~sessions[s].revoked
     /\ sessions' = [sessions EXCEPT ![s].idle = IdleExpiry(s)]
  /\ request' = [request EXCEPT ![r] = NoRequest]
  /\ UNCHANGED <<user, failures, attempt, wrong, most>>

\* Unauthorized, or a statement fails: nothing is committed.
EndRequest(r) ==
  /\ request[r] # NoRequest
  /\ request' = [request EXCEPT ![r] = NoRequest]
  /\ UNCHANGED <<user, sessions, failures, attempt, wrong, most>>

\* Revoke (logout); a second one finds nothing to revoke.
Revoke(s) ==
  /\ Made(s) /\ Free(s) /\ Holding = {}
  /\ sessions' = Revoked({s})
  /\ UNCHANGED <<user, failures, attempt, request, wrong, most>>

\* A failure counts while attempted_at is inside the window.
Older(left) == left - 1

\* Times that were over before any open transaction began are not told apart.
Later(x) == IF x > -MaxWait THEN x - 1 ELSE x

\* Failures are recorded in the order of attempted_at, so that the first ones
\* cease to count first.
Tick ==
  /\ sessions' = [s \in Ids |-> [sessions[s] EXCEPT !.idle = Later(@), !.absolute = Later(@)]]
  /\ LET aged == [i \in DOMAIN failures |-> Older(failures[i])] IN
     \E n \in 0..Len(failures) :
       /\ \A i \in DOMAIN failures : aged[i] > 0 <=> i > n
       /\ failures' = SubSeq(aged, n + 1, Len(failures))
  /\ \A r \in Requests : request[r] # NoRequest => request[r].age < MaxWait
  /\ request' = [r \in Requests |->
       IF request[r] = NoRequest THEN NoRequest ELSE [request[r] EXCEPT !.age = @ + 1]]
  /\ UNCHANGED <<user, attempt, wrong, most>>

Login(a) ==
  \/ CheckCredential(a) \/ RefuseLogin(a) \/ ReplaceSessions(a)
  \/ \E s \in Ids : CommitLogin(a, s)

Next ==
  \/ CreateUser \/ ResetPassword \/ DisableUser \/ Tick
  \/ \E a \in Attempts :
       \/ \E password \in Passwords : BeginLogin(a, password)
       \/ Login(a) \/ FailLogin(a)
  \/ \E r \in Requests :
       \/ \E s \in Ids : BeginRequest(r, s)
       \/ LockSession(r) \/ TouchSession(r) \/ EndRequest(r)
  \/ \E s \in Ids : Revoke(s)

Spec == Init /\ [][Next]_vars

----------------------------------------------------------------------------
TypeOK ==
  /\ user \in [status : {"absent", "active", "disabled"}, password : Passwords]
  /\ sessions \in [Ids -> [made : BOOLEAN, idle : -MaxWait..IdleTTL,
                          absolute : -MaxWait..AbsoluteTTL, revoked : BOOLEAN]]
  /\ failures \in Seq(1..LoginFailureWindow)
  /\ attempt \in [Attempts -> {Idle} \cup [pc : {"counted"}, password : Passwords]
                               \cup [pc : {"verified", "refused"}]
                               \cup [pc : {"replacing"}, seen : SUBSET Ids]]
  /\ request \in [Requests -> {NoRequest} \cup
                    [pc : {"begun", "locked"}, session : Ids, age : 0..MaxWait]]
  /\ wrong \in 0..MaxWrong
  /\ most \in Nat

Over(s) == Made(s) /\ ~Active(s)
Ended(s) == Made(s) /\ (sessions[s].revoked \/ sessions[s].absolute <= 0)

\* Requests that use the session and began before the expiry its row has.
InTime(s) == {r \in Holding : request[r].session = s /\ ActiveAt(s, request[r].age)}

\* A session that ended by revocation or by age never comes back, although every
\* request that uses a session writes its row again; one that has idled out comes
\* back only through a request that began before and was held up since.
EndedStaysEnded ==
  [][\A s \in Ids : (Ended(s) => Ended(s)') /\ (Over(s) => Over(s)' \/ InTime(s) # {})]_vars

\* As long as no logins have overlapped a user has one session: a login ends the
\* sessions of the logins before it.
OneSession == most <= 1 => \A s, t \in Ids : Active(s) /\ Active(t) => s = t

\* Attempts are counted before they are checked and recorded after, so
\* overlapping ones pass the limit, but no more of them than ever ran at once.
OvershootIsBounded == Len(failures) <= LoginFailureLimit - 1 + most

\* Logins: the failures counted stay within what overlapping attempts can add to
\* the limit, and logins that do not overlap leave a user one session.
LoginsAreBounded == TypeOK /\ OvershootIsBounded /\ OneSession

=============================================================================
