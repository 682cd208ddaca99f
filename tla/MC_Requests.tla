------------------------------ MODULE MC_Requests ------------------------------
(***************************************************************************)
(* What single requests of the API keep between them: sessions, cursors    *)
(* and the readiness verdict.  A behaviour starts in one of the settings   *)
(* and stays there.                                                        *)
(*   "overlap"    two logins at the same time;                             *)
(*   "alone"      logins that do not overlap, also failing ones;           *)
(*   "trying"     logins that do not overlap and whose statements succeed; *)
(*   "requests"   two requests that use sessions, and logins and logouts;   *)
(*   "orders"     searches in every order, of a fixed index;               *)
(*   "texts"      searches by text, filter and identifier, while one       *)
(*                document of the index changes;                           *)
(*   "lists"      the three lists of administrators;                       *)
(*   "readiness"  two callers of the readiness endpoint.                   *)
(***************************************************************************)
EXTENDS AuthSessions, KeysetPaging, ReadinessProbe, SearchPaging, TLC

CONSTANTS a1, a2
VARIABLE setting

\* The theorems about logins, searches, lists and readiness speak of these.
ASSUME LoginsFit == LoginAssumption
ASSUME ListsFit == ListsAssumption
ASSUME ProbeFits == ProbeAssumption

-----------------------------------------------------------------------------
(* Logins and lists.                                                       *)

\* The login a2 is not used; no requests.
OneLogin == attempt'[a2] = Idle
NoRequests == \A r \in Requests : request'[r] = NoRequest

\* Bounds on the sessions of overlapping logins and of requests, whose user is
\* disabled or gets another password but not both, on the wrong passwords of the
\* others, and on the names of people.
TwoSessions == ~sessions'[3].made /\ (user'.status = "disabled" => user'.password = 0)
TwoWrong == wrong' <= 2
NoneWrong == wrong' = 0
FewNames == list = "people" => \A r \in Rows : key[r] <= 2

\* The statements of the login succeed: it ends refused or with a session.
NoneFails ==
  attempt'[a1] = Idle => attempt[a1].pc \in {"idle", "refused"} \/ sessions' # sessions

-----------------------------------------------------------------------------
(* Searches.                                                               *)

Document(i, y, sem, t, w, n, k) ==
  [id |-> i, year |-> y, semester |-> sem, title |-> t, words |-> w \cup n, ids |-> n,
   keys |-> [major |-> k]]

\* Two documents that only their id tells apart, a third with an identifier,
\* and a fourth that mentions that identifier as a word.
MC_Documents == {
  Document(1, 2, 1, 1, {"x"}, {}, {"m"}),
  Document(2, 2, 1, 1, {"x"}, {}, {"m"}),
  Document(3, 1, 2, 2, {"x", "y"}, {"1234567"}, {"n"}),
  Document(4, 1, 3, 0, {"y", "1234567"}, {}, {"m"})}

MC_StartIndexes == {MC_Documents, {d \in MC_Documents : d.id <= 3}}

Query(text, sort, majors, n) ==
  [text |-> text, sort |-> sort, filters |-> [major |-> majors], limit |-> n]

\* Orders, blanks and limits on the whole list.
OrderQueries ==
  {Query(<<>>, sort, {}, 1) : sort \in {"", "relevance", "newest", "oldest", "title", "best"}} \cup
  {Query(<<" ">>, "", {}, 1), Query(<<>>, "", {}, 0), Query(<<>>, "", {}, 2), Query(<<>>, "", {}, 9)}

\* Text, filters and identifiers.
TextQueries ==
  {Query(<<"x">>, "", {}, 1), Query(<<" ", "x">>, "relevance", {}, 1), Query(<<"x">>, "newest", {}, 1),
   Query(<<"x", "y">>, "", {}, 1), Query(<<"x">>, "", {"m"}, 1), Query(<<"x">>, "", {"n"}, 1),
   Query(<<"x">>, "", {"m", "n"}, 1), Query(<<"x">>, "", {"unknown"}, 1),
   Query(<<"1234567">>, "", {}, 2), Query(<<"1234567", " ">>, "", {"m"}, 2)}

Orders == INSTANCE SearchPaging WITH Queries <- OrderQueries, MaxChanges <- 0

ASSUME SearchesFit == SearchAssumption /\ Orders!SearchAssumption

-----------------------------------------------------------------------------
authVars == vars
settingVars == <<setting, authVars, searchVars, listVars, probeVars>>

Searches == {"orders", "texts"}

NoSearch == SearchInit /\ index = Documents
NoList == ListsInit /\ list = "audit" /\ exists = {}

Choose ==
  /\ setting \in {"overlap", "alone", "trying", "requests", "lists", "readiness"} \cup Searches
  /\ Init /\ ProbeInit
  /\ IF setting \in Searches THEN SearchInit ELSE NoSearch
  /\ IF setting = "lists" THEN ListsInit /\ FewNames ELSE NoList

InAuth(A) == A /\ UNCHANGED <<searchVars, listVars, probeVars>>
InSearch(A) == A /\ UNCHANGED <<authVars, listVars, probeVars>>
InLists(A) == A /\ UNCHANGED <<authVars, searchVars, probeVars>>
InProbe(A) == A /\ UNCHANGED <<authVars, searchVars, listVars>>

GoOn ==
  /\ \/ setting = "overlap" /\ InAuth(Next) /\ TwoSessions /\ NoRequests
     \/ setting = "alone" /\ InAuth(Next) /\ OneLogin /\ TwoWrong /\ NoRequests
     \/ setting = "requests" /\ InAuth(Next) /\ OneLogin /\ NoneWrong /\ TwoSessions
     \/ setting = "trying" /\ InAuth(Next) /\ OneLogin /\ NoneFails /\ NoRequests
     \/ setting = "orders" /\ InSearch(Orders!SearchNext)
     \/ setting = "texts" /\ InSearch(SearchNext)
     \/ setting = "lists" /\ InLists(ListsNext) /\ FewNames'
     \/ setting = "readiness" /\ InProbe(ProbeNext)
  /\ UNCHANGED setting

\* Time passes, a user keeps trying, and the login's statements succeed;
\* whoever walks through a list follows the cursors; goroutines are scheduled,
\* and a request for readiness ends at the latest with the two seconds of its
\* leader's context.
SettingSpec ==
  /\ Choose /\ [][GoOn]_settingVars
  /\ WF_settingVars(setting = "trying" /\ InAuth(Tick) /\ UNCHANGED setting)
  /\ WF_settingVars(setting = "trying" /\ InAuth(Login(a1)) /\ NoneFails /\ UNCHANGED setting)
  /\ WF_settingVars(setting = "trying" /\ InAuth(BeginLogin(a1, user.password)) /\ UNCHANGED setting)
  /\ WF_settingVars(setting = "lists" /\ InLists(NextPage) /\ UNCHANGED setting)
  /\ \A c \in Callers :
       /\ WF_settingVars(setting = "readiness" /\ InProbe(Check(c)) /\ UNCHANGED setting)
       /\ WF_settingVars(setting = "readiness" /\ InProbe(Follow(c)) /\ UNCHANGED setting)

-----------------------------------------------------------------------------
\* A user who keeps trying with the right password gets a session, unless the
\* user is disabled.
KeepsTryingGetsInAlone ==
  (setting = "trying" /\ user.status = "active") ~> (user.status = "disabled" \/ \E s \in Ids : Made(s))

\* A walk through a list comes to its end.
WalksEnd == walk.state = "walking" ~> walk.state = "done"

-----------------------------------------------------------------------------
\* Whoever goes on gets there: a user in spite of throttling, a reader at the
\* end of a list, and a caller of the readiness endpoint at an answer.
EverybodyIsServed == KeepsTryingGetsInAlone /\ WalksEnd /\ EveryCallerIsAnswered
=============================================================================
