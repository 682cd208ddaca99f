SPECIFICATION SettingSpec
CONSTANTS
  a1 = a1
  a2 = a2
  Attempts = {a1, a2}
  Requests = {r1, r2}
  Ids = {1, 2, 3}
  Passwords = {0, 1}
  MaxWrong = 3
  MaxWait = 1
  IdleTTL = 2
  AbsoluteTTL = 3
  LoginFailureLimit = 2
  LoginFailureWindow = 2
  NoCursor = NoCursor
  Documents <- MC_Documents
  StartIndexes <- MC_StartIndexes
  Queries <- TextQueries
  Attributes = {"major"}
  KnownKeys = {"m", "n"}
  Identifiers = {"1234567"}
  DefaultLimit = 1
  MaxLimit = 2
  MaxValues = 2
  MaxTotalHits = 3
  MaxChanges = 1
  MaxRequests = 3
  Space = " "
  Rows = {1, 2, 3}
  MaxKey = 3
  Transactions = {t1, t2}
  PageLimit = 1
  MaxRenames = 2
  MaxStarts = 1
  Callers = {c1, c2}
  MaxCalls = 2
  SuccessTTL = 2
  FailureTTL = 1
  MaxTime = 2
  NoCall = NoCall
INVARIANTS LoginsAreBounded SearchWalksAreComplete ListWalksAreFaithful VerdictsAreRecent
PROPERTIES EndedStaysEnded EverybodyIsServed
CHECK_DEADLOCK FALSE
