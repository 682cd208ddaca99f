SPECIFICATION SettingSpec
CONSTANTS
  p1 = p1
  p2 = p2
  a = a
  b = b
  Nil = Nil
  Projects = {p1}
  Processes = {a}
  Reconcilers = {a}
  Operations = {1, 2}
  MaxRevision = 2
  MaxCrashes = 1
  MaxTasks = 2
  MarksFail = TRUE
  Actors <- Everyone
  Kind <- Kinds
  MaxConns = 3
  Patient <- Rebuilder
INVARIANTS SyncedMeansIndexed LockingInv CommonInv
PROPERTIES RebuildsEndRight EverythingEnds CompletionIsCurrent LeaseRespected
CHECK_DEADLOCK FALSE
