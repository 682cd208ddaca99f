SPECIFICATION SettingSpec
CONSTANTS
  r1 = r1
  r2 = r2
  p1 = p1
  p2 = p2
  k1 = k1
  k2 = k2
  a = a
  b = b
  c = c
  Before = c
  NoLogo = NoLogo
  Runs = {r1, r2}
  Projects = {p1, p2}
  Keys <- MC_Keys
  Bundle <- ContentBundle
  Size <- MC_Size
  Types = {"report"}
  Quota = 3
  Workers = 2
  Merges = FALSE
  MaxEdits = 1
  MaxFaults = 1
  MaxCrashes = 1
  Groups = 3
  Configured <- WorkerCounts
  DefaultWorkers = 2
  MaxWorkers = 3
INVARIANT RerunsComplete
CHECK_DEADLOCK FALSE
