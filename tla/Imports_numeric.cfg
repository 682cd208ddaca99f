SPECIFICATION SettingSpec
CONSTANTS
  Settings = {"numeric"}
  b1 = b1  b2 = b2  c1 = c1  c2 = c2  t1 = t1  t2 = t2  x1 = x1  n1 = n1
  Batches = {b1, b2}
  Clients = {c1, c2}
  Rows = {1, 2}
  Titles = {t1, t2}
  Terms = {x1}
  Names = {n1}
  Drafts <- MCDrafts
  CleanLimit = 1
  MaxRevision = 4
  MaxOutside = 1
  Nil = Nil
  RowDrafts <- AllDrafts
  Catalogs <- AllCatalogs
  Populations <- SomePopulations
  MinYear = 1
  MaxYear = 3
  Empty = Empty
  Uploads <- AllUploads
  MaxProjects = 2
  MaxChildren = 2
  MaxItems = 2
  Unread = Unread
INVARIANT NumericStudentIDsAreRefused
CHECK_DEADLOCK FALSE
