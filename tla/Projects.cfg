SPECIFICATION SettingSpec
SYMMETRY Symmetry
CONSTANTS
  Settings = {"edits", "status", "logos", "links", "periods", "entries"}
  bad = bad
  first = first
  second = second
  blank = blank
  Open = Open
  Nil = Nil
  Sources <- AllSources
  Unreliable = TRUE
  Editors = {e1, e2}
  Contents = {bad, first, second, blank}
  Untitled = {blank}
  Refused = {bad}
  Images = {red, blue}
  Links <- MCLinks
  Canonical <- MCCanonical
  MaxRevision = 6
  MaxUploads = 2
INVARIANTS ProjectInv AuditTellsTheStory VersionNamesOneImage CatalogsFollowSources
PROPERTIES EditsReplaceWhatWasSeen HistoryIsKept
CHECK_DEADLOCK FALSE
