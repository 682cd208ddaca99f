SPECIFICATION SettingSpec
CHECK_DEADLOCK FALSE
CONSTANTS
  Settings = {"periods"}
  bad = bad
  first = first
  second = second
  blank = blank
  Open = Open
  Nil = Nil
  Sources <- AllSources
  Unreliable = TRUE
  Editors = {e1, e2}
  Contents = {bad, first, second, blank}
  Untitled = {blank}
  Refused = {bad}
  Images = {red, blue}
  Links <- MCLinks
  Canonical <- MCCanonical
  MaxRevision = 6
  MaxUploads = 2
INVARIANT ValidSourcesSync
