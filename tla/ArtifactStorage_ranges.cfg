SPECIFICATION DownloadSpec
CONSTANTS
    Artifacts = {a1, a2}
    Requests = {r1, r2}
    Migrators = {m1}
    small = small
    twin = twin
    large = large
    Contents = {small, twin, large}
    Size <- Sizes
    Defaults = {"", "b2"}
    MaxProjectBytes = 2
    MaxRevision = 3
    LocalFaults = FALSE
    NoContent = NoContent
    NoArtifact = NoArtifact
    NoRequest = NoRequest
    ObjectSize = 5
    MaxRanges = 2
    NoStream = NoStream
INVARIANT DeliversWhatIsAsked
CHECK_DEADLOCK FALSE
