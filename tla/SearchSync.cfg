SPECIFICATION SettingSpec
CONSTANTS
    p1 = p1
    p2 = p2
    w1 = w1
    w2 = w2
    Projects = {p1, p2}
    Workers = {w1, w2}
    NoWorker = NoWorker
    NoDocument = NoDocument
    NoClaim = NoClaim
    Overlapping = FALSE
    BatchSize = 1
    MaxRevision = 4
    MaxTasks = 2
INVARIANTS SingleInv SyncedIsFresh NeverBehindConfirmed
PROPERTIES ImplementsView Converges
