SPECIFICATION FairSpec
CONSTANTS
    a = a
    b = b
    Offline = Offline
    NoUrl = NoUrl
    Urls = {u1, u2}
    Route <- Moves
    Acts = {"force", "other", "url", "auto", "pause"}
    Faults = {"fetch", "provider", "cycle", "restart"}
    MaxFailures = 1
INVARIANTS TypeOK SyncedNotBehind
PROPERTY EventuallySynced
