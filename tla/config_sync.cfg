SPECIFICATION FairSpec
CONSTANTS
    e1 = e1
    e2 = e2
    x1 = x1
    Missing = Missing
    Garbage = Garbage
    None <- NoConfig
    Edits = {e1, e2}
    External = {x1}
    Faults = {"start", "save", "policy"}
    MaxCrashes = 1
INVARIANTS TypeOK ReloadIsDue
PROPERTIES NothingDestroyed Converges
