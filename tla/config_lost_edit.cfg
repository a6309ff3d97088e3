SPECIFICATION Spec
CONSTANTS
    e1 = e1
    e2 = e2
    x1 = x1
    Missing = Missing
    Garbage = Garbage
    None <- NoConfig
    Edits = {e1, e2}
    External = {}
    Faults = {}
    MaxCrashes = 0
INVARIANT SavedEditsStay
