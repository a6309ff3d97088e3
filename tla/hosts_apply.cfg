SPECIFICATION Spec
CONSTANTS
    None = None
    window = window
    cli = cli
    Appliers = {window, cli}
    Groups = {"dev", "ads"}
    Addresses = {"a1", "a2", "bad"}
    Invalid = {"bad"}
    Requests <- HostsRequests
    Texts <- HostsTexts
    MaxEdits = 1
    Seconds = {1, 2}
    Alone = TRUE
SYMMETRY AnyApplier
INVARIANTS TypeOK GroupIsReversible
PROPERTIES AtomicReplace ReplacedIsBackedUp OnlyTheGroupChanges
