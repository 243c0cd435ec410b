\* Every algorithm and version, two records, two events.
SPECIFICATION Spec
CONSTANTS
    Sizes <- MCSizes
    Types <- MCTypes
    MaxWrites = 2
    MaxEvents = 2
INVARIANTS
    RecordsIntact
    NoSpuriousReject
    WritesFit
    IvNeverRepeats
CHECK_DEADLOCK FALSE
