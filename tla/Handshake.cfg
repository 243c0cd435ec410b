SPECIFICATION FairSpec
CONSTANTS
    Scenarios <- AllScenarios
    MaxEarlyData = 2
    Overhead = 1
INVARIANTS
    RecordsOpen
    PeersAgree
    NoSpuriousFailure
    OnlyCompatibleEstablished
    EarlyDataAllOrNothing
PROPERTIES
    HandshakeEnds
