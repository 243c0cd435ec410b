SPECIFICATION FairSpec
CONSTANTS
    Scenarios <- SafeScenarios
    HeaderLength = 2
    MaxFragment = 3
    MaxHelloRequests = 1
    Capacity = 2
INVARIANTS
    TranscriptExact
    NothingDropped
PROPERTIES
    Completes
