SPECIFICATION Spec
CONSTANTS
    EncryptionLimit = 2
    UseTickets = TRUE
    InitialTickets = 1
    Foreign <- ClientOnly
    MaxTickets = 2
    MaxGen = 2
    MaxSeq = 5
    MaxWire = 2
INVARIANTS
    EveryRecordDecrypts
    KeyUsageBounded
    TicketAccounting
PROPERTY NonceNeverReused
CHECK_DEADLOCK FALSE
