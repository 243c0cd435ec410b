SPECIFICATION Spec
CONSTANTS
    n1 = n1
    n2 = n2
    m1 = m1
    m2 = m2
    c1 = c1
    c2 = c2
    Names = {n1, n2}
    Materials = {m1, m2}
    MaxTicketKeys = 2
    MaxTicketKeyHashes = 3
    EncryptDecryptLifetime = 4
    DecryptLifetime = 2
    Precision = 8
    Slack = 1
    IntroTimes = {0, 1}
    StartTime = 2
    MaxTime = 7
    Versions = {12, 13}
    Connections = {c1}
    SessionStateLifetime = 3
    OneWeek = 4
    KeyingLifetimes = {3}
    OneSecond = 0
    LateTickets = FALSE
    MaxTickets = 1
SYMMETRY Symmetry
INVARIANTS
    SelectionCovers
    LifetimeHonoured
    ChainBounded
CHECK_DEADLOCK FALSE
