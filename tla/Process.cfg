SPECIFICATION Spec
CONSTANTS
    Processes = {1, 2}
    Threads = {a, b}
    MaxSeeds = 4
    MaxPages = 2
    MaxThreads = 3
    Kernels <- MCKernels
    Limits = {4, 7, 40}
    MaxUses = 2
    MaxEvents = 2
    Cookies = FALSE
    Repeats = FALSE
INVARIANTS
    GeneratorsNotShared
    NothingLost
    ReusedAsNew
SYMMETRY ThreadSymmetry
CHECK_DEADLOCK FALSE
