SPECIFICATION Spec
CONSTANTS
    Configs <- MCConfigs
    MaxAltered = 1
INVARIANTS
    FinishedBindsTranscript
    KeysFollowSchedule
    FailsOnlyWhenAltered
CHECK_DEADLOCK FALSE
