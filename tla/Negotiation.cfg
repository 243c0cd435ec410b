SPECIFICATION FairSpec
CONSTANTS
    Configurations <- AllConfigurations
INVARIANTS
    ParametersAgree
    PoliciesRespected
    NoSpuriousFailure
CHECK_DEADLOCK FALSE
