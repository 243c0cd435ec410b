SPECIFICATION Spec
CONSTANTS
    Cert <- MCCert
    Chain <- MCChain
    Response <- MCResponse
    LowerCase <- Lowering
    Hash <- Hashes
    Worlds <- AllWorlds
    Instants <- Clock
    Zone <- HereAndNow
    Policy = {"rsa_sha256", "rsa_sha1"}
    Sha1Schemes = {"rsa_sha1"}
    DefaultMaxChainDepth = 7
    MaxRounds = 2
INVARIANTS
    OnlyTrustedAccepted
    FittingCertificateAccepted
CHECK_DEADLOCK FALSE
