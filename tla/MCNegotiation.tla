--------------------------- MODULE MCNegotiation ---------------------------
(***************************************************************************)
(* TLC instances of Negotiation.                                           *)
(***************************************************************************)
EXTENDS Negotiation

AllPolicies == DOMAIN security_policy_selection \ {"null"}

(* One policy of each family: what differs between them is the version     *)
(* floor, the TLS 1.3 suites, ECDSA, DHE and RSA key exchange, the KEMs    *)
(* and KEM groups, the curves and the signature schemes.                   *)
FamilyPolicies ==
    {"20140601", "20170328", "20190802", "20210816", "AWS-CRT-SDK-TLSv1.3",
     "KMS-PQ-TLS-1-0-2020-07", "PQ-TLS-1-1-2021-05-21", "test_all_ecdsa"}

Build(missing, pq, pss) == [missing |-> missing, pq |-> pq, pss |-> pss]
Full == Build({}, TRUE, TRUE)
NoPq == Build({}, FALSE, TRUE)
NoPss == Build({"chacha20_poly1305"}, FALSE, FALSE)

Certs(exact, wildcard, default) == [exact |-> exact, wildcard |-> wildcard, default |-> default]
RsaAndEcdsa == Certs({}, {}, {"rsa", "ecdsa_p256"})
CertChoices ==
    {Certs({}, {}, {"rsa"}), Certs({}, {}, {"ecdsa_p384"}), RsaAndEcdsa,
     Certs({"ecdsa_p256"}, {}, {"rsa"}), Certs({}, {"rsa"}, {"ecdsa_p256"})}

Client(policies, versions, builds) == [policy : policies, version : versions, build : builds]
Server(policies, versions, builds, certs, dhparams) ==
    [policy : policies, version : versions, build : builds, certs : certs, dhparams : dhparams]

(* Every policy with every policy, in builds that have everything. *)
AcrossPolicies ==
    [client : Client(AllPolicies, {TLS13}, {Full}),
     server : Server(AllPolicies, {TLS13}, {Full}, {RsaAndEcdsa}, {TRUE}), fallback : {FALSE}]

(* The families, in all builds, with all certificates.  Only a client that *)
(* offers less than it could falls back, and DH parameters matter for RSA. *)
AcrossBuilds ==
    {c \in [client : Client(FamilyPolicies, {TLS10, TLS13}, {Full, NoPss}),
            server : Server(FamilyPolicies, {TLS12, TLS13}, {Full, NoPq, NoPss}, CertChoices, BOOLEAN),
            fallback : BOOLEAN] :
        /\ c.fallback => c.client.version = TLS10
        /\ ~c.server.dhparams => c.server.certs.default = {"rsa"}}

AllConfigurations == AcrossPolicies \cup AcrossBuilds
=============================================================================
