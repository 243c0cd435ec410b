---------------------------- MODULE Negotiation ----------------------------
(***************************************************************************)
(* Parameter negotiation: how an s2n client and an s2n server agree on the *)
(* protocol version, the cipher suite, the key exchange group or curve,    *)
(* the KEM, the signature scheme and the server's certificate, from their  *)
(* security policies (tls/s2n_client_hello.c, tls/s2n_server_hello.c,      *)
(* tls/s2n_server_hello_retry.c, tls/s2n_cipher_suites.c, tls/s2n_kex.c,   *)
(* tls/s2n_signature_algorithms.c, tls/s2n_auth_selection.c and the        *)
(* extensions they use).  Full handshakes only: a PSK or a resumed session *)
(* skips the authentication, which Handshake.tla models.                   *)
(***************************************************************************)
EXTENDS SecurityPolicies, FiniteSetsExt

CONSTANTS
    Configurations      \* pairs of a client and a server that may meet

(* Each has the name of a policy in security_policy_selection, the highest *)
(* version (conn->client_protocol_version before the ClientHello and       *)
(* s2n_highest_protocol_version) and a build [missing, pq, pss]: the       *)
(* ciphers without implementation, s2n_pq_is_enabled() and                 *)
(* s2n_is_rsa_pss_signing/certs_supported().  The server has certificates  *)
(* and perhaps DH parameters, the client may send TLS_FALLBACK_SCSV.       *)
ASSUME ConfigurationAssumption ==
    \A c \in Configurations :
        /\ {c.client.policy, c.server.policy} \subseteq DOMAIN security_policy_selection \ {"null"}
        /\ c.client.version \in SSLv3..TLS13 /\ c.server.version \in TLS12..TLS13
        /\ \A b \in {c.client.build, c.server.build} : b.pq \in BOOLEAN /\ b.pss \in BOOLEAN
        /\ c.server.dhparams \in BOOLEAN /\ c.fallback \in BOOLEAN

(* s2n_security_policies_init refuses to start the library otherwise. *)
ASSUME TablesAssumption == s2n_security_policies_init

None == "none"
NoMessage == [type |-> None]

VARIABLES
    config,     \* the two configurations, fixed
    client,     \* the client's connection
    server,     \* the server's connection
    wire        \* the message in flight, or NoMessage

vars == <<config, client, server, wire>>

(* The fields of struct s2n_connection and its kex and handshake params    *)
(* that negotiation fills in.  curve and group are what the server chose   *)
(* (server_ecc_evp_params, server_kem_group_params), shareCurve and        *)
(* shareGroup the client's share (client_ecc_evp_params and                *)
(* client_kem_group_params).                                               *)
Connection(clientVersion, serverVersion, actual) ==
    [status |-> "hello", client_version |-> clientVersion,
     server_version |-> serverVersion, actual |-> actual, retry |-> FALSE,
     suite |-> None, curve |-> None, group |-> None, kem |-> None,
     shareCurve |-> None, shareGroup |-> None, sig |-> None, cert |-> None]

NewClient(c) == Connection(c.version, UNKNOWN, c.version)
NewServer(s) == Connection(UNKNOWN, s.version, UNKNOWN)

ClientPolicy == security_policy_selection[config.client.policy]
ServerPolicy == security_policy_selection[config.server.policy]

s2n_connection_get_protocol_version(actual, own) == IF actual # UNKNOWN THEN actual ELSE own

Least(a, b) == IF a < b THEN a ELSE b
FirstOf(seq) == IF seq = <<>> THEN None ELSE seq[1]
Among(seq, S) == SelectSeq(seq, LAMBDA x : x \in S)

-----------------------------------------------------------------------------
(* What a cipher suite, a signature scheme and a certificate have in       *)
(* common: s2n_auth_selection.c.                                           *)
CertTypeOf(cert) == CASE cert = "rsa" -> "RSA" [] cert = "rsa_pss" -> "RSA_PSS"
                      [] OTHER -> "ECDSA"
CertCurve(cert) == CASE cert = "ecdsa_p256" -> "secp256r1"
                     [] cert = "ecdsa_p384" -> "secp384r1" [] OTHER -> None

s2n_get_auth_method_for_cert_type(type) == IF type = "ECDSA" THEN "ECDSA" ELSE "RSA"
s2n_get_cert_type_for_sig_alg(sig_alg) ==
    CASE sig_alg \in {"RSA_PSS_RSAE", "RSA"} -> "RSA"
      [] sig_alg = "ECDSA" -> "ECDSA" [] sig_alg = "RSA_PSS_PSS" -> "RSA_PSS"

(* The certificates that match the client's server name exactly come       *)
(* before those that match by wildcard, and these before the defaults; a   *)
(* set that matches hides the ones after it whatever types are in it.      *)
MatchingCerts(c) == IF c.exact # {} THEN c.exact
                    ELSE IF c.wildcard # {} THEN c.wildcard ELSE c.default
s2n_get_compatible_cert_chain_and_key(c, type) ==
    LET of_type == {cert \in MatchingCerts(c) : CertTypeOf(cert) = type}
    IN  IF of_type = {} THEN None ELSE CHOOSE cert \in of_type : TRUE

s2n_certs_exist_for_auth_method(c, auth) ==
    auth = "any" \/ \E cert \in MatchingCerts(c) :
                        s2n_get_auth_method_for_cert_type(CertTypeOf(cert)) = auth

s2n_certs_exist_for_sig_scheme(c, scheme) ==
    LET cert == s2n_get_compatible_cert_chain_and_key(
                    c, s2n_get_cert_type_for_sig_alg(scheme.sig_alg))
    IN  cert # None /\ (scheme.curve # "none" => CertCurve(cert) = scheme.curve)

s2n_is_sig_alg_valid_for_cipher_suite(sig_alg, suite) ==
    LET type == s2n_get_cert_type_for_sig_alg(sig_alg)
    IN  /\ suite.kex = "rsa" => type # "RSA_PSS"
        /\ suite.auth # "any" => suite.auth = s2n_get_auth_method_for_cert_type(type)

s2n_signature_scheme_valid_to_offer(actual, build, scheme) ==
    /\ actual >= scheme.min
    /\ scheme.sig_alg \in {"RSA_PSS_RSAE", "RSA_PSS_PSS"} => build.pss

s2n_signature_scheme_valid_to_accept(actual, build, scheme) ==
    /\ s2n_signature_scheme_valid_to_offer(actual, build, scheme)
    /\ scheme.max # UNKNOWN => actual <= scheme.max

s2n_choose_default_sig_scheme(actual, suite) ==
    CASE suite.auth = "ECDSA" -> "ecdsa_sha1"
      [] suite.auth # "ECDSA" /\ actual >= TLS12 -> "rsa_pkcs1_sha1"
      [] OTHER -> "rsa_pkcs1_md5_sha1"

-----------------------------------------------------------------------------
(***************************************************************************)
(* s2n_client_hello_send with the extensions that carry parameters.  The   *)
(* first ClientHello offers a share of the most preferred KEM group and    *)
(* one of the most preferred curve, the second only the share the server   *)
(* asked for.  A second hello is sent with actual_protocol_version already *)
(* set to TLS 1.3 by the HelloRetryRequest.                                *)
(***************************************************************************)
ClientHelloVersion ==
    IF s2n_security_policy_supports_tls13(ClientPolicy) THEN client.client_version
    ELSE Least(client.client_version, TLS12)
ClientActual ==
    IF s2n_security_policy_supports_tls13(ClientPolicy) THEN client.actual
    ELSE Least(client.actual, TLS12)

OfferedSuites(version) ==
    SelectSeq(ClientPolicy.suites,
              LAMBDA s : Available(s, config.client.build) /\ cipher_suite[s].min <= version)

s2n_client_supported_groups_send(actual) ==
    IF actual >= TLS13 /\ config.client.build.pq
    THEN ClientPolicy.groups \o ClientPolicy.curves ELSE ClientPolicy.curves

s2n_generate_default_pq_hybrid_key_share ==
    CASE ~config.client.build.pq \/ ClientPolicy.groups = <<>> -> None
      [] OTHER -> IF client.retry THEN client.group ELSE ClientPolicy.groups[1]
s2n_generate_default_ecc_key_share ==
    IF client.retry THEN client.curve ELSE ClientPolicy.curves[1]

s2n_send_supported_sig_scheme_list(actual) ==
    {signature_scheme[s].iana : s \in {x \in ToSet(ClientPolicy.sigs) :
        s2n_signature_scheme_valid_to_offer(actual, config.client.build, signature_scheme[x])}}

(* A share that is not generated leaves what an earlier hello generated in *)
(* the client's kex params.                                                *)
s2n_client_hello_send ==
    /\ client.status = "hello"
    /\ wire = NoMessage
    /\ LET version == ClientHelloVersion
           actual == ClientActual
           group == IF actual >= TLS13 THEN s2n_generate_default_pq_hybrid_key_share ELSE None
           curve == IF actual >= TLS13 THEN s2n_generate_default_ecc_key_share ELSE None
       IN  /\ client' = [client EXCEPT !.status = "sent", !.client_version = version,
                             !.actual = actual,
                             !.shareGroup = IF group = None THEN @ ELSE group,
                             !.shareCurve = IF curve = None THEN @ ELSE curve]
           /\ wire' = [type |-> "ClientHello", legacy |-> Least(version, TLS12),
                       suites |-> ToSet(OfferedSuites(version)),
                       fallback |-> config.fallback,
                       versions |-> IF actual >= TLS13 THEN ClientPolicy.min..version ELSE {},
                       hasGroups |-> s2n_ecc_is_extension_required(ClientPolicy),
                       groups |-> ToSet(s2n_client_supported_groups_send(actual)),
                       shares |-> {group, curve} \ {None},
                       sigs |-> IF actual >= TLS12 THEN s2n_send_supported_sig_scheme_list(actual)
                                ELSE {},
                       hasKems |-> s2n_pq_kem_is_extension_required(ClientPolicy)
                                     /\ config.client.build.pq,
                       kems |-> ToSet(ClientPolicy.kems)]
    /\ UNCHANGED <<config, server>>

-----------------------------------------------------------------------------
(***************************************************************************)
(* The server's choices, each from what the ClientHello ch offers and what *)
(* was chosen before it.                                                   *)
(***************************************************************************)
s2n_is_tls_12_self_downgrade_required ==
    /\ \E c \in UNION {config.server.certs[k] : k \in DOMAIN config.server.certs} :
            CertTypeOf(c) = "RSA"
    /\ ~config.server.build.pss

(* s2n_process_client_hello up to the extensions. *)
CappedAtTls12_WheneverRsa ==
    \/ \E c \in UNION {config.server.certs[k] : k \in DOMAIN config.server.certs} :
            CertTypeOf(c) = "RSA"
    \/ ~s2n_security_policy_supports_tls13(ServerPolicy)

CappedAtTls12 == s2n_is_tls_12_self_downgrade_required
                   \/ ~s2n_security_policy_supports_tls13(ServerPolicy)
ServerVersion == IF CappedAtTls12 THEN Least(server.server_version, TLS12)
                 ELSE server.server_version

(* supported_versions: read only by a server that can do TLS 1.3; UNKNOWN  *)
(* in actual where no version is in common.                                *)
s2n_extensions_client_supported_versions_process(ch) ==
    LET before == IF CappedAtTls12 THEN ServerVersion ELSE server.actual
        reads == ch.versions # {}
                   /\ s2n_connection_get_protocol_version(before, ServerVersion) >= TLS13
        common == ch.versions \cap ServerPolicy.min..ServerVersion
    IN  IF ~reads
        THEN [fails |-> FALSE, client_version |-> ch.legacy, actual |-> before]
        ELSE [fails |-> common = {}, client_version |-> Max(ch.versions),
              actual |-> IF common = {} THEN UNKNOWN ELSE Max(common)]

(* supported_groups: the mutual groups in the server's order.  Without the *)
(* extension P-256, or else the server's first curve, stands in.           *)
MutualCurves(ch) == IF ch.hasGroups THEN Among(ServerPolicy.curves, ch.groups) ELSE <<>>
MutualGroups(ch, actual) ==
    IF ch.hasGroups /\ config.server.build.pq
         /\ s2n_connection_get_protocol_version(actual, ServerVersion) >= TLS13
    THEN Among(ServerPolicy.groups, ch.groups) ELSE <<>>
s2n_choose_supported_group_OwnFirst(ch, actual) ==
    LET group == FirstOf(MutualGroups(ch, actual))
    IN  [group |-> group, curve |-> IF group = None THEN ServerPolicy.curves[1] ELSE None]

s2n_choose_supported_group(ch, actual) ==
    LET group == FirstOf(MutualGroups(ch, actual))
        p256 == "secp256r1" \in ToSet(ServerPolicy.curves)
    IN  CASE ~ch.hasGroups -> [group |-> server.group,
                               curve |-> IF p256 THEN "secp256r1" ELSE ServerPolicy.curves[1]]
          [] ch.hasGroups /\ group # None -> [group |-> group, curve |-> None]
          [] OTHER -> [group |-> None, curve |-> FirstOf(MutualCurves(ch))]

(* key_share: the most preferred mutual share of each kind, on top of what *)
(* an earlier hello left.                                                  *)
s2n_client_key_share_recv_ecc(ch) ==
    LET best == FirstOf(Among(MutualCurves(ch), ch.shares))
    IN  IF best = None THEN server.shareCurve ELSE best
s2n_client_key_share_recv_pq_hybrid_AnyShare(ch, actual) ==
    LET hybrid == ch.shares \ ToSet(s2n_all_supported_curves_list)
    IN  IF hybrid = {} THEN server.shareGroup ELSE CHOOSE g \in hybrid : TRUE

s2n_client_key_share_recv_pq_hybrid(ch, actual) ==
    LET best == FirstOf(Among(MutualGroups(ch, actual), ch.shares))
    IN  IF best = None THEN server.shareGroup ELSE best

(* Rather a group with a share than the preferred one; PQ before ECC. *)
s2n_extensions_server_key_share_select_KeepsGroup(chosen, shareGroup, shareCurve) ==
    CASE shareGroup # None -> [group |-> shareGroup, curve |-> None, retry |-> FALSE]
      [] shareGroup = None /\ shareCurve # None ->
            [group |-> chosen.group, curve |-> shareCurve, retry |-> FALSE]
      [] OTHER -> [group |-> chosen.group, curve |-> chosen.curve, retry |-> TRUE]

s2n_extensions_server_key_share_select_Preferred(chosen, shareGroup, shareCurve) ==
    [group |-> chosen.group, curve |-> chosen.curve,
     retry |-> IF chosen.group # None THEN shareGroup # chosen.group
               ELSE shareCurve # chosen.curve]

s2n_extensions_server_key_share_select(chosen, shareGroup, shareCurve) ==
    CASE shareGroup # None -> [group |-> shareGroup, curve |-> None, retry |-> FALSE]
      [] shareGroup = None /\ shareCurve # None ->
            [group |-> None, curve |-> shareCurve, retry |-> FALSE]
      [] OTHER -> [group |-> chosen.group, curve |-> chosen.curve, retry |-> TRUE]

(* What supported_groups and key_share leave, and whether they fail. *)
ChosenKeys(ch, actual) ==
    LET tls13 == actual >= TLS13
        chosen == s2n_choose_supported_group(ch, actual)
        group == IF tls13 THEN s2n_client_key_share_recv_pq_hybrid(ch, actual)
                 ELSE server.shareGroup
        curve == IF tls13 THEN s2n_client_key_share_recv_ecc(ch) ELSE server.shareCurve
        key == IF tls13 THEN s2n_extensions_server_key_share_select(chosen, group, curve)
               ELSE [group |-> chosen.group, curve |-> chosen.curve, retry |-> FALSE]
    IN  [group |-> key.group, curve |-> key.curve, retry |-> key.retry,
         shareGroup |-> group, shareCurve |-> curve,
         fails |-> tls13 /\ \/ server.retry /\ Cardinality(ch.shares) # 1
                            \/ (chosen.group = None) = (chosen.curve = None)]

-----------------------------------------------------------------------------
(* s2n_choose_kem_with(out)_peer_pref_list *)
s2n_choose_kem(name, ch) ==
    FirstOf(SelectSeq(ServerPolicy.kems,
                LAMBDA k : k \in kem_mapping[name] /\ (ch.hasKems => k \in ch.kems)))

s2n_kex_supported(name, ch, curve) ==
    LET kex == cipher_suite[name].kex
    IN  CASE kex = "rsa" ->
                s2n_get_compatible_cert_chain_and_key(config.server.certs, "RSA") # None
          [] kex = "dhe" -> config.server.dhparams
          [] kex = "ecdhe" -> curve # None
          [] kex = "hybrid_ecdhe_kem" ->
                curve # None /\ config.server.build.pq /\ s2n_choose_kem(name, ch) # None

(* The conditions on a match of s2n_set_cipher_as_server's loop, but for   *)
(* the last one, on the version.                                           *)
SuiteAcceptable_AnyAuth(name, ch, v, curve) ==
    /\ name \in ch.suites
    /\ (v.actual >= TLS13) = (cipher_suite[name].min >= TLS13)
    /\ Available(name, config.server.build)
    /\ cipher_suite[name].min < TLS13 => s2n_kex_supported(name, ch, curve)

SuiteAcceptable(name, ch, v, curve) ==
    /\ name \in ch.suites
    /\ (v.actual >= TLS13) = (cipher_suite[name].min >= TLS13)
    /\ IF v.client_version = SSLv3 THEN AvailableForSslv3(name, config.server.build)
       ELSE Available(name, config.server.build)
    /\ s2n_certs_exist_for_auth_method(config.server.certs, cipher_suite[name].auth)
    /\ cipher_suite[name].min < TLS13 => s2n_kex_supported(name, ch, curve)

s2n_set_cipher_as_server_LastMatch(ch, v, curve) ==
    LET fit == SelectSeq(ServerPolicy.suites, LAMBDA s :
                   SuiteAcceptable(s, ch, v, curve) /\ cipher_suite[s].min <= v.actual)
    IN  IF fit = <<>> THEN None ELSE fit[Len(fit)]

s2n_set_cipher_as_server_NoScsvCheck(ch, v, curve) ==
    FirstOf(SelectSeq(ServerPolicy.suites, LAMBDA s :
                SuiteAcceptable(s, ch, v, curve) /\ cipher_suite[s].min <= v.actual))

s2n_set_cipher_as_server(ch, v, curve) ==
    LET matches == SelectSeq(ServerPolicy.suites, LAMBDA s : SuiteAcceptable(s, ch, v, curve))
        fit == SelectSeq(matches, LAMBDA s : cipher_suite[s].min <= v.actual)
    IN  IF ch.fallback /\ v.client_version < ServerVersion THEN None
        ELSE IF fit # <<>> THEN fit[1] ELSE FirstOf(matches)

s2n_is_signature_scheme_usable(name, actual, suite) ==
    LET scheme == signature_scheme[name]
    IN  /\ s2n_signature_scheme_valid_to_accept(actual, config.server.build, scheme)
        /\ s2n_certs_exist_for_sig_scheme(config.server.certs, scheme)
        /\ s2n_is_sig_alg_valid_for_cipher_suite(scheme.sig_alg, suite)

(* None where s2n_tls13_default_sig_scheme finds no scheme. *)
s2n_choose_sig_scheme_from_peer_preference_list(ch, actual, suite) ==
    LET usable == SelectSeq(ServerPolicy.sigs,
                      LAMBDA s : s2n_is_signature_scheme_usable(s, actual, suite))
        shared == SelectSeq(usable, LAMBDA s : signature_scheme[s].iana \in ch.sigs)
        default == IF actual < TLS13 THEN s2n_choose_default_sig_scheme(actual, suite)
                   ELSE FirstOf(usable)
    IN  IF default # None /\ shared # <<>> THEN shared[1] ELSE default

s2n_select_certs_for_server_auth(sig) ==
    s2n_get_compatible_cert_chain_and_key(
        config.server.certs, s2n_get_cert_type_for_sig_alg(signature_scheme[sig].sig_alg))

-----------------------------------------------------------------------------
(***************************************************************************)
(* s2n_process_client_hello: extensions in list order, key share, version, *)
(* suite, signature scheme, certificate.  Any of them may fail; without a  *)
(* suite no scheme is looked for.                                          *)
(***************************************************************************)
s2n_process_client_hello ==
    /\ server.status = "hello"
    /\ wire.type = "ClientHello"
    /\ \E offered \in {s2n_extensions_client_supported_versions_process(wire)} :
       \E key \in {ChosenKeys(wire, offered.actual)} :
       \E v \in {[client_version |-> offered.client_version,
                  actual |-> IF offered.actual >= TLS13 THEN offered.actual
                             ELSE Least(ServerVersion, offered.client_version)]} :
       \E suite \in {s2n_set_cipher_as_server(wire, v, key.curve)} :
       \E sig \in {IF suite = None THEN None
                   ELSE s2n_choose_sig_scheme_from_peer_preference_list(
                            wire, v.actual, cipher_suite[suite])} :
           IF \/ offered.fails \/ key.fails
              \/ v.client_version < ServerPolicy.min
              \/ sig = None
              \/ s2n_select_certs_for_server_auth(sig) = None
           THEN server' = [server EXCEPT !.status = "failed"]
           ELSE server' = [server EXCEPT
                    !.status = IF key.retry /\ ~server.retry THEN "retrying" ELSE "chosen",
                    !.retry = @ \/ key.retry,
                    !.client_version = v.client_version, !.server_version = ServerVersion,
                    !.actual = v.actual, !.suite = suite,
                    !.group = key.group, !.curve = key.curve,
                    !.shareGroup = key.shareGroup, !.shareCurve = key.shareCurve,
                    !.kem = IF cipher_suite[suite].kex = "hybrid_ecdhe_kem"
                            THEN s2n_choose_kem(suite, wire) ELSE None,
                    !.sig = sig, !.cert = s2n_select_certs_for_server_auth(sig)]
    /\ wire' = NoMessage
    /\ UNCHANGED <<config, client>>

(* s2n_server_hello_write_message and the supported_versions and key_share *)
(* extensions, which name the server's version and group.                  *)
HelloFrom(type, marker) ==
    [type |-> type, legacy |-> Least(server.actual, TLS12), marker |-> marker,
     version |-> IF server.actual >= TLS13 THEN server.server_version ELSE UNKNOWN,
     suite |-> server.suite,
     group |-> IF server.actual < TLS13 THEN None
               ELSE IF server.curve # None THEN server.curve ELSE server.group]

s2n_server_hello_retry_send_NotAdvanced ==
    /\ server.status = "retrying"
    /\ wire' = HelloFrom("HelloRetryRequest", None)
    /\ UNCHANGED <<config, client, server>>

s2n_server_hello_retry_send ==
    /\ server.status = "retrying"
    /\ wire' = HelloFrom("HelloRetryRequest", None)
    /\ server' = [server EXCEPT !.status = "hello"]
    /\ UNCHANGED <<config, client>>

(* The last bytes of the random when a TLS 1.3 server goes lower. *)
s2n_server_add_downgrade_mechanism ==
    CASE server.server_version >= TLS13 /\ server.actual = TLS12 -> "tls12"
      [] server.server_version >= TLS13 /\ server.actual <= TLS11 -> "tls11"
      [] OTHER -> None

(* s2n_server_key_share_send_check_ecdhe and _pq_hybrid *)
ShareMissing == /\ server.actual >= TLS13
                /\ IF server.curve # None THEN server.shareCurve # server.curve
                   ELSE server.shareGroup # server.group

s2n_server_hello_send ==
    /\ server.status = "chosen"
    /\ IF ShareMissing
       THEN server' = [server EXCEPT !.status = "failed"] /\ wire' = NoMessage
       ELSE /\ wire' = HelloFrom("ServerHello", s2n_server_add_downgrade_mechanism)
            /\ server' = [server EXCEPT !.status = "greeted"]
    /\ UNCHANGED <<config, client>>

-----------------------------------------------------------------------------
(* s2n_server_key_share_recv: TRUE where the client refuses the group. *)
s2n_server_key_share_recv_fails_WantsShare(retrying, group) ==
    group \notin {client.shareCurve, client.shareGroup}

s2n_server_key_share_recv_fails(retrying, group) ==
    CASE group \in ToSet(ClientPolicy.curves) -> ~retrying /\ client.shareCurve # group
      [] group \notin ToSet(ClientPolicy.curves) /\ group \in ToSet(ClientPolicy.groups) ->
            ~config.client.build.pq \/ (~retrying /\ client.shareGroup # group)
      [] OTHER -> TRUE

s2n_set_cipher_as_client_fails(retrying, suite) ==
    \/ suite \notin ToSet(ClientPolicy.suites)
    \/ ~Available(suite, config.client.build)
    \/ client.retry /\ ~retrying /\ client.suite # suite

s2n_client_detect_downgrade_mechanism(sh) ==
    client.client_version = TLS13 /\ \/ sh.legacy = TLS12 /\ sh.marker = "tls12"
                                     \/ sh.legacy <= TLS11 /\ sh.marker = "tls11"

(* s2n_server_hello_parse.  A client that cannot do TLS 1.3 does not look  *)
(* at supported_versions.                                                  *)
ServerHelloRefused(sh, retrying) ==
    LET tls13 == sh.version # UNKNOWN /\ client.actual >= TLS13
    IN  IF tls13
        THEN \/ sh.version \notin ClientPolicy.min..client.client_version
             \/ s2n_server_key_share_recv_fails(retrying, sh.group)
             \/ s2n_set_cipher_as_client_fails(retrying, sh.suite)
        ELSE \/ retrying
             \/ s2n_client_detect_downgrade_mechanism(sh)
             \/ sh.legacy \notin ClientPolicy.min..client.client_version
             \/ s2n_set_cipher_as_client_fails(retrying, sh.suite)

(* s2n_server_hello_retry_recv: the request must change the ClientHello. *)
RetryRefused(sh) == sh.group \in {client.shareCurve, client.shareGroup}

s2n_server_hello_recv ==
    /\ client.status = "sent"
    /\ wire.type \in {"ServerHello", "HelloRetryRequest"}
    /\ LET retrying == wire.type = "HelloRetryRequest"
           tls13 == wire.version # UNKNOWN /\ client.actual >= TLS13
           actual == IF tls13 THEN wire.version ELSE wire.legacy
           isCurve == wire.group \in ToSet(ClientPolicy.curves)
           fails == \/ retrying /\ client.retry
                    \/ ServerHelloRefused(wire, retrying)
                    \/ retrying /\ RetryRefused(wire)
       IN  IF fails
           THEN client' = [client EXCEPT !.status = "failed"]
           ELSE client' = [client EXCEPT
                    !.status = IF retrying THEN "hello" ELSE "greeted",
                    !.retry = @ \/ retrying, !.actual = actual, !.server_version = actual,
                    !.suite = wire.suite,
                    !.curve = IF tls13 /\ isCurve THEN wire.group ELSE @,
                    !.group = IF tls13 /\ ~isCurve THEN wire.group ELSE @,
                    !.sig = IF retrying THEN @
                            ELSE s2n_choose_default_sig_scheme(actual, cipher_suite[wire.suite])]
    /\ wire' = NoMessage
    /\ UNCHANGED <<config, server>>

-----------------------------------------------------------------------------
(***************************************************************************)
(* The server's Certificate and its ServerKeyExchange (ephemeral suites    *)
(* below TLS 1.3) or CertificateVerify (TLS 1.3).  Only from TLS 1.2 on    *)
(* does the signature name its scheme.                                     *)
(***************************************************************************)
Signed(conn) == conn.actual >= TLS13 \/ cipher_suite[conn.suite].kex # "rsa"

s2n_server_cert_and_key_send ==
    /\ server.status = "greeted"
    /\ wire = NoMessage
    /\ client.status = "greeted"
    /\ wire' = [type |-> "ServerAuth", cert |-> server.cert, sig |-> server.sig,
                iana |-> IF server.actual >= TLS12 THEN signature_scheme[server.sig].iana
                         ELSE UNKNOWN,
                curve |-> IF cipher_suite[server.suite].kex \in {"ecdhe", "hybrid_ecdhe_kem"}
                          THEN server.curve ELSE None,
                kem |-> server.kem]
    /\ server' = [server EXCEPT !.status = "done"]
    /\ UNCHANGED <<config, client>>

(* s2n_get_and_validate_negotiated_signature_scheme *)
AcceptedScheme(iana) ==
    LET own == SelectSeq(ClientPolicy.sigs, LAMBDA s :
                   /\ s2n_signature_scheme_valid_to_accept(
                          client.actual, config.client.build, signature_scheme[s])
                   /\ signature_scheme[s].iana = iana)
        default == s2n_choose_default_sig_scheme(client.actual, cipher_suite[client.suite])
    IN  IF own # <<>> THEN own[1]
        ELSE IF client.actual <= TLS12 /\ signature_scheme[default].iana = iana THEN default
        ELSE None

s2n_is_cert_type_valid_for_auth(type) ==
    cipher_suite[client.suite].auth \in {"any", s2n_get_auth_method_for_cert_type(type)}

(* s2n_ecdhe_, s2n_kem_server_key_recv_parse_data *)
KeyExchangeRefused(msg) ==
    \/ msg.curve # None /\ msg.curve \notin ToSet(s2n_all_supported_curves_list)
    \/ msg.kem # None /\ ~(msg.kem \in ToSet(ClientPolicy.kems)
                             /\ msg.kem \in kem_mapping[client.suite])

(* A signature made with another scheme than the one the client verifies   *)
(* it with does not verify.                                                *)
s2n_server_cert_and_key_recv ==
    /\ client.status = "greeted"
    /\ wire.type = "ServerAuth"
    /\ LET scheme == IF client.actual >= TLS12 THEN AcceptedScheme(wire.iana) ELSE client.sig
           fails == \/ ~s2n_is_cert_type_valid_for_auth(CertTypeOf(wire.cert))
                    \/ CertTypeOf(wire.cert) = "RSA_PSS" /\ ~config.client.build.pss
                    \/ Signed(client) /\ scheme # wire.sig
                    \/ KeyExchangeRefused(wire)
       IN  client' = IF fails THEN [client EXCEPT !.status = "failed"]
                     ELSE [client EXCEPT !.status = "done", !.cert = wire.cert,
                              !.sig = IF Signed(client) THEN scheme ELSE @,
                              !.curve = IF client.actual < TLS13 THEN wire.curve ELSE @,
                              !.kem = wire.kem]
    /\ wire' = NoMessage
    /\ UNCHANGED <<config, server>>

-----------------------------------------------------------------------------
Init ==
    /\ config \in Configurations
    /\ client = NewClient(config.client)
    /\ server = NewServer(config.server)
    /\ wire = NoMessage

Next == \/ s2n_client_hello_send
        \/ s2n_process_client_hello
        \/ s2n_server_hello_retry_send
        \/ s2n_server_hello_send
        \/ s2n_server_hello_recv
        \/ s2n_server_cert_and_key_send
        \/ s2n_server_cert_and_key_recv

Spec == Init /\ [][Next]_vars

(* Each side does what is left for it to do while the application calls    *)
(* s2n_negotiate.                                                          *)
FairSpec == Spec /\ WF_vars(Next)

-----------------------------------------------------------------------------
(***************************************************************************)
(* What the two configurations have in common, stated without reference to *)
(* the messages and the order in which the code looks at things.           *)
(***************************************************************************)
CommonVersions ==
    LET top(p, v) == IF s2n_security_policy_supports_tls13(p) THEN v ELSE Least(v, TLS12)
        capped == IF s2n_is_tls_12_self_downgrade_required THEN TLS12 ELSE TLS13
    IN  (ClientPolicy.min..top(ClientPolicy, config.client.version))
          \cap (ServerPolicy.min..Least(capped, top(ServerPolicy, config.server.version)))

BothPq == config.client.build.pq /\ config.server.build.pq
CommonCurves == Among(ServerPolicy.curves, ToSet(ClientPolicy.curves))
CommonGroups == IF BothPq THEN Among(ServerPolicy.groups, ToSet(ClientPolicy.groups)) ELSE <<>>
CommonKems == IF BothPq THEN Among(ServerPolicy.kems, ToSet(ClientPolicy.kems)) ELSE <<>>

HasCert(type) == s2n_get_compatible_cert_chain_and_key(config.server.certs, type) # None

(* A TLS 1.3 signature both policies allow and a certificate can make. *)
Tls13Signature ==
    \E s \in ToSet(ServerPolicy.sigs) \cap ToSet(ClientPolicy.sigs) :
        LET scheme == signature_scheme[s]
        IN  /\ scheme.max = UNKNOWN
            /\ s2n_certs_exist_for_sig_scheme(config.server.certs, scheme)
            /\ scheme.sig_alg # "ECDSA" => config.client.build.pss /\ config.server.build.pss

WorkableSuite(name, version) ==
    LET suite == cipher_suite[name]
    IN  /\ name \in ToSet(ServerPolicy.suites) \cap ToSet(ClientPolicy.suites)
        /\ Available(name, config.client.build) /\ Available(name, config.server.build)
        /\ suite.min <= version
        /\ IF version >= TLS13
           THEN /\ suite.min = TLS13
                /\ CommonCurves # <<>> \/ CommonGroups # <<>>
                /\ Tls13Signature
           ELSE /\ suite.min < TLS13
                /\ HasCert(suite.auth)
                /\ suite.kex = "dhe" => config.server.dhparams
                /\ suite.kex \in {"ecdhe", "hybrid_ecdhe_kem"} => CommonCurves # <<>>
                /\ suite.kex = "hybrid_ecdhe_kem" =>
                        ToSet(CommonKems) \cap kem_mapping[name] # {}

FallbackDetected == config.fallback /\ ClientHelloVersion < ServerVersion

Done == client.status = "done"
Failed == client.status = "failed" \/ server.status = "failed"

-----------------------------------------------------------------------------
(* Type invariant. *)
TypeOK ==
    LET ok(conn, own) ==
            /\ conn.status \in {"hello", "sent", "retrying", "chosen", "greeted", "done", "failed"}
            /\ {conn.client_version, conn.server_version, conn.actual} \subseteq {UNKNOWN} \cup SSLv3..TLS13
            /\ conn.retry \in BOOLEAN
            /\ conn.suite \in {None} \cup ToSet(own.suites)
            /\ conn.group \in {None} \cup ToSet(own.groups)
            /\ conn.kem \in {None} \cup ToSet(own.kems)
            /\ conn.sig \in {None} \cup DOMAIN signature_scheme
    IN  ok(client, ClientPolicy) /\ ok(server, ServerPolicy)

(***************************************************************************)
(* When the client has accepted the server's parameters, both ends have    *)
(* the same version, suite, group or curve, KEM, certificate and, where    *)
(* something was signed, signature scheme, whatever hellos were exchanged. *)
(***************************************************************************)
ParametersAgree ==
    Done => /\ server.status = "done"
            /\ \A f \in {"actual", "suite", "group", "kem", "cert"} : client[f] = server[f]
            /\ cipher_suite[client.suite].kex # "rsa" /\ cipher_suite[client.suite].kex # "dhe"
                    => client.curve = server.curve
            /\ Signed(client) => client.sig = server.sig

(***************************************************************************)
(* Nothing is negotiated that one of the two policies rules out, with the  *)
(* one exception the code makes on purpose: below TLS 1.3 the default      *)
(* signature scheme is accepted even where a policy does not list it.  The *)
(* version is the highest one both allow, "Always prefer the highest       *)
(* protocol version supported" (docs/USAGE-GUIDE.md): neither the legacy   *)
(* version field, nor the server's cap at TLS 1.2, nor a retry loses one.  *)
(***************************************************************************)
PoliciesRespected ==
    Done =>
      /\ client.actual = Max(CommonVersions)
      /\ \A p \in {ClientPolicy, ServerPolicy} :
        /\ client.suite \in ToSet(p.suites)
        /\ client.curve # None => client.curve \in ToSet(p.curves)
        /\ client.group # None => client.group \in ToSet(p.groups)
        /\ client.kem # None => client.kem \in ToSet(p.kems)
        /\ Signed(client) =>
              \/ client.sig \in ToSet(p.sigs)
              \/ /\ client.actual < TLS13
                 /\ client.sig = s2n_choose_default_sig_scheme(client.actual,
                                                               cipher_suite[client.suite])

(***************************************************************************)
(* The suite is the first of the server's list that could have worked with *)
(* this client, these certificates and these key exchanges.                *)
(***************************************************************************)
ServerOrder ==
    Done => LET own == ServerPolicy.suites
                works == {i \in DOMAIN own : WorkableSuite(own[i], client.actual)}
            IN  client.suite = own[Min(works)]

(***************************************************************************)
(* In TLS 1.3 a group the client sent a share for is used when one is      *)
(* mutual, PQ first, and no round trip is spent; otherwise there is        *)
(* exactly one retry and it lands on the server's most preferred group.    *)
(***************************************************************************)
GroupChoice ==
    Done /\ client.actual >= TLS13 =>
        LET mutual == CommonGroups \o CommonCurves
            offered == {ClientPolicy.curves[1]} \cup (IF ClientPolicy.groups = <<>> THEN {}
                                                      ELSE {ClientPolicy.groups[1]})
            ready == Among(mutual, offered)
            used == IF client.group # None /\ server.group # None THEN client.group
                    ELSE client.curve
        IN  IF ready # <<>> THEN used = ready[1] /\ ~client.retry
            ELSE used = mutual[1] /\ client.retry

(***************************************************************************)
(* A handshake fails only where it has to: the two configurations have no  *)
(* version in common, or no suite works at the highest common one, or the  *)
(* client said it was falling back and need not have.  In particular       *)
(* whatever the server picks the client accepts, and the server never      *)
(* settles on a suite, a group or a scheme it cannot finish with.          *)
(***************************************************************************)
NoSpuriousFailure ==
    Failed /\ ~FallbackDetected /\ CommonVersions # {} =>
        \A name \in DOMAIN cipher_suite : ~WorkableSuite(name, Max(CommonVersions))

(***************************************************************************)
(* A client that says it fell back from a version the server has is turned *)
(* away (RFC 7507, s2n_set_cipher_as_server).                              *)
(***************************************************************************)
FallbackTurnedAway == FallbackDetected => ~Done

(* Every negotiation comes to an end. *)
Terminates == <>(Done \/ Failed)

(***************************************************************************)
(* tls/s2n_auth_selection.c: waiting for the signature algorithm "allows   *)
(* us to use RSA-PSS with existing TLS1.2 cipher suites".  The rsa_pss_pss *)
(* schemes are limited to TLS 1.3, so a TLS 1.2 server that settles on an  *)
(* RSA suite for its RSA-PSS certificate finds no signature to make.       *)
(***************************************************************************)
RsaPssAtTls12 ==
    (/\ HasCert("RSA_PSS") /\ config.client.build.pss /\ config.server.build.pss
     /\ CommonVersions # {} /\ Max(CommonVersions) = TLS12
     /\ \E name \in DOMAIN cipher_suite :
            /\ cipher_suite[name].auth = "RSA" /\ cipher_suite[name].kex = "ecdhe"
            /\ name \in ToSet(ServerPolicy.suites) \cap ToSet(ClientPolicy.suites)
            /\ Available(name, config.client.build) /\ Available(name, config.server.build)
            /\ CommonCurves # <<>>
            /\ "rsa_pss_pss_sha256" \in ToSet(ServerPolicy.sigs) \cap ToSet(ClientPolicy.sigs))
    => ~Failed

(***************************************************************************)
(* docs/USAGE-GUIDE.md: "Always use forward secrecy where possible".  Some *)
(* of the numbered policies list RSA key exchange before DHE.              *)
(***************************************************************************)
ForwardSecrecyWherePossible ==
    Done /\ cipher_suite[client.suite].kex = "rsa" =>
        \A name \in DOMAIN cipher_suite :
            cipher_suite[name].kex # "rsa" => ~WorkableSuite(name, client.actual)
=============================================================================
