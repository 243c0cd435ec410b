---------------------------- MODULE KeySchedule ----------------------------
(***************************************************************************)
(* Transcript hashes and keys during a handshake: tls/s2n_handshake.c,     *)
(* tls/s2n_handshake_transcript.c, tls/s2n_prf.c, tls/s2n_tls13_handshake.c*)
(* crypto/s2n_tls13_keys.c, the key exchange messages, CertificateVerify,  *)
(* Finished, and pre-shared keys.  A client and a server walk the messages *)
(* of one handshake type; each one keeps its own running hashes, secrets   *)
(* and keys, and the network may alter messages that are not yet           *)
(* encrypted.                                                              *)
(*                                                                         *)
(* Cryptography is symbolic: a secret, a digest or a key is the term that  *)
(* computes it (a tuple whose first element names the function) and two    *)
(* values are the same bytes exactly if they are the same term.            *)
(***************************************************************************)
EXTENDS RecordCiphers, HandshakeTables, PublicKeys, KeyExchange, Hashes, FiniteSets

CONSTANTS
    Configs,     \* the handshakes to run, see Config below
    MaxAltered   \* bound: messages the network alters

ASSUME BoundAssumption == MaxAltered \in Nat

VARIABLES
    cfg,      \* what the two sides negotiate, fixed for a behaviour
    conn,     \* conn["client"], conn["server"]: struct s2n_connection
    wire,     \* messages on their way, oldest first
    altered   \* how many messages were altered

vars == <<cfg, conn, wire, altered>>

Roles == {"client", "server"}
Peer(r) == IF r = "client" THEN "server" ELSE "client"

Failed(c) == [c EXCEPT !.failed = TRUE]
Checked(c, condition) == IF condition THEN c ELSE Failed(c)

-----------------------------------------------------------------------------
(* The pseudorandom functions, with the sizes of what they read and write. *)
S2N_TLS_SECRET_LEN == 48
S2N_TLS_FINISHED_LEN == 12
S2N_MAX_KEY_BLOCK_LEN == 160
S2N_TLS13_FIXED_IV_LEN == 12

(* s2n_prf: SSLv3 takes no label; up to TLS 1.1 the outputs of P_MD5 and   *)
(* P_SHA1 over the halves of the secret are XORed; TLS 1.2 uses the hash   *)
(* of the cipher suite.  The result is the connection, whose workspaces    *)
(* were used, and the output.                                              *)
Half(k, secret) == <<"half", k, secret>>
PrfSslv3(c, p) ==
    [c |-> Checked([c EXCEPT !.hash["workspace"] = p.state], p.out # Error), out |-> p.out]
PrfHashed(c, p) ==
    [c |-> Checked([c EXCEPT !.prf_space = p.ws], Error \notin {p.out, p.md5}),
     out |-> IF p.md5 = None THEN p.out ELSE <<"xor", p.md5, p.out>>]
PrfPart(p, alg, secret, klen, text, size) ==
    s2n_p_hash(p.ws, alg, secret, klen, text, size) @@ [md5 |-> p.out]
PrfParts(algs, secret, klen) ==
    IF Len(algs) = 1 THEN <<<<algs[1], secret, klen>>>>
    ELSE [i \in 1..2 |-> <<algs[i], Half(i, secret), (klen + 1) \div 2>>]
PrfSpace(c) == [c.prf_space EXCEPT !.impl = s2n_get_hmac_implementation(cfg.fips)]
s2n_prf(c, secret, klen, label, seeds, size) ==
    IF cfg.version = SSLv3 THEN PrfSslv3(c, s2n_sslv3_prf(c.hash["workspace"], secret, seeds, size))
    ELSE PrfHashed(c, FoldLeft(LAMBDA p, part : PrfPart(p, part[1], part[2], part[3],
                                                        <<label>> \o seeds, size),
                               [ws |-> PrfSpace(c), out |-> None],
                               PrfParts(IF cfg.version = TLS12 THEN <<c.prf>> ELSE <<"MD5", "SHA1">>,
                                        secret, klen)))

(* HKDF with the hash of a cipher suite or of a PSK: a secret is as long as*)
(* the hash.                                                               *)
ExpandLabel(alg, secret, label, context) ==
    s2n_hkdf_expand_label(cfg.fips, alg, secret, label, context, HmacSize(alg))
Extract(alg, salt, key) == s2n_hkdf_extract(cfg.fips, alg, salt, key)

(* s2n_tls13_transcript_message_hash, of nothing. *)
EmptyDigest(alg) == Finished(s2n_hash_init(s2n_hash_new(cfg.fips), alg)).out

-----------------------------------------------------------------------------
(* s2n_handshake_get_hash_state returns a struct whose EVP context is the  *)
(* connection's own; every user copies it with s2n_hash_copy before taking *)
(* the digest: to a new state in TLS 1.3, to the workspace before.         *)
CopyDigest(state) == Finished(s2n_hash_copy(s2n_hash_new(cfg.fips), state)).out
InWorkspace(c, alg) == Finished(s2n_hash_copy(c.hash["workspace"], c.hash[alg]))
TranscriptDigest(c, alg) ==
    IF cfg.version = TLS13 THEN CopyDigest(c.hash[alg]) ELSE InWorkspace(c, alg).out
AfterDigest(c, alg) ==
    LET after(done) == Checked([c EXCEPT !.hash["workspace"] = done.state], done.out # Error)
    IN  IF cfg.version = TLS13 THEN c ELSE after(InWorkspace(c, alg))

(* s2n_conn_update_required_handshake_hashes.  handshake_message >=        *)
(* CLIENT_CERT_VERIFY compares positions in the enumeration message_type_t.*)
UpToClientKey == {"CLIENT_HELLO", "SERVER_HELLO", "SERVER_CERT", "SERVER_NEW_SESSION_TICKET",
                  "SERVER_CERT_STATUS", "SERVER_KEY", "SERVER_CERT_REQ", "SERVER_HELLO_DONE",
                  "CLIENT_CERT", "CLIENT_KEY"}
client_cert_verify_done_Never(msg) == TRUE
client_cert_verify_done(msg) == msg \notin UpToClientKey
s2n_conn_update_required_handshake_hashes(c, msg) ==
    [c EXCEPT !.required =
        IF cfg.auth /\ ~client_cert_verify_done(msg) THEN HashAlgs
        ELSE IF cfg.version <= TLS11 THEN {"MD5", "SHA1"}
        ELSE {c.prf}]

(* s2n_conn_update_handshake_hashes: MD5_SHA1 goes along with MD5 and SHA1;*)
(* in TLS 1.3 the hash up to the ServerHello and the one up to the server's*)
(* Finished are copied for later.                                          *)
Fed(c, alg) == IF alg = "MD5_SHA1" THEN {"MD5", "SHA1"} \subseteq c.required
                                   ELSE alg \in c.required
Hashed(c, data) ==
    LET fed == {alg \in HashAlgs : Fed(c, alg)}
        hash == [h \in HandshakeHashes |->
                    IF h \in fed THEN s2n_hash_update(c.hash[h], data) ELSE c.hash[h]]
    IN  Checked([c EXCEPT !.hash = hash], \A h \in fed : hash[h].ok)
s2n_conn_update_handshake_hashes_SkipsTicket(c, msg, data) ==
    IF msg = "SERVER_NEW_SESSION_TICKET" THEN c ELSE Hashed(c, data)
s2n_conn_update_handshake_hashes(c, msg, data) ==
    LET h == Hashed(c, data)
    IN  IF cfg.version < TLS13 THEN h
        ELSE [h EXCEPT
          !.hash["server_hello_copy"] =
                IF msg = "SERVER_HELLO" THEN s2n_hash_copy(@, h.hash[c.prf]) ELSE @,
          !.hash["server_finished_copy"] =
                IF msg = "SERVER_FINISHED" THEN s2n_hash_copy(@, h.hash[c.prf]) ELSE @]

(* s2n_server_hello_retry_recreate_transcript: the first ClientHello is    *)
(* replaced by a synthetic message, in the hash of the cipher suite only.  *)
MessageHash(alg, digest) == <<"message_hash", s2n_hash_digest_size(alg), digest>>
s2n_server_hello_retry_recreate_transcript_NoReset(c) ==
    Hashed(c, MessageHash(c.prf, CopyDigest(c.hash[c.prf])))
s2n_server_hello_retry_recreate_transcript(c) ==
    Hashed([c EXCEPT !.hash[c.prf] = s2n_hash_reset(@)],
           MessageHash(c.prf, CopyDigest(c.hash[c.prf])))

-----------------------------------------------------------------------------
(* Key exchange.  ecc holds the parameters of both sides' elliptic curve   *)
(* keys, of the hybrid group where one is used; kem those of the hybrid    *)
(* group or of the hybrid cipher suite; dh the server's.  What a key       *)
(* exchange message or extension carries is a share.                       *)
Share(curve, point, kem) ==
    [curve |-> curve, point |-> point, kem |-> kem, dh |-> NoDh, rsa |-> NoCiphertext]
NoShare == Share("", NoPoint, NoKemData)

Hybrid == cfg.kex = "hybrid"
Combined(dh, ss) ==
    IF ~Hybrid THEN dh
    ELSE IF NoSecret \in {dh, ss} THEN NoSecret ELSE <<"concat", dh, ss>>

(* s2n_tls13_compute_shared_secret; the KEM secret is already there: the   *)
(* server encapsulates when it sends, the client decapsulates when it reads*)
(* the key share.  All key shares and PSK secrets are wiped.               *)
SharedSecret13(c, r) ==
    Combined(s2n_ecc_evp_compute_shared_secret_from_params(c.ecc[r], c.ecc[Peer(r)]), c.kem.secret)
WipedShares(c) ==
    [c EXCEPT !.ecc = [r \in Roles |-> s2n_ecc_evp_params_free(@[r])], !.kem = s2n_kem_free(@),
              !.psks = [i \in DOMAIN @ |-> [@[i] EXCEPT !.secret = None, !.early = None]]]

-----------------------------------------------------------------------------
(* Secrets and keys up to TLS 1.2.                                         *)
Randoms(c) == <<c.client_random, c.server_random>>
CurveSecretSize == [secp256r1 |-> 32, x25519 |-> 32, secp384r1 |-> 48, secp521r1 |-> 66]
KemSecretSize == 32
PremasterSize ==
    CASE cfg.kex = "rsa" -> 48 [] cfg.kex = "dhe" -> 256
      [] OTHER -> CurveSecretSize[cfg.curve] + (IF Hybrid THEN KemSecretSize ELSE 0)

(* The master secret, in the connection. *)
Mastered(prf) == [prf.c EXCEPT !.master = prf.out]
s2n_tls_prf_master_secret(c, premaster) ==
    Mastered(s2n_prf(c, premaster, PremasterSize, "master secret", Randoms(c), S2N_TLS_SECRET_LEN))
s2n_hybrid_prf_master_secret(c, premaster, message) ==
    Mastered(s2n_prf(c, premaster, PremasterSize, "hybrid master secret",
                     Append(Randoms(c), message), S2N_TLS_SECRET_LEN))

(* Outside unit tests the extended master secret is never used. *)
s2n_prf_calculate_master_secret(c, premaster) == s2n_tls_prf_master_secret(c, premaster)

(* Secrets go to the key log, if the application set a callback. *)
Logged(c, label, secret) ==
    [c EXCEPT !.log = IF cfg.log THEN @ \cup {<<label, c.client_random, secret>>} ELSE @]
s2n_key_log_tls12_secret(c) == Logged(c, "CLIENT_RANDOM", c.master)
s2n_key_log_tls13_secret(c, secret, secret_type) == Logged(c, secret_type, secret)

Slice(block, from, size) == IF size = 0 THEN None ELSE <<"slice", block, from, size>>
MacKeySize(alg) ==
    LET c == cipher[CipherOf(alg)]
    IN  IF c.type = "COMPOSITE" THEN c.mac ELSE s2n_hmac_digest_size(alg)
ImplicitIvSize(alg, version) ==
    LET c == cipher[CipherOf(alg)]
    IN  CASE c.type = "AEAD" -> c.fixed
          [] c.type \in {"CBC", "COMPOSITE"} /\ version <= TLS10 -> c.block
          [] OTHER -> 0

Key(mac, key, iv) == [mac |-> mac, key |-> key, iv |-> iv]
NoKey == Key(None, None, None)
Keyed(c, dir, key) == [c EXCEPT !.keys[dir] = key, !.installed[dir] = Append(@, key)]
s2n_zero_sequence_number(c, dir) == [c EXCEPT !.seq[dir] = 0]

(* s2n_prf_key_expansion cuts the keys of both directions from one block.  *)
CutKeys(c, block, m, k, v) ==
    LET client == Key(Slice(block, 0, m), Slice(block, 2 * m, k), Slice(block, 2 * (m + k), v))
        server == Key(Slice(block, m, m), Slice(block, 2 * m + k, k),
                      Slice(block, 2 * (m + k) + v, v))
    IN  [Keyed(Keyed(c, "client", client), "server", server) EXCEPT
            !.failed = @ \/ 2 * (m + k + v) > S2N_MAX_KEY_BLOCK_LEN]
s2n_prf_key_expansion(c) ==
    LET cut(prf) == CutKeys(prf.c, prf.out, MacKeySize(cfg.alg), cipher[CipherOf(cfg.alg)].key,
                            ImplicitIvSize(cfg.alg, cfg.version))
    IN  cut(s2n_prf(c, c.master, S2N_TLS_SECRET_LEN, "key expansion",
                    <<c.server_random, c.client_random>>, S2N_MAX_KEY_BLOCK_LEN))

(* s2n_prf_client_finished and s2n_prf_server_finished, s2n_sslv3_finished *)
Label(r, client, server) == IF r = "client" THEN client ELSE server
s2n_sslv3_finished(c, prefix) ==
    LET outer(inner, n) == Finished(Updated(s2n_hash_reset(inner.state),
                                            <<c.master, Repeated(OPAD, n), inner.out>>))
        part(workspace, alg, n) ==
            outer(Finished(Updated(s2n_hash_copy(workspace, c.hash[alg]),
                                   <<prefix, c.master, Repeated(IPAD, n)>>)), n)
        both(md5, sha1) ==
            [c |-> Checked([c EXCEPT !.hash["workspace"] = s2n_hash_reset(sha1.state)],
                           sha1.state.ok),
             out |-> <<"sslv3_finished", md5.out, sha1.out>>]
        after(md5) == both(md5, part(s2n_hash_reset(md5.state), "SHA1", 40))
    IN  after(part(c.hash["workspace"], "MD5", 48))
DigestTaken(t, alg) == [c |-> AfterDigest(t.c, alg), digests |-> Append(t.digests, TranscriptDigest(t.c, alg))]
FinishedPrf(t, label) ==
    s2n_prf(t.c, t.c.master, S2N_TLS_SECRET_LEN, label, t.digests, S2N_TLS_FINISHED_LEN)
FinishedOutput(prf, r) == [prf.c EXCEPT !.finished[r] = prf.out]
s2n_prf_finished(c, r) ==
    LET label == Label(r, "client finished", "server finished")
        hashes == IF cfg.version = TLS12 THEN <<c.prf>> ELSE <<"MD5", "SHA1">>
    IN  FinishedOutput(IF cfg.version = SSLv3 THEN s2n_sslv3_finished(c, label)
                       ELSE FinishedPrf(FoldLeft(DigestTaken, [c |-> c, digests |-> << >>], hashes), label), r)

(* Only the first 12 bytes of the client's SSLv3 Finished, all of them MD5,*)
(* are compared by the server.                                             *)
SamePrefix(mine, theirs) ==
    IF mine[1] = "sslv3_finished" /\ theirs[1] = "sslv3_finished"
    THEN mine[2] = theirs[2] ELSE mine = theirs

-----------------------------------------------------------------------------
(* Secrets and keys of TLS 1.3.  The secret last extracted is kept in the  *)
(* buffer of the premaster secret and the one derived from it in the buffer*)
(* of the master secret.                                                   *)
Zeros == <<"zeros">>
DeriveNext(c) ==
    [c EXCEPT !.master =
        ExpandLabel(c.prf, c.premaster, "derived", EmptyDigest(c.prf))]

s2n_tls13_derive_early_secret(c, psk) ==
    DeriveNext([c EXCEPT !.premaster =
        IF psk = None THEN Extract(c.prf, None, Zeros) ELSE psk])

(* s2n_tls13_handle_early_secret: a client that asked for early data goes  *)
(* by its first PSK and takes over that PSK's cipher suite.                *)
s2n_tls13_handle_early_secret(c, r) ==
    LET first == r = "client" /\ c.early = "requested"
        i == IF first THEN 1 ELSE c.chosen
        suite == IF first THEN [c EXCEPT !.prf = c.psks[1].alg] ELSE c
    IN  IF i = 0 THEN s2n_tls13_derive_early_secret(suite, None)
        ELSE IF c.psks[i].early = None \/ c.psks[i].alg # suite.prf
        THEN [suite EXCEPT !.failed = TRUE]
        ELSE s2n_tls13_derive_early_secret(suite, c.psks[i].early)

s2n_tls13_derive_traffic_keys(c, secret) ==
    LET expand(label, size) ==
            s2n_hkdf_expand_label(cfg.fips, c.prf, secret, label, None, size)
    IN  Key(None, expand("key", cipher[CipherOf(cfg.alg)].key), expand("iv", S2N_TLS13_FIXED_IV_LEN))

(* A traffic key is set, its sequence number starts at zero and the        *)
(* connection uses it from the next record on.                             *)
Trafficked(c, dir, secret) ==
    [s2n_zero_sequence_number(Keyed(c, dir, s2n_tls13_derive_traffic_keys(c, secret)), dir)
        EXCEPT !.use[dir] = "secure"]

LoggedTraffic(c, dir, secret, label) ==
    Trafficked(s2n_key_log_tls13_secret(c, secret, label), dir, secret)

s2n_tls13_derive_early_traffic_secret(c) ==
    ExpandLabel(c.prf, c.premaster, "c e traffic", TranscriptDigest(c, c.prf))
s2n_tls13_handle_early_traffic_secret(c) ==
    LoggedTraffic(AfterDigest(c, c.prf), "client", s2n_tls13_derive_early_traffic_secret(c),
                  "CLIENT_EARLY_TRAFFIC_SECRET")

s2n_tls13_handle_handshake_master_secret(c, r) ==
    LET secret == SharedSecret13(c, r)
    IN  DeriveNext(WipedShares([c EXCEPT !.failed = @ \/ secret = NoSecret,
            !.premaster = Extract(c.prf, c.master, secret)]))

s2n_tls13_derive_handshake_traffic_secret(c, dir) ==
    ExpandLabel(c.prf, c.premaster, Label(dir, "c hs traffic", "s hs traffic"),
                          CopyDigest(c.hash["server_hello_copy"]))
WithHandshakeTraffic(c, dir, secret) ==
    [LoggedTraffic(c, dir, secret, Label(dir, "CLIENT_HANDSHAKE_TRAFFIC_SECRET",
                                         "SERVER_HANDSHAKE_TRAFFIC_SECRET"))
        EXCEPT !.finished[dir] = ExpandLabel(c.prf, secret, "finished", None)]
s2n_tls13_handle_handshake_traffic_secret(c, dir) ==
    WithHandshakeTraffic(c, dir, s2n_tls13_derive_handshake_traffic_secret(c, dir))
HandshakeTraffic(c, dirs) == FoldLeft(s2n_tls13_handle_handshake_traffic_secret, c, dirs)

s2n_tls13_handle_master_secret(c) ==
    [c EXCEPT !.premaster = Extract(c.prf, c.master, Zeros)]

s2n_tls13_derive_application_secret(c, dir) ==
    ExpandLabel(c.prf, c.premaster, Label(dir, "c ap traffic", "s ap traffic"),
                          CopyDigest(c.hash["server_finished_copy"]))
WithApplicationSecret(c, dir, secret) ==
    LET label == Label(dir, "CLIENT_TRAFFIC_SECRET_0", "SERVER_TRAFFIC_SECRET_0")
    IN  [s2n_zero_sequence_number(
            Keyed(s2n_key_log_tls13_secret(c, secret, label), dir,
                  s2n_tls13_derive_traffic_keys(c, secret)), dir) EXCEPT !.app[dir] = secret]
s2n_tls13_handle_application_secret(c, dir) ==
    WithApplicationSecret(c, dir, s2n_tls13_derive_application_secret(c, dir))
ApplicationSecrets(c, dirs) == FoldLeft(s2n_tls13_handle_application_secret, c, dirs)

s2n_tls13_derive_resumption_master_secret(c) ==
    ExpandLabel(c.prf, c.premaster, "res master", TranscriptDigest(c, c.prf))
s2n_tls13_handle_resumption_master_secret(c) ==
    [AfterDigest(c, c.prf) EXCEPT !.resumption = s2n_tls13_derive_resumption_master_secret(c)]

(* What each side derives when a message is done.  The client's handshake  *)
(* keys wait until there is no more early data.                            *)
s2n_tls13_client_handle_secrets(c, msg) ==
    CASE msg = "CLIENT_HELLO" /\ c.early = "requested" ->
            s2n_tls13_handle_early_traffic_secret(s2n_tls13_handle_early_secret(c, "client"))
      [] msg = "HELLO_RETRY_MSG" -> [c EXCEPT !.use["client"] = "initial"]
      [] msg = "SERVER_HELLO" ->
            HandshakeTraffic(s2n_tls13_handle_handshake_master_secret(
                                s2n_tls13_handle_early_secret(c, "client"), "client"),
                             IF c.early = "not_requested" THEN <<"server", "client">> ELSE <<"server">>)
      [] msg = "END_OF_EARLY_DATA" \/ (msg = "ENCRYPTED_EXTENSIONS" /\ c.early = "rejected") ->
            HandshakeTraffic(c, <<"client">>)
      [] msg = "CLIENT_FINISHED" ->
            s2n_tls13_handle_resumption_master_secret(
                ApplicationSecrets(s2n_tls13_handle_master_secret(c), <<"server", "client">>))
      [] OTHER -> c

s2n_tls13_server_handle_secrets(c, msg) ==
    CASE msg = "CLIENT_HELLO" ->
            LET early(s) == IF c.early = "accepted" THEN s2n_tls13_handle_early_traffic_secret(s) ELSE s
            IN  early(s2n_tls13_handle_early_secret(c, "server"))
      [] msg = "HELLO_RETRY_MSG" -> [c EXCEPT !.use["client"] = "initial"]
      [] msg = "SERVER_HELLO" ->
            HandshakeTraffic(s2n_tls13_handle_handshake_master_secret(c, "server"),
                             IF c.early # "accepted" THEN <<"server", "client">> ELSE <<"server">>)
      [] msg = "END_OF_EARLY_DATA" \/ (msg = "SERVER_FINISHED" /\ c.early # "accepted") ->
            ApplicationSecrets(s2n_tls13_handle_master_secret(
                HandshakeTraffic(c, IF msg = "END_OF_EARLY_DATA" THEN <<"client">> ELSE << >>)),
                <<"server">>)
      [] msg = "CLIENT_FINISHED" ->
            s2n_tls13_handle_resumption_master_secret(ApplicationSecrets(c, <<"client">>))
      [] OTHER -> c

s2n_tls13_handle_secrets(c, r, msg) ==
    IF cfg.version < TLS13 \/ c.failed THEN c
    ELSE IF r = "client" THEN s2n_tls13_client_handle_secrets(c, msg)
    ELSE s2n_tls13_server_handle_secrets(c, msg)

s2n_tls13_calculate_finished_mac(c, r) ==
    Extract(c.prf, c.finished[r], TranscriptDigest(c, c.prf))

-----------------------------------------------------------------------------
(* Pre-shared keys.  A PSK is [type, id, size, alg, secret, early]: its    *)
(* identity and that one's size, and the early secret, kept from the       *)
(* calculation of its binder.                                              *)
s2n_psk_init(type) == [type |-> type, id |-> "", size |-> 0, alg |-> "SHA256", secret |-> None,
                       early |-> None]
s2n_psk_set_identity(psk, id, size) == IF size = 0 THEN psk ELSE [psk EXCEPT !.id = id, !.size = size]
s2n_psk_set_secret(psk, secret) == [psk EXCEPT !.secret = secret]
s2n_psk_set_hmac(psk, alg) == IF alg \in {"SHA256", "SHA384"} THEN [psk EXCEPT !.alg = alg] ELSE psk

(* s2n_connection_append_psk gives the new list, which is the old one if   *)
(* the PSK is refused: one of another type, an identity that is there      *)
(* already, one more than fits into a ClientHello, one that is not         *)
(* complete.                                                               *)
UINT16_MAX == 65535
S2N_EXTENSION_HEADER_LENGTH == 4
s2n_psk_offered_psk_size(psk) == 7 + psk.size + (IF psk.alg = "SHA256" THEN 32 ELSE 48)
s2n_psk_parameters_offered_psks_size(list) ==
    4 + FoldSeq(LAMBDA psk, size : size + s2n_psk_offered_psk_size(psk), 0, list)
s2n_connection_set_psk_type(list, type) == list = << >> \/ list[1].type = type
s2n_psk_clone(psk) == psk.size # 0 /\ psk.secret # None
s2n_connection_append_psk(list, mode, psk) ==
    IF /\ s2n_connection_set_psk_type(list, psk.type)
       /\ \A i \in DOMAIN list : list[i].id # psk.id
       /\ mode = "client" => s2n_psk_parameters_offered_psks_size(list)
                            + s2n_psk_offered_psk_size(psk)
                            + S2N_EXTENSION_HEADER_LENGTH <= UINT16_MAX
       /\ s2n_psk_clone(psk)
    THEN Append(list, psk) ELSE list

(* What the application configured: [id, size, alg] in this order. *)
Psks(r) ==
    LET made(x) == s2n_psk_set_hmac(s2n_psk_set_secret(s2n_psk_set_identity(
                        s2n_psk_init(cfg.pskType), x.id, x.size), <<"psk", x.id>>), x.alg)
    IN  FoldSeq(LAMBDA x, list : s2n_connection_append_psk(list, r, made(x)), << >>, cfg.psks[r])

PartialHello(alt) == <<"partial_hello", alt, {}>>

s2n_psk_calculate_binder_hash(c, psk, alt) ==
    Finished(s2n_hash_update(s2n_hash_copy(s2n_hash_new(cfg.fips), c.hash[psk.alg]),
                             PartialHello(alt))).out

EarlySecret(psk) == Extract(psk.alg, None, psk.secret)
s2n_psk_calculate_binder(c, psk, alt) ==
    LET label == IF cfg.pskType = "external" THEN "ext binder" ELSE "res binder"
        binder_key == ExpandLabel(psk.alg, EarlySecret(psk), label,
                                            EmptyDigest(psk.alg))
    IN  Extract(psk.alg, ExpandLabel(psk.alg, binder_key, "finished", None),
                         s2n_psk_calculate_binder_hash(c, psk, alt))

s2n_psk_verify_binder(c, psk, alt, binder) == binder = s2n_psk_calculate_binder(c, psk, alt)

(* s2n_client_psk_send and s2n_psk_write_binder_list leave out the PSKs    *)
(* that do not fit the suite of a HelloRetryRequest.                       *)
Offered(c, retry) == {i \in DOMAIN c.psks : retry => c.psks[i].alg = c.prf}
s2n_client_psk_send(c, retry) ==
    LET order == SetToSortSeq(Offered(c, retry), <)
    IN  [k \in DOMAIN order |->
            [id |-> c.psks[order[k]].id,
             binder |-> s2n_psk_calculate_binder(c, c.psks[order[k]], "none")]]
s2n_finish_psk_extension(c, retry) ==
    [c EXCEPT !.psks = [i \in DOMAIN @ |->
        IF i \in Offered(c, retry) THEN [@[i] EXCEPT !.early = EarlySecret(c.psks[i])] ELSE @[i]]]

(* The PSK the server picks: <<its index, the index on the wire>>, or none *)
(* (0).  Its own order decides for external PSKs; of tickets the first one *)
(* it can decrypt among the first three.                                   *)
MAX_REJECTED_TICKETS == 3
Matches(psks, offers) == {<<i, k>> \in (DOMAIN psks) \X (DOMAIN offers) : psks[i].id = offers[k].id}
s2n_select_external_psk(psks, offers) ==
    LET m == Matches(psks, offers)
    IN  IF m = {} THEN <<0, 0>>
        ELSE CHOOSE x \in m : \A y \in m : x[1] < y[1] \/ (x[1] = y[1] /\ x[2] <= y[2])
s2n_select_resumption_psk(psks, offers) ==
    LET m == {x \in Matches(psks, offers) : x[2] <= MAX_REJECTED_TICKETS}
    IN  IF m = {} THEN <<0, 0>> ELSE CHOOSE x \in m : \A y \in m : x[2] <= y[2]
Selected(psks, offers) ==
    IF cfg.pskType = "external" THEN s2n_select_external_psk(psks, offers)
    ELSE s2n_select_resumption_psk(psks, offers)

-----------------------------------------------------------------------------
(* What a sent message contains, and what its handler does to the sender.  *)
s2n_config_add_dhparams(pem) ==
    LET read == s2n_stuffer_dhparams_from_pem(pem)
    IN  IF read.ok THEN s2n_pkcs3_to_dh_params(read.der) ELSE NoDh
Out(c, body) == [c |-> c, body |-> body]
Random(r) == <<"random", r>>

(* s2n_client_key_share_send: one share, of the client's first group or of *)
(* the one a retry asks for; the old keys go when the group is another.    *)
s2n_client_key_share_send(c, retry) ==
    LET old == c.ecc["client"]
        curve == IF retry THEN c.ecc["server"].curve ELSE cfg.first
        other == retry /\ old.curve # curve
        kept == IF other THEN s2n_ecc_evp_params_free(old) ELSE old
        ecc == s2n_ecdhe_send_public_key([kept EXCEPT !.curve = curve],
                                         IF retry THEN "c2" ELSE "c1")
        kem == s2n_kem_send_public_key(IF other THEN s2n_kem_free(c.kem) ELSE c.kem,
                                       IF retry THEN "k2" ELSE "k1")
    IN  IF cfg.version < TLS13 THEN c
        ELSE Checked([c EXCEPT !.ecc["client"] = ecc, !.kem = IF Hybrid THEN kem ELSE @],
                     ecc # BadEcc)
ClientShare(c) ==
    LET ecc == c.ecc["client"]
    IN  Share(ecc.curve, s2n_ecc_evp_write_params_point(ecc),
              IF Hybrid /\ cfg.version = TLS13 THEN KemData(c.kem.private) ELSE NoKemData)

s2n_client_hello_send(c) ==
    LET retry == c.n > 1
        sent == [s2n_client_key_share_send(c, retry) EXCEPT
                    !.client_random = Random("client"),
                    !.early = IF cfg.early = "none" \/ retry THEN @ ELSE "requested"]
    IN  Out(s2n_finish_psk_extension(sent, retry),
            [random |-> Random("client"), share |-> ClientShare(sent),
             offers |-> s2n_client_psk_send(sent, retry), early |-> sent.early = "requested"])

s2n_server_hello_retry_send(c) ==
    Out(s2n_server_hello_retry_recreate_transcript([c EXCEPT !.server_random = Random("retry")]),
        [prf |-> c.prf, curve |-> c.ecc["server"].curve])

(* s2n_server_key_share_send checks that there is a share of the client's  *)
(* for the group, makes the server's key and encapsulates.                 *)
s2n_server_key_share_send(c) ==
    LET client == c.ecc["client"]
        ecc == s2n_ecdhe_send_public_key(c.ecc["server"], "s")
        kem == IF Hybrid THEN s2n_kem_send_ciphertext(c.kem) ELSE c.kem
    IN  IF cfg.version < TLS13 THEN c
        ELSE Checked([c EXCEPT !.ecc["server"] = ecc, !.kem = kem],
                     client.curve = ecc.curve /\ client.key # "" /\ kem # BadKem)
ServerShare(c) ==
    LET ecc == c.ecc["server"]
    IN  Share(ecc.curve, s2n_ecc_evp_write_params_point(ecc),
              IF Hybrid /\ cfg.version = TLS13 THEN KemData(c.kem.public) ELSE NoKemData)

s2n_server_hello_send(c) ==
    LET s == s2n_server_key_share_send([c EXCEPT !.server_random = Random("server")])
    IN  Out(s, [random |-> Random("server"), share |-> ServerShare(s), prf |-> c.prf,
                index |-> c.wire_index])

(* The parameters of a ServerKeyExchange: s2n_ecdhe_server_key_send,       *)
(* s2n_dhe_server_key_send, and both an elliptic curve key and a KEM key   *)
(* for s2n_hybrid_server_key_send.                                         *)
s2n_kex_server_key_send(c) ==
    LET ecc == s2n_ecc_evp_generate_ephemeral_key(c.ecc["server"], "s")
        dh == s2n_dh_generate_ephemeral_key(s2n_dh_params_copy(s2n_config_add_dhparams(cfg.dhparams)), "s")
        kem == s2n_kem_send_public_key(c.kem, "k")
        written == Share(ecc.curve, s2n_ecc_evp_write_params_point(ecc),
                         IF Hybrid THEN KemData(kem.private) ELSE NoKemData)
    IN  IF cfg.kex = "dhe"
        THEN Out(Checked([c EXCEPT !.dh = dh], s2n_check_all_dh_params(dh)),
                 [NoShare EXCEPT !.dh = s2n_dh_params_to_p_g_Ys(dh)])
        ELSE Out(Checked([c EXCEPT !.ecc["server"] = ecc, !.kem = IF Hybrid THEN kem ELSE @],
                         ecc # BadEcc),
                 written)

(* s2n_server_key_send, s2n_client_cert_verify_send and                    *)
(* s2n_tls13_cert_verify_send sign with the key of the chain.              *)
PrivateKey(r) == s2n_cert_chain_and_key_set_private_key(cfg.chain[r].key)
Sign(r, digest) == s2n_pkey_sign(PrivateKey(r), cfg.chain[r].sig_alg, digest)
KeyShareContent(c, share) ==
    Finished(Updated(s2n_hash_init(c.hash["workspace"], cfg.sig),
                     <<c.client_random, c.server_random, share>>))
AfterKeyShare(c, content) ==
    Checked([c EXCEPT !.hash["workspace"] = content.state], content.out # Error)
s2n_server_key_send(c) ==
    LET signed(sent, content, sig) ==
            Out(Checked(AfterKeyShare(sent.c, content), sig # Refused),
                [share |-> sent.body, sig |-> sig])
        hashed(sent, content) == signed(sent, content, Sign("server", content.out))
        with(sent) == hashed(sent, KeyShareContent(c, sent.body))
    IN  with(s2n_kex_server_key_send(c))

s2n_tls13_generate_unsigned_cert_verify_content(c, r) ==
    <<"content", Label(r, "client CertificateVerify", "server CertificateVerify"),
      TranscriptDigest(c, c.prf)>>
CertVerifyContent(c, r) ==
    IF cfg.version = TLS13
    THEN Finished(s2n_hash_update(s2n_hash_init(s2n_hash_new(cfg.fips), cfg.sig),
                                  s2n_tls13_generate_unsigned_cert_verify_content(c, r))).out
    ELSE TranscriptDigest(c, cfg.sig)
CertVerifyHash(c) == IF cfg.version = TLS13 THEN c.prf ELSE cfg.sig
Narrowed(c, msg) ==
    IF cfg.version < TLS13 THEN s2n_conn_update_required_handshake_hashes(c, msg) ELSE c
CertVerifySend(c, r, msg) ==
    LET sig == Sign(r, CertVerifyContent(c, r))
    IN  Out(Checked(Narrowed(AfterDigest(c, CertVerifyHash(c)), msg), sig # Refused),
            [sig |-> sig])

(* s2n_calculate_keys; the message counts for a hybrid secret.  The server's*)
(* parameters are freed and the premaster secret is wiped.                 *)
ClientKeyMessage(share) == <<"client_key", share.point, share.kem>>
s2n_calculate_keys(c, secret, message) ==
    LET calculated(mastered) ==
            s2n_key_log_tls12_secret(s2n_prf_key_expansion([mastered EXCEPT
                !.failed = @ \/ secret = NoSecret,
                !.premaster = None, !.ecc["server"] = s2n_ecc_evp_params_free(@),
                !.dh = s2n_dh_params_free(@), !.kem = s2n_kem_free(@)]))
    IN  calculated(IF Hybrid THEN s2n_hybrid_prf_master_secret(c, secret, message)
                   ELSE s2n_prf_calculate_master_secret(c, secret))

(* What the handlers of a ClientKeyExchange leave to s2n_calculate_keys:   *)
(* the connection, the shared secret and the share.                        *)
Agreed(c, secret, share) == [c |-> c, secret |-> secret, share |-> share]
KeysFrom(agreed) == s2n_calculate_keys(agreed.c, agreed.secret, ClientKeyMessage(agreed.share))

(* s2n_rsa_client_key_send: the premaster secret starts with the version of*)
(* the ClientHello.                                                        *)
Premaster(name) == <<"premaster", cfg.hello, name>>
s2n_rsa_client_key_send(c) ==
    LET sent(encrypted) ==
            Agreed(Checked([c EXCEPT !.peer = s2n_pkey_free(@)], encrypted # NoCiphertext),
                   Premaster("client"), [NoShare EXCEPT !.rsa = encrypted])
    IN  sent(s2n_pkey_encrypt(c.peer, Premaster("client")))
s2n_dhe_client_key_send(c) ==
    Agreed(c, s2n_dh_compute_shared_secret_as_client(c.dh, "c"), [NoShare EXCEPT !.dh.key = "c"])

(* s2n_ecdhe_client_key_send and, followed by the ciphertext of the KEM,   *)
(* s2n_hybrid_client_key_send.                                             *)
s2n_ecdhe_client_key_send(c) ==
    LET sent(kem) ==
            Agreed(c, Combined(s2n_ecc_evp_compute_shared_secret_as_client(c.ecc["server"], "c"), kem.secret),
                   [NoShare EXCEPT !.point = Point(c.ecc["server"].curve, "c"),
                                   !.kem = IF Hybrid THEN KemData(kem.public) ELSE @])
    IN  sent(IF Hybrid THEN s2n_kem_send_ciphertext(c.kem) ELSE c.kem)
s2n_client_key_send(c) ==
    LET sent(agreed) == Out(KeysFrom(agreed), [share |-> agreed.share])
    IN  sent(CASE cfg.kex = "rsa" -> s2n_rsa_client_key_send(c)
               [] cfg.kex = "dhe" -> s2n_dhe_client_key_send(c)
               [] OTHER -> s2n_ecdhe_client_key_send(c))

s2n_client_finished_send(c) ==
    LET sent(f) == Out([s2n_zero_sequence_number(f, "client") EXCEPT !.use["client"] = "secure"],
                       [verify |-> f.finished["client"]])
    IN  sent(s2n_prf_finished(c, "client"))
s2n_server_finished_send(c) ==
    LET secured(f) == [s2n_zero_sequence_number(f, "server") EXCEPT !.use["server"] = "secure"]
        keyed(s) == IF cfg.resumed THEN s2n_prf_key_expansion(s) ELSE s
        sent(f) == Out(keyed(secured(f)), [verify |-> f.finished["server"]])
    IN  sent(s2n_prf_finished(c, "server"))
Tls13FinishedSend(c, r) ==
    Out(AfterDigest(c, c.prf), [verify |-> s2n_tls13_calculate_finished_mac(c, r)])

(* The handlers that write a message. *)
Written(c, r, msg) ==
    CASE msg = "CLIENT_HELLO" -> s2n_client_hello_send(c)
      [] msg = "HELLO_RETRY_MSG" -> s2n_server_hello_retry_send(c)
      [] msg = "SERVER_HELLO" -> s2n_server_hello_send(c)
      [] msg = "SERVER_KEY" -> s2n_server_key_send(c)
      [] msg = "CLIENT_KEY" -> s2n_client_key_send(c)
      [] msg \in {"CLIENT_CERT_VERIFY", "SERVER_CERT_VERIFY"} -> CertVerifySend(c, r, msg)
      [] msg = "CLIENT_FINISHED" /\ cfg.version < TLS13 -> s2n_client_finished_send(c)
      [] msg = "SERVER_FINISHED" /\ cfg.version < TLS13 -> s2n_server_finished_send(c)
      [] msg \in {"CLIENT_FINISHED", "SERVER_FINISHED"} -> Tls13FinishedSend(c, r)
      [] msg \in {"SERVER_CERT", "CLIENT_CERT"} ->
            Out(c, [chain |-> s2n_send_cert_chain(cfg.chain[r])])
      [] OTHER -> Out(c, [early |-> c.early])

-----------------------------------------------------------------------------
(* What the handlers do to the receiver.                                   *)
(* s2n_client_psk_recv: a wrong binder aborts.  The suite follows the PSK. *)
s2n_client_psk_recv(c, body, alt) ==
    LET pick == Selected(c.psks, body.offers)
        psk == c.psks[pick[1]]
    IN  IF pick[1] = 0
        THEN [c EXCEPT !.chosen = 0, !.wire_index = 0, !.prf = cfg.prf]
        ELSE [Checked(c, s2n_psk_verify_binder(c, psk, alt, body.offers[pick[2]].binder))
                EXCEPT !.chosen = pick[1], !.wire_index = pick[2], !.prf = psk.alg,
                       !.psks[pick[1]].early = EarlySecret(psk)]

(* s2n_early_data_accept_or_reject; a retry rejects early data. *)
EarlyAnswer(c, body) ==
    IF ~body.early THEN c.early
    ELSE IF cfg.hrr \/ c.wire_index # 1 \/ cfg.early = "rejected" THEN "rejected"
    ELSE "accepted"

(* s2n_client_key_share_recv: a share of another group, or one that does   *)
(* not parse, is ignored.                                                  *)
s2n_client_key_share_recv(c, share) ==
    LET ecc == s2n_ecc_evp_parse_params_point(share.point, EccParams(share.curve, ""))
        kem == IF Hybrid THEN s2n_kem_recv_public_key(NoKem, share.kem) ELSE NoKem
    IN  IF cfg.version < TLS13 \/ share.curve # cfg.curve \/ ecc = BadEcc \/ kem = BadKem
        THEN c ELSE [c EXCEPT !.ecc["client"] = ecc, !.kem = kem]

(* Without a share the server asks for a retry, but only once. *)
Retried(c) == cfg.version < TLS13 \/ c.ecc["client"].key # "" \/ (cfg.hrr /\ c.n = 1)
s2n_client_hello_recv(c, body, alt) ==
    LET k == s2n_client_key_share_recv([c EXCEPT !.client_random = body.random,
                                                 !.ecc["server"].curve = cfg.curve], body.share)
        p == s2n_client_psk_recv(k, body, alt)
    IN  Checked(s2n_conn_update_required_handshake_hashes(
                    [p EXCEPT !.early = EarlyAnswer(p, body)], "CLIENT_HELLO"), Retried(k))

s2n_server_hello_retry_recv(c, body) ==
    s2n_server_hello_retry_recreate_transcript(
        [c EXCEPT !.server_random = Random("retry"), !.prf = body.prf,
                  !.ecc["server"].curve = body.curve,
                  !.early = IF @ = "requested" THEN "rejected" ELSE @])

(* s2n_server_psk_recv: the index the server sent is taken as an index into*)
(* the client's own list.                                                  *)
s2n_server_psk_recv(c, body) ==
    IF body.index = 0 THEN c
    ELSE Checked([c EXCEPT !.chosen = body.index],
                 body.index <= Len(c.psks) /\ c.psks[body.index].alg = body.prf)

(* s2n_server_key_share_recv: the share must be of the group of the        *)
(* client's own.                                                           *)
s2n_server_key_share_recv(c, share) ==
    LET client == c.ecc["client"]
        ecc == s2n_ecc_evp_parse_params_point(share.point, EccParams(share.curve, ""))
        kem == IF Hybrid THEN s2n_kem_recv_ciphertext(c.kem, share.kem) ELSE c.kem
    IN  IF cfg.version < TLS13 THEN c
        ELSE Checked([c EXCEPT !.ecc["server"] = ecc, !.kem = kem],
                     /\ client.curve = share.curve /\ client.key # ""
                     /\ ecc # BadEcc /\ kem # BadKem)

s2n_server_hello_recv(c, body) ==
    LET p == s2n_server_key_share_recv(s2n_server_psk_recv(c, body), body.share)
        h == [p EXCEPT !.server_random = body.random, !.prf = body.prf,
                       !.early = IF @ = "requested" /\ body.index # 1 THEN "rejected" ELSE @]
        k == IF cfg.resumed THEN s2n_prf_key_expansion(h) ELSE h
    IN  s2n_conn_update_required_handshake_hashes(k, "SERVER_HELLO")

(* s2n_server_key_recv: what was read (a KEM key already into the          *)
(* connection) is verified, the server's key is freed and the parameters   *)
(* are parsed.  Any curve s2n supports will do.                            *)
s2n_kex_server_key_recv_read_data(c, share) ==
    LET kem == s2n_kem_recv_public_key(c.kem, share.kem)
    IN  IF Hybrid THEN Checked([c EXCEPT !.kem = kem], kem # BadKem) ELSE c
s2n_kex_server_key_recv_parse_data(c, share) ==
    LET ecc == s2n_ecc_evp_parse_params(share.curve, share.point)
        dh == s2n_dh_p_g_Ys_to_dh_params(share.dh)
    IN  IF cfg.kex = "dhe" THEN Checked([c EXCEPT !.dh = dh], dh # NoDh)
        ELSE Checked([c EXCEPT !.ecc["server"] = ecc], ecc # BadEcc)
s2n_server_key_recv(c, body) ==
    LET read == s2n_kex_server_key_recv_read_data(c, body.share)
        content == KeyShareContent(c, body.share)
        verified == Checked(AfterKeyShare(read, content),
                            s2n_pkey_verify(c.peer, cfg.chain["server"].sig_alg, content.out, body.sig))
    IN  IF verified.failed THEN verified
        ELSE s2n_kex_server_key_recv_parse_data([verified EXCEPT !.peer = s2n_pkey_free(@)],
                                                body.share)

(* s2n_client_key_recv.  An RSA message that does not decrypt leaves a     *)
(* random premaster secret in place; it is remembered in rsa_failed if the *)
(* version is not the ClientHello's.  (Random bytes that happen to have it *)
(* are another premaster secret with the right version.)                   *)
s2n_rsa_client_key_recv(c, body) ==
    LET received(decrypted) ==
            Agreed([c EXCEPT !.rsa_failed = decrypted[1] # "premaster"],
                   IF decrypted = Refused THEN Noise("server") ELSE decrypted, body.share)
    IN  received(s2n_pkey_decrypt(PrivateKey("server"), body.share.rsa))
s2n_dhe_client_key_recv(c, body) ==
    Agreed(c, s2n_dh_compute_shared_secret_as_server(c.dh, body.share.dh.key), body.share)
s2n_ecdhe_client_key_recv(c, body) ==
    LET kem == IF Hybrid THEN s2n_kem_recv_ciphertext(c.kem, body.share.kem) ELSE c.kem
        secret == s2n_ecc_evp_compute_shared_secret_as_server(c.ecc["server"], body.share.point)
    IN  Agreed(c, Combined(secret, kem.secret), body.share)
s2n_client_key_recv(c, body) ==
    KeysFrom(CASE cfg.kex = "rsa" -> s2n_rsa_client_key_recv(c, body)
               [] cfg.kex = "dhe" -> s2n_dhe_client_key_recv(c, body)
               [] OTHER -> s2n_ecdhe_client_key_recv(c, body))

CertVerifyRecv(c, r, msg, body) ==
    Checked(Narrowed(AfterDigest(c, CertVerifyHash(c)), msg),
            s2n_pkey_verify(c.peer, cfg.chain[Peer(r)].sig_alg, CertVerifyContent(c, Peer(r)),
                            body.sig))

CcsRecv(c, dir) ==
    [s2n_zero_sequence_number(s2n_prf_finished(c, dir), dir) EXCEPT !.use[dir] = "secure"]

s2n_client_finished_recv(c, body) ==
    Checked(c, SamePrefix(c.finished["client"], body.verify) /\ ~c.rsa_failed)
s2n_server_finished_recv(c, body) == Checked(c, body.verify = c.finished["server"])
Tls13FinishedRecv(c, dir, body) ==
    Checked(AfterDigest(c, c.prf), body.verify = s2n_tls13_calculate_finished_mac(c, dir))

(* The indication of accepted early data in the EncryptedExtensions. *)
s2n_server_early_data_indication_recv(c, body) ==
    [c EXCEPT !.early = IF @ # "requested" THEN @ ELSE body.early]

(* The peer's public key is that of the leaf certificate.  A certificate   *)
(* with another key is rejected by the validator.                          *)
CertRecv(c, body, alt) ==
    LET peer == s2n_asn1der_to_public_key_and_type(body.chain[1])
    IN  Checked([c EXCEPT !.peer = peer], alt # "keys" /\ peer # NoPkey)

(* The handlers that read a message; that of a ChangeCipherSpec rejects an *)
(* altered one.                                                            *)
Read(c, r, m, body) ==
    CASE m.name = "CLIENT_HELLO" -> s2n_client_hello_recv(c, body, m.alt)
      [] m.name = "HELLO_RETRY_MSG" -> s2n_server_hello_retry_recv(c, body)
      [] m.name = "SERVER_HELLO" -> s2n_server_hello_recv(c, body)
      [] m.name = "SERVER_KEY" -> s2n_server_key_recv(c, body)
      [] m.name = "CLIENT_KEY" -> s2n_client_key_recv(c, body)
      [] m.name \in {"CLIENT_CERT_VERIFY", "SERVER_CERT_VERIFY"} ->
            CertVerifyRecv(c, r, m.name, body)
      [] m.name = "CLIENT_CHANGE_CIPHER_SPEC" -> Checked(CcsRecv(c, "client"), m.alt = "none")
      [] m.name = "SERVER_CHANGE_CIPHER_SPEC" -> Checked(CcsRecv(c, "server"), m.alt = "none")
      [] m.name = "CLIENT_FINISHED" /\ cfg.version < TLS13 -> s2n_client_finished_recv(c, body)
      [] m.name = "SERVER_FINISHED" /\ cfg.version < TLS13 -> s2n_server_finished_recv(c, body)
      [] m.name \in {"CLIENT_FINISHED", "SERVER_FINISHED"} -> Tls13FinishedRecv(c, Peer(r), body)
      [] m.name = "ENCRYPTED_EXTENSIONS" -> s2n_server_early_data_indication_recv(c, body)
      [] m.name \in {"SERVER_CERT", "CLIENT_CERT"} -> CertRecv(c, body, m.alt)
      [] OTHER -> c

-----------------------------------------------------------------------------
(* The messages of the handshake as one side sees them so far, and then    *)
(* one record of application data from each side.                          *)
Resumption(c) == cfg.resumed \/ c.chosen # 0
HandshakeType(c) ==
    {"NEGOTIATED"}
    \cup (IF Resumption(c) THEN {}
          ELSE {"FULL_HANDSHAKE"} \cup (IF cfg.auth THEN {"CLIENT_AUTH"} ELSE {}))
    \cup (IF cfg.version = TLS13
          THEN (IF cfg.hrr THEN {"HELLO_RETRY_REQUEST"} ELSE {})
               \cup (IF c.early = "accepted" THEN {"WITH_EARLY_DATA"} ELSE {})
          ELSE (IF cfg.ticket THEN {"WITH_SESSION_TICKET"} ELSE {})
               \cup (IF cfg.kex # "rsa" /\ ~cfg.resumed
                     THEN {"TLS12_PERFECT_FORWARD_SECRECY"} ELSE {}))
Script(c) ==
    LET row == Row(IF cfg.version = TLS13 THEN 13 ELSE 12, HandshakeType(c))
    IN  SubSeq(row, 1, Len(row) - 1) \o <<"CLIENT_DATA", "SERVER_DATA">>
Author(msg) == IF msg = "CLIENT_DATA" THEN "client"
               ELSE IF msg = "SERVER_DATA" THEN "server" ELSE Writer(msg)
Handshaking(msg) == msg \in Messages /\ RecordType(msg) = "handshake"

(* A message in the transcript: its name, what the network did to it, and  *)
(* the altered messages its author had seen when it wrote it.              *)
Id(name, alt, dirty) == <<name, alt, dirty>>
Dirt(c) == {c.seen[i][1] : i \in {i \in DOMAIN c.seen : c.seen[i][2] # "none"}}

(* A record opens with the key and the sequence number it was sealed with. *)
Seal(c, dir) == IF c.use[dir] = "initial" THEN None ELSE <<"seal", c.keys[dir], c.seq[dir]>>
s2n_increment_sequence_number(c, dir) ==
    IF c.use[dir] = "initial" THEN c ELSE [c EXCEPT !.seq[dir] = @ + 1]

(* Once a message is written, or read and handled: it goes into the hashes,*)
(* the secrets that depend on it are derived, and the handshake advances.  *)
Done(c, r, msg, id) ==
    LET h == IF Handshaking(msg) THEN s2n_conn_update_handshake_hashes(c, msg, id) ELSE c
        advanced(s) == IF s.failed THEN s ELSE [s EXCEPT !.n = @ + 1]
    IN  advanced(s2n_tls13_handle_secrets([h EXCEPT !.seen = Append(@, id)], r, msg))

-----------------------------------------------------------------------------
(* The network alters messages that are not encrypted: it puts key material*)
(* of its own there ("keys"), or some of the right length that is no key   *)
(* ("bad") or too short ("short"); the index of the chosen PSK ("psk"); or *)
(* anything else.                                                          *)
Evil(share) ==
    [share EXCEPT !.point.key = "evil", !.kem.key = "evil", !.dh.key = "evil",
                  !.rsa = Ciphertext(PrivateKey("server").key, Premaster("evil"))]
Bad(share) ==
    [share EXCEPT !.point.key = "small", !.point.on = "", !.kem.key = "evil", !.dh.key = "small",
                  !.rsa.key = ""]
Short(share) ==
    [share EXCEPT !.point.size = @ - 1, !.kem.fits = FALSE, !.dh.key = "", !.rsa.fits = FALSE]
Corrupted(m) ==
    CASE m.alt = "keys" /\ m.name \in {"CLIENT_HELLO", "SERVER_HELLO"} ->
            [m.body EXCEPT !.random = <<"random", "evil">>, !.share = Evil(@)]
      [] m.alt = "keys" /\ m.name \in {"SERVER_KEY", "CLIENT_KEY"} ->
            [m.body EXCEPT !.share = Evil(@)]
      [] m.alt = "keys" /\ m.name = "CLIENT_CERT_VERIFY" -> [m.body EXCEPT !.sig = <<"evil">>]
      [] m.alt = "bad" -> [m.body EXCEPT !.share = Bad(@)]
      [] m.alt = "short" -> [m.body EXCEPT !.share = Short(@)]
      [] m.alt = "psk" -> [m.body EXCEPT !.index = IF @ = 1 THEN 2 ELSE 1]
      [] OTHER -> m.body

(* A first ClientHello without a usable share changes what is negotiated.  *)
Alterations(m) ==
    {"other"} \cup
    (CASE m.name = "SERVER_HELLO" -> {"keys", "bad", "short", "psk"}
       [] m.name = "CLIENT_HELLO" ->
            {"keys"} \cup (IF cfg.hrr /\ conn["server"].n > 1 THEN {"bad", "short"} ELSE {})
       [] m.name \in {"SERVER_KEY", "CLIENT_KEY"} -> {"keys", "bad", "short"}
       [] m.name \in {"SERVER_CERT", "CLIENT_CERT", "CLIENT_CERT_VERIFY"} -> {"keys"}
       [] OTHER -> {})

Fresh(c) ==
    [n |-> 1, failed |-> FALSE, hash |-> s2n_handshake_hashes_new(c.fips),
     prf_space |-> s2n_prf_wipe(s2n_prf_new(c.fips)), required |-> HashAlgs,
     prf |-> "none", client_random |-> None, server_random |-> None, premaster |-> None,
     master |-> IF c.resumed THEN <<"resumed master">> ELSE None,
     finished |-> [r \in Roles |-> None], app |-> [r \in Roles |-> None], resumption |-> None,
     keys |-> [r \in Roles |-> NoKey], use |-> [r \in Roles |-> "initial"],
     seq |-> [r \in Roles |-> 0], installed |-> [r \in Roles |-> << >>], chosen |-> 0,
     wire_index |-> 0, early |-> "not_requested", ecc |-> [r \in Roles |-> NoEcc],
     kem |-> NoKem, dh |-> NoDh, peer |-> NoPkey, rsa_failed |-> FALSE, log |-> {},
     seen |-> << >>]

Init ==
    /\ cfg \in {c \in Configs : /\ \A r \in Roles : s2n_cert_chain_and_key_load(c.chain[r])
                              /\ s2n_config_add_dhparams(c.dhparams) # NoDh}
    /\ conn = [r \in Roles |-> Fresh(cfg) @@ [psks |-> Psks(r)]]
    /\ wire = << >>
    /\ altered = 0

(* s2n_handshake_write_io *)
Send(r) ==
    LET c == conn[r]
        msg == Script(c)[c.n]
    IN  /\ ~c.failed /\ c.n <= Len(Script(c))
        /\ Author(msg) = r
        /\ \E out \in {Written(c, r, msg)} :
           \E id \in {Id(msg, "none", Dirt(c))} :
           \E after \in {Done(s2n_increment_sequence_number(out.c, r), r, msg, id)} :
              /\ wire' = IF out.c.failed THEN wire
                         ELSE Append(wire, [name |-> msg, alt |-> "none", dirty |-> id[3],
                                            body |-> out.body, seal |-> Seal(out.c, r)])
              /\ conn' = [conn EXCEPT ![r] = after]
        /\ UNCHANGED <<cfg, altered>>

(* s2n_handshake_read_io: a record that does not open or a message out of  *)
(* turn is an error.                                                       *)
Receive(r) ==
    LET c == conn[r]
        msg == Script(c)[c.n]
        m == Head(wire)
    IN  /\ wire # << >> /\ ~c.failed /\ c.n <= Len(Script(c))
        /\ Author(msg) = Peer(r) /\ Author(m.name) = Peer(r)
        /\ \E read \in {IF m.name # msg \/ m.seal # Seal(c, Peer(r)) THEN Failed(c)
                         ELSE Read(s2n_increment_sequence_number(c, Peer(r)), r, m, Corrupted(m))} :
           conn' = [conn EXCEPT ![r] =
                IF read.failed THEN read ELSE Done(read, r, msg, Id(msg, m.alt, m.dirty))]
        /\ wire' = Tail(wire)
        /\ UNCHANGED <<cfg, altered>>

Alter(kind) ==
    /\ altered < MaxAltered
    /\ wire # << >> /\ Head(wire).seal = None /\ Head(wire).alt = "none"
    /\ kind \in Alterations(Head(wire))
    /\ wire' = [wire EXCEPT ![1].alt = kind]
    /\ altered' = altered + 1
    /\ UNCHANGED <<cfg, conn>>

Next ==
    \/ \E r \in Roles : Send(r) \/ Receive(r)
    \/ \E kind \in {"keys", "bad", "short", "psk", "other"} : Alter(kind)

Spec == Init /\ [][Next]_vars

-----------------------------------------------------------------------------
(* The key schedule of the RFCs, from what was negotiated.  No message was *)
(* altered: the transcript is the list of the messages.                    *)
SeqUpTo(ids, names, msg) == SubSeq(ids, 1, CHOOSE i \in DOMAIN names :
                                names[i] = msg /\ \A j \in DOMAIN names : names[j] = msg => j <= i)
Transcript(alg, msg) ==
    LET names == SelectSeq(Script(conn["server"]), Handshaking)
        ids == [i \in DOMAIN names |-> Id(names[i], "none", {})]
    IN  SeqUpTo(IF cfg.hrr THEN <<MessageHash(alg, Digest(alg, <<ids[1]>>))>> \o Tail(ids) ELSE ids, names, msg)

(* RFC 8446, section 7.1 *)
Rfc8446(r) ==
    LET i == conn["server"].chosen
        psk == IF i = 0 THEN Zeros ELSE Psks("server")[i].secret
        alg == IF i = 0 THEN cfg.prf ELSE Psks("server")[i].alg
        n == s2n_hash_digest_size(alg)
        expand(secret, label, context, size) ==
            First(size, n, Hmac(alg, secret, <<HkdfLabel(size, label, context), 1>>))
        derive(secret, label, input) == expand(secret, label, Digest(alg, input), n)
        ecdhe == Ecdh(cfg.curve, IF cfg.hrr THEN "c2" ELSE "c1", "s")
        kem == KemSecret(IF cfg.hrr THEN "k2" ELSE "k1")
        early == Hmac(alg, None, <<psk>>)
        handshake == Hmac(alg, derive(early, "derived", << >>), <<Combined(ecdhe, kem)>>)
        main == Hmac(alg, derive(handshake, "derived", << >>), <<Zeros>>)
        traffic == derive(main, Label(r, "c ap traffic", "s ap traffic"),
                          Transcript(alg, "SERVER_FINISHED"))
    IN  [key |-> Key(None, expand(traffic, "key", None, cipher[CipherOf(cfg.alg)].key),
                     expand(traffic, "iv", None, 12)),
         log |-> {<<Label(r, "CLIENT_TRAFFIC_SECRET_0", "SERVER_TRAFFIC_SECRET_0"),
                    Random("client"), traffic>>},
         resumption |-> derive(main, "res master", Transcript(alg, "CLIENT_FINISHED"))]

(* RFC 5246, sections 6.3 and 8.1, and its predecessors: the MAC keys, the *)
(* keys and the IVs, in this order, the client's before the server's.      *)
Rfc5246(r) ==
    LET prf(secret, size, label, seeds) ==
            LET p(alg, part, n) == PHash(alg, MacKey(alg, part, n), <<label>> \o seeds)
                half == (size + 1) \div 2
            IN  CASE cfg.version = SSLv3 -> Sslv3Prf(secret, seeds)
                  [] cfg.version = TLS12 -> p(cfg.prf, secret, size)
                  [] OTHER -> <<"xor", p("MD5", Half(1, secret), half), p("SHA1", Half(2, secret), half)>>
        c == Random("client")
        s == Random("server")
        dh == IF cfg.kex = "dhe" THEN Dh("c", "s") ELSE Ecdh(cfg.curve, "c", "s")
        master == CASE cfg.resumed -> <<"resumed master">>
                    [] cfg.kex = "rsa" -> prf(Premaster("client"), 48, "master secret", <<c, s>>)
                    [] Hybrid -> prf(<<"concat", dh, KemSecret("k")>>, PremasterSize, "hybrid master secret",
                                     <<c, s, <<"client_key", Point(cfg.curve, "c"), KemData("k")>>>>)
                    [] OTHER -> prf(dh, PremasterSize, "master secret", <<c, s>>)
        block == prf(master, 48, "key expansion", <<s, c>>)
        sizes == <<MacKeySize(cfg.alg), cipher[CipherOf(cfg.alg)].key,
                   ImplicitIvSize(cfg.alg, cfg.version)>>
        turn == IF r = "client" THEN 0 ELSE 1
        part(i) == Slice(block, 2 * FoldSeq(+, 0, SubSeq(sizes, 1, i - 1)) + turn * sizes[i],
                         sizes[i])
    IN  [key |-> Key(part(1), part(2), part(3)), resumption |-> None,
         log |-> IF cfg.resumed THEN {} ELSE {<<"CLIENT_RANDOM", c, master>>}]

Reference(r) == IF cfg.version = TLS13 THEN Rfc8446(r) ELSE Rfc5246(r)

Complete(c) == ~c.failed /\ c.n > Len(Script(c)) - 2

-----------------------------------------------------------------------------
(* Whoever accepts the peer's Finished message has seen the same handshake *)
(* messages as the peer up to there, whatever the network did to those in  *)
(* the clear: every message goes into the hash that Finished covers, before*)
(* and after a HelloRetryRequest, in each version.                         *)
FinishedOf(r) == IF r = "client" THEN "CLIENT_FINISHED" ELSE "SERVER_FINISHED"
HandshakePart(c) == SelectSeq(c.seen, LAMBDA id : Handshaking(id[1]))
FinishedBindsTranscript ==
    \A r \in Roles : LET mine == HandshakePart(conn[r])
                         theirs == HandshakePart(conn[Peer(r)])
        IN  \A i \in DOMAIN mine : mine[i][1] = FinishedOf(Peer(r)) =>
                SubSeq(mine, 1, i) = SubSeq(theirs, 1, i)

(* Without interference both sides end up with exactly the keys and the    *)
(* resumption secret that the RFCs' schedules give for the negotiated      *)
(* version, key exchange, PSK and cipher, each derived at the right point  *)
(* of the transcript although the buffers of the secrets are reused; and   *)
(* the key log has the secrets these keys come from.                       *)
Follows(c, dir, reference) ==
    /\ c.keys[dir] = reference.key
    /\ c.resumption = reference.resumption
    /\ cfg.log => reference.log \subseteq c.log
KeysFollowSchedule ==
    altered = 0 =>
        \A r, dir \in Roles : Complete(conn[r]) => Follows(conn[r], dir, Reference(dir))

(* Nobody fails unless a message was altered: signatures, binders, Finished*)
(* messages and the first records under every key are accepted by the peer.*)
FailsOnlyWhenAltered == altered = 0 => \A r \in Roles : ~conn[r].failed
=============================================================================
