---------------------------- MODULE MCKeySchedule ----------------------------
(* Instances of KeySchedule. *)
EXTENDS KeySchedule

NoPsks == [client |-> << >>, server |-> << >>]

(* PEM files: an object, a certificate chain with its issuer behind a      *)
(* comment, a private key under the label that fits.                       *)
Object(keyword, der) == <<Line("BEGIN", keyword), Base64(der, TRUE), Line("END", keyword)>>
ChainFile(cert) ==
    <<Text>> \o Object("CERTIFICATE", cert) \o Object("CERTIFICATE", Der("RSA", "ca", 0)) \o <<Text>>
KeyFile(der) ==
    CASE der.type = "RSA" -> Object("RSA PRIVATE KEY", der)
      [] der.type = "ECDSA" -> Object("EC PARAMETERS", NoDer) \o Object("EC PRIVATE KEY", der)
      [] OTHER -> Object("PRIVATE KEY", der)

(* Certificates and keys of a side, and what signs. *)
Chain(cert, key, sig_alg) ==
    [pem |-> ChainFile(cert), key |-> KeyFile(key), sig_alg |-> sig_alg]
Fitting(type, sig_alg) ==
    [r \in Roles |-> Chain(Der(type, r, IF r = "client" THEN 3 ELSE 0), Der(type, r, 0), sig_alg)]
RsaChains == Fitting("RSA", "RSA")
RsaeChains == Fitting("RSA", "RSA_PSS_RSAE")
PssChains == Fitting("RSA_PSS", "RSA_PSS_PSS")
EcdsaChains == Fitting("ECDSA", "ECDSA")

(* Chains that do not load: the other side's key, a key of another kind, a *)
(* key or a certificate with something behind it, PEM files with another   *)
(* object, broken base64 or a comment among the characters.                *)
Good == Chain(Der("ECDSA", "server", 0), Der("ECDSA", "server", 0), "ECDSA")
Unfit ==
    {[c EXCEPT !["server"] = x] : c \in {EcdsaChains, PssChains, RsaeChains}, x \in
        {Chain(Der(t, "server", 0), Der(t, "client", 0), "ECDSA") :
            t \in {"RSA", "RSA_PSS", "ECDSA"}}
        \cup {Chain(Der("RSA", "server", 0), Der("RSA_PSS", "server", 0), "RSA_PSS_PSS"),
              Chain(Der("RSA", "server", 0), Der("RSA", "server", 1), "RSA_PSS_RSAE"),
              Chain(Der("ECDSA", "server", 4), Der("ECDSA", "server", 0), "ECDSA"),
              Chain(Der("DSA", "server", 0), Der("DSA", "server", 0), "ECDSA")}
        \cup {[Good EXCEPT !.pem = f] : f \in
                {<<Text>>, Object("CERTIFICATE", Der("ECDSA", "server", 0)) \o KeyFile(Der("RSA", "ca", 0)),
                 <<Line("BEGIN", "CERTIFICATE"), Base64(Der("ECDSA", "server", 0), FALSE),
                   Line("END", "CERTIFICATE")>>,
                 <<Line("BEGIN", "CERTIFICATE"), Text, Base64(Der("ECDSA", "server", 0), TRUE),
                   Line("END", "CERTIFICATE")>>}}}
Dh2048 == DhParams(2048, {}, TRUE, "")
DhFile(dh, trailing) == Object("DH PARAMETERS", [dh |-> dh, trailing |-> trailing])

Config == [version |-> TLS12, kex |-> "ecdhe", prf |-> "SHA256", alg |-> "aes128_gcm",
           resumed |-> FALSE, auth |-> FALSE, sig |-> "SHA256", hrr |-> FALSE, hello |-> TLS12,
           early |-> "none", pskType |-> "external", ticket |-> FALSE, psks |-> NoPsks,
           chain |-> RsaChains, curve |-> "secp256r1", first |-> "secp256r1",
           dhparams |-> DhFile(Dh2048, 0), log |-> TRUE, fips |-> FALSE]

(* Every key exchange up to TLS 1.2, with a cipher of every kind; the      *)
(* largest key blocks are those of CBC with SHA-384 and of TLS 1.0.        *)
OldConfigs ==
    {[Config EXCEPT !.version = v, !.kex = k, !.alg = a, !.auth = auth, !.ticket = t,
                    !.sig = "MD5_SHA1", !.hello = IF t THEN v ELSE TLS12] :
        v \in {SSLv3, TLS10}, k \in {"rsa", "dhe"}, a \in {"rc4_md5", "aes256_sha"},
        auth \in BOOLEAN, t \in BOOLEAN}
    \cup {[Config EXCEPT !.version = TLS11, !.alg = "des3_sha", !.sig = "SHA1", !.auth = TRUE,
                         !.chain = EcdsaChains]}
    \cup {[Config EXCEPT !.kex = "dhe", !.dhparams = DhFile(d, t), !.log = FALSE] :
            d \in {DhParams(4096, {}, TRUE, ""), DhParams(1024, {}, TRUE, ""),
                   DhParams(2048, {"g"}, TRUE, ""), DhParams(2048, {}, FALSE, "")}, t \in {0, 1}}
Tls12Configs ==
    {[Config EXCEPT !.kex = k, !.prf = p, !.alg = a, !.auth = auth, !.sig = s, !.ticket = TRUE] :
        k \in {"rsa", "ecdhe", "hybrid"}, p \in {"SHA256", "SHA384"},
        a \in {"aes256_sha384", "chacha20_poly1305", "aes256_sha256"}, auth \in BOOLEAN,
        s \in {"SHA256", "SHA512"}}
    \cup {[Config EXCEPT !.chain = c, !.curve = v, !.auth = TRUE] :
            c \in {RsaeChains, PssChains, EcdsaChains}, v \in {"x25519", "secp521r1"}}
ResumedConfigs ==
    {[Config EXCEPT !.version = v, !.resumed = TRUE, !.ticket = t, !.alg = "aes128_sha",
                    !.auth = auth] :
        v \in {SSLv3, TLS10, TLS12}, t \in BOOLEAN, auth \in BOOLEAN}

(* TLS 1.3 with certificates, and with PSKs both sides list in different   *)
(* orders and that belong to different hashes.                             *)
Config13 == [Config EXCEPT !.version = TLS13, !.alg = "tls13_aes128_gcm",
                           !.chain = EcdsaChains]
Full13Configs ==
    {[Config13 EXCEPT !.kex = k, !.prf = p, !.auth = auth, !.hrr = h,
                      !.first = IF h THEN "x25519" ELSE @] :
        k \in {"ecdhe", "hybrid"}, p \in {"SHA256", "SHA384"}, auth \in BOOLEAN, h \in BOOLEAN}
    \cup {[Config13 EXCEPT !.chain = c, !.auth = TRUE, !.curve = "x25519", !.first = "x25519"] :
            c \in {RsaeChains, PssChains, EcdsaChains} \cup Unfit}
Psk(id, size, alg) == [id |-> id, size |-> size, alg |-> alg]
A == Psk("a", 1, "SHA256")
B == Psk("b", 60000, "SHA256")
C == Psk("c", 16, "SHA384")

(* Lists that are not taken over as they are: the identity twice, too many *)
(* bytes for the client, no identity.                                      *)
PsksRefused == {<<A, A, C>>, <<B, Psk("d", 5500, "SHA256"), A>>, <<Psk("e", 0, "SHA256"), A>>}
PskConfigs ==
    {[Config13 EXCEPT !.psks = [client |-> c, server |-> s], !.pskType = t, !.early = e] :
        c \in {<<A, B>>, <<C, A>>, <<B>>} \cup PsksRefused, s \in {<<A, C>>, <<C, B, A>>},
        t \in {"external", "resumption"}, e \in {"none", "accepted", "rejected"}}
PskRetryConfigs ==
    {[Config13 EXCEPT !.psks = [client |-> c, server |-> s], !.pskType = t, !.early = e,
                      !.hrr = TRUE, !.kex = k, !.first = "secp384r1"] :
        c \in {<<A, B>>, <<A, C>>, <<C>>}, s \in {<<A, C>>, <<B>>},
        t \in {"external", "resumption"}, e \in {"none", "accepted"}, k \in {"ecdhe", "hybrid"}}

(* FIPS mode.  Before TLS 1.2 the server signs with SHA1 there and the     *)
(* client with MD5 and SHA1 (s2n_choose_default_sig_scheme); RC4, ChaCha20 *)
(* and SSLv3, whose PRF takes MD5 in the workspace, are left out.          *)
FipsConfigs ==
    {[c EXCEPT !.fips = TRUE, !.sig = IF c.version = TLS10 /\ c.kex = "dhe" THEN "SHA1" ELSE @] : c \in
        {x \in OldConfigs : /\ x.version # SSLv3 /\ x.alg # "rc4_md5"
                            /\ x.version = TLS10 /\ x.kex = "dhe" => ~x.auth}
        \cup {x \in Tls12Configs : x.alg # "chacha20_poly1305"}
        \cup {x \in Full13Configs : x.auth} \cup {x \in PskRetryConfigs : x.kex = "ecdhe"}}

MCConfigs == OldConfigs \cup Tls12Configs \cup ResumedConfigs \cup Full13Configs \cup PskConfigs
             \cup PskRetryConfigs \cup FipsConfigs

(* After a retry the client leaves out its first PSK, of another hash. *)
MCRetryConfigs ==
    {[Config13 EXCEPT !.psks = [client |-> <<C, A>>, server |-> <<A>>], !.hrr = TRUE,
                      !.first = "secp384r1"]}

-----------------------------------------------------------------------------
(* The operators of Hashes against the RFCs, in both implementations.      *)
Macs == {"SHA1", "SHA256", "SHA384"}
K == <<"key">>
T == <<"text">>
U == <<"more text">>
Texts == {<<T>>, <<T, U>>}
Spaces(fips) ==
    LET new == s2n_prf_new(fips)
        used == s2n_p_hash(new, "SHA384", U, 200, <<U>>, 100).ws
    IN  {new, used, s2n_prf_wipe(new), s2n_prf_wipe(used), s2n_p_hash(used, "SHA1", T, 1, <<U>>, 20).ws}

(* RFC 5246, section 5: P_hash does not depend on what its working space   *)
(* was used for, nor on whether the key has to be hashed first.            *)
ASSUME PHashAsSpecified ==
    \A fips \in BOOLEAN, alg \in Macs, klen \in {1, 64, 65, 129}, text \in Texts,
       size \in {12, 48, 160} : \A ws \in Spaces(fips) :
          s2n_p_hash(ws, alg, K, klen, text, size).out = PHash(alg, MacKey(alg, K, klen), text)

(* RFC 5869, section 2.3; at most 255 blocks. *)
ASSUME HkdfAsSpecified ==
    \A fips \in BOOLEAN, alg \in {"SHA256", "SHA384"} :
       LET n == HmacSize(alg)
           t1 == Hmac(alg, K, <<T, 1>>)
           t2 == Hmac(alg, K, <<t1, T, 2>>)
           expand(size) == s2n_hkdf_expand(fips, alg, K, T, size)
       IN  /\ expand(n) = t1 /\ expand(n - 1) = <<"first", n - 1, t1>>
           /\ expand(2 * n) = <<"concat", <<t1, t2>>>>
           /\ expand(n + 1) = <<"first", n + 1, <<"concat", <<t1, t2>>>>>>
           /\ expand(0) = Error /\ expand(255 * n + 1) = Error

(* RFC 2104 and, for SSLv3, RFC 6101 section 5.2.3.1: also for a state that*)
(* was used, reset or copied; one without a key, or freed, gives nothing.  *)
MacOfText(state, alg) == s2n_hmac_digest(s2n_hmac_update(state, T), HmacSize(alg)).out
ASSUME HmacAsSpecified ==
    /\ \A fips \in BOOLEAN, alg \in Macs \cup Sslv3Macs, klen \in {1, 65} :
          LET new == s2n_hmac_new(fips)
              keyed == s2n_hmac_init(new, alg, K, klen)
              used == s2n_hmac_digest(s2n_hmac_update(keyed, U), HmacSize(alg)).state
              hash == s2n_hmac_hash_alg(alg)
              pad(byte) == Repeated(byte, s2n_hmac_xor_pad_size(alg))
              mac == IF alg \notin Sslv3Macs THEN Hmac(alg, MacKey(alg, K, klen), <<T>>)
                     ELSE Digest(hash, <<K, pad(OPAD), Digest(hash, <<K, pad(IPAD), T>>)>>)
          IN  /\ MacOfText(new, "SHA256") = Error /\ MacOfText(s2n_hmac_free(keyed), alg) = Error
              /\ IF s2n_hmac_is_available(fips, alg)
                 THEN \A m \in {keyed, s2n_hmac_reset(used), s2n_hmac_copy(new, keyed),
                                s2n_hmac_copy(used, s2n_hmac_reset(used)),
                                s2n_hmac_init(used, alg, K, klen)} : MacOfText(m, alg) = mac
                 ELSE ~s2n_hmac_state_validate(keyed)

(* A hash whose digest was taken or that was freed takes no more input     *)
(* until it is reset.  In FIPS mode the workspace of a connection takes MD5*)
(* only from a state it is copied from: the permission it was given does   *)
(* not survive the reset of a new connection.                              *)
ASSUME HashStates ==
    \A fips \in BOOLEAN :
       LET h == s2n_handshake_hashes_new(fips)
           finished(alg) == Finished(s2n_hash_update(h[alg], T)).state
           copied(alg) == s2n_hash_copy(h["workspace"], h[alg])
       IN  /\ \A alg \in HashAlgs :
                /\ h[alg].ok /\ ~s2n_hash_update(finished(alg), T).ok
                /\ ~s2n_hash_update(s2n_handshake_hashes_free(h)[alg], T).ok
                /\ Finished(s2n_hash_update(s2n_hash_reset(finished(alg)), U)).out = Digest(alg, <<U>>)
                /\ Finished(s2n_hash_update(copied(alg), U)).out = Digest(alg, <<U>>)
                /\ s2n_hash_init(h["workspace"], alg).ok = (fips => alg \notin Md5Algs)
=============================================================================
