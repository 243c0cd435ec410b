---------------------------- MODULE PublicKeys -----------------------------
(***************************************************************************)
(* Keys of certificates: crypto/s2n_pkey.c, s2n_rsa.c, s2n_rsa_pss.c,      *)
(* s2n_rsa_signing.c and s2n_ecdsa.c.  A struct s2n_pkey is [type, key,    *)
(* private]: the kind of key its methods are for, the name of the key pair *)
(* ("" once freed) and whether it holds the private half.                  *)
(*                                                                         *)
(* A digest is <<"digest", algorithm, input>>.  A signature or ciphertext  *)
(* is the term that computes it; Refused is what a failing call returns.   *)
(***************************************************************************)
EXTENDS Naturals, Sequences

Refused == <<"refused">>

Pkey(type, key, private) == [type |-> type, key |-> key, private |-> private]
s2n_pkey_zero_init == Pkey("none", "", FALSE)
NoPkey == s2n_pkey_zero_init

(* The methods an initialised key has: s2n_rsa_pkey_init,                  *)
(* s2n_rsa_pss_pkey_init and s2n_ecdsa_pkey_init.                          *)
s2n_rsa_pkey_init == {"sign", "verify", "encrypt", "decrypt", "match"}
s2n_rsa_pss_pkey_init == s2n_rsa_pkey_init \ {"encrypt", "decrypt"}
s2n_ecdsa_pkey_init == {"sign", "verify", "match"}
s2n_pkey_setup_for_type(type) ==
    CASE type = "RSA" -> s2n_rsa_pkey_init
      [] type = "RSA_PSS" -> s2n_rsa_pss_pkey_init
      [] type = "ECDSA" -> s2n_ecdsa_pkey_init
      [] OTHER -> {}
Has(pkey, method) == method \in s2n_pkey_setup_for_type(pkey.type)

(* Freeing drops the key; the methods stay. *)
s2n_pkey_free(pkey) == [pkey EXCEPT !.key = ""]
s2n_pkey_check_key_exists(pkey) == pkey.type # "none" /\ pkey.key # ""

-----------------------------------------------------------------------------
(* RSA.  PKCS #1 knows no plain MD5, and PSS needs a digest of EVP; both   *)
(* take the same algorithms.  The private half signs, either one verifies. *)
s2n_hash_NID_type(alg) == alg \in {"MD5_SHA1", "SHA1", "SHA224", "SHA256", "SHA384", "SHA512"}
s2n_hash_alg_to_evp_alg(alg) == s2n_hash_NID_type(alg)

s2n_rsa_pkcs1v15_sign(priv, digest) ==
    IF s2n_hash_NID_type(digest[2]) /\ priv.private /\ priv.key # ""
    THEN <<"pkcs1v15", priv.key, digest>> ELSE Refused
s2n_rsa_pkcs1v15_verify(pub, digest, signature) ==
    /\ s2n_hash_NID_type(digest[2]) /\ pub.key # ""
    /\ signature = <<"pkcs1v15", pub.key, digest>>

(* The salt is as long as the digest when signing; verifying takes any. *)
s2n_rsa_pss_sign(priv, digest) ==
    IF s2n_hash_alg_to_evp_alg(digest[2]) /\ priv.private /\ priv.key # ""
    THEN <<"pss", priv.key, digest>> ELSE Refused
s2n_rsa_pss_verify(pub, digest, signature) ==
    /\ s2n_hash_alg_to_evp_alg(digest[2]) /\ pub.key # ""
    /\ signature = <<"pss", pub.key, digest>>

s2n_rsa_sign(priv, sig_alg, digest) ==
    CASE sig_alg = "RSA" -> s2n_rsa_pkcs1v15_sign(priv, digest)
      [] sig_alg = "RSA_PSS_RSAE" -> s2n_rsa_pss_sign(priv, digest)
      [] OTHER -> Refused
s2n_rsa_verify(pub, sig_alg, digest, signature) ==
    CASE sig_alg = "RSA" -> s2n_rsa_pkcs1v15_verify(pub, digest, signature)
      [] sig_alg = "RSA_PSS_RSAE" -> s2n_rsa_pss_verify(pub, digest, signature)
      [] OTHER -> FALSE

(* Decryption succeeds with random data, Noise(key), when the padding is   *)
(* wrong, and fails only on a ciphertext that is not as long as the        *)
(* modulus.  A ciphertext is [key, plain, fits].                           *)
Noise(key) == <<"noise", key>>
s2n_rsa_encrypted_size(pkey) == pkey.key # ""
Ciphertext(key, plain) == [key |-> key, plain |-> plain, fits |-> TRUE]
NoCiphertext == [key |-> "", plain |-> Refused, fits |-> FALSE]
s2n_rsa_encrypt(pub, plain) ==
    IF s2n_rsa_encrypted_size(pub) THEN Ciphertext(pub.key, plain) ELSE NoCiphertext
s2n_rsa_decrypt(priv, in) ==
    IF ~s2n_rsa_encrypted_size(priv) \/ ~priv.private \/ ~in.fits THEN Refused
    ELSE IF in.key = priv.key THEN in.plain ELSE Noise(priv.key)

Probe == <<"probe">>
s2n_rsa_keys_match(pub, priv) == s2n_rsa_decrypt(priv, s2n_rsa_encrypt(pub, Probe)) = Probe

-----------------------------------------------------------------------------
(* Keys that are for PSS only. *)
s2n_rsa_pss_key_sign(priv, sig_alg, digest) ==
    IF sig_alg = "RSA_PSS_PSS" /\ priv.private THEN s2n_rsa_pss_sign(priv, digest) ELSE Refused
s2n_rsa_pss_key_verify(pub, sig_alg, digest, signature) ==
    sig_alg = "RSA_PSS_PSS" /\ ~pub.private /\ s2n_rsa_pss_verify(pub, digest, signature)

s2n_rsa_validate_params_match(pub, priv) ==
    pub.key # "" /\ priv.key # "" /\ pub.key = priv.key
s2n_rsa_pss_validate_sign_verify_match(pub, priv) ==
    LET hash == <<"digest", "SHA256", Probe>>
    IN  s2n_rsa_pss_key_verify(pub, "RSA_PSS_PSS", hash,
                               s2n_rsa_pss_key_sign(priv, "RSA_PSS_PSS", hash))
s2n_rsa_pss_keys_match(pub, priv) ==
    s2n_rsa_validate_params_match(pub, priv) /\ s2n_rsa_pss_validate_sign_verify_match(pub, priv)

-----------------------------------------------------------------------------
(* ECDSA.  The digest's state is reset afterwards; every user starts from  *)
(* a state of its own.                                                     *)
s2n_ecdsa_sign(priv, sig_alg, digest) ==
    IF sig_alg = "ECDSA" /\ priv.key # "" /\ priv.private
    THEN <<"ecdsa", priv.key, digest>> ELSE Refused
s2n_ecdsa_verify(pub, sig_alg, digest, signature) ==
    sig_alg = "ECDSA" /\ pub.key # "" /\ signature = <<"ecdsa", pub.key, digest>>
s2n_ecdsa_keys_match(pub, priv) ==
    LET state == <<"digest", "SHA1", Probe>>
    IN  s2n_ecdsa_verify(pub, "ECDSA", state, s2n_ecdsa_sign(priv, "ECDSA", state))

-----------------------------------------------------------------------------
(* The calls the handshake makes go through the methods of the key. *)
s2n_pkey_sign(pkey, sig_alg, digest) ==
    CASE pkey.type = "RSA" -> s2n_rsa_sign(pkey, sig_alg, digest)
      [] pkey.type = "RSA_PSS" -> s2n_rsa_pss_key_sign(pkey, sig_alg, digest)
      [] pkey.type = "ECDSA" -> s2n_ecdsa_sign(pkey, sig_alg, digest)
      [] OTHER -> Refused
s2n_pkey_verify(pkey, sig_alg, digest, signature) ==
    CASE pkey.type = "RSA" -> s2n_rsa_verify(pkey, sig_alg, digest, signature)
      [] pkey.type = "RSA_PSS" -> s2n_rsa_pss_key_verify(pkey, sig_alg, digest, signature)
      [] pkey.type = "ECDSA" -> s2n_ecdsa_verify(pkey, sig_alg, digest, signature)
      [] OTHER -> FALSE
s2n_pkey_encrypt(pkey, plain) ==
    IF Has(pkey, "encrypt") THEN s2n_rsa_encrypt(pkey, plain) ELSE NoCiphertext
s2n_pkey_decrypt(pkey, in) ==
    IF Has(pkey, "decrypt") THEN s2n_rsa_decrypt(pkey, in) ELSE Refused
s2n_pkey_match(pub, priv) ==
    /\ Has(pub, "match") /\ pub.type = priv.type
    /\ CASE pub.type = "RSA" -> s2n_rsa_keys_match(pub, priv)
         [] pub.type = "RSA_PSS" -> s2n_rsa_pss_keys_match(pub, priv)
         [] pub.type = "ECDSA" -> s2n_ecdsa_keys_match(pub, priv)

-----------------------------------------------------------------------------
(* Decoding.  A DER blob is [type, key, trailing]: what the first object in*)
(* it is and how many bytes follow.  A certificate may be followed by a few*)
(* bytes, a private key by none.                                           *)
S2N_MAX_ALLOWED_CERT_TRAILING_BYTES == 3
Der(type, key, trailing) == [type |-> type, key |-> key, trailing |-> trailing]
Decoded(der, private, trailing) ==
    IF s2n_pkey_setup_for_type(der.type) = {} \/ der.trailing > trailing THEN NoPkey
    ELSE Pkey(der.type, der.key, private)
s2n_asn1der_to_private_key(der) == Decoded(der, TRUE, 0)
s2n_asn1der_to_public_key_and_type(der) ==
    Decoded(der, FALSE, S2N_MAX_ALLOWED_CERT_TRAILING_BYTES)

-----------------------------------------------------------------------------
(* PEM files (stuffer/s2n_stuffer_pem.c).  A file is a sequence of items:  *)
(* encapsulation lines, runs of base64 characters that stand for a DER blob*)
(* (valid or not) and other text without a dash.  A read starts at item at *)
(* and gives [ok, at, der]; a failed read leaves the file where it failed. *)
Line(marker, keyword) == [kind |-> "line", marker |-> marker, keyword |-> keyword]
Base64(der, valid) == [kind |-> "base64", der |-> der, valid |-> valid]
Text == [kind |-> "text"]
NoDer == Der("none", "", 0)
Leftover == Der("leftover", "", 0)
At(ok, at, der) == [ok |-> ok, at |-> at, der |-> der]

(* s2n_stuffer_skip_to_char: the next line, or the end of the file. *)
s2n_stuffer_skip_to_char(pem, at) ==
    LET dashes == {i \in at .. Len(pem) : pem[i].kind = "line"}
    IN  IF dashes = {} THEN Len(pem) + 1 ELSE CHOOSE i \in dashes : \A j \in dashes : i <= j
s2n_stuffer_pem_read_encapsulation_line(pem, at, encap_marker, keyword) ==
    LET found(i) == i <= Len(pem) /\ pem[i] = Line(encap_marker, keyword)
        read(i) == At(found(i), IF found(i) THEN i + 1 ELSE i, NoDer)
    IN  read(s2n_stuffer_skip_to_char(pem, at))

(* s2n_stuffer_read_base64: letters of a text are base64 characters too, so*)
(* a text among them spoils the blob.                                      *)
s2n_stuffer_read_base64(items) ==
    IF Len(items) = 1 /\ items[1].kind = "base64" THEN items[1].der ELSE NoDer
s2n_stuffer_pem_read_contents(pem, at) ==
    LET items(end) == SubSeq(pem, at, end - 1)
        bad(end) == \E i \in at .. end - 1 : pem[i].kind = "base64" /\ ~pem[i].valid
        read(end) == IF bad(end) THEN At(FALSE, at, NoDer)
                     ELSE At(end <= Len(pem), end, s2n_stuffer_read_base64(items(end)))
    IN  read(s2n_stuffer_skip_to_char(pem, at))

s2n_stuffer_data_from_pem(pem, at, keyword) ==
    LET line(i, marker) == s2n_stuffer_pem_read_encapsulation_line(pem, i, marker, keyword)
        ended(contents) == IF ~contents.ok THEN contents
                           ELSE [line(contents.at, "END") EXCEPT !.der = contents.der]
        begun(begin) == IF ~begin.ok THEN begin
                        ELSE ended(s2n_stuffer_pem_read_contents(pem, begin.at))
    IN  begun(line(at, "BEGIN"))

(* An RSA key, or an EC key behind its parameters, or one in PKCS #8. *)
s2n_stuffer_private_key_from_pem(pem) ==
    LET params == s2n_stuffer_data_from_pem(pem, 1, "EC PARAMETERS")
        or_pkcs8(ec) == IF ec.ok THEN ec ELSE s2n_stuffer_data_from_pem(pem, 1, "PRIVATE KEY")
        or_ec(rsa) == IF rsa.ok THEN rsa
                      ELSE or_pkcs8(s2n_stuffer_data_from_pem(
                               pem, IF params.ok THEN params.at ELSE 1, "EC PRIVATE KEY"))
    IN  or_ec(s2n_stuffer_data_from_pem(pem, 1, "RSA PRIVATE KEY"))
s2n_stuffer_certificate_from_pem(pem, at) == s2n_stuffer_data_from_pem(pem, at, "CERTIFICATE")
s2n_stuffer_dhparams_from_pem(pem) == s2n_stuffer_data_from_pem(pem, 1, "DH PARAMETERS")

(* s2n_create_cert_chain_from_stuffer: certificates up to one that does not*)
(* parse; nothing may be left then.  << >> is a failure.                   *)
s2n_create_cert_chain_from_stuffer(pem) ==
    LET read(at) == s2n_stuffer_certificate_from_pem(pem, at)
        chain[at \in 1 .. Len(pem) + 1] ==
            IF read(at).ok THEN <<read(at).der>> \o chain[read(at).at]
            ELSE IF read(at).at <= Len(pem) THEN <<Leftover>> ELSE << >>
        whole(certs) == IF \E i \in DOMAIN certs : certs[i] = Leftover THEN << >> ELSE certs
    IN  whole(chain[1])
s2n_cert_chain_and_key_set_private_key(pem) ==
    LET decoded(read) == IF read.ok THEN s2n_asn1der_to_private_key(read.der) ELSE NoPkey
    IN  decoded(s2n_stuffer_private_key_from_pem(pem))

(* s2n_cert_chain_and_key_load: the key must fit the leaf, which comes     *)
(* first.  s2n_send_cert_chain sends the chain as it was loaded.           *)
s2n_cert_chain_and_key_load(chain) ==
    LET fit(public, private) ==
            public # NoPkey /\ private # NoPkey /\ s2n_pkey_match(public, private)
        loaded(certs) == certs # << >> /\ fit(s2n_asn1der_to_public_key_and_type(certs[1]),
                                             s2n_cert_chain_and_key_set_private_key(chain.key))
    IN  loaded(s2n_create_cert_chain_from_stuffer(chain.pem))
s2n_send_cert_chain(chain) == s2n_create_cert_chain_from_stuffer(chain.pem)
=============================================================================
