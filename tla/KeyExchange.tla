---------------------------- MODULE KeyExchange ----------------------------
(***************************************************************************)
(* Ephemeral keys: crypto/s2n_ecc_evp.c, crypto/s2n_dhe.c, tls/s2n_kem.c   *)
(* and tls/extensions/s2n_key_share.c.  A public value is known by the name*)
(* of its private key; "" is no key.  A struct of parameters that a call   *)
(* refused to set up has "refused" in place of its first field, and        *)
(* NoSecret is what a refused computation gives.                           *)
(***************************************************************************)
EXTENDS Naturals, Sequences

NoSecret == <<"no secret">>

-----------------------------------------------------------------------------
(* Elliptic curves.  Parameters are [curve, key].  A point on the wire is  *)
(* [size, on, key]: its length, the curve it lies on, whose key it is.     *)
s2n_all_supported_curves_list == <<"secp256r1", "secp384r1", "x25519", "secp521r1">>
share_size == [secp256r1 |-> 65, secp384r1 |-> 97, x25519 |-> 32, secp521r1 |-> 133]
NistCurves == DOMAIN share_size \ {"x25519"}

EccParams(curve, key) == [curve |-> curve, key |-> key]
NoEcc == EccParams("", "")
BadEcc == EccParams("refused", "")
Point(curve, key) == [size |-> share_size[curve], on |-> curve, key |-> key]
NoPoint == [size |-> 0, on |-> "", key |-> ""]

(* s2n_ecc_evp_generate_ephemeral_key generates a key, named fresh, for a  *)
(* chosen curve, once.                                                     *)
s2n_ecc_evp_generate_ephemeral_key(params, fresh) ==
    IF params.curve \notin DOMAIN share_size \/ params.key # "" THEN BadEcc
    ELSE [params EXCEPT !.key = fresh]
s2n_ecc_evp_write_params_point(params) ==
    IF params.curve \notin DOMAIN share_size \/ params.key = "" THEN NoPoint
    ELSE Point(params.curve, params.key)

(* A key that is there already is sent again. *)
s2n_ecdhe_send_public_key(params, fresh) ==
    IF params.key = "" THEN s2n_ecc_evp_generate_ephemeral_key(params, fresh) ELSE params

(* The libcrypto sets a public key from any 32 bytes on X25519; on a NIST  *)
(* curve it wants the encoding of a point of that curve.                   *)
EncodedPoint(point, curve) ==
    point.size = share_size[curve] /\ (curve \in NistCurves => point.on = curve)
s2n_ecc_evp_parse_params_point(point, params) ==
    IF params.curve \notin DOMAIN share_size \/ ~EncodedPoint(point, params.curve) THEN BadEcc
    ELSE [params EXCEPT !.key = point.key]

s2n_ecc_evp_find_supported_curve(iana_id) ==
    \E i \in DOMAIN s2n_all_supported_curves_list : s2n_all_supported_curves_list[i] = iana_id
s2n_ecc_evp_parse_params(iana_id, point) ==
    IF s2n_ecc_evp_find_supported_curve(iana_id)
    THEN s2n_ecc_evp_parse_params_point(point, EccParams(iana_id, "")) ELSE BadEcc
s2n_ecc_evp_params_free(params) == [params EXCEPT !.key = ""]

(* The keys of both sides give the same secret.  On a NIST curve the peer's*)
(* key is checked once more; on X25519 the derivation fails for a point of *)
(* small order, "small", whose secret is zero.                             *)
Ecdh(curve, a, b) == <<"ecdh", curve, {a, b}>>
s2n_ecc_evp_compute_shared_secret(own, peer, curve) ==
    IF own = "" \/ peer \in {"", "small"} THEN NoSecret ELSE Ecdh(curve, own, peer)
s2n_ecc_evp_compute_shared_secret_from_params(private, public) ==
    IF private.curve # public.curve THEN NoSecret
    ELSE s2n_ecc_evp_compute_shared_secret(private.key, public.key, private.curve)
s2n_ecc_evp_compute_shared_secret_as_server(params, point) ==
    IF EncodedPoint(point, params.curve)
    THEN s2n_ecc_evp_compute_shared_secret(params.key, point.key, params.curve) ELSE NoSecret

(* The client of TLS 1.2 makes its key on the spot and writes its point.   *)
s2n_ecc_evp_compute_shared_secret_as_client(params, fresh) ==
    s2n_ecc_evp_compute_shared_secret(fresh, params.key, params.curve)

-----------------------------------------------------------------------------
(* Finite field Diffie-Hellman.  Parameters are [bits, zero, sound, key]:  *)
(* the size of the prime, which of p, g and Ys are zero, whether DH_check  *)
(* finds nothing, and the key.                                             *)
S2N_MIN_DH_PRIME_SIZE == 2048
DhParams(bits, zero, sound, key) ==
    [bits |-> bits, zero |-> zero, sound |-> sound, key |-> key]
NoDh == DhParams(0, {}, FALSE, "")

s2n_check_p_g_dh_params(dh) == dh.bits >= S2N_MIN_DH_PRIME_SIZE /\ dh.zero \cap {"p", "g"} = {}
s2n_check_all_dh_params(dh) == s2n_check_p_g_dh_params(dh) /\ dh.key # "" /\ "Ys" \notin dh.zero
s2n_dh_params_check(dh) == dh.bits # 0 /\ dh.sound

(* What the application configures: parameters and nothing behind them.    *)
s2n_pkcs3_to_dh_params(pkcs3) ==
    IF s2n_check_p_g_dh_params(pkcs3.dh) /\ pkcs3.trailing = 0 /\ s2n_dh_params_check(pkcs3.dh)
    THEN pkcs3.dh ELSE NoDh

s2n_dh_params_copy(from) == IF s2n_check_p_g_dh_params(from) THEN [from EXCEPT !.key = ""] ELSE NoDh
s2n_dh_generate_ephemeral_key(dh, fresh) ==
    IF s2n_check_p_g_dh_params(dh) THEN [dh EXCEPT !.key = fresh] ELSE NoDh
s2n_dh_params_to_p_g_Ys(dh) == IF s2n_check_all_dh_params(dh) THEN dh ELSE NoDh
s2n_dh_p_g_Ys_to_dh_params(wire) == IF s2n_check_all_dh_params(wire) THEN wire ELSE NoDh
s2n_dh_params_free(dh) == NoDh

(* DH_compute_key refuses a public value that cannot be one, "small". *)
Dh(a, b) == <<"dh", {a, b}>>
s2n_dh_compute_shared_secret_as_client(server, fresh) ==
    IF s2n_dh_params_check(server) /\ s2n_check_p_g_dh_params(server) /\ server.key # "small"
    THEN Dh(fresh, server.key) ELSE NoSecret
s2n_dh_compute_shared_secret_as_server(server, yc) ==
    IF s2n_check_all_dh_params(server) /\ yc \notin {"", "small"} THEN Dh(server.key, yc)
    ELSE NoSecret

-----------------------------------------------------------------------------
(* Key encapsulation.  Parameters are [private, public, secret]; a public  *)
(* key or a ciphertext on the wire is [key, fits]: the pair it belongs to  *)
(* and whether it has the length its KEM prescribes.  A KEM answers a wrong*)
(* ciphertext with a secret that nobody else knows.                        *)
KemParams(private, public, secret) ==
    [private |-> private, public |-> public, secret |-> secret]
NoKem == KemParams("", "", NoSecret)
BadKem == KemParams("refused", "", NoSecret)
KemData(key) == [key |-> key, fits |-> TRUE]
NoKemData == [key |-> "", fits |-> FALSE]

KemSecret(key) == <<"ss", key>>
s2n_kem_generate_keypair(params, fresh) == [params EXCEPT !.private = fresh, !.public = fresh]
s2n_kem_encapsulate(params) == [params EXCEPT !.secret = KemSecret(params.public)]
s2n_kem_decapsulate(params, data) ==
    [params EXCEPT !.secret = IF data.key = params.private THEN KemSecret(params.private)
                              ELSE <<"rejected", params.private>>]

(* The public key is written to the message and not kept. *)
s2n_kem_send_public_key(params, fresh) ==
    [s2n_kem_generate_keypair(params, fresh) EXCEPT !.public = ""]
s2n_kem_recv_public_key(params, data) ==
    IF data.fits THEN [params EXCEPT !.public = data.key] ELSE BadKem
s2n_kem_send_ciphertext(params) ==
    IF params.public = "" THEN BadKem ELSE s2n_kem_encapsulate(params)
s2n_kem_recv_ciphertext(params, data) ==
    IF params.private = "" \/ ~data.fits THEN BadKem ELSE s2n_kem_decapsulate(params, data)
s2n_kem_free(params) == NoKem
=============================================================================
