--------------------------- MODULE RecordCiphers ---------------------------
(***************************************************************************)
(* The ciphers of the record algorithms (crypto/s2n_*_cipher_*.c): their   *)
(* kind and the sizes of keys, blocks, IVs, tags and MACs.                 *)
(***************************************************************************)
EXTENDS CipherSuites

(* struct s2n_cipher, with the sizes of s2n_tls_parameters.h and of        *)
(* s2n_crypto_constants.h.  mac is comp.mac_key_size, the digest of a      *)
(* composite cipher.                                                       *)
Cipher(type, key, block, iv, fixed, tag, mac) ==
    [type |-> type, key |-> key, block |-> block, iv |-> iv, fixed |-> fixed,
     tag |-> tag, mac |-> mac]

StreamCiphers == [null_cipher |-> Cipher("STREAM", 0, 1, 0, 0, 0, 0),
                  rc4 |-> Cipher("STREAM", 16, 1, 0, 0, 0, 0)]
AesCbcCiphers == [aes128 |-> Cipher("CBC", 16, 16, 16, 0, 0, 0),
                  aes256 |-> Cipher("CBC", 32, 16, 16, 0, 0, 0)]
DesCbcCiphers == [des3 |-> Cipher("CBC", 24, 8, 8, 0, 0, 0)]
CompositeCiphers ==
    [aes128_sha |-> Cipher("COMPOSITE", 16, 16, 16, 0, 0, 20),
     aes256_sha |-> Cipher("COMPOSITE", 32, 16, 16, 0, 0, 20),
     aes128_sha256 |-> Cipher("COMPOSITE", 16, 16, 16, 0, 0, 32),
     aes256_sha256 |-> Cipher("COMPOSITE", 32, 16, 16, 0, 0, 32)]
GcmCiphers ==
    [aes128_gcm |-> Cipher("AEAD", 16, 1, 8, 4, 16, 0),
     aes256_gcm |-> Cipher("AEAD", 32, 1, 8, 4, 16, 0),
     tls13_aes128_gcm |-> Cipher("AEAD", 16, 1, 0, 12, 16, 0),
     tls13_aes256_gcm |-> Cipher("AEAD", 32, 1, 0, 12, 16, 0)]
ChachaCiphers == [chacha20_poly1305 |-> Cipher("AEAD", 32, 1, 0, 12, 16, 0)]

cipher ==
    [name \in DOMAIN StreamCiphers \cup DOMAIN AesCbcCiphers \cup DOMAIN DesCbcCiphers
                \cup DOMAIN CompositeCiphers \cup DOMAIN GcmCiphers \cup DOMAIN ChachaCiphers |->
        CASE name \in DOMAIN StreamCiphers -> StreamCiphers[name]
          [] name \in DOMAIN AesCbcCiphers -> AesCbcCiphers[name]
          [] name \in DOMAIN DesCbcCiphers -> DesCbcCiphers[name]
          [] name \in DOMAIN CompositeCiphers -> CompositeCiphers[name]
          [] name \in DOMAIN GcmCiphers -> GcmCiphers[name]
          [] name \in DOMAIN ChachaCiphers -> ChachaCiphers[name]]

(* s2n_record_algorithm.hmac_alg and s2n_hmac_digest_size *)
s2n_hmac_digest_size(alg) ==
    CASE alg \in {"rc4_md5", "rc4_sslv3_md5"} -> 16
      [] alg \in {"rc4_sha", "rc4_sslv3_sha", "des3_sha", "des3_sslv3_sha", "aes128_sha",
                  "aes128_sslv3_sha", "aes256_sha", "aes256_sslv3_sha"} -> 20
      [] alg \in {"aes128_sha256", "aes256_sha256"} -> 32
      [] alg = "aes256_sha384" -> 48
      [] OTHER -> 0
=============================================================================
