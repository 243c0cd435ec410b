---------------------------- MODULE CipherSuites ----------------------------
(***************************************************************************)
(* The cipher suites s2n knows (tls/s2n_cipher_suites.c): which key        *)
(* exchange, authentication method and record algorithms each one stands   *)
(* for, from which protocol version on it may be used, and the lists the   *)
(* test policies are made of.  A suite is known by the .name of its struct *)
(* and a record algorithm by the name of its struct; of a record algorithm *)
(* only the cipher is kept, whose is_available() decides with the PQ       *)
(* switch whether the suite can be used on this machine.                   *)
(***************************************************************************)
EXTENDS Naturals, Sequences, SequencesExt

(* The protocol versions of s2n_tls_parameters.h. *)
UNKNOWN == 0
SSLv3 == 30
TLS10 == 31
TLS11 == 32
TLS12 == 33
TLS13 == 34

Suite(name, iana, kex, auth, algs, sslv3, prf, min) ==
    [name |-> name, iana |-> iana, kex |-> kex, auth |-> auth,
     algs |-> algs, sslv3 |-> sslv3, prf |-> prf, min |-> min]

-----------------------------------------------------------------------------
(* struct s2n_record_algorithm: the cipher of each one. *)
RecordAlgsStreamAndCbc ==
    [null |-> "null_cipher", rc4_md5 |-> "rc4", rc4_sslv3_md5 |-> "rc4",
     rc4_sha |-> "rc4", rc4_sslv3_sha |-> "rc4", des3_sha |-> "des3",
     des3_sslv3_sha |-> "des3", aes128_sha |-> "aes128",
     aes128_sslv3_sha |-> "aes128", aes128_sha_composite |-> "aes128_sha",
     aes128_sha256 |-> "aes128",
     aes128_sha256_composite |-> "aes128_sha256"]

RecordAlgsCbc256AndAead ==
    [aes256_sha |-> "aes256", aes256_sslv3_sha |-> "aes256",
     aes256_sha_composite |-> "aes256_sha", aes256_sha256 |-> "aes256",
     aes256_sha256_composite |-> "aes256_sha256",
     aes256_sha384 |-> "aes256", aes128_gcm |-> "aes128_gcm",
     aes256_gcm |-> "aes256_gcm",
     chacha20_poly1305 |-> "chacha20_poly1305",
     tls13_aes128_gcm |-> "tls13_aes128_gcm",
     tls13_aes256_gcm |-> "tls13_aes256_gcm",
     tls13_chacha20_poly1305 |-> "chacha20_poly1305"]

CipherOf(alg) ==
    IF alg \in DOMAIN RecordAlgsStreamAndCbc
    THEN RecordAlgsStreamAndCbc[alg] ELSE RecordAlgsCbc256AndAead[alg]

(* struct s2n_cipher_suite, in the order of the source. *)
NullSuite == Suite("TLS_NULL_WITH_NULL_NULL", 0, "rsa", "RSA", <<"null">>, "none", "NONE", UNKNOWN)

SuitesRsaAndDheCbc ==
  { Suite("RC4-MD5", 4, "rsa", "RSA", <<"rc4_md5">>, "rc4_sslv3_md5", "SHA256", SSLv3),
    Suite("RC4-SHA", 5, "rsa", "RSA", <<"rc4_sha">>, "rc4_sslv3_sha", "SHA256", SSLv3),
    Suite("DES-CBC3-SHA", 10, "rsa", "RSA", <<"des3_sha">>, "des3_sslv3_sha", "SHA256", SSLv3),
    Suite("EDH-RSA-DES-CBC3-SHA", 22, "dhe", "RSA", <<"des3_sha">>, "des3_sslv3_sha", "SHA256", SSLv3),
    Suite("AES128-SHA", 47, "rsa", "RSA", <<"aes128_sha_composite", "aes128_sha">>, "aes128_sslv3_sha", "SHA256", SSLv3),
    Suite("DHE-RSA-AES128-SHA", 51, "dhe", "RSA", <<"aes128_sha_composite", "aes128_sha">>, "aes128_sslv3_sha", "SHA256", SSLv3),
    Suite("AES256-SHA", 53, "rsa", "RSA", <<"aes256_sha_composite", "aes256_sha">>, "aes256_sslv3_sha", "SHA256", SSLv3),
    Suite("DHE-RSA-AES256-SHA", 57, "dhe", "RSA", <<"aes256_sha_composite", "aes256_sha">>, "aes256_sslv3_sha", "SHA256", SSLv3),
    Suite("AES128-SHA256", 60, "rsa", "RSA", <<"aes128_sha256_composite", "aes128_sha256">>, "none", "SHA256", TLS12),
    Suite("AES256-SHA256", 61, "rsa", "RSA", <<"aes256_sha256_composite", "aes256_sha256">>, "none", "SHA256", TLS12) }

SuitesGcmAndEcdheCbc ==
  { Suite("DHE-RSA-AES128-SHA256", 103, "dhe", "RSA", <<"aes128_sha256_composite", "aes128_sha256">>, "none", "SHA256", TLS12),
    Suite("DHE-RSA-AES256-SHA256", 107, "dhe", "RSA", <<"aes256_sha256_composite", "aes256_sha256">>, "none", "SHA256", TLS12),
    Suite("AES128-GCM-SHA256", 156, "rsa", "RSA", <<"aes128_gcm">>, "none", "SHA256", TLS12),
    Suite("AES256-GCM-SHA384", 157, "rsa", "RSA", <<"aes256_gcm">>, "none", "SHA384", TLS12),
    Suite("DHE-RSA-AES128-GCM-SHA256", 158, "dhe", "RSA", <<"aes128_gcm">>, "none", "SHA256", TLS12),
    Suite("DHE-RSA-AES256-GCM-SHA384", 159, "dhe", "RSA", <<"aes256_gcm">>, "none", "SHA384", TLS12),
    Suite("ECDHE-ECDSA-AES128-SHA", 49161, "ecdhe", "ECDSA", <<"aes128_sha_composite", "aes128_sha">>, "aes128_sslv3_sha", "SHA256", SSLv3),
    Suite("ECDHE-ECDSA-AES256-SHA", 49162, "ecdhe", "ECDSA", <<"aes256_sha_composite", "aes256_sha">>, "aes256_sslv3_sha", "SHA256", SSLv3),
    Suite("ECDHE-RSA-RC4-SHA", 49169, "ecdhe", "RSA", <<"rc4_sha">>, "rc4_sslv3_sha", "SHA256", SSLv3),
    Suite("ECDHE-RSA-DES-CBC3-SHA", 49170, "ecdhe", "RSA", <<"des3_sha">>, "des3_sslv3_sha", "SHA256", SSLv3) }

SuitesEcdheCbcAndGcm ==
  { Suite("ECDHE-RSA-AES128-SHA", 49171, "ecdhe", "RSA", <<"aes128_sha_composite", "aes128_sha">>, "aes128_sslv3_sha", "SHA256", SSLv3),
    Suite("ECDHE-RSA-AES256-SHA", 49172, "ecdhe", "RSA", <<"aes256_sha_composite", "aes256_sha">>, "aes256_sslv3_sha", "SHA256", SSLv3),
    Suite("ECDHE-ECDSA-AES128-SHA256", 49187, "ecdhe", "ECDSA", <<"aes128_sha256_composite", "aes128_sha256">>, "none", "SHA256", TLS12),
    Suite("ECDHE-ECDSA-AES256-SHA384", 49188, "ecdhe", "ECDSA", <<"aes256_sha384">>, "none", "SHA384", TLS12),
    Suite("ECDHE-RSA-AES128-SHA256", 49191, "ecdhe", "RSA", <<"aes128_sha256_composite", "aes128_sha256">>, "none", "SHA256", TLS12),
    Suite("ECDHE-RSA-AES256-SHA384", 49192, "ecdhe", "RSA", <<"aes256_sha384">>, "none", "SHA384", TLS12),
    Suite("ECDHE-ECDSA-AES128-GCM-SHA256", 49195, "ecdhe", "ECDSA", <<"aes128_gcm">>, "none", "SHA256", TLS12),
    Suite("ECDHE-ECDSA-AES256-GCM-SHA384", 49196, "ecdhe", "ECDSA", <<"aes256_gcm">>, "none", "SHA384", TLS12),
    Suite("ECDHE-RSA-AES128-GCM-SHA256", 49199, "ecdhe", "RSA", <<"aes128_gcm">>, "none", "SHA256", TLS12),
    Suite("ECDHE-RSA-AES256-GCM-SHA384", 49200, "ecdhe", "RSA", <<"aes256_gcm">>, "none", "SHA384", TLS12) }

SuitesChachaHybridTls13 ==
  { Suite("ECDHE-RSA-CHACHA20-POLY1305", 52392, "ecdhe", "RSA", <<"chacha20_poly1305">>, "none", "SHA256", TLS12),
    Suite("ECDHE-ECDSA-CHACHA20-POLY1305", 52393, "ecdhe", "ECDSA", <<"chacha20_poly1305">>, "none", "SHA256", TLS12),
    Suite("DHE-RSA-CHACHA20-POLY1305", 52394, "dhe", "RSA", <<"chacha20_poly1305">>, "none", "SHA256", TLS12),
    Suite("ECDHE-KYBER-RSA-AES256-GCM-SHA384", 65292, "hybrid_ecdhe_kem", "RSA", <<"aes256_gcm">>, "none", "SHA384", TLS12),
    Suite("ECDHE-BIKE-RSA-AES256-GCM-SHA384", 65284, "hybrid_ecdhe_kem", "RSA", <<"aes256_gcm">>, "none", "SHA384", TLS12),
    Suite("ECDHE-SIKE-RSA-AES256-GCM-SHA384", 65288, "hybrid_ecdhe_kem", "RSA", <<"aes256_gcm">>, "none", "SHA384", TLS12),
    Suite("TLS_AES_128_GCM_SHA256", 4865, "tls13", "any", <<"tls13_aes128_gcm">>, "none", "SHA256", TLS13),
    Suite("TLS_AES_256_GCM_SHA384", 4866, "tls13", "any", <<"tls13_aes256_gcm">>, "none", "SHA384", TLS13),
    Suite("TLS_CHACHA20_POLY1305_SHA256", 4867, "tls13", "any", <<"tls13_chacha20_poly1305">>, "none", "SHA256", TLS13) }

Suites == {NullSuite} \union SuitesRsaAndDheCbc \union SuitesGcmAndEcdheCbc
            \union SuitesEcdheCbcAndGcm \union SuitesChachaHybridTls13

cipher_suite == [name \in {s.name : s \in Suites} |->
                    CHOOSE s \in Suites : s.name = name]

-----------------------------------------------------------------------------
(* All suites, sorted by their IANA value for s2n_cipher_suite_from_iana,  *)
(* and the subsets the test policies use.                                  *)
s2n_all_cipher_suites ==
    <<"RC4-MD5", "RC4-SHA", "DES-CBC3-SHA", "EDH-RSA-DES-CBC3-SHA",
      "AES128-SHA", "DHE-RSA-AES128-SHA", "AES256-SHA",
      "DHE-RSA-AES256-SHA", "AES128-SHA256", "AES256-SHA256",
      "DHE-RSA-AES128-SHA256", "DHE-RSA-AES256-SHA256",
      "AES128-GCM-SHA256", "AES256-GCM-SHA384",
      "DHE-RSA-AES128-GCM-SHA256", "DHE-RSA-AES256-GCM-SHA384",
      "TLS_AES_128_GCM_SHA256", "TLS_AES_256_GCM_SHA384",
      "TLS_CHACHA20_POLY1305_SHA256", "ECDHE-ECDSA-AES128-SHA",
      "ECDHE-ECDSA-AES256-SHA", "ECDHE-RSA-RC4-SHA",
      "ECDHE-RSA-DES-CBC3-SHA", "ECDHE-RSA-AES128-SHA",
      "ECDHE-RSA-AES256-SHA", "ECDHE-ECDSA-AES128-SHA256",
      "ECDHE-ECDSA-AES256-SHA384", "ECDHE-RSA-AES128-SHA256",
      "ECDHE-RSA-AES256-SHA384", "ECDHE-ECDSA-AES128-GCM-SHA256",
      "ECDHE-ECDSA-AES256-GCM-SHA384", "ECDHE-RSA-AES128-GCM-SHA256",
      "ECDHE-RSA-AES256-GCM-SHA384", "ECDHE-RSA-CHACHA20-POLY1305",
      "ECDHE-ECDSA-CHACHA20-POLY1305", "DHE-RSA-CHACHA20-POLY1305",
      "ECDHE-BIKE-RSA-AES256-GCM-SHA384",
      "ECDHE-SIKE-RSA-AES256-GCM-SHA384",
      "ECDHE-KYBER-RSA-AES256-GCM-SHA384">>

s2n_all_tls12_cipher_suites ==
    <<"RC4-MD5", "RC4-SHA", "DES-CBC3-SHA", "EDH-RSA-DES-CBC3-SHA",
      "AES128-SHA", "DHE-RSA-AES128-SHA", "AES256-SHA",
      "DHE-RSA-AES256-SHA", "AES128-SHA256", "AES256-SHA256",
      "DHE-RSA-AES128-SHA256", "DHE-RSA-AES256-SHA256",
      "AES128-GCM-SHA256", "AES256-GCM-SHA384",
      "DHE-RSA-AES128-GCM-SHA256", "DHE-RSA-AES256-GCM-SHA384",
      "ECDHE-ECDSA-AES128-SHA", "ECDHE-ECDSA-AES256-SHA",
      "ECDHE-RSA-RC4-SHA", "ECDHE-RSA-DES-CBC3-SHA",
      "ECDHE-RSA-AES128-SHA", "ECDHE-RSA-AES256-SHA",
      "ECDHE-ECDSA-AES128-SHA256", "ECDHE-ECDSA-AES256-SHA384",
      "ECDHE-RSA-AES128-SHA256", "ECDHE-RSA-AES256-SHA384",
      "ECDHE-ECDSA-AES128-GCM-SHA256", "ECDHE-ECDSA-AES256-GCM-SHA384",
      "ECDHE-RSA-AES128-GCM-SHA256", "ECDHE-RSA-AES256-GCM-SHA384",
      "ECDHE-RSA-CHACHA20-POLY1305", "ECDHE-ECDSA-CHACHA20-POLY1305",
      "DHE-RSA-CHACHA20-POLY1305", "ECDHE-BIKE-RSA-AES256-GCM-SHA384",
      "ECDHE-SIKE-RSA-AES256-GCM-SHA384",
      "ECDHE-KYBER-RSA-AES256-GCM-SHA384">>

s2n_all_fips_cipher_suites ==
    <<"DES-CBC3-SHA", "AES128-SHA", "AES256-SHA", "AES128-SHA256",
      "AES256-SHA256", "DHE-RSA-AES128-SHA256", "DHE-RSA-AES256-SHA256",
      "AES128-GCM-SHA256", "AES256-GCM-SHA384",
      "DHE-RSA-AES128-GCM-SHA256", "DHE-RSA-AES256-GCM-SHA384",
      "ECDHE-ECDSA-AES128-SHA256", "ECDHE-ECDSA-AES256-SHA384",
      "ECDHE-RSA-AES128-SHA256", "ECDHE-RSA-AES256-SHA384",
      "ECDHE-ECDSA-AES128-GCM-SHA256", "ECDHE-ECDSA-AES256-GCM-SHA384",
      "ECDHE-RSA-AES128-GCM-SHA256", "ECDHE-RSA-AES256-GCM-SHA384">>

s2n_all_ecdsa_cipher_suites ==
    <<"ECDHE-ECDSA-AES128-SHA", "ECDHE-ECDSA-AES256-SHA",
      "ECDHE-ECDSA-AES128-SHA256", "ECDHE-ECDSA-AES256-SHA384",
      "ECDHE-ECDSA-AES128-GCM-SHA256", "ECDHE-ECDSA-AES256-GCM-SHA384",
      "ECDHE-ECDSA-CHACHA20-POLY1305">>

s2n_all_rsa_kex_cipher_suites ==
    <<"AES128-SHA", "RC4-MD5", "RC4-SHA", "DES-CBC3-SHA", "AES128-SHA",
      "AES256-SHA", "AES128-SHA256", "AES256-SHA256", "AES128-GCM-SHA256",
      "AES256-GCM-SHA384">>

s2n_ecdsa_priority_cipher_suites ==
    <<"ECDHE-ECDSA-AES128-SHA", "ECDHE-ECDSA-AES256-SHA",
      "ECDHE-ECDSA-AES128-SHA256", "ECDHE-ECDSA-AES256-SHA384",
      "ECDHE-ECDSA-AES128-GCM-SHA256", "ECDHE-ECDSA-AES256-GCM-SHA384",
      "ECDHE-ECDSA-CHACHA20-POLY1305", "RC4-MD5", "RC4-SHA",
      "DES-CBC3-SHA", "EDH-RSA-DES-CBC3-SHA", "AES128-SHA",
      "DHE-RSA-AES128-SHA", "AES256-SHA", "DHE-RSA-AES256-SHA",
      "AES128-SHA256", "AES256-SHA256", "DHE-RSA-AES128-SHA256",
      "DHE-RSA-AES256-SHA256", "AES128-GCM-SHA256", "AES256-GCM-SHA384",
      "DHE-RSA-AES128-GCM-SHA256", "DHE-RSA-AES256-GCM-SHA384",
      "ECDHE-RSA-RC4-SHA", "ECDHE-RSA-DES-CBC3-SHA",
      "ECDHE-RSA-AES128-SHA", "ECDHE-RSA-AES256-SHA",
      "ECDHE-RSA-AES128-SHA256", "ECDHE-RSA-AES256-SHA384",
      "ECDHE-RSA-AES128-GCM-SHA256", "ECDHE-RSA-AES256-GCM-SHA384",
      "ECDHE-RSA-CHACHA20-POLY1305", "DHE-RSA-CHACHA20-POLY1305">>

s2n_all_tls13_cipher_suites ==
    <<"TLS_AES_128_GCM_SHA256", "TLS_AES_256_GCM_SHA384",
      "TLS_CHACHA20_POLY1305_SHA256">>

-----------------------------------------------------------------------------
(***************************************************************************)
(* s2n_cipher_suites_init.  caps says what this build and machine can do:  *)
(* caps.missing is the set of ciphers whose is_available() is false and    *)
(* caps.pq is s2n_pq_is_enabled().  The first record algorithm whose       *)
(* cipher is there is the suite's; a suite with no such algorithm, and a   *)
(* KEM suite without PQ, is unavailable.  On SSLv3 connections the suite's *)
(* SSLv3 record algorithm stands in for it when it has one.                *)
(***************************************************************************)
UsableAlgs(name, caps) ==
    SelectSeq(cipher_suite[name].algs, LAMBDA a : CipherOf(a) \notin caps.missing)

Available(name, caps) ==
    /\ UsableAlgs(name, caps) # <<>>
    /\ cipher_suite[name].kex = "hybrid_ecdhe_kem" => caps.pq

AvailableForSslv3(name, caps) ==
    LET alg == cipher_suite[name].sslv3
    IN  IF alg # "none" THEN CipherOf(alg) \notin caps.missing \/ Available(name, caps)
        ELSE Available(name, caps)

(* Which suites need the supported_groups and the pq_kem extensions. *)
s2n_cipher_suite_requires_ecc_extension(name) ==
    cipher_suite[name].min >= TLS13 \/ cipher_suite[name].kex \in {"ecdhe", "hybrid_ecdhe_kem"}
s2n_cipher_suite_requires_pq_extension(name) == cipher_suite[name].kex = "hybrid_ecdhe_kem"
=============================================================================
