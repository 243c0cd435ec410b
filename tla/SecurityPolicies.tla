-------------------------- MODULE SecurityPolicies --------------------------
(***************************************************************************)
(* The security policies (tls/s2n_security_policies.c) and the preference  *)
(* lists they are made of besides the cipher suites: signature schemes     *)
(* (tls/s2n_signature_scheme.c), curves (tls/s2n_ecc_preferences.c), KEMs  *)
(* and KEM groups (tls/s2n_kem.c, tls/s2n_kem_preferences.c).  The build   *)
(* modelled has the EVP APIs, so x25519 is there.                          *)
(***************************************************************************)
EXTENDS CipherPreferences, FiniteSets

-----------------------------------------------------------------------------
(* struct s2n_signature_scheme.  The TLS 1.2 ECDSA schemes share their     *)
(* IANA value with the TLS 1.3 ones that also fix the curve.               *)
Scheme(name, iana, sig_alg, curve, min, max) ==
    [name |-> name, iana |-> iana, sig_alg |-> sig_alg, curve |-> curve,
     min |-> min, max |-> max]

SignatureSchemes ==
  { Scheme("rsa_pkcs1_md5_sha1", 65535, "RSA", "none", UNKNOWN, TLS12),
    Scheme("rsa_pkcs1_sha1", 513, "RSA", "none", UNKNOWN, TLS12),
    Scheme("rsa_pkcs1_sha224", 769, "RSA", "none", UNKNOWN, TLS12),
    Scheme("rsa_pkcs1_sha256", 1025, "RSA", "none", UNKNOWN, TLS12),
    Scheme("rsa_pkcs1_sha384", 1281, "RSA", "none", UNKNOWN, TLS12),
    Scheme("rsa_pkcs1_sha512", 1537, "RSA", "none", UNKNOWN, TLS12),
    Scheme("ecdsa_sha1", 515, "ECDSA", "none", UNKNOWN, TLS12),
    Scheme("ecdsa_sha224", 771, "ECDSA", "none", UNKNOWN, TLS12),
    Scheme("ecdsa_sha256", 1027, "ECDSA", "none", UNKNOWN, TLS12),
    Scheme("ecdsa_sha384", 1283, "ECDSA", "none", UNKNOWN, TLS12),
    Scheme("ecdsa_sha512", 1539, "ECDSA", "none", UNKNOWN, TLS12),
    Scheme("ecdsa_secp256r1_sha256", 1027, "ECDSA", "secp256r1", TLS13, UNKNOWN),
    Scheme("ecdsa_secp384r1_sha384", 1283, "ECDSA", "secp384r1", TLS13, UNKNOWN),
    Scheme("ecdsa_secp521r1_sha512", 1539, "ECDSA", "secp521r1", TLS13, UNKNOWN),
    Scheme("rsa_pss_rsae_sha256", 2052, "RSA_PSS_RSAE", "none", UNKNOWN, UNKNOWN),
    Scheme("rsa_pss_rsae_sha384", 2053, "RSA_PSS_RSAE", "none", UNKNOWN, UNKNOWN),
    Scheme("rsa_pss_rsae_sha512", 2054, "RSA_PSS_RSAE", "none", UNKNOWN, UNKNOWN),
    Scheme("rsa_pss_pss_sha256", 2057, "RSA_PSS_PSS", "none", TLS13, UNKNOWN),
    Scheme("rsa_pss_pss_sha384", 2058, "RSA_PSS_PSS", "none", TLS13, UNKNOWN),
    Scheme("rsa_pss_pss_sha512", 2059, "RSA_PSS_PSS", "none", TLS13, UNKNOWN) }

signature_scheme == [name \in {s.name : s \in SignatureSchemes} |->
                        CHOOSE s \in SignatureSchemes : s.name = name]

signature_preferences ==
    "20140601" :>
      <<"rsa_pkcs1_sha256", "rsa_pkcs1_sha384", "rsa_pkcs1_sha512",
        "rsa_pkcs1_sha224", "ecdsa_sha256", "ecdsa_secp256r1_sha256",
        "ecdsa_sha384", "ecdsa_secp384r1_sha384", "ecdsa_sha512",
        "ecdsa_sha224", "rsa_pkcs1_sha1", "ecdsa_sha1">> @@
    "20200207" :>
      <<"rsa_pss_pss_sha256", "rsa_pss_pss_sha384", "rsa_pss_pss_sha512",
        "rsa_pss_rsae_sha256", "rsa_pss_rsae_sha384", "rsa_pss_rsae_sha512",
        "rsa_pkcs1_sha256", "rsa_pkcs1_sha384", "rsa_pkcs1_sha512",
        "rsa_pkcs1_sha224", "ecdsa_sha256", "ecdsa_secp256r1_sha256",
        "ecdsa_sha384", "ecdsa_secp384r1_sha384", "ecdsa_sha512",
        "ecdsa_sha224", "rsa_pkcs1_sha1", "ecdsa_sha1">> @@
    "20201021" :>
      <<"rsa_pss_pss_sha256", "rsa_pss_pss_sha384", "rsa_pss_pss_sha512",
        "rsa_pss_rsae_sha256", "rsa_pss_rsae_sha384", "rsa_pss_rsae_sha512",
        "rsa_pkcs1_sha256", "rsa_pkcs1_sha384", "rsa_pkcs1_sha512",
        "rsa_pkcs1_sha224", "ecdsa_sha256", "ecdsa_secp256r1_sha256",
        "ecdsa_sha384", "ecdsa_secp384r1_sha384", "ecdsa_sha512",
        "ecdsa_secp521r1_sha512", "ecdsa_sha224", "rsa_pkcs1_sha1",
        "ecdsa_sha1">> @@
    "20201110" :>
      <<"rsa_pss_pss_sha256", "rsa_pss_pss_sha384", "rsa_pss_pss_sha512",
        "rsa_pss_rsae_sha256", "rsa_pss_rsae_sha384", "rsa_pss_rsae_sha512",
        "rsa_pkcs1_sha256", "rsa_pkcs1_sha384", "rsa_pkcs1_sha512",
        "rsa_pkcs1_sha224", "ecdsa_sha256", "ecdsa_secp256r1_sha256",
        "ecdsa_sha384", "ecdsa_secp384r1_sha384", "ecdsa_sha512",
        "ecdsa_sha224">> @@
    "20210816" :> <<"rsa_pkcs1_sha384", "rsa_pkcs1_sha512", "ecdsa_sha384", "ecdsa_sha512">> @@
    "null" :> <<>>

(* The curves of crypto/s2n_ecc_evp.c and the preferences among them. *)
s2n_all_supported_curves_list == <<"secp256r1", "secp384r1", "x25519", "secp521r1">>

ecc_preferences ==
    "20140601" :> <<"secp256r1", "secp384r1">> @@
    "20200310" :> <<"x25519", "secp256r1", "secp384r1">> @@
    "20201021" :> <<"secp256r1", "secp384r1", "secp521r1">> @@
    "20210816" :> <<"secp384r1">> @@
    "test_all" :> <<"x25519", "secp256r1", "secp384r1", "secp521r1">> @@
    "null" :> <<>>

-----------------------------------------------------------------------------
(* KEMs: which ones a hybrid suite may use, the curve of each KEM group.   *)
kem_mapping ==
    "ECDHE-BIKE-RSA-AES256-GCM-SHA384" :> {"bike1_l1_r1", "bike1_l1_r2", "bike_l1_r3"} @@
    "ECDHE-SIKE-RSA-AES256-GCM-SHA384" :> {"sike_p503_r1", "sike_p434_r3"} @@
    "ECDHE-KYBER-RSA-AES256-GCM-SHA384" :> {"kyber_512_r2", "kyber_512_90s_r2", "kyber_512_r3"}

KemGroup(curve, kem) == [curve |-> curve, kem |-> kem]

kem_group ==
    "secp256r1_sike_p434_r3" :> KemGroup("secp256r1", "sike_p434_r3") @@
    "secp256r1_bike1_l1_r2" :> KemGroup("secp256r1", "bike1_l1_r2") @@
    "secp256r1_kyber_512_r2" :> KemGroup("secp256r1", "kyber_512_r2") @@
    "secp256r1_bike_l1_r3" :> KemGroup("secp256r1", "bike_l1_r3") @@
    "secp256r1_kyber_512_r3" :> KemGroup("secp256r1", "kyber_512_r3") @@
    "x25519_sike_p434_r3" :> KemGroup("x25519", "sike_p434_r3") @@
    "x25519_bike1_l1_r2" :> KemGroup("x25519", "bike1_l1_r2") @@
    "x25519_kyber_512_r2" :> KemGroup("x25519", "kyber_512_r2") @@
    "x25519_bike_l1_r3" :> KemGroup("x25519", "bike_l1_r3") @@
    "x25519_kyber_512_r3" :> KemGroup("x25519", "kyber_512_r3")

kem_lists ==
    "r1" :> <<"bike1_l1_r1", "sike_p503_r1">> @@
    "r2r1" :> <<"bike1_l1_r2", "sike_p434_r3", "bike1_l1_r1", "sike_p503_r1">> @@
    "r2r1_2020_07" :>
      <<"kyber_512_r2", "bike1_l1_r2", "sike_p434_r3", "bike1_l1_r1",
        "sike_p503_r1">> @@
    "r3r2r1_2021_05" :>
      <<"kyber_512_r3", "bike_l1_r3", "kyber_512_r2", "bike1_l1_r2",
        "sike_p434_r3", "bike1_l1_r1", "sike_p503_r1">> @@
    "sike_r1" :> <<"sike_p503_r1">> @@
    "sike_r2r1" :> <<"sike_p434_r3", "sike_p503_r1">>

kem_groups ==
    "r2" :>
      <<"x25519_kyber_512_r2", "secp256r1_kyber_512_r2",
        "x25519_bike1_l1_r2", "secp256r1_bike1_l1_r2", "x25519_sike_p434_r3",
        "secp256r1_sike_p434_r3">> @@
    "r3r2" :>
      <<"x25519_kyber_512_r3", "secp256r1_kyber_512_r3", "x25519_bike_l1_r3",
        "secp256r1_bike_l1_r3", "x25519_kyber_512_r2",
        "secp256r1_kyber_512_r2", "x25519_bike1_l1_r2",
        "secp256r1_bike1_l1_r2", "x25519_sike_p434_r3",
        "secp256r1_sike_p434_r3">>

kem_preferences ==
    "kms_pq_tls_1_0_2019_06" :> [kems |-> kem_lists["r1"], groups |-> <<>>] @@
    "kms_pq_tls_1_0_2020_02" :> [kems |-> kem_lists["r2r1"], groups |-> <<>>] @@
    "kms_pq_tls_1_0_2020_07" :> [kems |-> kem_lists["r2r1_2020_07"], groups |-> <<>>] @@
    "pq_sike_test_tls_1_0_2019_11" :> [kems |-> kem_lists["sike_r1"], groups |-> <<>>] @@
    "pq_sike_test_tls_1_0_2020_02" :> [kems |-> kem_lists["sike_r2r1"], groups |-> <<>>] @@
    "pq_tls_1_0_2020_12" :> [kems |-> kem_lists["r2r1_2020_07"], groups |-> kem_groups["r2"]] @@
    "pq_tls_1_0_2021_05" :> [kems |-> kem_lists["r3r2r1_2021_05"], groups |-> kem_groups["r3r2"]] @@
    "null" :> [kems |-> <<>>, groups |-> <<>>]

-----------------------------------------------------------------------------
(* struct s2n_security_policy, by the names of its preferences.  A policy  *)
(* without certificate_signature_preferences puts no limit on the          *)
(* signatures of a certificate chain.                                      *)
FullPolicy(min, suites, kems, sigs, certSigs, curves) ==
    [min |-> min, suites |-> suites, kems |-> kems, sigs |-> sigs,
     certSigs |-> certSigs, curves |-> curves]
AnyCertSignature == "null"
Policy(min, suites, sigs, curves) ==
    FullPolicy(min, suites, "null", sigs, AnyCertSignature, curves)
PqPolicy(min, suites, kems, sigs, curves) ==
    FullPolicy(min, suites, kems, sigs, AnyCertSignature, curves)
CertPolicy(min, suites, sigs, certSigs, curves) ==
    FullPolicy(min, suites, "null", sigs, certSigs, curves)

DefaultPolicies ==
    "20170210" :> Policy(TLS10, "20170210", "20140601", "20140601") @@
    "20201110" :> CertPolicy(TLS10, "20190801", "20200207", "20201110", "20200310") @@
    "20190801" :> Policy(TLS10, "20190801", "20200207", "20200310") @@
    "20190802" :> Policy(TLS10, "20190801", "20200207", "20140601") @@
    "20170405" :> Policy(TLS10, "20170405", "20140601", "20140601") @@
    "20170405_gcm" :> Policy(TLS10, "20170405_gcm", "20140601", "20140601")

ElbPolicies ==
    "elb_2015_04" :> Policy(TLS10, "elb_2015_04", "20140601", "20140601") @@
    "elb_2016_08" :> Policy(TLS10, "elb_2016_08", "20140601", "20140601") @@
    "elb_tls_1_1_2017_01" :> Policy(TLS11, "elb_tls_1_1_2017_01", "20140601", "20140601") @@
    "elb_tls_1_2_2017_01" :> Policy(TLS12, "elb_tls_1_2_2017_01", "20140601", "20140601") @@
    "elb_tls_1_2_ext_2018_06" :> Policy(TLS12, "elb_tls_1_2_ext_2018_06", "20140601", "20140601") @@
    "elb_fs_2018_06" :> Policy(TLS10, "elb_fs_2018_06", "20140601", "20140601") @@
    "elb_fs_1_2_2019_08" :> Policy(TLS12, "elb_fs_1_2_2019_08", "20140601", "20140601") @@
    "elb_fs_1_1_2019_08" :> Policy(TLS11, "elb_fs_1_1_2019_08", "20140601", "20140601") @@
    "elb_fs_1_2_Res_2019_08" :> Policy(TLS12, "elb_fs_1_2_Res_2019_08", "20140601", "20140601")

CloudfrontPolicies ==
    "cloudfront_upstream" :> Policy(SSLv3, "cloudfront_upstream", "20140601", "20140601") @@
    "cloudfront_upstream_tls10" :>
        Policy(TLS10, "cloudfront_upstream_tls10", "20140601", "20140601") @@
    "cloudfront_upstream_tls11" :>
        Policy(TLS11, "cloudfront_upstream_tls11", "20140601", "20140601") @@
    "cloudfront_upstream_tls12" :>
        Policy(TLS12, "cloudfront_upstream_tls12", "20140601", "20140601") @@
    "cloudfront_ssl_v_3" :> Policy(SSLv3, "cloudfront_ssl_v_3", "20200207", "20200310") @@
    "cloudfront_tls_1_0_2014" :> Policy(TLS10, "cloudfront_tls_1_0_2014", "20200207", "20200310") @@
    "cloudfront_tls_1_0_2016" :> Policy(TLS10, "cloudfront_tls_1_0_2016", "20200207", "20200310") @@
    "cloudfront_tls_1_1_2016" :> Policy(TLS11, "cloudfront_tls_1_1_2016", "20200207", "20200310") @@
    "cloudfront_tls_1_2_2018" :> Policy(TLS12, "cloudfront_tls_1_2_2018", "20200207", "20200310") @@
    "cloudfront_tls_1_2_2019" :> Policy(TLS12, "cloudfront_tls_1_2_2019", "20200207", "20200310") @@
    "cloudfront_tls_1_2_2021" :> Policy(TLS12, "cloudfront_tls_1_2_2021", "20200207", "20200310") @@
    "cloudfront_ssl_v_3_legacy" :>
        Policy(SSLv3, "cloudfront_ssl_v_3_legacy", "20140601", "20140601") @@
    "cloudfront_tls_1_0_2014_legacy" :>
        Policy(TLS10, "cloudfront_tls_1_0_2014_legacy", "20140601", "20140601") @@
    "cloudfront_tls_1_0_2016_legacy" :>
        Policy(TLS10, "cloudfront_tls_1_0_2016_legacy", "20140601", "20140601") @@
    "cloudfront_tls_1_1_2016_legacy" :>
        Policy(TLS11, "cloudfront_tls_1_1_2016_legacy", "20140601", "20140601") @@
    "cloudfront_tls_1_2_2018_legacy" :>
        Policy(TLS12, "cloudfront_tls_1_2_2018_legacy", "20140601", "20140601") @@
    "cloudfront_tls_1_2_2019_legacy" :>
        Policy(TLS12, "cloudfront_tls_1_2_2019_legacy", "20140601", "20140601")

CrtPolicies ==
    "aws_crt_sdk_ssl_v3" :> Policy(SSLv3, "aws_crt_sdk_ssl_v3", "20200207", "20200310") @@
    "aws_crt_sdk_tls_10" :> Policy(TLS10, "aws_crt_sdk_default", "20200207", "20200310") @@
    "aws_crt_sdk_tls_11" :> Policy(TLS11, "aws_crt_sdk_default", "20200207", "20200310") @@
    "aws_crt_sdk_tls_12" :> Policy(TLS12, "aws_crt_sdk_default", "20200207", "20200310") @@
    "aws_crt_sdk_tls_13" :> Policy(TLS13, "aws_crt_sdk_tls_13", "20200207", "20200310")

KmsAndPqPolicies ==
    "kms_tls_1_0_2018_10" :> Policy(TLS10, "kms_tls_1_0_2018_10", "20140601", "20140601") @@
    "kms_pq_tls_1_0_2019_06" :>
        PqPolicy(TLS10, "kms_pq_tls_1_0_2019_06", "kms_pq_tls_1_0_2019_06",
                 "20140601", "20140601") @@
    "kms_pq_tls_1_0_2020_02" :>
        PqPolicy(TLS10, "kms_pq_tls_1_0_2019_06", "kms_pq_tls_1_0_2020_02",
                 "20140601", "20140601") @@
    "pq_sike_test_tls_1_0_2019_11" :>
        PqPolicy(TLS10, "pq_sike_test_tls_1_0_2019_11", "pq_sike_test_tls_1_0_2019_11",
                 "20140601", "20140601") @@
    "pq_sike_test_tls_1_0_2020_02" :>
        PqPolicy(TLS10, "pq_sike_test_tls_1_0_2019_11", "pq_sike_test_tls_1_0_2020_02",
                 "20140601", "20140601") @@
    "kms_pq_tls_1_0_2020_07" :>
        PqPolicy(TLS10, "kms_pq_tls_1_0_2020_07", "kms_pq_tls_1_0_2020_07",
                 "20140601", "20140601") @@
    "pq_tls_1_0_2020_12" :>
        PqPolicy(TLS10, "pq_tls_1_0_2020_12", "pq_tls_1_0_2020_12", "20200207", "20200310") @@
    "pq_tls_1_1_2021_05_17" :>
        PqPolicy(TLS11, "pq_tls_1_1_2021_05_17", "pq_tls_1_0_2021_05", "20140601", "20200310") @@
    "pq_tls_1_0_2021_05_18" :>
        PqPolicy(TLS10, "pq_tls_1_0_2021_05_18", "pq_tls_1_0_2021_05", "20140601", "20200310") @@
    "pq_tls_1_0_2021_05_19" :>
        PqPolicy(TLS10, "pq_tls_1_0_2021_05_19", "pq_tls_1_0_2021_05", "20140601", "20200310") @@
    "pq_tls_1_0_2021_05_20" :>
        PqPolicy(TLS10, "kms_pq_tls_1_0_2020_07", "pq_tls_1_0_2021_05", "20140601", "20200310") @@
    "pq_tls_1_1_2021_05_21" :>
        PqPolicy(TLS11, "pq_tls_1_1_2021_05_21", "pq_tls_1_0_2021_05", "20200207", "20200310") @@
    "pq_tls_1_0_2021_05_22" :>
        PqPolicy(TLS10, "pq_tls_1_0_2021_05_22", "pq_tls_1_0_2021_05", "20200207", "20200310") @@
    "pq_tls_1_0_2021_05_23" :>
        PqPolicy(TLS10, "pq_tls_1_0_2021_05_23", "pq_tls_1_0_2021_05", "20200207", "20200310") @@
    "pq_tls_1_0_2021_05_24" :>
        PqPolicy(TLS10, "pq_tls_1_0_2021_05_24", "pq_tls_1_0_2021_05", "20200207", "20200310") @@
    "pq_tls_1_0_2021_05_25" :>
        PqPolicy(TLS10, "pq_tls_1_0_2021_05_25", "pq_tls_1_0_2021_05", "20140601", "20200310") @@
    "pq_tls_1_0_2021_05_26" :>
        PqPolicy(TLS10, "pq_tls_1_0_2021_05_26", "pq_tls_1_0_2021_05", "20200207", "20200310") @@
    "kms_fips_tls_1_2_2018_10" :>
        Policy(TLS12, "kms_fips_tls_1_2_2018_10", "20140601", "20140601")

DatedPolicies ==
    "20140601" :> Policy(SSLv3, "20140601", "20140601", "20140601") @@
    "20141001" :> Policy(TLS10, "20140601", "20140601", "20140601") @@
    "20150202" :> Policy(TLS10, "20150202", "20140601", "20140601") @@
    "20150214" :> Policy(TLS10, "20150214", "20140601", "20140601") @@
    "20160411" :> Policy(TLS10, "20160411", "20140601", "20140601") @@
    "20150306" :> Policy(TLS10, "20150306", "20140601", "20140601") @@
    "20160804" :> Policy(TLS10, "20160804", "20140601", "20140601") @@
    "20160824" :> Policy(TLS10, "20160824", "20140601", "20140601") @@
    "20190122" :> Policy(TLS10, "20190122", "20140601", "20140601") @@
    "20190121" :> Policy(TLS10, "20190121", "20140601", "20140601") @@
    "20190120" :> Policy(TLS10, "20190120", "20140601", "20140601") @@
    "20190214" :> Policy(TLS10, "20190214", "20140601", "20140601") @@
    "20190214_gcm" :> Policy(TLS10, "20190214_gcm", "20140601", "20140601") @@
    "20170328" :> Policy(TLS10, "20170328", "20140601", "20140601") @@
    "20170328_gcm" :> Policy(TLS10, "20170328_gcm", "20140601", "20140601") @@
    "20170718" :> Policy(TLS10, "20170718", "20140601", "20140601") @@
    "20170718_gcm" :> Policy(TLS10, "20170718_gcm", "20140601", "20140601")

LaterPolicies ==
    "20201021" :> Policy(TLS10, "20190122", "20201021", "20201021") @@
    "20210816" :> Policy(TLS12, "20210816", "20210816", "20210816") @@
    "20210816_gcm" :> Policy(TLS12, "20210816_gcm", "20210816", "20210816")

TestPolicies ==
    "test_all" :> PqPolicy(SSLv3, "test_all", "kms_pq_tls_1_0_2020_07", "20201021", "test_all") @@
    "test_all_tls12" :>
        PqPolicy(SSLv3, "test_all_tls12", "kms_pq_tls_1_0_2020_07", "20201021", "20201021") @@
    "test_all_fips" :> Policy(TLS10, "test_all_fips", "20201021", "20201021") @@
    "test_all_ecdsa" :> Policy(TLS10, "test_all_ecdsa", "20201021", "test_all") @@
    "test_all_rsa_kex" :> Policy(TLS10, "test_all_rsa_kex", "20140601", "20140601") @@
    "test_all_tls13" :> Policy(SSLv3, "test_all_tls13", "20201021", "test_all") @@
    "test_ecdsa_priority" :> Policy(SSLv3, "test_ecdsa_priority", "20201021", "test_all") @@
    "null" :> Policy(TLS10, "null", "null", "null")

(* The preference lists that the names of a policy stand for. *)
WithLists(policies) ==
    [name \in DOMAIN policies |->
        LET p == policies[name]
        IN  [min |-> p.min, suites |-> cipher_preferences[p.suites],
             kems |-> kem_preferences[p.kems].kems, groups |-> kem_preferences[p.kems].groups,
             sigs |-> signature_preferences[p.sigs],
             certSigs |-> signature_preferences[p.certSigs],
             curves |-> ecc_preferences[p.curves]]]

security_policy ==
    WithLists(DefaultPolicies @@ ElbPolicies @@ CloudfrontPolicies @@ CrtPolicies @@
              KmsAndPqPolicies @@ DatedPolicies @@ LaterPolicies @@ TestPolicies)

(* A version string selects a policy: most dated ones and those of the     *)
(* tests are their own names.                                              *)
PolicyOfVersion ==
    "default" :> "20170210" @@
    "default_tls13" :> "20201110" @@
    "default_fips" :> "20170405" @@
    "ELBSecurityPolicy-TLS-1-0-2015-04" :> "elb_2015_04" @@
    "ELBSecurityPolicy-TLS-1-0-2015-05" :> "elb_2016_08" @@
    "ELBSecurityPolicy-2016-08" :> "elb_2016_08" @@
    "ELBSecurityPolicy-TLS-1-1-2017-01" :> "elb_tls_1_1_2017_01" @@
    "ELBSecurityPolicy-TLS-1-2-2017-01" :> "elb_tls_1_2_2017_01" @@
    "ELBSecurityPolicy-TLS-1-2-Ext-2018-06" :> "elb_tls_1_2_ext_2018_06" @@
    "ELBSecurityPolicy-FS-2018-06" :> "elb_fs_2018_06" @@
    "ELBSecurityPolicy-FS-1-2-2019-08" :> "elb_fs_1_2_2019_08" @@
    "ELBSecurityPolicy-FS-1-1-2019-08" :> "elb_fs_1_1_2019_08" @@
    "ELBSecurityPolicy-FS-1-2-Res-2019-08" :> "elb_fs_1_2_Res_2019_08" @@
    "CloudFront-Upstream" :> "cloudfront_upstream" @@
    "CloudFront-Upstream-TLS-1-0" :> "cloudfront_upstream_tls10" @@
    "CloudFront-Upstream-TLS-1-1" :> "cloudfront_upstream_tls11" @@
    "CloudFront-Upstream-TLS-1-2" :> "cloudfront_upstream_tls12" @@
    "CloudFront-SSL-v-3" :> "cloudfront_ssl_v_3" @@
    "CloudFront-TLS-1-0-2014" :> "cloudfront_tls_1_0_2014" @@
    "CloudFront-TLS-1-0-2016" :> "cloudfront_tls_1_0_2016" @@
    "CloudFront-TLS-1-1-2016" :> "cloudfront_tls_1_1_2016" @@
    "CloudFront-TLS-1-2-2018" :> "cloudfront_tls_1_2_2018" @@
    "CloudFront-TLS-1-2-2019" :> "cloudfront_tls_1_2_2019" @@
    "CloudFront-TLS-1-2-2021" :> "cloudfront_tls_1_2_2021" @@
    "CloudFront-SSL-v-3-Legacy" :> "cloudfront_ssl_v_3_legacy" @@
    "CloudFront-TLS-1-0-2014-Legacy" :> "cloudfront_tls_1_0_2014_legacy" @@
    "CloudFront-TLS-1-0-2016-Legacy" :> "cloudfront_tls_1_0_2016_legacy" @@
    "CloudFront-TLS-1-1-2016-Legacy" :> "cloudfront_tls_1_1_2016_legacy" @@
    "CloudFront-TLS-1-2-2018-Legacy" :> "cloudfront_tls_1_2_2018_legacy" @@
    "CloudFront-TLS-1-2-2019-Legacy" :> "cloudfront_tls_1_2_2019_legacy" @@
    "AWS-CRT-SDK-SSLv3.0" :> "aws_crt_sdk_ssl_v3" @@
    "AWS-CRT-SDK-TLSv1.0" :> "aws_crt_sdk_tls_10" @@
    "AWS-CRT-SDK-TLSv1.1" :> "aws_crt_sdk_tls_11" @@
    "AWS-CRT-SDK-TLSv1.2" :> "aws_crt_sdk_tls_12" @@
    "AWS-CRT-SDK-TLSv1.3" :> "aws_crt_sdk_tls_13" @@
    "KMS-TLS-1-0-2018-10" :> "kms_tls_1_0_2018_10" @@
    "KMS-PQ-TLS-1-0-2019-06" :> "kms_pq_tls_1_0_2019_06" @@
    "KMS-PQ-TLS-1-0-2020-02" :> "kms_pq_tls_1_0_2020_02" @@
    "KMS-PQ-TLS-1-0-2020-07" :> "kms_pq_tls_1_0_2020_07" @@
    "PQ-SIKE-TEST-TLS-1-0-2019-11" :> "pq_sike_test_tls_1_0_2019_11" @@
    "PQ-SIKE-TEST-TLS-1-0-2020-02" :> "pq_sike_test_tls_1_0_2020_02" @@
    "PQ-TLS-1-0-2020-12" :> "pq_tls_1_0_2020_12" @@
    "PQ-TLS-1-1-2021-05-17" :> "pq_tls_1_1_2021_05_17" @@
    "PQ-TLS-1-0-2021-05-18" :> "pq_tls_1_0_2021_05_18" @@
    "PQ-TLS-1-0-2021-05-19" :> "pq_tls_1_0_2021_05_19" @@
    "PQ-TLS-1-0-2021-05-20" :> "pq_tls_1_0_2021_05_20" @@
    "PQ-TLS-1-1-2021-05-21" :> "pq_tls_1_1_2021_05_21" @@
    "PQ-TLS-1-0-2021-05-22" :> "pq_tls_1_0_2021_05_22" @@
    "PQ-TLS-1-0-2021-05-23" :> "pq_tls_1_0_2021_05_23" @@
    "PQ-TLS-1-0-2021-05-24" :> "pq_tls_1_0_2021_05_24" @@
    "PQ-TLS-1-0-2021-05-25" :> "pq_tls_1_0_2021_05_25" @@
    "PQ-TLS-1-0-2021-05-26" :> "pq_tls_1_0_2021_05_26" @@
    "KMS-FIPS-TLS-1-2-2018-10" :> "kms_fips_tls_1_2_2018_10" @@
    "20200207" :> "test_all_tls13" @@
    "20210816_GCM" :> "20210816_gcm" @@
    [version \in {"20140601", "20141001", "20150202", "20150214", "20150306", "20160411",
                  "20160804", "20160824", "20170210", "20170328", "20170328_gcm", "20190214",
                  "20190214_gcm", "20170405", "20170405_gcm", "20170718", "20170718_gcm",
                  "20190120", "20190121", "20190122", "20190801", "20190802", "20201021",
                  "20210816", "test_all", "test_all_fips", "test_all_ecdsa",
                  "test_all_rsa_kex", "test_ecdsa_priority", "test_all_tls12",
                  "test_all_tls13", "null"} |-> version]

Selection(names, policies) == [version \in DOMAIN names |-> policies[names[version]]]
security_policy_selection == Selection(PolicyOfVersion, security_policy)

-----------------------------------------------------------------------------
(***************************************************************************)
(* What s2n_security_policies_init derives from each policy, and the       *)
(* checks it makes of the tables before the library can be used.           *)
(***************************************************************************)
s2n_security_policy_supports_tls13(p) ==
    \E i \in DOMAIN p.suites : cipher_suite[p.suites[i]].min >= TLS13
s2n_ecc_is_extension_required(p) ==
    \E i \in DOMAIN p.suites : s2n_cipher_suite_requires_ecc_extension(p.suites[i])
s2n_pq_kem_is_extension_required(p) ==
    \E i \in DOMAIN p.suites : s2n_cipher_suite_requires_pq_extension(p.suites[i])

(* 0x1301 .. 0x1305 *)
s2n_is_valid_tls13_cipher(name) == cipher_suite[name].iana \in 4865..4869

s2n_check_ecc_preferences_curves_list(p) ==
    ToSet(p.curves) \subseteq ToSet(s2n_all_supported_curves_list)
s2n_validate_kem_preferences(p) ==
    s2n_pq_kem_is_extension_required(p) <=> p.kems # <<>>
s2n_validate_certificate_signature_preferences(p) ==
    Len(SelectSeq(p.certSigs, LAMBDA s : signature_scheme[s].sig_alg
                                 \in {"RSA_PSS_RSAE", "RSA_PSS_PSS"})) \in {0, 6}

s2n_security_policies_init ==
    \A version \in DOMAIN security_policy_selection :
        LET p == security_policy_selection[version]
        IN  /\ s2n_check_ecc_preferences_curves_list(p)
            /\ s2n_validate_certificate_signature_preferences(p)
            /\ version # "null" => p.curves # <<>>
            /\ \A i \in DOMAIN p.suites : s2n_is_valid_tls13_cipher(p.suites[i])
                                          <=> cipher_suite[p.suites[i]].min >= TLS13
            /\ s2n_validate_kem_preferences(p)
=============================================================================
