------------------------- MODULE CipherPreferences -------------------------
(***************************************************************************)
(* The cipher suite preference lists (tls/s2n_cipher_preferences.c), most  *)
(* preferred first, by the names of their s2n_cipher_preferences.  Two of  *)
(* those that are made of the same list are one entry here.                *)
(***************************************************************************)
EXTENDS CipherSuites, TLC

TLS13_CIPHER_SUITES_20190801 ==
    <<"TLS_AES_256_GCM_SHA384", "TLS_AES_128_GCM_SHA256", "TLS_CHACHA20_POLY1305_SHA256">>
TLS13_CLOUDFRONT_CIPHER_SUITES_20200716 ==
    <<"TLS_AES_128_GCM_SHA256", "TLS_AES_256_GCM_SHA384", "TLS_CHACHA20_POLY1305_SHA256">>

DatedLists ==
    "20190801" :> TLS13_CIPHER_SUITES_20190801 \o
      <<"ECDHE-RSA-AES128-GCM-SHA256", "ECDHE-RSA-AES256-GCM-SHA384",
        "ECDHE-RSA-CHACHA20-POLY1305", "ECDHE-RSA-AES128-SHA",
        "ECDHE-RSA-AES128-SHA256", "ECDHE-RSA-AES256-SHA",
        "AES128-GCM-SHA256", "AES128-SHA256", "AES128-SHA">> @@
    "20140601" :>
      <<"DHE-RSA-AES128-SHA256", "DHE-RSA-AES128-SHA",
        "EDH-RSA-DES-CBC3-SHA", "AES128-SHA256", "AES128-SHA",
        "DES-CBC3-SHA", "RC4-SHA", "RC4-MD5">> @@
    "20150202" :>
      <<"DHE-RSA-AES128-SHA256", "DHE-RSA-AES128-SHA",
        "EDH-RSA-DES-CBC3-SHA", "AES128-SHA256", "AES128-SHA", "DES-CBC3-SHA">> @@
    "20150214" :>
      <<"DHE-RSA-AES128-GCM-SHA256", "DHE-RSA-AES128-SHA256",
        "DHE-RSA-AES128-SHA", "EDH-RSA-DES-CBC3-SHA", "AES128-GCM-SHA256",
        "AES128-SHA256", "AES128-SHA", "DES-CBC3-SHA">> @@
    "20160411" :>
      <<"ECDHE-RSA-AES128-SHA", "ECDHE-RSA-AES128-GCM-SHA256",
        "ECDHE-RSA-AES256-GCM-SHA384", "ECDHE-RSA-AES128-SHA256",
        "ECDHE-RSA-AES256-SHA", "ECDHE-RSA-AES256-SHA384", "AES128-SHA",
        "AES128-GCM-SHA256", "AES256-GCM-SHA384", "AES128-SHA256",
        "AES256-SHA", "AES256-SHA256", "DES-CBC3-SHA">> @@
    "20150306" :>
      <<"ECDHE-RSA-AES128-GCM-SHA256", "ECDHE-RSA-AES256-GCM-SHA384",
        "ECDHE-RSA-AES128-SHA", "ECDHE-RSA-AES128-SHA256",
        "ECDHE-RSA-DES-CBC3-SHA", "ECDHE-RSA-AES256-SHA",
        "AES128-GCM-SHA256", "AES128-SHA256", "AES128-SHA", "DES-CBC3-SHA">> @@
    "20160804" :>
      <<"ECDHE-RSA-AES128-GCM-SHA256", "ECDHE-RSA-AES256-GCM-SHA384",
        "ECDHE-RSA-AES128-SHA", "ECDHE-RSA-AES128-SHA256",
        "ECDHE-RSA-AES256-SHA", "ECDHE-RSA-AES256-SHA384",
        "AES128-GCM-SHA256", "AES256-GCM-SHA384", "AES128-SHA",
        "AES128-SHA256", "AES256-SHA", "AES256-SHA256", "DES-CBC3-SHA">> @@
    "20160824" :>
      <<"ECDHE-RSA-AES128-GCM-SHA256", "ECDHE-RSA-AES256-GCM-SHA384",
        "ECDHE-RSA-AES128-SHA", "ECDHE-RSA-AES128-SHA256",
        "ECDHE-RSA-AES256-SHA", "AES128-GCM-SHA256", "AES128-SHA256",
        "AES128-SHA">>

EcdheLists ==
    "20170210" :>
      <<"ECDHE-RSA-AES128-GCM-SHA256", "ECDHE-RSA-AES256-GCM-SHA384",
        "ECDHE-RSA-CHACHA20-POLY1305", "ECDHE-RSA-AES128-SHA",
        "ECDHE-RSA-AES128-SHA256", "ECDHE-RSA-AES256-SHA",
        "AES128-GCM-SHA256", "AES128-SHA256", "AES128-SHA">> @@
    "20190122" :>
      <<"ECDHE-RSA-CHACHA20-POLY1305", "ECDHE-RSA-AES128-SHA",
        "ECDHE-RSA-AES128-GCM-SHA256", "ECDHE-RSA-AES256-GCM-SHA384",
        "ECDHE-RSA-AES128-SHA256", "ECDHE-RSA-AES256-SHA",
        "ECDHE-RSA-AES256-SHA384", "AES128-SHA", "AES128-GCM-SHA256",
        "AES256-GCM-SHA384", "AES128-SHA256", "AES256-SHA", "AES256-SHA256",
        "DES-CBC3-SHA">> @@
    "20190121" :>
      <<"ECDHE-RSA-AES128-GCM-SHA256", "ECDHE-RSA-AES256-GCM-SHA384",
        "ECDHE-RSA-CHACHA20-POLY1305", "ECDHE-RSA-AES128-SHA",
        "ECDHE-RSA-AES128-SHA256", "ECDHE-RSA-AES256-SHA",
        "ECDHE-RSA-AES256-SHA384", "AES128-GCM-SHA256", "AES256-GCM-SHA384",
        "AES128-SHA", "AES128-SHA256", "AES256-SHA", "AES256-SHA256",
        "DES-CBC3-SHA">> @@
    "20190120" :>
      <<"ECDHE-RSA-AES128-SHA", "ECDHE-RSA-AES128-GCM-SHA256",
        "ECDHE-RSA-AES256-GCM-SHA384", "ECDHE-RSA-CHACHA20-POLY1305",
        "ECDHE-RSA-AES128-SHA256", "ECDHE-RSA-AES256-SHA",
        "ECDHE-RSA-AES256-SHA384", "AES128-SHA", "AES128-GCM-SHA256",
        "AES256-GCM-SHA384", "AES128-SHA256", "AES256-SHA", "AES256-SHA256",
        "DES-CBC3-SHA">> @@
    "20190214" :>
      <<"ECDHE-ECDSA-AES128-SHA", "ECDHE-RSA-AES128-SHA",
        "ECDHE-ECDSA-AES128-GCM-SHA256", "ECDHE-RSA-AES128-GCM-SHA256",
        "ECDHE-ECDSA-AES256-GCM-SHA384", "ECDHE-RSA-AES256-GCM-SHA384",
        "ECDHE-ECDSA-AES128-SHA256", "ECDHE-RSA-AES128-SHA256",
        "ECDHE-ECDSA-AES256-SHA", "ECDHE-RSA-AES256-SHA",
        "ECDHE-ECDSA-AES256-SHA384", "ECDHE-RSA-AES256-SHA384", "AES128-SHA",
        "AES128-GCM-SHA256", "AES256-GCM-SHA384", "AES128-SHA256",
        "AES256-SHA", "AES256-SHA256", "DES-CBC3-SHA", "DHE-RSA-AES128-SHA",
        "DHE-RSA-AES128-GCM-SHA256", "DHE-RSA-AES256-GCM-SHA384",
        "DHE-RSA-AES128-SHA256", "DHE-RSA-AES256-SHA",
        "DHE-RSA-AES256-SHA256">>

GcmLists ==
    "20190214_gcm" :>
      <<"ECDHE-ECDSA-AES128-GCM-SHA256", "ECDHE-RSA-AES128-GCM-SHA256",
        "ECDHE-ECDSA-AES256-GCM-SHA384", "ECDHE-RSA-AES256-GCM-SHA384",
        "ECDHE-ECDSA-AES128-SHA", "ECDHE-RSA-AES128-SHA",
        "ECDHE-ECDSA-AES128-SHA256", "ECDHE-RSA-AES128-SHA256",
        "ECDHE-ECDSA-AES256-SHA", "ECDHE-RSA-AES256-SHA",
        "ECDHE-ECDSA-AES256-SHA384", "ECDHE-RSA-AES256-SHA384",
        "AES128-GCM-SHA256", "AES256-GCM-SHA384", "AES128-SHA",
        "AES128-SHA256", "AES256-SHA", "AES256-SHA256", "DES-CBC3-SHA",
        "DHE-RSA-AES128-GCM-SHA256", "DHE-RSA-AES256-GCM-SHA384",
        "DHE-RSA-AES128-SHA", "DHE-RSA-AES128-SHA256", "DHE-RSA-AES256-SHA",
        "DHE-RSA-AES256-SHA256">> @@
    "null" :> <<"TLS_NULL_WITH_NULL_NULL">> @@
    "20170328" :>
      <<"ECDHE-RSA-AES128-SHA", "ECDHE-RSA-AES128-GCM-SHA256",
        "ECDHE-RSA-AES256-GCM-SHA384", "ECDHE-RSA-AES128-SHA256",
        "ECDHE-RSA-AES256-SHA", "ECDHE-RSA-AES256-SHA384", "AES128-SHA",
        "AES128-GCM-SHA256", "AES256-GCM-SHA384", "AES128-SHA256",
        "AES256-SHA", "AES256-SHA256", "DES-CBC3-SHA", "DHE-RSA-AES128-SHA",
        "DHE-RSA-AES128-GCM-SHA256", "DHE-RSA-AES256-GCM-SHA384",
        "DHE-RSA-AES128-SHA256", "DHE-RSA-AES256-SHA",
        "DHE-RSA-AES256-SHA256">> @@
    "20170328_gcm" :>
      <<"ECDHE-RSA-AES128-GCM-SHA256", "ECDHE-RSA-AES256-GCM-SHA384",
        "ECDHE-RSA-AES128-SHA", "ECDHE-RSA-AES128-SHA256",
        "ECDHE-RSA-AES256-SHA", "ECDHE-RSA-AES256-SHA384",
        "AES128-GCM-SHA256", "AES256-GCM-SHA384", "AES128-SHA",
        "AES128-SHA256", "AES256-SHA", "AES256-SHA256", "DES-CBC3-SHA",
        "DHE-RSA-AES128-GCM-SHA256", "DHE-RSA-AES256-GCM-SHA384",
        "DHE-RSA-AES128-SHA", "DHE-RSA-AES128-SHA256", "DHE-RSA-AES256-SHA",
        "DHE-RSA-AES256-SHA256">> @@
    "20170405" :>
      <<"ECDHE-RSA-AES128-SHA256", "ECDHE-RSA-AES256-SHA384",
        "ECDHE-RSA-AES128-GCM-SHA256", "ECDHE-RSA-AES256-GCM-SHA384",
        "AES128-SHA", "AES128-GCM-SHA256", "AES256-GCM-SHA384",
        "AES128-SHA256", "AES256-SHA", "AES256-SHA256", "DES-CBC3-SHA">> @@
    "20170405_gcm" :>
      <<"ECDHE-RSA-AES128-GCM-SHA256", "ECDHE-RSA-AES256-GCM-SHA384",
        "ECDHE-RSA-AES128-SHA256", "ECDHE-RSA-AES256-SHA384",
        "AES128-GCM-SHA256", "AES256-GCM-SHA384", "AES128-SHA",
        "AES128-SHA256", "AES256-SHA", "AES256-SHA256", "DES-CBC3-SHA">>

FipsLists ==
    "20170718" :>
      <<"ECDHE-RSA-AES128-SHA", "ECDHE-RSA-AES128-GCM-SHA256",
        "ECDHE-RSA-AES256-GCM-SHA384", "ECDHE-RSA-AES128-SHA256",
        "ECDHE-RSA-AES256-SHA", "ECDHE-RSA-AES256-SHA384", "AES128-SHA",
        "AES128-GCM-SHA256", "AES256-GCM-SHA384", "AES128-SHA256",
        "AES256-SHA", "AES256-SHA256">> @@
    "20170718_gcm" :>
      <<"ECDHE-RSA-AES128-GCM-SHA256", "ECDHE-RSA-AES256-GCM-SHA384",
        "ECDHE-RSA-AES128-SHA", "ECDHE-RSA-AES128-SHA256",
        "ECDHE-RSA-AES256-SHA", "ECDHE-RSA-AES256-SHA384",
        "AES128-GCM-SHA256", "AES256-GCM-SHA384", "AES128-SHA",
        "AES128-SHA256", "AES256-SHA", "AES256-SHA256">>

ElbLists ==
    "elb_2015_04" :>
      <<"ECDHE-ECDSA-AES128-GCM-SHA256", "ECDHE-RSA-AES128-GCM-SHA256",
        "ECDHE-ECDSA-AES128-SHA256", "ECDHE-RSA-AES128-SHA256",
        "ECDHE-ECDSA-AES128-SHA", "ECDHE-RSA-AES128-SHA",
        "ECDHE-ECDSA-AES256-GCM-SHA384", "ECDHE-RSA-AES256-GCM-SHA384",
        "ECDHE-ECDSA-AES256-SHA384", "ECDHE-RSA-AES256-SHA384",
        "ECDHE-RSA-AES256-SHA", "ECDHE-ECDSA-AES256-SHA",
        "AES128-GCM-SHA256", "AES128-SHA256", "AES128-SHA",
        "AES256-GCM-SHA384", "AES256-SHA256", "AES256-SHA", "DES-CBC3-SHA">> @@
    "elb_2016_08" :>
      <<"ECDHE-ECDSA-AES128-GCM-SHA256", "ECDHE-RSA-AES128-GCM-SHA256",
        "ECDHE-ECDSA-AES128-SHA256", "ECDHE-RSA-AES128-SHA256",
        "ECDHE-ECDSA-AES128-SHA", "ECDHE-RSA-AES128-SHA",
        "ECDHE-ECDSA-AES256-GCM-SHA384", "ECDHE-RSA-AES256-GCM-SHA384",
        "ECDHE-ECDSA-AES256-SHA384", "ECDHE-RSA-AES256-SHA384",
        "ECDHE-RSA-AES256-SHA", "ECDHE-ECDSA-AES256-SHA",
        "AES128-GCM-SHA256", "AES128-SHA256", "AES128-SHA",
        "AES256-GCM-SHA384", "AES256-SHA256", "AES256-SHA">> @@
    "elb_tls_1_2_2017_01" :>
      <<"ECDHE-ECDSA-AES128-GCM-SHA256", "ECDHE-RSA-AES128-GCM-SHA256",
        "ECDHE-ECDSA-AES128-SHA256", "ECDHE-RSA-AES128-SHA256",
        "ECDHE-ECDSA-AES256-GCM-SHA384", "ECDHE-RSA-AES256-GCM-SHA384",
        "ECDHE-ECDSA-AES256-SHA384", "ECDHE-RSA-AES256-SHA384",
        "AES128-GCM-SHA256", "AES128-SHA256", "AES256-GCM-SHA384",
        "AES256-SHA256">> @@
    "elb_tls_1_1_2017_01" :>
      <<"ECDHE-ECDSA-AES128-GCM-SHA256", "ECDHE-RSA-AES128-GCM-SHA256",
        "ECDHE-ECDSA-AES128-SHA256", "ECDHE-RSA-AES128-SHA256",
        "ECDHE-ECDSA-AES128-SHA", "ECDHE-RSA-AES128-SHA",
        "ECDHE-ECDSA-AES256-GCM-SHA384", "ECDHE-RSA-AES256-GCM-SHA384",
        "ECDHE-ECDSA-AES256-SHA384", "ECDHE-RSA-AES256-SHA384",
        "ECDHE-RSA-AES256-SHA", "ECDHE-ECDSA-AES256-SHA",
        "AES128-GCM-SHA256", "AES128-SHA256", "AES128-SHA",
        "AES256-GCM-SHA384", "AES256-SHA256", "AES256-SHA">> @@
    "elb_tls_1_2_ext_2018_06" :>
      <<"ECDHE-ECDSA-AES128-GCM-SHA256", "ECDHE-RSA-AES128-GCM-SHA256",
        "ECDHE-ECDSA-AES128-SHA256", "ECDHE-RSA-AES128-SHA256",
        "ECDHE-ECDSA-AES128-SHA", "ECDHE-RSA-AES128-SHA",
        "ECDHE-ECDSA-AES256-GCM-SHA384", "ECDHE-RSA-AES256-GCM-SHA384",
        "ECDHE-ECDSA-AES256-SHA384", "ECDHE-RSA-AES256-SHA384",
        "ECDHE-RSA-AES256-SHA", "ECDHE-ECDSA-AES256-SHA",
        "AES128-GCM-SHA256", "AES128-SHA256", "AES128-SHA",
        "AES256-GCM-SHA384", "AES256-SHA256", "AES256-SHA">> @@
    "elb_fs_2018_06" :>
      <<"ECDHE-ECDSA-AES128-GCM-SHA256", "ECDHE-RSA-AES128-GCM-SHA256",
        "ECDHE-ECDSA-AES128-SHA256", "ECDHE-RSA-AES128-SHA256",
        "ECDHE-ECDSA-AES128-SHA", "ECDHE-RSA-AES128-SHA",
        "ECDHE-ECDSA-AES256-GCM-SHA384", "ECDHE-RSA-AES256-GCM-SHA384",
        "ECDHE-ECDSA-AES256-SHA384", "ECDHE-RSA-AES256-SHA384",
        "ECDHE-RSA-AES256-SHA", "ECDHE-ECDSA-AES256-SHA">>

ElbForwardSecretLists ==
    "elb_fs_1_2_2019_08" :>
      <<"ECDHE-ECDSA-AES128-GCM-SHA256", "ECDHE-RSA-AES128-GCM-SHA256",
        "ECDHE-ECDSA-AES128-SHA256", "ECDHE-RSA-AES128-SHA256",
        "ECDHE-ECDSA-AES128-SHA", "ECDHE-RSA-AES128-SHA",
        "ECDHE-ECDSA-AES256-GCM-SHA384", "ECDHE-RSA-AES256-GCM-SHA384",
        "ECDHE-ECDSA-AES256-SHA384", "ECDHE-RSA-AES256-SHA384",
        "ECDHE-RSA-AES256-SHA", "ECDHE-ECDSA-AES256-SHA">> @@
    "elb_fs_1_1_2019_08" :>
      <<"ECDHE-ECDSA-AES128-GCM-SHA256", "ECDHE-RSA-AES128-GCM-SHA256",
        "ECDHE-ECDSA-AES128-SHA256", "ECDHE-RSA-AES128-SHA256",
        "ECDHE-ECDSA-AES128-SHA", "ECDHE-RSA-AES128-SHA",
        "ECDHE-ECDSA-AES256-GCM-SHA384", "ECDHE-RSA-AES256-GCM-SHA384",
        "ECDHE-ECDSA-AES256-SHA384", "ECDHE-RSA-AES256-SHA384",
        "ECDHE-RSA-AES256-SHA", "ECDHE-ECDSA-AES256-SHA">> @@
    "elb_fs_1_2_Res_2019_08" :>
      <<"ECDHE-ECDSA-AES128-GCM-SHA256", "ECDHE-RSA-AES128-GCM-SHA256",
        "ECDHE-ECDSA-AES128-SHA256", "ECDHE-RSA-AES128-SHA256",
        "ECDHE-ECDSA-AES256-GCM-SHA384", "ECDHE-RSA-AES256-GCM-SHA384",
        "ECDHE-ECDSA-AES256-SHA384", "ECDHE-RSA-AES256-SHA384">>

CloudfrontLists ==
    "cloudfront_upstream" :>
      <<"ECDHE-ECDSA-AES256-GCM-SHA384", "ECDHE-RSA-AES256-GCM-SHA384",
        "ECDHE-ECDSA-AES128-GCM-SHA256", "ECDHE-RSA-AES128-GCM-SHA256",
        "ECDHE-ECDSA-AES256-SHA384", "ECDHE-RSA-AES256-SHA384",
        "ECDHE-ECDSA-AES256-SHA", "ECDHE-RSA-AES256-SHA",
        "ECDHE-ECDSA-AES128-SHA256", "ECDHE-RSA-AES128-SHA256",
        "ECDHE-ECDSA-AES128-SHA", "ECDHE-RSA-AES128-SHA",
        "AES256-GCM-SHA384", "AES128-GCM-SHA256", "AES256-SHA",
        "AES128-SHA256", "AES128-SHA", "DES-CBC3-SHA", "RC4-MD5">> @@
    "cloudfront_ssl_v_3" :> TLS13_CLOUDFRONT_CIPHER_SUITES_20200716 \o
      <<"ECDHE-RSA-AES128-GCM-SHA256", "ECDHE-RSA-AES128-SHA256",
        "ECDHE-RSA-AES128-SHA", "ECDHE-RSA-AES256-GCM-SHA384",
        "ECDHE-RSA-CHACHA20-POLY1305", "ECDHE-RSA-AES256-SHA384",
        "ECDHE-RSA-AES256-SHA", "AES128-GCM-SHA256", "AES256-GCM-SHA384",
        "AES128-SHA256", "AES256-SHA", "AES128-SHA", "DES-CBC3-SHA",
        "RC4-MD5">> @@
    "cloudfront_tls_1_0_2014" :> TLS13_CLOUDFRONT_CIPHER_SUITES_20200716 \o
      <<"ECDHE-ECDSA-AES128-GCM-SHA256", "ECDHE-RSA-AES128-GCM-SHA256",
        "ECDHE-ECDSA-AES128-SHA256", "ECDHE-RSA-AES128-SHA256",
        "ECDHE-ECDSA-AES128-SHA", "ECDHE-RSA-AES128-SHA",
        "ECDHE-ECDSA-AES256-GCM-SHA384", "ECDHE-RSA-AES256-GCM-SHA384",
        "ECDHE-ECDSA-CHACHA20-POLY1305", "ECDHE-RSA-CHACHA20-POLY1305",
        "ECDHE-ECDSA-AES256-SHA384", "ECDHE-RSA-AES256-SHA384",
        "ECDHE-ECDSA-AES256-SHA", "ECDHE-RSA-AES256-SHA",
        "AES128-GCM-SHA256", "AES256-GCM-SHA384", "AES128-SHA256",
        "AES256-SHA", "AES128-SHA", "DES-CBC3-SHA">> @@
    "cloudfront_tls_1_0_2016" :> TLS13_CLOUDFRONT_CIPHER_SUITES_20200716 \o
      <<"ECDHE-ECDSA-AES128-GCM-SHA256", "ECDHE-RSA-AES128-GCM-SHA256",
        "ECDHE-ECDSA-AES128-SHA256", "ECDHE-RSA-AES128-SHA256",
        "ECDHE-ECDSA-AES128-SHA", "ECDHE-RSA-AES128-SHA",
        "ECDHE-ECDSA-AES256-GCM-SHA384", "ECDHE-RSA-AES256-GCM-SHA384",
        "ECDHE-ECDSA-CHACHA20-POLY1305", "ECDHE-RSA-CHACHA20-POLY1305",
        "ECDHE-ECDSA-AES256-SHA384", "ECDHE-RSA-AES256-SHA384",
        "ECDHE-ECDSA-AES256-SHA", "ECDHE-RSA-AES256-SHA",
        "AES128-GCM-SHA256", "AES256-GCM-SHA384", "AES128-SHA256",
        "AES256-SHA", "AES128-SHA">> @@
    "cloudfront_tls_1_1_2016" :> TLS13_CLOUDFRONT_CIPHER_SUITES_20200716 \o
      <<"ECDHE-ECDSA-AES128-GCM-SHA256", "ECDHE-RSA-AES128-GCM-SHA256",
        "ECDHE-ECDSA-AES128-SHA256", "ECDHE-RSA-AES128-SHA256",
        "ECDHE-ECDSA-AES128-SHA", "ECDHE-RSA-AES128-SHA",
        "ECDHE-ECDSA-AES256-GCM-SHA384", "ECDHE-RSA-AES256-GCM-SHA384",
        "ECDHE-ECDSA-CHACHA20-POLY1305", "ECDHE-RSA-CHACHA20-POLY1305",
        "ECDHE-ECDSA-AES256-SHA384", "ECDHE-RSA-AES256-SHA384",
        "ECDHE-ECDSA-AES256-SHA", "ECDHE-RSA-AES256-SHA",
        "AES128-GCM-SHA256", "AES256-GCM-SHA384", "AES128-SHA256",
        "AES256-SHA", "AES128-SHA">>

CloudfrontLegacyLists ==
    "cloudfront_tls_1_2_2018" :> TLS13_CLOUDFRONT_CIPHER_SUITES_20200716 \o
      <<"ECDHE-ECDSA-AES128-GCM-SHA256", "ECDHE-RSA-AES128-GCM-SHA256",
        "ECDHE-ECDSA-AES128-SHA256", "ECDHE-RSA-AES128-SHA256",
        "ECDHE-ECDSA-AES256-GCM-SHA384", "ECDHE-RSA-AES256-GCM-SHA384",
        "ECDHE-ECDSA-CHACHA20-POLY1305", "ECDHE-RSA-CHACHA20-POLY1305",
        "ECDHE-ECDSA-AES256-SHA384", "ECDHE-RSA-AES256-SHA384",
        "AES128-GCM-SHA256", "AES256-GCM-SHA384", "AES128-SHA256">> @@
    "cloudfront_ssl_v_3_legacy" :>
      <<"ECDHE-ECDSA-AES128-GCM-SHA256", "ECDHE-RSA-AES128-GCM-SHA256",
        "ECDHE-ECDSA-AES128-SHA256", "ECDHE-RSA-AES128-SHA256",
        "ECDHE-ECDSA-AES128-SHA", "ECDHE-RSA-AES128-SHA",
        "ECDHE-ECDSA-AES256-GCM-SHA384", "ECDHE-RSA-AES256-GCM-SHA384",
        "ECDHE-ECDSA-AES256-SHA384", "ECDHE-RSA-AES256-SHA384",
        "ECDHE-ECDSA-AES256-SHA", "ECDHE-RSA-AES256-SHA",
        "AES128-GCM-SHA256", "AES256-GCM-SHA384", "AES128-SHA256",
        "AES256-SHA", "AES128-SHA", "DES-CBC3-SHA", "RC4-MD5">> @@
    "cloudfront_tls_1_0_2014_legacy" :>
      <<"ECDHE-ECDSA-AES128-GCM-SHA256", "ECDHE-RSA-AES128-GCM-SHA256",
        "ECDHE-ECDSA-AES128-SHA256", "ECDHE-RSA-AES128-SHA256",
        "ECDHE-ECDSA-AES128-SHA", "ECDHE-RSA-AES128-SHA",
        "ECDHE-ECDSA-AES256-GCM-SHA384", "ECDHE-RSA-AES256-GCM-SHA384",
        "ECDHE-ECDSA-AES256-SHA384", "ECDHE-RSA-AES256-SHA384",
        "ECDHE-ECDSA-AES256-SHA", "ECDHE-RSA-AES256-SHA",
        "AES128-GCM-SHA256", "AES256-GCM-SHA384", "AES128-SHA256",
        "AES256-SHA", "AES128-SHA", "DES-CBC3-SHA">> @@
    "cloudfront_tls_1_0_2016_legacy" :>
      <<"ECDHE-ECDSA-AES128-GCM-SHA256", "ECDHE-RSA-AES128-GCM-SHA256",
        "ECDHE-ECDSA-AES128-SHA256", "ECDHE-RSA-AES128-SHA256",
        "ECDHE-ECDSA-AES128-SHA", "ECDHE-RSA-AES128-SHA",
        "ECDHE-ECDSA-AES256-GCM-SHA384", "ECDHE-RSA-AES256-GCM-SHA384",
        "ECDHE-ECDSA-AES256-SHA384", "ECDHE-RSA-AES256-SHA384",
        "ECDHE-ECDSA-AES256-SHA", "ECDHE-RSA-AES256-SHA",
        "AES128-GCM-SHA256", "AES256-GCM-SHA384", "AES128-SHA256",
        "AES256-SHA", "AES128-SHA">> @@
    "cloudfront_tls_1_1_2016_legacy" :>
      <<"ECDHE-ECDSA-AES128-GCM-SHA256", "ECDHE-RSA-AES128-GCM-SHA256",
        "ECDHE-ECDSA-AES128-SHA256", "ECDHE-RSA-AES128-SHA256",
        "ECDHE-ECDSA-AES128-SHA", "ECDHE-RSA-AES128-SHA",
        "ECDHE-ECDSA-AES256-GCM-SHA384", "ECDHE-RSA-AES256-GCM-SHA384",
        "ECDHE-ECDSA-AES256-SHA384", "ECDHE-RSA-AES256-SHA384",
        "ECDHE-ECDSA-AES256-SHA", "ECDHE-RSA-AES256-SHA",
        "AES128-GCM-SHA256", "AES256-GCM-SHA384", "AES128-SHA256",
        "AES256-SHA", "AES128-SHA">> @@
    "cloudfront_tls_1_2_2018_legacy" :>
      <<"ECDHE-ECDSA-AES128-GCM-SHA256", "ECDHE-RSA-AES128-GCM-SHA256",
        "ECDHE-ECDSA-AES128-SHA256", "ECDHE-RSA-AES128-SHA256",
        "ECDHE-ECDSA-AES256-GCM-SHA384", "ECDHE-RSA-AES256-GCM-SHA384",
        "ECDHE-ECDSA-AES256-SHA384", "ECDHE-RSA-AES256-SHA384",
        "AES128-GCM-SHA256", "AES256-GCM-SHA384", "AES128-SHA256">>

CloudfrontUpstreamLists ==
    "cloudfront_tls_1_2_2019_legacy" :>
      <<"ECDHE-ECDSA-AES128-GCM-SHA256", "ECDHE-RSA-AES128-GCM-SHA256",
        "ECDHE-ECDSA-AES256-GCM-SHA384", "ECDHE-RSA-AES256-GCM-SHA384",
        "ECDHE-ECDSA-AES256-SHA384", "ECDHE-RSA-AES256-SHA384",
        "ECDHE-ECDSA-AES128-SHA256", "ECDHE-RSA-AES128-SHA256">> @@
    "cloudfront_upstream_tls10" :>
      <<"ECDHE-ECDSA-AES256-GCM-SHA384", "ECDHE-RSA-AES256-GCM-SHA384",
        "ECDHE-ECDSA-AES128-GCM-SHA256", "ECDHE-RSA-AES128-GCM-SHA256",
        "ECDHE-ECDSA-AES256-SHA384", "ECDHE-RSA-AES256-SHA384",
        "ECDHE-ECDSA-AES256-SHA", "ECDHE-RSA-AES256-SHA",
        "ECDHE-ECDSA-AES128-SHA256", "ECDHE-RSA-AES128-SHA256",
        "ECDHE-ECDSA-AES128-SHA", "ECDHE-RSA-AES128-SHA",
        "AES256-GCM-SHA384", "AES128-GCM-SHA256", "AES256-SHA",
        "AES128-SHA256", "AES128-SHA", "DES-CBC3-SHA", "RC4-MD5">> @@
    "cloudfront_upstream_tls11" :>
      <<"ECDHE-ECDSA-AES256-GCM-SHA384", "ECDHE-RSA-AES256-GCM-SHA384",
        "ECDHE-ECDSA-AES128-GCM-SHA256", "ECDHE-RSA-AES128-GCM-SHA256",
        "ECDHE-ECDSA-AES256-SHA384", "ECDHE-RSA-AES256-SHA384",
        "ECDHE-ECDSA-AES256-SHA", "ECDHE-RSA-AES256-SHA",
        "ECDHE-ECDSA-AES128-SHA256", "ECDHE-RSA-AES128-SHA256",
        "ECDHE-ECDSA-AES128-SHA", "ECDHE-RSA-AES128-SHA",
        "AES256-GCM-SHA384", "AES128-GCM-SHA256", "AES256-SHA",
        "AES128-SHA256", "AES128-SHA", "DES-CBC3-SHA", "RC4-MD5">> @@
    "cloudfront_upstream_tls12" :>
      <<"ECDHE-ECDSA-AES256-GCM-SHA384", "ECDHE-RSA-AES256-GCM-SHA384",
        "ECDHE-ECDSA-AES128-GCM-SHA256", "ECDHE-RSA-AES128-GCM-SHA256",
        "ECDHE-ECDSA-AES256-SHA384", "ECDHE-RSA-AES256-SHA384",
        "ECDHE-ECDSA-AES256-SHA", "ECDHE-RSA-AES256-SHA",
        "ECDHE-ECDSA-AES128-SHA256", "ECDHE-RSA-AES128-SHA256",
        "ECDHE-ECDSA-AES128-SHA", "ECDHE-RSA-AES128-SHA",
        "AES256-GCM-SHA384", "AES128-GCM-SHA256", "AES256-SHA",
        "AES128-SHA256", "AES128-SHA", "DES-CBC3-SHA", "RC4-MD5">> @@
    "cloudfront_tls_1_2_2019" :> TLS13_CLOUDFRONT_CIPHER_SUITES_20200716 \o
      <<"ECDHE-ECDSA-AES128-GCM-SHA256", "ECDHE-RSA-AES128-GCM-SHA256",
        "ECDHE-ECDSA-AES256-GCM-SHA384", "ECDHE-RSA-AES256-GCM-SHA384",
        "ECDHE-ECDSA-CHACHA20-POLY1305", "ECDHE-RSA-CHACHA20-POLY1305",
        "ECDHE-ECDSA-AES256-SHA384", "ECDHE-RSA-AES256-SHA384",
        "ECDHE-ECDSA-AES128-SHA256", "ECDHE-RSA-AES128-SHA256">> @@
    "cloudfront_tls_1_2_2021" :> TLS13_CLOUDFRONT_CIPHER_SUITES_20200716 \o
      <<"ECDHE-ECDSA-AES128-GCM-SHA256", "ECDHE-RSA-AES128-GCM-SHA256",
        "ECDHE-ECDSA-AES256-GCM-SHA384", "ECDHE-RSA-AES256-GCM-SHA384",
        "ECDHE-ECDSA-CHACHA20-POLY1305", "ECDHE-RSA-CHACHA20-POLY1305">>

CrtLists ==
    "aws_crt_sdk_ssl_v3" :> TLS13_CLOUDFRONT_CIPHER_SUITES_20200716 \o
      <<"ECDHE-ECDSA-AES128-GCM-SHA256", "ECDHE-RSA-AES128-GCM-SHA256",
        "ECDHE-ECDSA-AES256-GCM-SHA384", "ECDHE-RSA-AES256-GCM-SHA384",
        "ECDHE-ECDSA-CHACHA20-POLY1305", "ECDHE-RSA-CHACHA20-POLY1305",
        "ECDHE-ECDSA-AES128-SHA256", "ECDHE-RSA-AES128-SHA256",
        "ECDHE-ECDSA-AES256-SHA384", "ECDHE-RSA-AES256-SHA384",
        "ECDHE-ECDSA-AES128-SHA", "ECDHE-RSA-AES128-SHA",
        "ECDHE-ECDSA-AES256-SHA", "ECDHE-RSA-AES256-SHA",
        "AES128-GCM-SHA256", "AES256-GCM-SHA384", "AES128-SHA256",
        "AES256-SHA256", "AES128-SHA", "AES256-SHA", "DES-CBC3-SHA",
        "RC4-MD5">> @@
    "aws_crt_sdk_default" :> TLS13_CLOUDFRONT_CIPHER_SUITES_20200716 \o
      <<"ECDHE-ECDSA-AES128-GCM-SHA256", "ECDHE-RSA-AES128-GCM-SHA256",
        "ECDHE-ECDSA-AES256-GCM-SHA384", "ECDHE-RSA-AES256-GCM-SHA384",
        "ECDHE-ECDSA-CHACHA20-POLY1305", "ECDHE-RSA-CHACHA20-POLY1305",
        "ECDHE-ECDSA-AES128-SHA256", "ECDHE-RSA-AES128-SHA256",
        "ECDHE-ECDSA-AES256-SHA384", "ECDHE-RSA-AES256-SHA384",
        "ECDHE-ECDSA-AES128-SHA", "ECDHE-RSA-AES128-SHA",
        "ECDHE-ECDSA-AES256-SHA", "ECDHE-RSA-AES256-SHA",
        "AES128-GCM-SHA256", "AES256-GCM-SHA384", "AES128-SHA256",
        "AES256-SHA256", "AES128-SHA", "AES256-SHA">> @@
    "aws_crt_sdk_tls_13" :> TLS13_CLOUDFRONT_CIPHER_SUITES_20200716 \o
      <<>>

KmsLists ==
    "kms_tls_1_0_2018_10" :>
      <<"ECDHE-RSA-AES256-GCM-SHA384", "ECDHE-RSA-AES128-GCM-SHA256",
        "ECDHE-RSA-AES256-SHA384", "ECDHE-RSA-AES256-SHA",
        "ECDHE-RSA-AES128-SHA256", "ECDHE-RSA-DES-CBC3-SHA",
        "DHE-RSA-AES256-SHA256", "DHE-RSA-AES128-SHA256",
        "DHE-RSA-AES256-SHA", "DHE-RSA-AES128-SHA">> @@
    "kms_pq_tls_1_0_2019_06" :>
      <<"ECDHE-BIKE-RSA-AES256-GCM-SHA384",
        "ECDHE-SIKE-RSA-AES256-GCM-SHA384", "ECDHE-RSA-AES256-GCM-SHA384",
        "ECDHE-RSA-AES128-GCM-SHA256", "ECDHE-RSA-AES256-SHA384",
        "ECDHE-RSA-AES256-SHA", "ECDHE-RSA-AES128-SHA256",
        "ECDHE-RSA-DES-CBC3-SHA", "DHE-RSA-AES256-SHA256",
        "DHE-RSA-AES128-SHA256", "DHE-RSA-AES256-SHA", "DHE-RSA-AES128-SHA">> @@
    "pq_sike_test_tls_1_0_2019_11" :>
      <<"ECDHE-SIKE-RSA-AES256-GCM-SHA384", "ECDHE-RSA-AES256-GCM-SHA384",
        "ECDHE-RSA-AES128-GCM-SHA256", "ECDHE-RSA-AES256-SHA384",
        "ECDHE-RSA-AES256-SHA", "ECDHE-RSA-AES128-SHA256",
        "ECDHE-RSA-DES-CBC3-SHA", "DHE-RSA-AES256-SHA256",
        "DHE-RSA-AES128-SHA256", "DHE-RSA-AES256-SHA", "DHE-RSA-AES128-SHA">> @@
    "kms_pq_tls_1_0_2020_07" :>
      <<"ECDHE-KYBER-RSA-AES256-GCM-SHA384",
        "ECDHE-BIKE-RSA-AES256-GCM-SHA384",
        "ECDHE-SIKE-RSA-AES256-GCM-SHA384", "ECDHE-RSA-AES256-GCM-SHA384",
        "ECDHE-RSA-AES128-GCM-SHA256", "ECDHE-RSA-AES256-SHA384",
        "ECDHE-RSA-AES256-SHA", "ECDHE-RSA-AES128-SHA256",
        "ECDHE-RSA-DES-CBC3-SHA", "DHE-RSA-AES256-SHA256",
        "DHE-RSA-AES128-SHA256", "DHE-RSA-AES256-SHA", "DHE-RSA-AES128-SHA">> @@
    "pq_tls_1_0_2020_12" :> TLS13_CIPHER_SUITES_20190801 \o
      <<"ECDHE-KYBER-RSA-AES256-GCM-SHA384",
        "ECDHE-BIKE-RSA-AES256-GCM-SHA384",
        "ECDHE-SIKE-RSA-AES256-GCM-SHA384", "ECDHE-RSA-AES256-GCM-SHA384",
        "ECDHE-RSA-AES128-GCM-SHA256", "ECDHE-RSA-AES256-SHA384",
        "ECDHE-RSA-AES256-SHA", "ECDHE-RSA-AES128-SHA256",
        "ECDHE-RSA-DES-CBC3-SHA", "DHE-RSA-AES256-SHA256",
        "DHE-RSA-AES128-SHA256", "DHE-RSA-AES256-SHA", "DHE-RSA-AES128-SHA">> @@
    "pq_tls_1_1_2021_05_17" :>
      <<"ECDHE-KYBER-RSA-AES256-GCM-SHA384",
        "ECDHE-BIKE-RSA-AES256-GCM-SHA384",
        "ECDHE-SIKE-RSA-AES256-GCM-SHA384", "ECDHE-ECDSA-AES128-GCM-SHA256",
        "ECDHE-RSA-AES128-GCM-SHA256", "ECDHE-ECDSA-AES128-SHA256",
        "ECDHE-RSA-AES128-SHA256", "ECDHE-ECDSA-AES128-SHA",
        "ECDHE-RSA-AES128-SHA", "ECDHE-ECDSA-AES256-GCM-SHA384",
        "ECDHE-RSA-AES256-GCM-SHA384", "ECDHE-ECDSA-AES256-SHA384",
        "ECDHE-RSA-AES256-SHA384", "ECDHE-RSA-AES256-SHA",
        "ECDHE-ECDSA-AES256-SHA", "AES128-GCM-SHA256", "AES128-SHA256",
        "AES128-SHA", "AES256-GCM-SHA384", "AES256-SHA256", "AES256-SHA">>

PqLists ==
    "pq_tls_1_0_2021_05_18" :>
      <<"ECDHE-KYBER-RSA-AES256-GCM-SHA384",
        "ECDHE-BIKE-RSA-AES256-GCM-SHA384",
        "ECDHE-SIKE-RSA-AES256-GCM-SHA384", "ECDHE-ECDSA-AES128-SHA",
        "ECDHE-RSA-AES128-SHA", "ECDHE-ECDSA-AES128-GCM-SHA256",
        "ECDHE-RSA-AES128-GCM-SHA256", "ECDHE-ECDSA-AES256-GCM-SHA384",
        "ECDHE-RSA-AES256-GCM-SHA384", "ECDHE-ECDSA-AES128-SHA256",
        "ECDHE-RSA-AES128-SHA256", "ECDHE-ECDSA-AES256-SHA",
        "ECDHE-RSA-AES256-SHA", "ECDHE-ECDSA-AES256-SHA384",
        "ECDHE-RSA-AES256-SHA384", "AES128-SHA", "AES128-GCM-SHA256",
        "AES256-GCM-SHA384", "AES128-SHA256", "AES256-SHA", "AES256-SHA256",
        "DES-CBC3-SHA", "DHE-RSA-AES128-SHA", "DHE-RSA-AES128-GCM-SHA256",
        "DHE-RSA-AES256-GCM-SHA384", "DHE-RSA-AES128-SHA256",
        "DHE-RSA-AES256-SHA", "DHE-RSA-AES256-SHA256">> @@
    "pq_tls_1_0_2021_05_19" :>
      <<"ECDHE-KYBER-RSA-AES256-GCM-SHA384",
        "ECDHE-BIKE-RSA-AES256-GCM-SHA384",
        "ECDHE-SIKE-RSA-AES256-GCM-SHA384", "ECDHE-ECDSA-AES128-GCM-SHA256",
        "ECDHE-RSA-AES128-GCM-SHA256", "ECDHE-ECDSA-AES128-SHA256",
        "ECDHE-RSA-AES128-SHA256", "ECDHE-ECDSA-AES128-SHA",
        "ECDHE-RSA-AES128-SHA", "ECDHE-ECDSA-AES256-GCM-SHA384",
        "ECDHE-RSA-AES256-GCM-SHA384", "ECDHE-ECDSA-AES256-SHA384",
        "ECDHE-RSA-AES256-SHA384", "ECDHE-RSA-AES256-SHA",
        "ECDHE-ECDSA-AES256-SHA", "AES128-GCM-SHA256", "AES128-SHA256",
        "AES128-SHA", "AES256-GCM-SHA384", "AES256-SHA256", "AES256-SHA">> @@
    "pq_tls_1_1_2021_05_21" :> TLS13_CLOUDFRONT_CIPHER_SUITES_20200716 \o
      <<"ECDHE-KYBER-RSA-AES256-GCM-SHA384",
        "ECDHE-BIKE-RSA-AES256-GCM-SHA384",
        "ECDHE-SIKE-RSA-AES256-GCM-SHA384", "ECDHE-ECDSA-AES128-GCM-SHA256",
        "ECDHE-RSA-AES128-GCM-SHA256", "ECDHE-ECDSA-AES128-SHA256",
        "ECDHE-RSA-AES128-SHA256", "ECDHE-ECDSA-AES128-SHA",
        "ECDHE-RSA-AES128-SHA", "ECDHE-ECDSA-AES256-GCM-SHA384",
        "ECDHE-RSA-AES256-GCM-SHA384", "ECDHE-ECDSA-AES256-SHA384",
        "ECDHE-RSA-AES256-SHA384", "ECDHE-RSA-AES256-SHA",
        "ECDHE-ECDSA-AES256-SHA", "AES128-GCM-SHA256", "AES128-SHA256",
        "AES128-SHA", "AES256-GCM-SHA384", "AES256-SHA256", "AES256-SHA">> @@
    "pq_tls_1_0_2021_05_22" :> TLS13_CLOUDFRONT_CIPHER_SUITES_20200716 \o
      <<"ECDHE-KYBER-RSA-AES256-GCM-SHA384",
        "ECDHE-BIKE-RSA-AES256-GCM-SHA384",
        "ECDHE-SIKE-RSA-AES256-GCM-SHA384", "ECDHE-ECDSA-AES128-SHA",
        "ECDHE-RSA-AES128-SHA", "ECDHE-ECDSA-AES128-GCM-SHA256",
        "ECDHE-RSA-AES128-GCM-SHA256", "ECDHE-ECDSA-AES256-GCM-SHA384",
        "ECDHE-RSA-AES256-GCM-SHA384", "ECDHE-ECDSA-AES128-SHA256",
        "ECDHE-RSA-AES128-SHA256", "ECDHE-ECDSA-AES256-SHA",
        "ECDHE-RSA-AES256-SHA", "ECDHE-ECDSA-AES256-SHA384",
        "ECDHE-RSA-AES256-SHA384", "AES128-SHA", "AES128-GCM-SHA256",
        "AES256-GCM-SHA384", "AES128-SHA256", "AES256-SHA", "AES256-SHA256",
        "DES-CBC3-SHA", "DHE-RSA-AES128-SHA", "DHE-RSA-AES128-GCM-SHA256",
        "DHE-RSA-AES256-GCM-SHA384", "DHE-RSA-AES128-SHA256",
        "DHE-RSA-AES256-SHA", "DHE-RSA-AES256-SHA256">>

LaterPqLists ==
    "pq_tls_1_0_2021_05_23" :> TLS13_CLOUDFRONT_CIPHER_SUITES_20200716 \o
      <<"ECDHE-KYBER-RSA-AES256-GCM-SHA384",
        "ECDHE-BIKE-RSA-AES256-GCM-SHA384",
        "ECDHE-SIKE-RSA-AES256-GCM-SHA384", "ECDHE-ECDSA-AES128-GCM-SHA256",
        "ECDHE-RSA-AES128-GCM-SHA256", "ECDHE-ECDSA-AES128-SHA256",
        "ECDHE-RSA-AES128-SHA256", "ECDHE-ECDSA-AES128-SHA",
        "ECDHE-RSA-AES128-SHA", "ECDHE-ECDSA-AES256-GCM-SHA384",
        "ECDHE-RSA-AES256-GCM-SHA384", "ECDHE-ECDSA-AES256-SHA384",
        "ECDHE-RSA-AES256-SHA384", "ECDHE-RSA-AES256-SHA",
        "ECDHE-ECDSA-AES256-SHA", "AES128-GCM-SHA256", "AES128-SHA256",
        "AES128-SHA", "AES256-GCM-SHA384", "AES256-SHA256", "AES256-SHA">> @@
    "pq_tls_1_0_2021_05_24" :> TLS13_CIPHER_SUITES_20190801 \o
      <<"ECDHE-KYBER-RSA-AES256-GCM-SHA384",
        "ECDHE-BIKE-RSA-AES256-GCM-SHA384",
        "ECDHE-SIKE-RSA-AES256-GCM-SHA384", "ECDHE-RSA-AES256-GCM-SHA384",
        "ECDHE-RSA-AES128-GCM-SHA256", "ECDHE-RSA-AES256-SHA384",
        "ECDHE-RSA-AES256-SHA", "ECDHE-RSA-AES128-SHA256",
        "ECDHE-RSA-DES-CBC3-SHA", "DHE-RSA-AES256-SHA256",
        "DHE-RSA-AES128-SHA256", "DHE-RSA-AES256-SHA", "DHE-RSA-AES128-SHA">> @@
    "pq_tls_1_0_2021_05_25" :>
      <<"ECDHE-KYBER-RSA-AES256-GCM-SHA384",
        "ECDHE-BIKE-RSA-AES256-GCM-SHA384",
        "ECDHE-SIKE-RSA-AES256-GCM-SHA384", "ECDHE-ECDSA-AES128-GCM-SHA256",
        "ECDHE-RSA-AES128-GCM-SHA256", "ECDHE-ECDSA-AES256-GCM-SHA384",
        "ECDHE-RSA-AES256-GCM-SHA384", "ECDHE-ECDSA-AES128-SHA",
        "ECDHE-RSA-AES128-SHA", "ECDHE-ECDSA-AES128-SHA256",
        "ECDHE-RSA-AES128-SHA256", "ECDHE-ECDSA-AES256-SHA",
        "ECDHE-RSA-AES256-SHA", "ECDHE-ECDSA-AES256-SHA384",
        "ECDHE-RSA-AES256-SHA384", "AES128-GCM-SHA256", "AES256-GCM-SHA384",
        "AES128-SHA", "AES128-SHA256", "AES256-SHA", "AES256-SHA256",
        "DES-CBC3-SHA", "DHE-RSA-AES128-GCM-SHA256",
        "DHE-RSA-AES256-GCM-SHA384", "DHE-RSA-AES128-SHA",
        "DHE-RSA-AES128-SHA256", "DHE-RSA-AES256-SHA",
        "DHE-RSA-AES256-SHA256">> @@
    "pq_tls_1_0_2021_05_26" :> TLS13_CLOUDFRONT_CIPHER_SUITES_20200716 \o
      <<"ECDHE-KYBER-RSA-AES256-GCM-SHA384",
        "ECDHE-BIKE-RSA-AES256-GCM-SHA384",
        "ECDHE-SIKE-RSA-AES256-GCM-SHA384", "ECDHE-ECDSA-AES128-GCM-SHA256",
        "ECDHE-RSA-AES128-GCM-SHA256", "ECDHE-ECDSA-AES256-GCM-SHA384",
        "ECDHE-RSA-AES256-GCM-SHA384", "ECDHE-ECDSA-AES128-SHA",
        "ECDHE-RSA-AES128-SHA", "ECDHE-ECDSA-AES128-SHA256",
        "ECDHE-RSA-AES128-SHA256", "ECDHE-ECDSA-AES256-SHA",
        "ECDHE-RSA-AES256-SHA", "ECDHE-ECDSA-AES256-SHA384",
        "ECDHE-RSA-AES256-SHA384", "AES128-GCM-SHA256", "AES256-GCM-SHA384",
        "AES128-SHA", "AES128-SHA256", "AES256-SHA", "AES256-SHA256",
        "DES-CBC3-SHA", "DHE-RSA-AES128-GCM-SHA256",
        "DHE-RSA-AES256-GCM-SHA384", "DHE-RSA-AES128-SHA",
        "DHE-RSA-AES128-SHA256", "DHE-RSA-AES256-SHA",
        "DHE-RSA-AES256-SHA256">> @@
    "kms_fips_tls_1_2_2018_10" :>
      <<"ECDHE-RSA-AES256-GCM-SHA384", "ECDHE-RSA-AES128-GCM-SHA256",
        "ECDHE-RSA-AES256-SHA384", "ECDHE-RSA-AES128-SHA256",
        "DHE-RSA-AES256-SHA256", "DHE-RSA-AES128-SHA256">>

Sha384Lists ==
    "20210816" :>
      <<"ECDHE-ECDSA-AES256-SHA384", "ECDHE-RSA-AES256-SHA384",
        "ECDHE-ECDSA-AES256-GCM-SHA384", "ECDHE-RSA-AES256-GCM-SHA384">> @@
    "20210816_gcm" :>
      <<"ECDHE-ECDSA-AES256-GCM-SHA384", "ECDHE-RSA-AES256-GCM-SHA384",
        "ECDHE-ECDSA-AES256-SHA384", "ECDHE-RSA-AES256-SHA384">>

(* The lists of the tests are in tls/s2n_cipher_suites.c. *)
TestLists ==
    "test_all" :> s2n_all_cipher_suites @@
    "test_all_tls12" :> s2n_all_tls12_cipher_suites @@
    "test_all_fips" :> s2n_all_fips_cipher_suites @@
    "test_all_ecdsa" :> s2n_all_ecdsa_cipher_suites @@
    "test_all_rsa_kex" :> s2n_all_rsa_kex_cipher_suites @@
    "test_all_tls13" :> s2n_all_tls13_cipher_suites @@
    "test_ecdsa_priority" :> s2n_ecdsa_priority_cipher_suites

cipher_preferences ==
    DatedLists @@ EcdheLists @@ GcmLists @@ FipsLists @@ ElbLists @@
    ElbForwardSecretLists @@ CloudfrontLists @@ CloudfrontLegacyLists @@ CloudfrontUpstreamLists @@
    CrtLists @@ KmsLists @@ PqLists @@ LaterPqLists @@ Sha384Lists @@ TestLists
=============================================================================
