------------------------- MODULE RecordLayerProofs -------------------------
(***************************************************************************)
(* What holds of the record layer for every size, number of records and    *)
(* number of failures and disturbances.                                    *)
(***************************************************************************)
EXTENDS RecordLayer, TLAPS, SequenceTheorems

-----------------------------------------------------------------------------
(* The tables of the ciphers and of the suites.                            *)

Streams == {"rc4_md5", "rc4_sslv3_md5", "rc4_sha", "rc4_sslv3_sha"}
Des == {"des3_sha", "des3_sslv3_sha"}
Aes == {"aes128_sha", "aes128_sslv3_sha", "aes128_sha256", "aes256_sha", "aes256_sslv3_sha",
        "aes256_sha256", "aes256_sha384"}
Composites == {"aes128_sha_composite", "aes128_sha256_composite", "aes256_sha_composite",
               "aes256_sha256_composite"}
Gcms == {"aes128_gcm", "aes256_gcm"}
Tls13s == {"tls13_aes128_gcm", "tls13_aes256_gcm", "tls13_chacha20_poly1305"}
Others == Streams \cup Des \cup Aes \cup Composites \cup Gcms \cup {"chacha20_poly1305"}

(* The sizes of an algorithm: all the proofs need to know of the tables. *)
Sized(alg) ==
    LET c == cipher[CipherOf(alg)]
    IN  /\ alg \in Tls13s => c.type = "AEAD"
        /\ \/ c.type = "AEAD" /\ c.block = 1 /\ c.iv \in {0, 8} /\ c.tag = 16 /\ c.mac = 0
              /\ s2n_hmac_digest_size(alg) = 0 /\ (alg \in Tls13s => c.iv = 0)
           \/ c.type = "CBC" /\ c.block \in {8, 16} /\ c.iv = c.block /\ c.tag = 0 /\ c.mac = 0
              /\ s2n_hmac_digest_size(alg) \in {20, 32, 48}
           \/ c.type = "COMPOSITE" /\ c.block = 16 /\ c.iv = 16 /\ c.tag = 0 /\ c.mac \in {20, 32}
              /\ s2n_hmac_digest_size(alg) = 0
           \/ c.type = "STREAM" /\ c.block = 1 /\ c.iv = 0 /\ c.tag = 0 /\ c.mac = 0
              /\ s2n_hmac_digest_size(alg) \in {16, 20}

LEMMA CipherNames ==
    /\ \A a \in Streams : CipherOf(a) = "rc4"
    /\ \A a \in Des : CipherOf(a) = "des3"
    /\ \A a \in Aes : CipherOf(a) \in {"aes128", "aes256"}
    /\ \A a \in Composites :
          CipherOf(a) \in {"aes128_sha", "aes256_sha", "aes128_sha256", "aes256_sha256"}
    /\ \A a \in Gcms : CipherOf(a) \in {"aes128_gcm", "aes256_gcm"}
    /\ \A a \in Tls13s : CipherOf(a) \in {"tls13_aes128_gcm", "tls13_aes256_gcm", "chacha20_poly1305"}
    /\ CipherOf("chacha20_poly1305") = "chacha20_poly1305"
    /\ CipherOf("null") = "null_cipher"
  BY DEF CipherOf, RecordAlgsStreamAndCbc, RecordAlgsCbc256AndAead, Streams, Des, Aes, Composites,
         Gcms, Tls13s

LEMMA CipherSizes ==
    /\ cipher["null_cipher"].type = "STREAM" /\ cipher["null_cipher"].block = 1
    /\ cipher["null_cipher"].iv = 0 /\ cipher["null_cipher"].tag = 0
    /\ cipher["rc4"].type = "STREAM" /\ cipher["rc4"].block = 1
    /\ cipher["rc4"].iv = 0 /\ cipher["rc4"].tag = 0 /\ cipher["rc4"].mac = 0
    /\ \A c \in {"des3"} : cipher[c].type = "CBC" /\ cipher[c].block = 8
                           /\ cipher[c].iv = 8 /\ cipher[c].tag = 0 /\ cipher[c].mac = 0
    /\ \A c \in {"aes128", "aes256"} :
          cipher[c].type = "CBC" /\ cipher[c].block = 16
          /\ cipher[c].iv = 16 /\ cipher[c].tag = 0 /\ cipher[c].mac = 0
    /\ \A c \in {"aes128_sha", "aes256_sha", "aes128_sha256", "aes256_sha256"} :
          cipher[c].type = "COMPOSITE" /\ cipher[c].block = 16
          /\ cipher[c].iv = 16 /\ cipher[c].tag = 0 /\ cipher[c].mac \in {20, 32}
    /\ \A c \in {"aes128_gcm", "aes256_gcm"} :
          cipher[c].type = "AEAD" /\ cipher[c].block = 1
          /\ cipher[c].iv = 8 /\ cipher[c].tag = 16 /\ cipher[c].mac = 0
    /\ \A c \in {"tls13_aes128_gcm", "tls13_aes256_gcm", "chacha20_poly1305"} :
          cipher[c].type = "AEAD" /\ cipher[c].block = 1
          /\ cipher[c].iv = 0 /\ cipher[c].tag = 16 /\ cipher[c].mac = 0
  BY DEF cipher, Cipher, StreamCiphers, AesCbcCiphers, DesCbcCiphers, CompositeCiphers, GcmCiphers,
         ChachaCiphers

LEMMA SizedAlgs == \A alg \in Others \cup Tls13s : Sized(alg) /\ alg # "null" /\ (alg \in Tls13s <=> Tls13Alg(alg))
  <1> DEFINE c(alg) == cipher[CipherOf(alg)]
  <1>1. ASSUME NEW alg \in Streams PROVE Sized(alg)
    BY <1>1, CipherNames, CipherSizes DEF Sized, s2n_hmac_digest_size, Streams, Tls13s
  <1>2. ASSUME NEW alg \in Des PROVE Sized(alg)
    BY <1>2, CipherNames, CipherSizes DEF Sized, s2n_hmac_digest_size, Des, Tls13s
  <1>3. ASSUME NEW alg \in Aes PROVE Sized(alg)
    <2>1. s2n_hmac_digest_size(alg) \in {20, 32, 48} /\ alg \notin Tls13s
      BY DEF Aes, s2n_hmac_digest_size, Tls13s
    <2> QED BY <2>1, CipherNames, CipherSizes DEF Sized
  <1>4. ASSUME NEW alg \in Composites PROVE Sized(alg)
    <2>1. s2n_hmac_digest_size(alg) = 0 /\ alg \notin Tls13s
      BY DEF Composites, s2n_hmac_digest_size, Tls13s
    <2> QED BY <2>1, CipherNames, CipherSizes DEF Sized
  <1>5. ASSUME NEW alg \in Gcms \cup {"chacha20_poly1305"} \cup Tls13s PROVE Sized(alg)
    <2>1. s2n_hmac_digest_size(alg) = 0 /\ (alg \in Gcms => alg \notin Tls13s)
      BY DEF Gcms, s2n_hmac_digest_size, Tls13s
    <2> QED BY <2>1, CipherNames, CipherSizes DEF Sized
  <1>6. \A alg \in Others \cup Tls13s : alg # "null" /\ (alg \in Tls13s <=> Tls13Alg(alg))
    BY DEF Others, Streams, Des, Aes, Composites, Gcms, Tls13s, Tls13Alg
  <1> QED BY <1>1, <1>2, <1>3, <1>4, <1>5, <1>6 DEF Others

(* The algorithms of a suite that a connection can end up with. *)
Listed(s) ==
    /\ s.min # UNKNOWN => s.algs \in Seq(IF s.min = TLS13 THEN Tls13s ELSE Others)
    /\ s.sslv3 \in Others \cup {"none"}

LEMMA ListedBy ==
    ASSUME NEW name, NEW iana, NEW kex, NEW auth, NEW algs, NEW sslv3, NEW prf, NEW min,
           min # UNKNOWN => algs \in Seq(IF min = TLS13 THEN Tls13s ELSE Others),
           sslv3 \in Others \cup {"none"}
    PROVE  Listed(Suite(name, iana, kex, auth, algs, sslv3, prf, min))
  BY DEF Listed, Suite

Old(alg) == alg \in Others

LEMMA OldNames ==
    /\ Old("rc4_md5") /\ Old("rc4_sslv3_md5") /\ Old("rc4_sha") /\ Old("rc4_sslv3_sha")
    /\ Old("des3_sha") /\ Old("des3_sslv3_sha") /\ Old("aes128_sha") /\ Old("aes128_sslv3_sha")
    /\ Old("aes128_sha256") /\ Old("aes256_sha") /\ Old("aes256_sslv3_sha") /\ Old("aes256_sha256")
    /\ Old("aes256_sha384") /\ Old("aes128_sha_composite") /\ Old("aes128_sha256_composite")
    /\ Old("aes256_sha_composite") /\ Old("aes256_sha256_composite") /\ Old("aes128_gcm")
    /\ Old("aes256_gcm") /\ Old("chacha20_poly1305")
  BY DEF Old, Others, Streams, Des, Aes, Composites, Gcms

LEMMA SuitesListed == \A s \in Suites : Listed(s)
  <1>1. \A S : (\A a \in S : <<a>> \in Seq(S)) /\ (\A a, b \in S : <<a, b>> \in Seq(S)) OBVIOUS
  <1>2. /\ SSLv3 # UNKNOWN /\ TLS12 # UNKNOWN /\ TLS13 # UNKNOWN /\ SSLv3 # TLS13 /\ TLS12 # TLS13
    BY DEF UNKNOWN, SSLv3, TLS12, TLS13
  <1>3. \A name, iana, kex, auth, a, sslv3, prf :
           Old(a) /\ Old(sslv3) => Listed(Suite(name, iana, kex, auth, <<a>>, sslv3, prf, SSLv3))
    BY <1>1, <1>2, ListedBy DEF Old
  <1>4. \A name, iana, kex, auth, a, prf :
           Old(a) => Listed(Suite(name, iana, kex, auth, <<a>>, "none", prf, TLS12))
    BY <1>1, <1>2, ListedBy DEF Old
  <1>5. \A name, iana, kex, auth, a, prf :
           a \in Tls13s => Listed(Suite(name, iana, kex, auth, <<a>>, "none", prf, TLS13))
    BY <1>1, <1>2, ListedBy
  <1>6. \A name, iana, kex, auth, a, b, sslv3, prf :
           Old(a) /\ Old(b) /\ Old(sslv3)
             => Listed(Suite(name, iana, kex, auth, <<a, b>>, sslv3, prf, SSLv3))
    BY <1>1, <1>2, ListedBy DEF Old
  <1>7. \A name, iana, kex, auth, a, b, prf :
           Old(a) /\ Old(b) => Listed(Suite(name, iana, kex, auth, <<a, b>>, "none", prf, TLS12))
    BY <1>1, <1>2, ListedBy DEF Old
  <1>8. Listed(NullSuite) BY ListedBy DEF NullSuite
  <1>9. \A s \in SuitesRsaAndDheCbc : Listed(s)
    BY <1>3, <1>4, <1>6, <1>7, OldNames DEF SuitesRsaAndDheCbc
  <1>10. \A s \in SuitesGcmAndEcdheCbc : Listed(s)
    BY <1>3, <1>4, <1>6, <1>7, OldNames DEF SuitesGcmAndEcdheCbc
  <1>11. \A s \in SuitesEcdheCbcAndGcm : Listed(s)
    BY <1>3, <1>4, <1>6, <1>7, OldNames DEF SuitesEcdheCbcAndGcm
  <1>12. \A s \in SuitesChachaHybridTls13 : Listed(s)
    BY <1>4, <1>5, OldNames DEF SuitesChachaHybridTls13, Tls13s
  <1> QED BY <1>8, <1>9, <1>10, <1>11, <1>12 DEF Suites

LEMMA AlgsListed ==
    ASSUME NEW version \in Nat, NEW alg \in AlgsOf(version)
    PROVE  alg \in IF version = TLS13 THEN Tls13s ELSE Others
  <1>1. \A n \in DOMAIN cipher_suite : Listed(cipher_suite[n])
    BY SuitesListed DEF cipher_suite
  <1>2. CASE version = SSLv3
    BY <1>1, <1>2 DEF AlgsOf, Listed, SSLv3, TLS13
  <1>3. CASE version # SSLv3
    <2>1. PICK n \in DOMAIN cipher_suite :
             /\ cipher_suite[n].min # UNKNOWN /\ (cipher_suite[n].min = TLS13) = (version = TLS13)
             /\ alg \in ToSet(cipher_suite[n].algs)
      BY <1>3 DEF AlgsOf
    <2> DEFINE algs == cipher_suite[n].algs
    <2>2. algs \in Seq(IF version = TLS13 THEN Tls13s ELSE Others) BY <1>1, <2>1 DEF Listed
    <2> HIDE DEF algs
    <2>3. PICK i \in DOMAIN algs : alg = algs[i] BY <2>1 DEF ToSet, algs
    <2> QED BY <2>2, <2>3
  <1> QED BY <1>2, <1>3

-----------------------------------------------------------------------------
(* The lengths of a record.                                                *)

Used == Others \cup Tls13s \cup {"null"}

LEMMA ExplicitIvs == \A alg \in Used, version \in Nat : ExplicitIv(alg, version) \in Nat
  <1>1. cipher[CipherOf("null")].iv \in Nat BY CipherNames, CipherSizes
  <1>2. \A alg \in Others \cup Tls13s : cipher[CipherOf(alg)].iv \in Nat BY SizedAlgs DEF Sized
  <1> QED BY <1>1, <1>2 DEF ExplicitIv, Used

(* Whether the padding of a block cipher goes up to a whole block. *)
LEMMA Rounding ==
    ASSUME NEW b \in {8, 16}, NEW x \in Nat
    PROVE  /\ x % b \in 0 .. b - 1
           /\ x % b = 0 => \E k \in Nat : x = k * b
           /\ x % b # 0 => \E k \in Nat : x + (b - (x % b)) = k * b
  <1>1. CASE b = 8
    <2> DEFINE k == x \div 8
               m == x % 8
    <2>1. x = 8 * k + m /\ m \in 0 .. 7 /\ k \in Nat OBVIOUS
    <2> HIDE DEF k, m
    <2>2. m = 0 => x = k * 8 BY <2>1
    <2>3. x + (8 - m) = (k + 1) * 8 /\ k + 1 \in Nat BY <2>1
    <2>4. x % b = m BY <1>1 DEF m
    <2>5. m \in 0 .. b - 1 /\ (m = 0 => x = k * b) /\ x + (b - m) = (k + 1) * b BY <1>1, <2>1, <2>2, <2>3
    <2> QED BY <2>1, <2>3, <2>4, <2>5, Zenon
  <1>2. CASE b = 16
    <2> DEFINE k == x \div 16
               m == x % 16
    <2>1. x = 16 * k + m /\ m \in 0 .. 15 /\ k \in Nat OBVIOUS
    <2> HIDE DEF k, m
    <2>2. m = 0 => x = k * 16 BY <2>1
    <2>3. x + (16 - m) = (k + 1) * 16 /\ k + 1 \in Nat BY <2>1
    <2>4. x % b = m BY <1>2 DEF m
    <2>5. m \in 0 .. b - 1 /\ (m = 0 => x = k * b) /\ x + (b - m) = (k + 1) * b BY <1>2, <2>1, <2>2, <2>3
    <2> QED BY <2>1, <2>3, <2>4, <2>5, Zenon
  <1> QED BY <1>1, <1>2

(* What the lengths of a record of n bytes come to: the header says what   *)
(* follows, the rest is small, and what fits a frame fits it.              *)
Lengths(alg, version, n) ==
    LET actual == EncryptedLength(alg, version, n)
    IN  /\ actual \in n .. n + (IF Tls13Alg(alg) THEN 17 ELSE 112)
        /\ FragmentLength(alg, version, n) = actual
        /\ Type(alg) = "STREAM" /\ alg # "null" => actual > n
        /\ Type(alg) = "AEAD" =>
              actual - ExplicitIv(alg, version) - cipher[CipherOf(alg)].tag - ContentTypeLength(alg) = n
        /\ alg # "null" /\ n <= s2n_record_min_write_payload_size(alg, version)
              => actual + HeaderLength <= FrameLength
        /\ alg # "null" => s2n_record_min_write_payload_size(alg, version) \in Nat

LEMMA LengthsOf ==
    ASSUME NEW alg \in Used, NEW version \in Nat, NEW n \in Nat
    PROVE  Lengths(alg, version, n)
  <1> DEFINE c == cipher[CipherOf(alg)]
             d == s2n_hmac_digest_size(alg)
             e == ExplicitIv(alg, version)
  <1>0. FrameLength = 1400 /\ HeaderLength = 5 BY DEF FrameLength, HeaderLength
  <1>1. CASE alg = "null"
    <2>1. c.type = "STREAM" /\ c.block = 1 /\ d = 0 /\ e = 0 /\ ~Tls13Alg(alg)
      BY <1>1, CipherNames, CipherSizes DEF s2n_hmac_digest_size, ExplicitIv, Tls13Alg
    <2>2. EncryptedLength(alg, version, n) = n /\ FragmentLength(alg, version, n) = n
      BY <2>1 DEF EncryptedLength, FragmentLength, Padding, initial_hmac, ContentTypeLength,
                  s2n_tls_record_overhead
    <2> QED BY <1>1, <2>1, <2>2 DEF Lengths, Type
  <1>2. CASE alg # "null" /\ c.type = "AEAD"
    <2>1. c.block = 1 /\ c.iv \in {0, 8} /\ c.tag = 16 /\ d = 0 /\ e = c.iv /\ (Tls13Alg(alg) => e = 0)
      BY <1>2, SizedAlgs DEF Sized, Used, ExplicitIv
    <2>2. s2n_tls_record_overhead(alg, version) = e + 16 /\ Padding(alg, version, n) = 0
          /\ initial_hmac(alg, n) = 0
      BY <1>2, <2>1 DEF s2n_tls_record_overhead, Padding, initial_hmac
    <2>3. ContentTypeLength(alg) = (IF Tls13Alg(alg) THEN 1 ELSE 0) BY DEF ContentTypeLength
    <2>4. EncryptedLength(alg, version, n) = n + e + 16 + ContentTypeLength(alg)
          /\ FragmentLength(alg, version, n) = n + e + 16 + ContentTypeLength(alg)
      BY <1>2, <2>1, <2>2, <2>3 DEF EncryptedLength, FragmentLength
    <2>5. s2n_record_min_write_payload_size(alg, version) = 1395 - ContentTypeLength(alg) - (e + 16)
      <3>1. 1395 % c.block = 0 BY <2>1
      <3> QED BY <1>0, <1>2, <2>1, <2>2, <2>3, <3>1 DEF s2n_record_min_write_payload_size
    <2> QED BY <1>0, <1>2, <2>1, <2>3, <2>4, <2>5 DEF Lengths, Type
  <1>3. CASE alg # "null" /\ c.type = "CBC"
    <2>1. c.block \in {8, 16} /\ c.iv = c.block /\ d \in {20, 32, 48} /\ e \in {0, c.block}
          /\ ~Tls13Alg(alg)
      BY <1>3, SizedAlgs DEF Sized, Used, ExplicitIv
    <2> DEFINE over == d + e + 1
               pad == Padding(alg, version, n)
    <2>2. s2n_tls_record_overhead(alg, version) = over /\ initial_hmac(alg, n) = 0
          /\ ContentTypeLength(alg) = 0 /\ over \in 21 .. 65
      BY <1>3, <2>1 DEF s2n_tls_record_overhead, initial_hmac, ContentTypeLength
    <2>3. pad = IF (n + over) % c.block # 0 THEN c.block - ((n + over) % c.block) ELSE 0
      BY <1>3, <2>2 DEF Padding
    <2>4. pad \in 0 .. 15 /\ \E k \in Nat : n + over + pad = k * c.block
      <3> DEFINE x == n + over
      <3>1. x \in Nat BY <2>2
      <3> HIDE DEF x
      <3>2. x % c.block \in 0 .. c.block - 1 BY <2>1, <3>1, Rounding
      <3>3. CASE x % c.block = 0
        <4>1. pad = 0 BY <2>3, <3>3 DEF x
        <4>2. PICK k \in Nat : x = k * c.block BY <2>1, <3>1, <3>3, Rounding
        <4>3. x + pad = k * c.block BY <3>1, <4>1, <4>2
        <4> QED BY <4>1, <4>3 DEF x
      <3>4. CASE x % c.block # 0
        <4>1. pad = c.block - (x % c.block) BY <2>3, <3>4 DEF x
        <4>2. PICK k \in Nat : x + (c.block - (x % c.block)) = k * c.block BY <2>1, <3>1, <3>4, Rounding
        <4>3. pad \in 0 .. 15 BY <2>1, <3>2, <3>4, <4>1
        <4> QED BY <4>1, <4>2, <4>3 DEF x
      <3> QED BY <3>3, <3>4
    <2>5. EncryptedLength(alg, version, n) = n + over + pad /\ FragmentLength(alg, version, n) = n + over + pad
      BY <1>3, <2>1, <2>2, <2>4 DEF EncryptedLength, FragmentLength
    <2>6. s2n_record_min_write_payload_size(alg, version) = (IF c.block = 8 THEN 1392 ELSE 1392) - over
      <3>1. 1395 % 8 = 3 /\ 1395 % 16 = 3 OBVIOUS
      <3> QED BY <1>0, <1>3, <2>1, <2>2, <3>1 DEF s2n_record_min_write_payload_size
    <2>7. n + over <= 1392 => n + over + pad <= 1392
      <3> SUFFICES ASSUME n + over <= 1392 PROVE n + over + pad <= 1392 OBVIOUS
      <3>1. PICK k \in Nat : n + over + pad = k * c.block BY <2>4
      <3>2. n + over + pad < 1392 + c.block BY <2>1, <2>2, <2>3, <2>4, Rounding
      <3>3. CASE c.block = 8 BY <3>1, <3>2, <3>3
      <3>4. CASE c.block = 16 BY <3>1, <3>2, <3>4
      <3> QED BY <2>1, <3>3, <3>4
    <2> HIDE DEF pad, over
    <2> QED BY <1>0, <1>3, <2>1, <2>2, <2>4, <2>5, <2>6, <2>7 DEF Lengths, Type
  <1>4. CASE alg # "null" /\ c.type = "COMPOSITE"
    <2>1. c.block = 16 /\ c.iv = 16 /\ c.mac \in {20, 32} /\ d = 0 /\ e \in {0, 16} /\ ~Tls13Alg(alg)
      BY <1>4, SizedAlgs DEF Sized, Used, ExplicitIv
    <2> DEFINE q == (n + c.mac + 16) \div 16
    <2>2. s2n_tls_record_overhead(alg, version) = e /\ Padding(alg, version, n) = 0
          /\ ContentTypeLength(alg) = 0 /\ initial_hmac(alg, n) = q * 16 - n
      BY <1>4, <2>1 DEF s2n_tls_record_overhead, Padding, initial_hmac, ContentTypeLength
    <2>3. q \in Nat /\ q * 16 <= n + c.mac + 16 /\ n + c.mac < q * 16
      BY <2>1
    <2> HIDE DEF q
    <2>4. EncryptedLength(alg, version, n) = e + q * 16 /\ FragmentLength(alg, version, n) = e + q * 16
      BY <1>4, <2>1, <2>2, <2>3 DEF EncryptedLength, FragmentLength
    <2>5. s2n_record_min_write_payload_size(alg, version) = 1392 - c.mac - 1 - e
      <3>1. 1395 % 16 = 3 OBVIOUS
      <3> QED BY <1>0, <1>4, <2>1, <2>2, <3>1 DEF s2n_record_min_write_payload_size
    <2>6. n <= 1392 - c.mac - 1 - e => e + q * 16 <= 1392
      <3>1. CASE e = 0 /\ c.mac = 20 BY <2>3, <3>1
      <3>2. CASE e = 0 /\ c.mac = 32 BY <2>3, <3>2
      <3>3. CASE e = 16 /\ c.mac = 20 BY <2>3, <3>3
      <3>4. CASE e = 16 /\ c.mac = 32 BY <2>3, <3>4
      <3> QED BY <2>1, <3>1, <3>2, <3>3, <3>4
    <2> QED BY <1>0, <1>4, <2>1, <2>3, <2>4, <2>5, <2>6 DEF Lengths, Type
  <1>5. CASE alg # "null" /\ c.type = "STREAM"
    <2>1. c.block = 1 /\ d \in {16, 20} /\ e = 0 /\ ~Tls13Alg(alg)
      BY <1>5, SizedAlgs DEF Sized, Used, ExplicitIv
    <2>2. EncryptedLength(alg, version, n) = n + d /\ FragmentLength(alg, version, n) = n + d
          /\ s2n_tls_record_overhead(alg, version) = d /\ ContentTypeLength(alg) = 0
      BY <1>5, <2>1 DEF EncryptedLength, FragmentLength, Padding, initial_hmac, ContentTypeLength,
                       s2n_tls_record_overhead
    <2>3. s2n_record_min_write_payload_size(alg, version) = 1395 - d
      <3>1. 1395 % c.block = 0 BY <2>1
      <3> QED BY <1>0, <1>5, <2>1, <2>2, <3>1 DEF s2n_record_min_write_payload_size
    <2> QED BY <1>0, <1>5, <2>1, <2>2, <2>3 DEF Lengths, Type
  <1>6. alg # "null" => c.type \in {"AEAD", "CBC", "COMPOSITE", "STREAM"}
    BY SizedAlgs DEF Sized, Used
  <1> QED BY <1>1, <1>2, <1>3, <1>4, <1>5, <1>6

-----------------------------------------------------------------------------
(* Types.                                                                  *)

Content == {"app", "handshake", "alert", "ccs"}
Versions == {SSLv3, TLS10, TLS11, TLS12, TLS13}
Iv == {<<"derived">>} \cup ({"nonce", "random", "block", "stream"} \X Nat)
Auth == [seq : Nat, type : Content, length : Nat]
          \cup [seq : Nat, type : Content, length : Nat, left : Nat]
Record == [outer : Content, version : Int, length : Nat, actual : Nat, plain : BOOLEAN, iv : Iv,
           inner : Content, auth : Auth, size : Nat, id : Nat, intact : BOOLEAN, whole : BOOLEAN]
Opened == [type : Content, size : Int, id : Nat]
Sender == [at : {"secure", "initial"}, seq : Nat, iv : Iv, stream : Nat, mac : Nat]
Receiver == [at : {"secure", "initial"}, seq : Nat, iv : Iv, stream : Nat, mac : Nat, alive : BOOLEAN,
             bare : SUBSET Content]
Buffer == [size : Nat, tainted : BOOLEAN, pending : Seq(Record), max : Nat]
Connection == [alg : Others \cup Tls13s, version : Versions, negotiated : {0} \cup MflLengths]
Reasons == {"null", "alloc", "random", "length", "space", "network", "own"}

TypeInv ==
    /\ conf \in Connection /\ conf.alg \in AlgsOf(conf.version)
    /\ out \in Buffer /\ Len(out.pending) <= 1
    /\ writer \in Sender /\ reader \in Receiver
    /\ wire \in Seq(Record) /\ sent \in Seq(Record) /\ got \in Seq(Opened)
    /\ written \in Nat /\ failed \subseteq Reasons /\ events \in 0 .. MaxEvents

(* What was sealed under the connection's keys: with which sequence        *)
(* number, and with which nonce, IV or stretch of keystream.               *)
Prior(s, i) == IF i = 1 THEN <<"derived">> ELSE <<"block", s[i - 1].id>>
Blocks(alg) == Type(alg) \in {"CBC", "COMPOSITE"}
IvOf(alg, version, s, i) ==
    /\ Type(alg) = "AEAD" => s[i].iv = <<"nonce", i - 1>>
    /\ Blocks(alg) /\ version > TLS10 => s[i].iv = <<"random", s[i].id>>
    /\ Blocks(alg) /\ version <= TLS10 => s[i].iv = Prior(s, i)
    /\ Type(alg) = "STREAM" => s[i].iv = <<"stream", s[i].iv[2]>> /\ s[i].iv[2] \in Nat
                               /\ s[i].actual > 0
    /\ \A j \in 1 .. i - 1 :
          /\ s[j].id < s[i].id
          /\ Type(alg) = "STREAM" => s[i].iv[2] >= s[j].iv[2] + s[j].actual
Sealing(alg, version, s, w, k) ==
    /\ w.seq = Len(s)
    /\ Blocks(alg) /\ version <= TLS10 => w.iv = Prior(s, Len(s) + 1)
    /\ \A i \in 1 .. Len(s) :
          /\ ~s[i].plain /\ s[i].id < k
          /\ \E left \in Nat : s[i].auth = Authenticated(alg, left, i - 1, s[i].inner, s[i].size)
          /\ IvOf(alg, version, s, i)
          /\ Type(alg) = "STREAM" => w.stream >= s[i].iv[2] + s[i].actual
          /\ s[i].size <= s2n_record_min_write_payload_size(alg, version)
                => s[i].actual + HeaderLength <= FrameLength

(* What is under way and opens was sealed. *)
Same(r, x) == r.iv = x.iv /\ r.auth = x.auth /\ r.inner = x.inner /\ r.size = x.size /\ r.id = x.id
Honest(s, r) == r.intact /\ ~r.plain => \E j \in 1 .. Len(s) : Same(r, s[j])
Queue(s, q) == \A i \in 1 .. Len(q) : Honest(s, q[i])

(* The buffer has room for a record of the fragment length in force. *)
Roomy(version, o) ==
    o.size = 0 \/ o.size >= s2n_record_max_write_size(version, s2n_record_max_write_payload_size(o.max))

RInv ==
    /\ TypeInv
    /\ Sealing(conf.alg, conf.version, sent, writer, written)
    /\ Queue(sent, wire) /\ Queue(sent, out.pending)
    /\ reader.seq = Len(got) /\ RecordsIntact
    /\ reader.at = "initial" => conf.version = TLS13
    /\ Roomy(conf.version, out) /\ failed \cap {"length", "space"} = {}

LEMMA InitRInv == Init => RInv
  <1> SUFFICES ASSUME Init PROVE RInv OBVIOUS
  <1>1. PICK v \in Versions : conf \in [alg : AlgsOf(v), version : {v}, negotiated : {0}]
    BY DEF Init, Versions
  <1>2. conf.alg \in Others \cup Tls13s /\ conf.version = v /\ conf.negotiated = 0
        /\ conf = [alg |-> conf.alg, version |-> v, negotiated |-> 0] /\ conf.alg \in AlgsOf(v)
    <2>1. v \in Nat BY DEF Versions, SSLv3, TLS10, TLS11, TLS12, TLS13
    <2> QED BY <1>1, <2>1, AlgsListed
  <1>3. conf \in Connection BY <1>2 DEF Connection
  <1>4. s2n_record_max_write_size(TLS12, S2N_DEFAULT_FRAGMENT_LENGTH) = 9116
    BY DEF s2n_record_max_write_size, TLS12, TLS13, S2N_DEFAULT_FRAGMENT_LENGTH, HeaderLength
  <1>5. PICK z \in {0, 9116} : out = [size |-> z, tainted |-> FALSE, pending |-> <<>>, max |-> 8087]
    BY <1>4 DEF Init, S2N_DEFAULT_FRAGMENT_LENGTH
  <1>6. out \in Buffer /\ out.pending = <<>> /\ out.size = z /\ out.max = 8087 BY <1>5 DEF Buffer
  <1>7. <<"derived">> \in Iv BY DEF Iv
  <1>8. writer \in Sender /\ reader \in Receiver /\ writer.seq = 0 /\ writer.iv = <<"derived">>
        /\ reader.seq = 0 /\ reader.at = "secure" /\ reader.bare = {}
    BY <1>7 DEF Init, Half, Sender, Receiver
  <1>9. wire = <<>> /\ sent = <<>> /\ got = <<>> /\ written = 0 /\ failed = {} /\ events = 0 BY DEF Init
  <1>10. TypeInv BY <1>2, <1>3, <1>6, <1>8, <1>9, BoundAssumption DEF TypeInv
  <1>11. Sealing(conf.alg, conf.version, sent, writer, written) BY <1>8, <1>9 DEF Sealing, Prior
  <1>12. Queue(sent, wire) /\ Queue(sent, out.pending) BY <1>6, <1>9 DEF Queue
  <1>13. RecordsIntact BY <1>8, <1>9 DEF RecordsIntact
  <1>14. Roomy(conf.version, out)
    BY <1>2, <1>6 DEF Roomy, s2n_record_max_write_size, s2n_record_max_write_payload_size, HeaderLength,
       S2N_TLS_MAXIMUM_FRAGMENT_LENGTH
  <1> QED BY <1>8, <1>9, <1>10, <1>11, <1>12, <1>13, <1>14 DEF RInv

(* The step of everything that leaves the sender and the receiver alone. *)
LEMMA OutStep ==
    ASSUME RInv, UNCHANGED <<writer, reader, written, sent, got>>,
           wire' = wire, failed' = failed, events' \in 0 .. MaxEvents,
           conf' \in Connection, conf'.alg = conf.alg, conf'.version = conf.version,
           out' \in Buffer, out'.pending = out.pending, Roomy(conf.version, out')
    PROVE  RInv'
  <1>1. TypeInv' BY DEF RInv, TypeInv
  <1> QED BY <1>1 DEF RInv, RecordsIntact

LEMMA PreferKeeps == RInv /\ PreferLength => RInv'
  <1> SUFFICES ASSUME RInv, PreferLength PROVE RInv' OBVIOUS
  <1>1. PICK length \in FragmentLengths : s2n_connection_set_max_fragment_length(length)
    BY DEF PreferLength
  <1> DEFINE max == IF conf.negotiated = 0 \/ length < conf.negotiated THEN length ELSE conf.negotiated
             need == s2n_record_max_write_size(conf.version, max)
  <1>2. max \in Nat
    BY DEF RInv, TypeInv, Connection, MflLengths, FragmentLengths, S2N_TLS_MAXIMUM_FRAGMENT_LENGTH,
           S2N_SMALL_FRAGMENT_LENGTH
  <1>3. need \in Nat /\ need >= s2n_record_max_write_size(conf.version, s2n_record_max_write_payload_size(max))
    BY <1>2 DEF s2n_record_max_write_size, s2n_record_max_write_payload_size, HeaderLength,
       S2N_TLS_MAXIMUM_FRAGMENT_LENGTH
  <1>4. out' = [out EXCEPT !.max = max, !.size = IF @ = 0 \/ @ >= need THEN @ ELSE need]
    BY <1>1 DEF s2n_connection_set_max_fragment_length
  <1>5. out \in Buffer BY DEF RInv, TypeInv
  <1> HIDE DEF max, need
  <1> DEFINE z == IF out.size = 0 \/ out.size >= need THEN out.size ELSE need
  <1>6. out' \in Buffer /\ out'.pending = out.pending /\ out'.max = max
        /\ (out'.size = 0 \/ out'.size >= need)
    <2>1. z \in Nat /\ (z = 0 \/ z >= need) BY <1>3, <1>5 DEF Buffer
    <2>2. out' = [out EXCEPT !.max = max, !.size = z] BY <1>4
    <2> HIDE DEF z
    <2>3. out' \in Buffer /\ out'.pending = out.pending /\ out'.max = max /\ out'.size = z
      BY <1>2, <1>5, <2>1, <2>2 DEF Buffer
    <2> QED BY <2>1, <2>3
  <1>7. Roomy(conf.version, out')
    <2>1. s2n_record_max_write_size(conf.version, s2n_record_max_write_payload_size(max)) \in Nat
      BY <1>2 DEF s2n_record_max_write_size, s2n_record_max_write_payload_size, HeaderLength,
         S2N_TLS_MAXIMUM_FRAGMENT_LENGTH
    <2>2. out'.size \in Nat BY <1>6 DEF Buffer
    <2> QED BY <1>3, <1>6, <2>1, <2>2 DEF Roomy
  <1>8. events' \in 0 .. MaxEvents BY BoundAssumption DEF PreferLength, Event, RInv, TypeInv
  <1>9. UNCHANGED <<conf, writer, reader, wire, written, sent, got, failed>> BY DEF PreferLength
  <1>10. conf' \in Connection BY <1>9 DEF RInv, TypeInv
  <1> QED BY <1>6, <1>7, <1>8, <1>9, <1>10, OutStep

LEMMA MflKeeps == RInv /\ s2n_max_fragment_length_recv => RInv'
  <1> SUFFICES ASSUME RInv, s2n_max_fragment_length_recv PROVE RInv' OBVIOUS
  <1>1. PICK length \in MflLengths :
           /\ conf' = [conf EXCEPT !.negotiated = length]
           /\ out' = [out EXCEPT !.max = IF @ < length THEN @ ELSE length]
    BY DEF s2n_max_fragment_length_recv
  <1>2. conf \in Connection /\ out \in Buffer BY DEF RInv, TypeInv
  <1>3. conf' \in Connection /\ conf'.alg = conf.alg /\ conf'.version = conf.version
    BY <1>1, <1>2 DEF Connection
  <1>4. length \in Nat BY DEF MflLengths
  <1>5. out' \in Buffer /\ out'.pending = out.pending /\ out'.size = out.size
        /\ out'.max = (IF out.max < length THEN out.max ELSE length)
    BY <1>1, <1>2, <1>4 DEF Buffer
  <1>6. Roomy(conf.version, out')
    <2>1. out.size \in Nat /\ out.max \in Nat /\ out'.max \in Nat /\ out'.max <= out.max
      BY <1>2, <1>4, <1>5 DEF Buffer
    <2> QED BY <1>5, <2>1 DEF RInv, Roomy, s2n_record_max_write_size, s2n_record_max_write_payload_size,
               HeaderLength, S2N_TLS_MAXIMUM_FRAGMENT_LENGTH
  <1>7. events' \in 0 .. MaxEvents BY BoundAssumption DEF s2n_max_fragment_length_recv, Event, RInv, TypeInv
  <1>8. UNCHANGED <<writer, reader, wire, written, sent, got, failed>> BY DEF s2n_max_fragment_length_recv
  <1> QED BY <1>3, <1>5, <1>6, <1>7, <1>8, OutStep

LEMMA ReleaseKeeps == RInv /\ s2n_connection_release_buffers => RInv'
  <1> SUFFICES ASSUME RInv, s2n_connection_release_buffers PROVE RInv' OBVIOUS
  <1>1. out' = [out EXCEPT !.size = 0] /\ UNCHANGED <<conf, writer, reader, wire, written, sent, got, failed>>
    BY DEF s2n_connection_release_buffers
  <1>2. out \in Buffer /\ conf' \in Connection BY <1>1 DEF RInv, TypeInv
  <1>3. out' \in Buffer /\ out'.pending = out.pending /\ out'.size = 0 BY <1>1, <1>2 DEF Buffer
  <1>4. Roomy(conf.version, out') BY <1>3 DEF Roomy
  <1>5. events' \in 0 .. MaxEvents
    BY BoundAssumption DEF s2n_connection_release_buffers, Event, RInv, TypeInv
  <1> QED BY <1>1, <1>2, <1>3, <1>4, <1>5, OutStep

(* The step of everything that happens to the records under way. *)
LEMMA WireStep ==
    ASSUME RInv, UNCHANGED <<conf, writer, reader, written, sent, got>>,
           wire' \in Seq(Record), Queue(sent, wire'), events' \in 0 .. MaxEvents,
           out' \in Buffer, out'.pending \in {out.pending, <<>>},
           out'.size = out.size, out'.max = out.max,
           failed' \subseteq failed \cup {"network"}
    PROVE  RInv'
  <1>1. TypeInv'
    <2>1. Len(out'.pending) <= 1 BY DEF RInv, TypeInv
    <2>2. failed' \subseteq Reasons BY DEF RInv, TypeInv, Reasons
    <2> QED BY <2>1, <2>2 DEF RInv, TypeInv
  <1>2. Queue(sent, out'.pending) BY DEF RInv, Queue
  <1>3. Roomy(conf.version, out') BY DEF RInv, Roomy
  <1> QED BY <1>1, <1>2, <1>3 DEF RInv, RecordsIntact

LEMMA QueueConcat ==
    ASSUME NEW s, NEW a \in Seq(Record), NEW b \in Seq(Record), Queue(s, a), Queue(s, b)
    PROVE  a \o b \in Seq(Record) /\ Queue(s, a \o b)
  BY DEF Queue

LEMMA QueueSub ==
    ASSUME NEW s, NEW q \in Seq(Record), Queue(s, q), NEW m \in 1 .. Len(q) + 1, NEW n \in 0 .. Len(q)
    PROVE  SubSeq(q, m, n) \in Seq(Record) /\ Queue(s, SubSeq(q, m, n))
  <1> DEFINE t == SubSeq(q, m, n)
  <1>1. t \in Seq(Record) /\ \A i \in 1 .. Len(t) : \E k \in 1 .. Len(q) : t[i] = q[k]
    BY SubSeqProperties
  <1> HIDE DEF t
  <1>2. Queue(s, t) BY <1>1 DEF Queue
  <1> QED BY <1>1, <1>2 DEF t

LEMMA FlushKeeps == RInv /\ s2n_flush => RInv'
  <1> SUFFICES ASSUME RInv, s2n_flush PROVE RInv' OBVIOUS
  <1>1. /\ wire' = wire \o out.pending /\ out' = [out EXCEPT !.pending = <<>>]
        /\ UNCHANGED <<conf, writer, reader, written, sent, got, failed, events>>
    BY DEF s2n_flush
  <1>2. out \in Buffer /\ wire \in Seq(Record) /\ out.pending \in Seq(Record)
        /\ events' \in 0 .. MaxEvents
    BY <1>1 DEF RInv, TypeInv, Buffer
  <1>3. out' \in Buffer /\ out'.pending = <<>> /\ out'.size = out.size /\ out'.max = out.max
    <2>1. <<>> \in Seq(Record) OBVIOUS
    <2> QED BY <1>1, <1>2, <2>1 DEF Buffer
  <1>4. wire' \in Seq(Record) BY <1>1, <1>2
  <1>5. Queue(sent, wire') BY <1>1, <1>2, QueueConcat DEF RInv
  <1> QED BY <1>1, <1>2, <1>3, <1>4, <1>5, WireStep

LEMMA DisturbKeeps == RInv /\ Disturb => RInv'
  <1> SUFFICES ASSUME RInv, Disturb PROVE RInv' OBVIOUS
  <1>1. PICK i \in 1 .. Len(wire) : wire' \in Disturbances(i) BY DEF Disturb
  <1>2. /\ failed' = failed \cup {"network"}
        /\ UNCHANGED <<conf, out, writer, reader, written, sent, got>>
    BY DEF Disturb
  <1>3. events' \in 0 .. MaxEvents BY BoundAssumption DEF Disturb, Event, RInv, TypeInv
  <1>4. wire \in Seq(Record) /\ out \in Buffer BY DEF RInv, TypeInv
  <1>5. ASSUME NEW w \in Seq(Record), \A k \in 1 .. Len(w) : \E m \in 1 .. Len(wire) : w[k] = wire[m]
        PROVE  Queue(sent, w)
    BY <1>5 DEF RInv, Queue
  <1>6. ASSUME NEW r \in Record, wire' = [wire EXCEPT ![i] = r], Honest(sent, r)
        PROVE  wire' \in Seq(Record) /\ Queue(sent, wire')
    BY <1>4, <1>6 DEF RInv, Queue
  <1>7. wire' \in Seq(Record) /\ Queue(sent, wire')
    <2>0. wire[i] \in Record /\ Honest(sent, wire[i]) BY <1>4 DEF RInv, Queue
    <2>1. CASE wire' = RemoveAt(wire, i)
      <3> DEFINE a == SubSeq(wire, 1, i - 1)
                 b == SubSeq(wire, i + 1, Len(wire))
      <3>1. a \in Seq(Record) /\ Queue(sent, a) /\ b \in Seq(Record) /\ Queue(sent, b)
        BY <1>4, QueueSub DEF RInv
      <3>2. wire' = a \o b BY <2>1 DEF RemoveAt
      <3> HIDE DEF a, b
      <3> QED BY <3>1, <3>2, QueueConcat
    <2>2. CASE wire' = InsertAt(wire, i, wire[i])
      <3> DEFINE a == SubSeq(wire, 1, i - 1)
                 b == SubSeq(wire, i, Len(wire))
                 c == <<wire[i]>>
      <3>1. a \in Seq(Record) /\ Queue(sent, a) /\ b \in Seq(Record) /\ Queue(sent, b)
        BY <1>4, QueueSub DEF RInv
      <3>2. c \in Seq(Record) /\ Queue(sent, c) BY <2>0 DEF Queue
      <3>3. wire' = (a \o c) \o b BY <2>2 DEF InsertAt
      <3> HIDE DEF a, b, c
      <3>4. a \o c \in Seq(Record) /\ Queue(sent, a \o c) BY <3>1, <3>2, QueueConcat
      <3> QED BY <3>1, <3>3, <3>4, QueueConcat
    <2>3. CASE wire' = [wire EXCEPT ![i].intact = FALSE]
      <3>1. [wire[i] EXCEPT !.intact = FALSE] \in Record /\ Honest(sent, [wire[i] EXCEPT !.intact = FALSE])
        BY <2>0 DEF Record, Honest
      <3>2. wire' = [wire EXCEPT ![i] = [wire[i] EXCEPT !.intact = FALSE]] BY <2>3
      <3> QED BY <1>6, <3>1, <3>2
    <2>4. CASE wire' = [wire EXCEPT ![i].version = SSLv3 - 1]
      <3>1. SSLv3 - 1 \in Int BY DEF SSLv3
      <3>2. [wire[i] EXCEPT !.version = SSLv3 - 1] \in Record
            /\ Honest(sent, [wire[i] EXCEPT !.version = SSLv3 - 1])
        BY <2>0, <3>1 DEF Record, Honest, Same
      <3>3. wire' = [wire EXCEPT ![i] = [wire[i] EXCEPT !.version = SSLv3 - 1]] BY <2>4
      <3> QED BY <1>6, <3>2, <3>3
    <2>5. CASE \E t \in {"app", "handshake", "alert", "ccs"} : wire' = [wire EXCEPT ![i].outer = t]
      <3>1. PICK t \in Content : wire' = [wire EXCEPT ![i].outer = t] BY <2>5 DEF Content
      <3>2. [wire[i] EXCEPT !.outer = t] \in Record /\ Honest(sent, [wire[i] EXCEPT !.outer = t])
        BY <2>0 DEF Record, Honest, Same
      <3>3. wire' = [wire EXCEPT ![i] = [wire[i] EXCEPT !.outer = t]] BY <3>1
      <3> QED BY <1>6, <3>2, <3>3
    <2>6. CASE i < Len(wire) /\ wire' = [wire EXCEPT ![i] = wire[i + 1], ![i + 1] = wire[i]]
      <3>1. wire' \in Seq(Record) BY <1>4, <2>6
      <3>2. \A k \in 1 .. Len(wire') : \E m \in 1 .. Len(wire) : wire'[k] = wire[m] BY <1>4, <2>6
      <3> QED BY <1>5, <3>1, <3>2
    <2> QED BY <1>1, <2>1, <2>2, <2>3, <2>4, <2>5, <2>6 DEF Disturbances
  <1> QED BY <1>2, <1>3, <1>4, <1>7, WireStep

-----------------------------------------------------------------------------
(* What opens under the connection's keys is the next record sealed.       *)

LEMMA Opening ==
    ASSUME RInv, NEW rec \in Record, Honest(sent, rec), Opens(conf.alg, rec, reader)
    PROVE  /\ Len(got) + 1 \in 1 .. Len(sent) /\ Same(rec, sent[Len(got) + 1])
           /\ s2n_tls13_parse_record_type(conf.alg, rec) = sent[Len(got) + 1].inner
           /\ PayloadLength(conf.alg, rec) = sent[Len(got) + 1].size
  <1> DEFINE alg == conf.alg
             seq == reader.seq
             len == PayloadLength(alg, rec)
             aad == Aad(alg, seq, rec.outer, len)
             mac == Authenticated(alg, 0, seq, rec.outer, len)
  <1>1. alg # "null" /\ Sized(alg) /\ (alg \in Tls13s <=> Tls13Alg(alg))
    BY SizedAlgs DEF RInv, TypeInv, Connection
  <1>2. /\ rec.intact /\ ~rec.plain
        /\ Type(alg) = "AEAD" => rec.auth = aad /\ rec.iv = AeadIv(rec, reader)
        /\ Type(alg) # "AEAD" => rec.auth = mac
    BY <1>1 DEF Opens, s2n_record_parse_aead, s2n_record_parse_cbc, s2n_record_parse_composite,
       s2n_record_parse_stream, s2n_verify_cbc, Mac, s2n_aead_cipher_aes_gcm_decrypt,
       s2n_aead_chacha20_poly1305_decrypt, s2n_cbc_cipher_aes_decrypt, s2n_cbc_cipher_3des_decrypt,
       s2n_composite_cipher_aes_sha_decrypt, s2n_stream_cipher_rc4_decrypt
  <1>3. PICK j \in 1 .. Len(sent) : Same(rec, sent[j]) BY <1>2 DEF Honest
  <1>4. PICK left \in Nat : sent[j].auth = Authenticated(alg, left, j - 1, sent[j].inner, sent[j].size)
    BY DEF RInv, Sealing
  <1>5. /\ rec.auth = Authenticated(alg, left, j - 1, rec.inner, rec.size)
        /\ Type(alg) = "AEAD" => rec.iv = <<"nonce", j - 1>>
    BY <1>3, <1>4 DEF Same, RInv, Sealing, IvOf
  <1>6. seq \in Nat /\ rec.size \in Nat /\ seq = Len(got) /\ rec.outer \in Content /\ rec.inner \in Content
    BY DEF RInv, TypeInv, Receiver, Record
  <1>7. seq = j - 1 /\ len = rec.size /\ (~Tls13Alg(alg) => rec.outer = rec.inner)
    <2>1. CASE Type(alg) = "AEAD" /\ Tls13Alg(alg)
      <3> DEFINE tag == cipher[CipherOf(alg)].tag
                 iv == ExplicitIv(alg, conf.version)
      <3>1. AeadIv(rec, reader) = <<"nonce", seq>> BY <2>1 DEF AeadIv, GcmNonce, Tls13Alg
      <3>2. seq = j - 1 BY <1>2, <1>5, <2>1, <3>1
      <3>3. tag = 16 /\ iv = 0 BY <1>1, <2>1 DEF Sized, Type, ExplicitIv
      <3>4. len = rec.length - iv - tag - 1 BY <1>1, <2>1 DEF PayloadLength, ContentTypeLength
      <3>5. rec.length \in Nat BY DEF Record
      <3>6. len \in Int BY <3>3, <3>4, <3>5
      <3>7. rec.auth.length = len + 1 + tag
        BY <1>2, <2>1 DEF Aad, s2n_tls13_aead_aad_init
      <3>8. rec.auth.length = rec.size + 1 + tag
        BY <1>1, <1>5, <2>1 DEF Authenticated, Aad, s2n_tls13_aead_aad_init
      <3> HIDE DEF len
      <3> QED BY <1>6, <2>1, <3>2, <3>3, <3>6, <3>7, <3>8
    <2>2. CASE Type(alg) = "AEAD" /\ ~Tls13Alg(alg)
      <3>1. rec.auth = [seq |-> seq, type |-> rec.outer, length |-> len]
        BY <1>2, <2>2 DEF Aad, s2n_aead_aad_init
      <3>2. rec.auth = [seq |-> j - 1, type |-> rec.inner, length |-> rec.size]
        BY <1>1, <1>5, <2>2 DEF Authenticated, Aad, s2n_aead_aad_init
      <3> HIDE DEF len
      <3> QED BY <3>1, <3>2
    <2>3. CASE Type(alg) # "AEAD"
      <3>1. rec.auth = [seq |-> seq, type |-> rec.outer, length |-> len, left |-> 0]
        BY <1>1, <1>2, <2>3 DEF Authenticated
      <3>2. rec.auth = [seq |-> j - 1, type |-> rec.inner, length |-> rec.size, left |-> left]
        BY <1>1, <1>5, <2>3 DEF Authenticated
      <3> HIDE DEF len
      <3> QED BY <3>1, <3>2
    <2> QED BY <2>1, <2>2, <2>3
  <1>8. s2n_tls13_parse_record_type(alg, rec) = rec.inner BY <1>7 DEF s2n_tls13_parse_record_type
  <1>9. j = Len(got) + 1
    <2>1. Len(got) \in Nat BY DEF RInv, TypeInv
    <2> QED BY <1>6, <1>7, <2>1
  <1> QED BY <1>3, <1>7, <1>8, <1>9 DEF Same

LEMMA ParseKeeps == RInv /\ s2n_record_parse => RInv'
  <1> SUFFICES ASSUME RInv, s2n_record_parse PROVE RInv' OBVIOUS
  <1> DEFINE rec == wire[1]
             alg == Alg(reader, s2n_is_tls13_plaintext_content(rec.outer))
  <1>1. /\ wire # <<>> /\ wire' = Tail(wire)
        /\ UNCHANGED <<conf, out, writer, written, sent, failed, events>>
    BY DEF s2n_record_parse
  <1>2. wire \in Seq(Record) /\ reader \in Receiver /\ got \in Seq(Opened) BY DEF RInv, TypeInv
  <1>3. rec \in Record /\ Honest(sent, rec) BY <1>1, <1>2 DEF RInv, Queue
  <1>4. wire' \in Seq(Record) /\ Queue(sent, wire')
    <2>1. wire' \in Seq(Record) /\ \A i \in 1 .. Len(wire') : wire'[i] = wire[i + 1] /\ i + 1 \in 1 .. Len(wire)
      BY <1>1, <1>2
    <2> QED BY <2>1 DEF RInv, Queue
  <1>5. /\ conf \in Connection /\ conf.alg \in AlgsOf(conf.version) /\ out \in Buffer /\ Len(out.pending) <= 1
        /\ writer \in Sender /\ sent \in Seq(Record) /\ written \in Nat /\ failed \subseteq Reasons
        /\ events \in 0 .. MaxEvents
    BY DEF RInv, TypeInv
  <1>6. SUFFICES reader' \in Receiver /\ got' \in Seq(Opened) /\ reader'.seq = Len(got') /\ RecordsIntact'
                 /\ reader'.at = reader.at
    <2>1. TypeInv' BY <1>1, <1>4, <1>5, <1>6 DEF TypeInv
    <2> QED BY <1>1, <1>4, <1>6, <2>1 DEF RInv
  <1>7. CASE reader' = [reader EXCEPT !.alive = FALSE] /\ got' = got
    <2>1. /\ reader' \in Receiver /\ reader'.seq = reader.seq
          /\ reader'.at = reader.at /\ reader'.bare = reader.bare
      BY <1>2, <1>7 DEF Receiver
    <2>2. RecordsIntact' BY <1>1, <1>7, <2>1 DEF RInv, RecordsIntact
    <2> QED BY <1>2, <1>7, <2>1, <2>2 DEF RInv
  <1>8. CASE Opens(alg, rec, reader)
             /\ reader' = [AfterReading(alg, reader, rec) EXCEPT
                              !.bare = IF alg = "null" THEN @ \cup {rec.outer} ELSE @]
             /\ got' = IF alg = "null" THEN got
                       ELSE Append(got, [type |-> s2n_tls13_parse_record_type(alg, rec),
                                         size |-> PayloadLength(alg, rec), id |-> rec.id])
    <2>1. alg \in {"null", conf.alg} /\ conf.alg # "null"
      BY <1>5, SizedAlgs DEF Alg, Connection
    <2>2. /\ reader' \in Receiver /\ reader'.seq = (IF alg = "null" THEN reader.seq ELSE reader.seq + 1)
          /\ reader'.at = reader.at
          /\ reader'.bare = (IF alg = "null" THEN reader.bare \cup {rec.outer} ELSE reader.bare)
      <3>0. rec.outer \in Content BY <1>3 DEF Record
      <3> HIDE DEF alg, rec
      <3> DEFINE mid == s2n_increment_sequence_number(alg, reader)
                 iv == IF Type(alg) = "COMPOSITE" \/ (Type(alg) = "CBC" /\ conf.version < TLS11)
                       THEN <<"block", rec.id>> ELSE mid.iv
                 stream == IF Type(alg) = "STREAM" /\ alg # "null"
                           THEN mid.stream + rec.actual ELSE mid.stream
      <3>1. /\ mid \in Receiver /\ mid.seq = (IF alg = "null" THEN reader.seq ELSE reader.seq + 1)
            /\ mid.at = reader.at /\ mid.bare = reader.bare
        BY <1>2 DEF s2n_increment_sequence_number, Receiver
      <3> HIDE DEF mid
      <3>2. rec.id \in Nat /\ rec.actual \in Nat BY <1>3 DEF Record
      <3>3. iv \in Iv BY <3>1, <3>2 DEF Iv, Receiver
      <3>4. stream \in Nat BY <3>1, <3>2 DEF Receiver
      <3> DEFINE after == AfterReading(alg, reader, rec)
      <3>5. after = [mid EXCEPT !.iv = iv, !.stream = stream]
        BY DEF AfterReading, s2n_record_encrypt, mid
      <3>6. reader' = [after EXCEPT !.bare = IF alg = "null" THEN @ \cup {rec.outer} ELSE @]
        BY <1>8
      <3> HIDE DEF iv, stream, after
      <3>7. /\ after \in Receiver /\ after.seq = mid.seq /\ after.at = mid.at
            /\ after.bare = mid.bare
        BY <3>1, <3>3, <3>4, <3>5 DEF Receiver
      <3> QED BY <3>0, <3>1, <3>6, <3>7 DEF Receiver
    <2>3. CASE alg = "null"
      <3>1. got' = got /\ reader'.bare = reader.bare \cup {rec.outer} BY <1>8, <2>2, <2>3
      <3>2. rec.outer # "app"
        <4>1. Type("null") = "STREAM" BY CipherNames, CipherSizes DEF Type
        <4> QED BY <1>8, <2>3, <4>1 DEF Opens
      <3>3. reader.at = "initial" \/ s2n_is_tls13_plaintext_content(rec.outer)
        BY <2>1, <2>3 DEF Alg
      <3>4. conf.version = TLS13 BY <3>3 DEF RInv, s2n_is_tls13_plaintext_content
      <3>5. reader'.at = "secure" => rec.outer \in {"alert", "ccs"}
        BY <2>2, <3>3 DEF s2n_is_tls13_plaintext_content
      <3> HIDE DEF alg, rec
      <3>6. RecordsIntact' BY <1>1, <2>2, <3>1, <3>2, <3>4, <3>5 DEF RInv, RecordsIntact
      <3> QED BY <1>2, <2>2, <2>3, <3>1, <3>6 DEF RInv
    <2>4. CASE alg # "null"
      <3> DEFINE new == [type |-> s2n_tls13_parse_record_type(alg, rec),
                         size |-> PayloadLength(alg, rec), id |-> rec.id]
                 n == Len(got)
      <3>1. alg = conf.alg BY <2>1, <2>4
      <3>2. /\ n + 1 \in 1 .. Len(sent) /\ Same(rec, sent[n + 1])
            /\ s2n_tls13_parse_record_type(alg, rec) = sent[n + 1].inner
            /\ PayloadLength(alg, rec) = sent[n + 1].size
        BY <1>3, <1>8, <3>1, Opening
      <3>3. got' = Append(got, new) BY <1>8, <2>4
      <3>4. sent[n + 1] \in Record /\ sent[n + 1].inner \in Content /\ sent[n + 1].size \in Nat
            /\ sent[n + 1].id = rec.id /\ rec.id \in Nat
        <4>1. sent[n + 1] \in Record BY <1>5, <3>2
        <4> HIDE DEF n, rec
        <4> QED BY <1>3, <3>2, <4>1 DEF Record, Same
      <3>5. new \in Opened /\ new.id = sent[n + 1].id /\ new.type = sent[n + 1].inner
            /\ new.size = sent[n + 1].size
        BY <3>2, <3>4 DEF Opened
      <3> HIDE DEF new, alg, rec
      <3>6. got' \in Seq(Opened) /\ Len(got') = n + 1 /\ got'[n + 1] = new
            /\ \A i \in 1 .. n : got'[i] = got[i]
        BY <1>2, <3>3, <3>5
      <3>7. RecordsIntact'
        <4>1. n \in Nat BY <1>2
        <4>2. n <= Len(sent) /\ \A i \in 1 .. n : got[i].id = sent[i].id /\ got[i].type = sent[i].inner
                                                /\ got[i].size = sent[i].size
          BY DEF RInv, RecordsIntact
        <4> HIDE DEF n
        <4>3. \A i \in 1 .. n + 1 : i \in 1 .. n \/ i = n + 1 BY <4>1
        <4>4. \A i \in 1 .. n + 1 : got'[i].id = sent[i].id /\ got'[i].type = sent[i].inner
                                    /\ got'[i].size = sent[i].size
          BY <3>5, <3>6, <4>2, <4>3
        <4>5. reader'.bare = reader.bare /\ reader'.at = reader.at BY <2>2, <2>4
        <4> QED BY <1>1, <3>2, <3>6, <4>4, <4>5 DEF RInv, RecordsIntact
      <3> QED BY <2>2, <2>4, <3>6, <3>7 DEF RInv
    <2> QED BY <2>3, <2>4
  <1> QED BY <1>7, <1>8 DEF s2n_record_parse

LEMMA OwnWriteKeeps == RInv /\ OwnWriteFails => RInv'
  <1> SUFFICES ASSUME RInv, OwnWriteFails PROVE RInv' OBVIOUS
  <1>1. /\ reader' = Switched(reader, "ccs") /\ Switched(reader, "ccs") # reader
        /\ failed' = failed \cup {"own"} /\ UNCHANGED <<conf, out, writer, wire, written, sent, got>>
    BY DEF OwnWriteFails
  <1>2. reader \in Receiver BY DEF RInv, TypeInv
  <1>3. conf.version = TLS13 BY <1>1, <1>2 DEF Switched, Receiver
  <1>4. /\ reader' \in Receiver /\ reader'.at = "initial" /\ reader'.seq = reader.seq
        /\ reader'.bare = reader.bare
    BY <1>1, <1>2, <1>3 DEF Switched, Receiver
  <1>5. events' \in 0 .. MaxEvents BY BoundAssumption DEF OwnWriteFails, Event, RInv, TypeInv
  <1>6. failed' \subseteq Reasons /\ failed' \cap {"length", "space"} = {}
    BY <1>1 DEF RInv, TypeInv, Reasons
  <1>7. TypeInv' BY <1>1, <1>4, <1>5, <1>6 DEF RInv, TypeInv
  <1>8. RecordsIntact' BY <1>1, <1>3, <1>4 DEF RInv, RecordsIntact
  <1> QED BY <1>1, <1>3, <1>4, <1>6, <1>7, <1>8 DEF RInv

-----------------------------------------------------------------------------
(* Sealing one more record.                                                *)

(* Record r is sealed as the k-th written by half w, which then is v. *)
Seals(alg, version, w, k, r, v) ==
    /\ ~r.plain /\ r.id = k
    /\ \E left \in Nat : r.auth = Authenticated(alg, left, w.seq, r.inner, r.size)
    /\ Type(alg) = "AEAD" => r.iv = <<"nonce", w.seq>>
    /\ Blocks(alg) /\ version > TLS10 => r.iv = <<"random", k>>
    /\ Blocks(alg) /\ version <= TLS10 => r.iv = w.iv /\ v.iv = <<"block", k>>
    /\ Type(alg) = "STREAM" => r.iv = <<"stream", w.stream>> /\ v.stream = w.stream + r.actual
    /\ r.actual = EncryptedLength(alg, version, r.size)
    /\ v.seq = w.seq + 1

LEMMA SealingAppend ==
    ASSUME NEW alg \in Others \cup Tls13s, NEW version \in Versions, NEW s \in Seq(Record),
           NEW w \in Sender, NEW v \in Sender, NEW k \in Nat, NEW r \in Record,
           Sealing(alg, version, s, w, k), Seals(alg, version, w, k, r, v)
    PROVE  Append(s, r) \in Seq(Record) /\ Sealing(alg, version, Append(s, r), v, k + 1)
  <1> DEFINE t == Append(s, r)
             n == Len(s)
  <1>1. /\ t \in Seq(Record) /\ n \in Nat /\ Len(t) = n + 1 /\ t[n + 1] = r
        /\ \A i \in 1 .. n : t[i] = s[i] /\ s[i] \in Record
    OBVIOUS
  <1>2. /\ w.seq = n /\ w.seq \in Nat /\ w.stream \in Nat /\ v.stream \in Nat /\ r.actual \in Nat
        /\ r.size \in Nat /\ r.id = k
    BY DEF Sealing, Sender, Record, Seals
  <1>3. Lengths(alg, version, r.size)
    BY <1>2, LengthsOf DEF Used, Versions, SSLv3, TLS10, TLS11, TLS12, TLS13
  <1>4. alg # "null" BY SizedAlgs
  <1>5. /\ Type(alg) = "STREAM" => r.actual > 0
        /\ r.size <= s2n_record_min_write_payload_size(alg, version) => r.actual + HeaderLength <= FrameLength
    <2>1. r.actual = EncryptedLength(alg, version, r.size) BY DEF Seals
    <2> QED BY <1>2, <1>3, <1>4, <2>1 DEF Lengths
  <1> HIDE DEF t, n
  <1>6. \A i \in 1 .. n + 1 : i \in 1 .. n \/ i = n + 1 BY <1>1
  <1>7. \A i \in 1 .. n : s[i].iv \in Iv /\ s[i].id \in Nat /\ s[i].actual \in Nat BY <1>1 DEF Record
  <1>8. /\ \A i \in 1 .. n :
             /\ ~s[i].plain /\ s[i].id < k
             /\ \E left \in Nat : s[i].auth = Authenticated(alg, left, i - 1, s[i].inner, s[i].size)
             /\ IvOf(alg, version, s, i)
             /\ Type(alg) = "STREAM" => w.stream >= s[i].iv[2] + s[i].actual
             /\ s[i].size <= s2n_record_min_write_payload_size(alg, version)
                   => s[i].actual + HeaderLength <= FrameLength
        /\ Blocks(alg) /\ version <= TLS10 => w.iv = Prior(s, n + 1)
    BY DEF Sealing, n
  <1>9. \A i \in 1 .. n + 1 : Prior(t, i) = Prior(s, i) BY <1>1 DEF Prior
  <1>10. Prior(t, n + 2) = <<"block", k>> BY <1>1, <1>2 DEF Prior
  <1>11. ASSUME NEW i \in 1 .. n
         PROVE  /\ ~t[i].plain /\ t[i].id < k + 1
                /\ \E left \in Nat : t[i].auth = Authenticated(alg, left, i - 1, t[i].inner, t[i].size)
                /\ IvOf(alg, version, t, i)
                /\ Type(alg) = "STREAM" => v.stream >= t[i].iv[2] + t[i].actual
                /\ t[i].size <= s2n_record_min_write_payload_size(alg, version)
                      => t[i].actual + HeaderLength <= FrameLength
    <2>1. t[i] = s[i] /\ \A j \in 1 .. i - 1 : t[j] = s[j] BY <1>1
    <2>2. IvOf(alg, version, t, i)
      <3>1. Prior(t, i) = Prior(s, i) BY <1>1, <1>9
      <3> QED BY <1>8, <2>1, <3>1 DEF IvOf
    <2>3. Type(alg) = "STREAM" => v.stream >= t[i].iv[2] + t[i].actual
      <3> SUFFICES ASSUME Type(alg) = "STREAM" PROVE v.stream >= s[i].iv[2] + s[i].actual BY <2>1
      <3>1. s[i].iv[2] \in Nat BY <1>8 DEF IvOf
      <3>2. v.stream = w.stream + r.actual BY DEF Seals
      <3>3. w.stream >= s[i].iv[2] + s[i].actual /\ s[i].actual \in Nat BY <1>7, <1>8
      <3> DEFINE a == s[i].iv[2]
                 b == s[i].actual
      <3>4. a \in Nat /\ b \in Nat /\ w.stream >= a + b BY <3>1, <3>3
      <3> HIDE DEF a, b
      <3>5. w.stream + r.actual >= a + b BY <1>2, <3>4
      <3> QED BY <3>2, <3>5 DEF a, b
    <2>4. s[i].id < k + 1
      <3>1. s[i].id < k /\ s[i].id \in Nat BY <1>7, <1>8
      <3> QED BY <3>1
    <2> QED BY <1>8, <2>1, <2>2, <2>3, <2>4
  <1>12. IvOf(alg, version, t, n + 1)
    <2>1. Type(alg) = "STREAM" => r.iv = <<"stream", r.iv[2]>> /\ r.iv[2] = w.stream
      BY DEF Seals
    <2>2. \A j \in 1 .. n : s[j].id < r.id /\ (Type(alg) = "STREAM" => r.iv[2] >= s[j].iv[2] + s[j].actual)
      BY <1>2, <1>8, <2>1
    <2>3. Blocks(alg) /\ version <= TLS10 => r.iv = Prior(t, n + 1) BY <1>1, <1>8, <1>9 DEF Seals
    <2>4. (n + 1) - 1 = n BY <1>1
    <2> QED BY <1>1, <1>2, <1>5, <2>1, <2>2, <2>3, <2>4 DEF IvOf, Seals
  <1>13. /\ ~r.plain /\ r.id < k + 1
         /\ \E left \in Nat : r.auth = Authenticated(alg, left, (n + 1) - 1, r.inner, r.size)
         /\ Type(alg) = "STREAM" => v.stream >= r.iv[2] + r.actual
    <2>1. (n + 1) - 1 = w.seq BY <1>2
    <2>2. Type(alg) = "STREAM" => r.iv[2] = w.stream /\ v.stream = w.stream + r.actual BY DEF Seals
    <2>3. r.id < k + 1 BY <1>2
    <2>4. Type(alg) = "STREAM" => v.stream >= r.iv[2] + r.actual BY <1>2, <2>2
    <2> QED BY <2>1, <2>3, <2>4 DEF Seals
  <1>14. v.seq = Len(t) BY <1>1, <1>2 DEF Seals
  <1>15. Blocks(alg) /\ version <= TLS10 => v.iv = Prior(t, Len(t) + 1)
    <2>1. Len(t) + 1 = n + 2 BY <1>1
    <2> QED BY <1>10, <2>1 DEF Seals
  <1>16. Sealing(alg, version, t, v, k + 1)
    BY <1>1, <1>5, <1>6, <1>11, <1>12, <1>13, <1>14, <1>15 DEF Sealing
  <1> QED BY <1>1, <1>16 DEF t

LEMMA QueueGrows ==
    ASSUME NEW s \in Seq(Record), NEW r \in Record, NEW q \in Seq(Record), Queue(s, q)
    PROVE  Queue(Append(s, r), q)
  <1> DEFINE t == Append(s, r)
  <1>1. Len(s) \in Nat /\ Len(t) = Len(s) + 1 /\ \A i \in 1 .. Len(s) : t[i] = s[i] /\ i \in 1 .. Len(t)
    OBVIOUS
  <1> HIDE DEF t
  <1>2. \A x : Honest(s, x) => Honest(t, x) BY <1>1 DEF Honest
  <1>3. Queue(t, q) BY <1>2 DEF Queue
  <1> QED BY <1>3 DEF t

LEMMA SealedRecord ==
    ASSUME TypeInv, NEW alg \in {"null", conf.alg}, NEW half \in Sender, NEW type \in Content,
           NEW n \in Nat
    PROVE  Sealed(alg, half, type, n) \in Record
  <1>1. conf.alg \in Used /\ alg \in Used /\ conf.version \in Nat /\ conf.version \in Int
    BY DEF TypeInv, Connection, Used, Versions, SSLv3, TLS10, TLS11, TLS12, TLS13
  <1>2. FragmentLength(alg, conf.version, n) \in Nat /\ EncryptedLength(alg, conf.version, n) \in Nat
    <2> DEFINE a == EncryptedLength(alg, conf.version, n)
               m == IF Tls13Alg(alg) THEN 17 ELSE 112
    <2>1. a \in n .. n + m /\ FragmentLength(alg, conf.version, n) = a BY <1>1, LengthsOf DEF Lengths
    <2>2. m \in Nat OBVIOUS
    <2> HIDE DEF a, m
    <2>3. a \in Nat BY <2>1, <2>2
    <2> QED BY <2>1, <2>3 DEF a
  <1>3. RecordIv(alg, half) \in Iv
    <2>1. half.seq \in Nat /\ half.iv \in Iv /\ half.stream \in Nat /\ written \in Nat
      BY DEF Sender, TypeInv
    <2>2. <<"nonce", half.seq>> \in Iv /\ <<"random", written>> \in Iv /\ <<"stream", half.stream>> \in Iv
      BY <2>1 DEF Iv
    <2> QED BY <2>1, <2>2 DEF RecordIv
  <1>4. Authenticated(alg, half.mac, half.seq, type, n) \in Auth
    <2>1. half.seq \in Nat /\ half.mac \in Nat BY DEF Sender
    <2>2. Aad(alg, half.seq, type, n) \in Auth \/ Type(alg) # "AEAD"
      <3> SUFFICES ASSUME Type(alg) = "AEAD" PROVE Aad(alg, half.seq, type, n) \in Auth OBVIOUS
      <3>1. alg # "null" BY CipherNames, CipherSizes DEF Type
      <3>2. cipher[CipherOf(alg)].tag = 16 BY <1>1, <3>1, SizedAlgs DEF Sized, Type, Used
      <3> QED BY <2>1, <3>2 DEF Aad, s2n_tls13_aead_aad_init, s2n_aead_aad_init, Auth, Content
    <2>3. [seq |-> 0, type |-> type, length |-> n] \in Auth
          /\ [seq |-> half.seq, type |-> type, length |-> n, left |-> half.mac] \in Auth
      BY <2>1 DEF Auth
    <2> QED BY <2>2, <2>3 DEF Authenticated
  <1>5. (IF Tls13Alg(alg) THEN "app" ELSE type) \in Content BY DEF Content
  <1>6. written \in Nat BY DEF TypeInv
  <1>7. (alg = "null") \in BOOLEAN OBVIOUS
  <1> QED BY <1>1, <1>2, <1>3, <1>4, <1>5, <1>6, <1>7 DEF Sealed, Record

LEMMA PieceRecord == TypeInv => Piece \in Record
  <1> SUFFICES ASSUME TypeInv PROVE Piece \in Record OBVIOUS
  <1>1. conf.version \in Int /\ written \in Nat
    BY DEF TypeInv, Connection, Versions, SSLv3, TLS10, TLS11, TLS12, TLS13
  <1>2. Type("null") = "STREAM" BY CipherNames, CipherSizes DEF Type
  <1>3. Authenticated("null", 0, 0, "app", 0) = [seq |-> 0, type |-> "app", length |-> 0]
    BY <1>2 DEF Authenticated
  <1>4. Authenticated("null", 0, 0, "app", 0) \in Auth BY <1>3 DEF Auth, Content
  <1>5. <<"derived">> \in Iv /\ "app" \in Content BY DEF Iv, Content
  <1> QED BY <1>1, <1>4, <1>5 DEF Piece, Record

(* The half of the writer when nothing was sealed. *)
LEMMA SealingKept ==
    ASSUME NEW alg, NEW version, NEW s \in Seq(Record), NEW w, NEW v, NEW k \in Nat, NEW m \in Nat,
           Sealing(alg, version, s, w, k),
           v.seq = w.seq, v.iv = w.iv, v.stream = w.stream, k <= m
    PROVE  Sealing(alg, version, s, v, m)
  <1>1. \A i \in 1 .. Len(s) : s[i].id < m
    <2> SUFFICES ASSUME NEW i \in 1 .. Len(s) PROVE s[i].id < m OBVIOUS
    <2>1. s[i] \in Record /\ s[i].id < k BY DEF Sealing
    <2>2. s[i].id \in Nat BY <2>1 DEF Record
    <2> QED BY <2>1, <2>2
  <1> QED BY <1>1 DEF Sealing

(* The sizes a write is asked for. *)
LEMMA WriteSize ==
    ASSUME RInv, NEW type \in Types, Write(type)
    PROVE  \E size \in Nat : s2n_record_writev(type, size)
  <1>1. s2n_record_min_write_payload_size(conf.alg, conf.version) \in Nat
    <2>1. conf.alg \in Used /\ conf.version \in Nat /\ conf.alg # "null"
      BY SizedAlgs DEF RInv, TypeInv, Connection, Used, Versions, SSLv3, TLS10, TLS11, TLS12, TLS13
    <2> QED BY <2>1, LengthsOf DEF Lengths
  <1> QED BY <1>1, BoundAssumption DEF Write

(* The buffer of a write has room for the record. *)
LEMMA WriteRoom ==
    ASSUME RInv, NEW alg \in {"null", conf.alg}, NEW need \in Nat, NEW n \in Nat,
           n <= s2n_record_max_write_payload_size(out.max)
    PROVE  LET o == Allocated(out)
               g == s2n_stuffer_reserve_space(o, need)
           IN  /\ o \in Buffer /\ o.pending = out.pending /\ Roomy(conf.version, o)
               /\ g \in Buffer /\ g.pending = out.pending /\ Roomy(conf.version, g)
               /\ EncryptedLength(alg, conf.version, n) + HeaderLength <= g.size
               /\ FragmentLength(alg, conf.version, n) + HeaderLength <= MaxRecordLength(alg)
  <1> DEFINE o == Allocated(out)
             g == s2n_stuffer_reserve_space(o, need)
             p == s2n_record_max_write_payload_size(out.max)
             z == s2n_record_max_write_size(conf.version, p)
  <1>1. out \in Buffer /\ out.max \in Nat /\ out.size \in Nat BY DEF RInv, TypeInv, Buffer
  <1>2. p \in Nat /\ p <= 16384
    BY <1>1 DEF s2n_record_max_write_payload_size, S2N_TLS_MAXIMUM_FRAGMENT_LENGTH
  <1> HIDE DEF p
  <1>3. z \in Nat /\ z = p + 5 + (IF conf.version < TLS13 THEN 1024 ELSE 256)
    BY <1>2 DEF s2n_record_max_write_size, HeaderLength
  <1>4. out.size = 0 \/ out.size >= z BY DEF RInv, Roomy, p
  <1>5. o \in Buffer /\ o.pending = out.pending /\ o.max = out.max /\ o.size \in Nat /\ o.size >= z
    <2>1. CASE out.size = 0
      <3>1. o = [out EXCEPT !.size = z, !.tainted = FALSE] BY <2>1 DEF Allocated, p
      <3>2. z \in Nat BY <1>3
      <3> HIDE DEF o, z
      <3>3. o \in Buffer /\ o.pending = out.pending /\ o.max = out.max /\ o.size = z
        BY <1>1, <3>1, <3>2 DEF Buffer
      <3> QED BY <3>2, <3>3
    <2>2. CASE out.size # 0
      <3>1. o = out BY <2>2 DEF Allocated
      <3> QED BY <1>1, <1>4, <2>2, <3>1
    <2> QED BY <2>1, <2>2
  <1> HIDE DEF o
  <1>6. g \in Buffer /\ g.pending = out.pending /\ g.max = out.max /\ g.size \in Nat /\ g.size >= z
    <2>1. CASE o.tainted \/ need <= o.size
      <3>1. g = o BY <2>1 DEF s2n_stuffer_reserve_space
      <3> QED BY <1>5, <3>1
    <2>2. CASE ~(o.tainted \/ need <= o.size)
      <3> DEFINE y == o.size + (IF need - o.size > 1024 THEN need - o.size ELSE 1024)
      <3>1. y \in Nat /\ y >= o.size BY <1>5, <2>2
      <3>2. g = [o EXCEPT !.size = y] BY <2>2 DEF s2n_stuffer_reserve_space
      <3> HIDE DEF y, g
      <3>3. g \in Buffer /\ g.pending = o.pending /\ g.max = o.max /\ g.size = y
        BY <1>5, <3>1, <3>2 DEF Buffer
      <3> HIDE DEF z
      <3> QED BY <1>3, <1>5, <3>1, <3>3
    <2> QED BY <2>1, <2>2
  <1> HIDE DEF g
  <1>7. Roomy(conf.version, o) /\ Roomy(conf.version, g) BY <1>5, <1>6 DEF Roomy, p
  <1>8. conf.alg \in Used /\ alg \in Used /\ conf.version \in Nat
    BY DEF RInv, TypeInv, Connection, Used, Versions, SSLv3, TLS10, TLS11, TLS12, TLS13
  <1> DEFINE a == EncryptedLength(alg, conf.version, n)
  <1>9. a \in n .. n + (IF Tls13Alg(alg) THEN 17 ELSE 112) /\ FragmentLength(alg, conf.version, n) = a
    BY <1>8, LengthsOf DEF Lengths
  <1> HIDE DEF a
  <1>10. n <= p BY DEF p
  <1>11. a + 5 <= z /\ a + 5 <= MaxRecordLength(alg)
    <2>1. TLS13 = 34 /\ TLS12 = 33 BY DEF TLS12, TLS13
    <2>2. MaxRecordLength(alg) = 16384 + 5 + (IF Tls13Alg(alg) THEN 256 ELSE 1024)
      BY <2>1 DEF MaxRecordLength, s2n_record_max_write_size, HeaderLength, S2N_TLS_MAXIMUM_FRAGMENT_LENGTH
    <2> HIDE DEF z
    <2> QED BY <1>2, <1>3, <1>8, <1>9, <1>10, <2>2
  <1>12. a + HeaderLength <= g.size
    <2> HIDE DEF z
    <2>1. a \in Nat
      <3> DEFINE m == IF Tls13Alg(alg) THEN 17 ELSE 112
      <3>1. m \in Nat /\ a \in n .. n + m BY <1>9
      <3> HIDE DEF m
      <3> QED BY <3>1
    <2> QED BY <1>3, <1>6, <1>11, <2>1 DEF HeaderLength
  <1> QED BY <1>5, <1>6, <1>7, <1>9, <1>11, <1>12 DEF a, g, o, HeaderLength

LEMMA WriteKeeps == ASSUME RInv, NEW type \in Types, Write(type) PROVE RInv'
  <1>0. PICK size \in Nat : s2n_record_writev(type, size) BY WriteSize
  <1> DEFINE half == Switched(writer, type)
             alg == Alg(half, FALSE)
             max == s2n_record_max_write_payload_size(out.max)
             n == IF size < max THEN size ELSE max
             o == Allocated(out)
             rec == Sealed(alg, half, type, n)
             next == s2n_record_encrypt(alg, s2n_increment_sequence_number(alg, half), rec)
             need == HeaderLength + ExplicitIv(alg, conf.version) + n
             grown == s2n_stuffer_reserve_space(o, need)
             refused == Refused(alg, type, rec, grown.size)
             Fails == /\ Event
                      /\ \E why \in refused \cup Unlucky(alg, out) :
                            /\ failed' = failed \cup {why}
                            /\ writer' = Abandoned(alg, half, why)
                            /\ out' = LeftIn(o, grown, why)
                      /\ UNCHANGED <<sent, written>>
             Works == /\ refused = {}
                      /\ out' = [grown EXCEPT !.tainted = TRUE, !.pending = <<rec>>]
                      /\ writer' = [Digested(next) EXCEPT !.at = writer.at]
                      /\ sent' = IF rec.plain THEN sent ELSE Append(sent, rec)
                      /\ written' = written + 1
                      /\ UNCHANGED <<failed, events>>
  <1>1. (Fails \/ Works) /\ UNCHANGED <<conf, reader, got, wire>> /\ out.pending = <<>>
    BY <1>0 DEF s2n_record_writev
  <1>2. /\ TypeInv /\ conf \in Connection /\ conf.alg \in AlgsOf(conf.version) /\ out \in Buffer
        /\ writer \in Sender /\ reader \in Receiver /\ wire \in Seq(Record) /\ sent \in Seq(Record)
        /\ got \in Seq(Opened) /\ written \in Nat /\ failed \subseteq Reasons /\ events \in 0 .. MaxEvents
    BY DEF RInv, TypeInv
  <1>3. half \in Sender /\ half.seq = writer.seq /\ half.iv = writer.iv /\ half.stream = writer.stream
    BY <1>2 DEF Switched, Sender
  <1>4. alg \in {"null", conf.alg} /\ conf.alg # "null" BY <1>2, SizedAlgs DEF Alg, Connection
  <1>5. max \in Nat /\ n \in Nat /\ n <= max
    <2>1. out.max \in Nat BY <1>2 DEF Buffer
    <2> QED BY <2>1 DEF s2n_record_max_write_payload_size, S2N_TLS_MAXIMUM_FRAGMENT_LENGTH
  <1>6. type \in Content BY BoundAssumption DEF Content
  <1> HIDE DEF half, alg, max, n
  <1>7. rec \in Record BY <1>2, <1>3, <1>4, <1>5, <1>6, SealedRecord
  <1>8. need \in Nat
    <2>1. ExplicitIv(alg, conf.version) \in Nat
      <3>1. alg \in Used /\ conf.version \in Nat
        BY <1>2, <1>4 DEF Connection, Used, Versions, SSLv3, TLS10, TLS11, TLS12, TLS13
      <3> QED BY <3>1, ExplicitIvs
    <2> QED BY <1>5, <2>1 DEF HeaderLength
  <1> HIDE DEF need
  <1>9. /\ o \in Buffer /\ o.pending = out.pending /\ Roomy(conf.version, o)
        /\ grown \in Buffer /\ grown.pending = out.pending /\ Roomy(conf.version, grown)
        /\ EncryptedLength(alg, conf.version, n) + HeaderLength <= grown.size
        /\ FragmentLength(alg, conf.version, n) + HeaderLength <= MaxRecordLength(alg)
    BY <1>4, <1>5, <1>8, WriteRoom DEF max
  <1> HIDE DEF o, grown
  <1>10. refused \subseteq {"null"}
    <2>1. rec.length = FragmentLength(alg, conf.version, n) /\ rec.actual = EncryptedLength(alg, conf.version, n)
      BY DEF Sealed
    <2>2. rec.length \in Nat /\ rec.actual \in Nat /\ grown.size \in Nat BY <1>7, <1>9 DEF Record, Buffer
    <2>3. MaxRecordLength(alg) \in Nat
      BY DEF MaxRecordLength, s2n_record_max_write_size, HeaderLength, S2N_TLS_MAXIMUM_FRAGMENT_LENGTH
    <2> HIDE DEF rec
    <2>4. ~(rec.length + HeaderLength > MaxRecordLength(alg)) /\ ~(rec.actual + HeaderLength > grown.size)
      BY <1>9, <2>1, <2>2, <2>3 DEF HeaderLength
    <2> QED BY <2>4 DEF Refused
  <1>11. CASE Fails
    <2>1. PICK why \in refused \cup Unlucky(alg, out) :
             /\ failed' = failed \cup {why}
             /\ writer' = Abandoned(alg, half, why)
             /\ out' = LeftIn(o, grown, why)
      BY <1>11
    <2>2. /\ why \in {"null", "alloc", "random"}
          /\ writer' = IF why = "null" THEN half ELSE Fed(alg, half)
          /\ out' = IF why \in {"null", "alloc"} THEN out ELSE [o EXCEPT !.pending = <<Piece>>]
      BY <1>10, <2>1 DEF Unlucky, Abandoned, LeftIn
    <2>3. sent' = sent /\ written' = written /\ events' \in 0 .. MaxEvents
      BY <1>2, <1>11, BoundAssumption DEF Event
    <2>4. writer' \in Sender /\ writer'.seq = writer.seq /\ writer'.iv = writer.iv
          /\ writer'.stream = writer.stream
      <3>1. Fed(alg, half) \in Sender /\ Fed(alg, half).seq = half.seq /\ Fed(alg, half).iv = half.iv
            /\ Fed(alg, half).stream = half.stream
        BY <1>3 DEF Fed, Sender
      <3> QED BY <1>3, <2>2, <3>1
    <2>5. out' \in Buffer /\ Len(out'.pending) <= 1 /\ Queue(sent, out'.pending) /\ Roomy(conf.version, out')
      <3>1. CASE out' = out BY <1>2, <3>1 DEF RInv, TypeInv
      <3>2. CASE out' = [o EXCEPT !.pending = <<Piece>>]
        <4>1. Piece \in Record /\ ~Piece.intact BY <1>2, PieceRecord DEF Piece
        <4>2. <<Piece>> \in Seq(Record) /\ Len(<<Piece>>) = 1 /\ Queue(sent, <<Piece>>)
          BY <4>1 DEF Queue, Honest
        <4>3. out' \in Buffer /\ out'.pending = <<Piece>> /\ out'.size = o.size /\ out'.max = o.max
          BY <1>9, <3>2, <4>2 DEF Buffer
        <4>4. Roomy(conf.version, out') BY <1>9, <4>3 DEF Roomy
        <4> QED BY <4>2, <4>3, <4>4
      <3> QED BY <2>2, <3>1, <3>2
    <2>6. Sealing(conf.alg, conf.version, sent, writer', written)
      <3>1. Sealing(conf.alg, conf.version, sent, writer, written) /\ written <= written
        BY <1>2 DEF RInv
      <3> QED BY <1>2, <2>4, <3>1, SealingKept
    <2>7. failed' \subseteq Reasons /\ failed' \cap {"length", "space"} = {}
      BY <1>2, <2>1, <2>2 DEF Reasons, RInv
    <2>8. TypeInv' BY <1>1, <1>2, <2>3, <2>4, <2>5, <2>7 DEF TypeInv
    <2> QED BY <1>1, <2>3, <2>5, <2>6, <2>7, <2>8 DEF RInv, RecordsIntact
  <1>12. CASE Works
    <2>1. out' \in Buffer /\ Len(out'.pending) <= 1 /\ out'.pending = <<rec>> /\ Roomy(conf.version, out')
      <3>1. <<rec>> \in Seq(Record) /\ Len(<<rec>>) = 1 BY <1>7
      <3>2. out' = [grown EXCEPT !.tainted = TRUE, !.pending = <<rec>>] BY <1>12
      <3> HIDE DEF rec
      <3>3. out' \in Buffer /\ out'.pending = <<rec>> /\ out'.size = grown.size /\ out'.max = grown.max
        BY <1>9, <3>1, <3>2 DEF Buffer
      <3>4. Roomy(conf.version, out') BY <1>9, <3>3 DEF Roomy
      <3> QED BY <3>1, <3>3, <3>4
    <2> DEFINE mid == s2n_increment_sequence_number(alg, half)
               iv == IF Type(alg) = "COMPOSITE" \/ (Type(alg) = "CBC" /\ conf.version < TLS11)
                     THEN <<"block", rec.id>> ELSE mid.iv
               stream == IF Type(alg) = "STREAM" /\ alg # "null"
                         THEN mid.stream + rec.actual ELSE mid.stream
    <2>2. mid \in Sender /\ mid.seq = (IF alg = "null" THEN half.seq ELSE half.seq + 1)
          /\ mid.iv = half.iv /\ mid.stream = half.stream
      BY <1>3 DEF s2n_increment_sequence_number, Sender
    <2>3. writer' \in Sender /\ writer'.seq = mid.seq /\ writer'.iv = iv /\ writer'.stream = stream
      <3>1. rec.id \in Nat /\ rec.actual \in Nat BY <1>7 DEF Record
      <3>2. next = [mid EXCEPT !.iv = iv, !.stream = stream] BY DEF s2n_record_encrypt
      <3> HIDE DEF mid, rec, next
      <3>3. iv \in Iv BY <2>2, <3>1 DEF Iv, Sender
      <3>4. stream \in Nat BY <2>2, <3>1 DEF Sender
      <3> HIDE DEF iv, stream
      <3>5. next \in Sender /\ next.seq = mid.seq /\ next.iv = iv /\ next.stream = stream
        BY <2>2, <3>2, <3>3, <3>4 DEF Sender
      <3>6. writer' = [Digested(next) EXCEPT !.at = writer.at] /\ writer.at \in {"secure", "initial"}
        BY <1>2, <1>12 DEF Sender
      <3> QED BY <3>5, <3>6 DEF Sender, Digested
    <2>4. /\ rec.plain = (alg = "null") /\ rec.id = written /\ rec.iv = RecordIv(alg, half)
          /\ rec.auth = Authenticated(alg, half.mac, half.seq, type, n) /\ rec.inner = type /\ rec.size = n
          /\ rec.actual = EncryptedLength(alg, conf.version, n)
      BY DEF Sealed
    <2>5. failed' = failed /\ events' = events /\ written' = written + 1
          /\ sent' = IF rec.plain THEN sent ELSE Append(sent, rec)
      BY <1>12
    <2>6. CASE alg = "null"
      <3>1. rec.plain /\ sent' = sent BY <2>4, <2>5, <2>6
      <3>2. Queue(sent', out'.pending) BY <2>1, <3>1 DEF Queue, Honest
      <3>3. Type(alg) = "STREAM" BY <2>6, CipherNames, CipherSizes DEF Type
      <3>4. writer'.seq = writer.seq /\ writer'.iv = writer.iv /\ writer'.stream = writer.stream
        BY <1>3, <2>2, <2>3, <2>6, <3>3
      <3>5. Sealing(conf.alg, conf.version, sent, writer', written')
        <4>1. Sealing(conf.alg, conf.version, sent, writer, written) BY DEF RInv
        <4>2. written' \in Nat /\ written <= written' BY <1>2, <2>5
        <4> QED BY <1>2, <3>4, <4>1, <4>2, SealingKept
      <3>6. TypeInv' BY <1>1, <1>2, <2>1, <2>3, <2>5, <3>1 DEF TypeInv
      <3> QED BY <1>1, <2>1, <2>5, <3>1, <3>2, <3>5, <3>6 DEF RInv, RecordsIntact
    <2>7. CASE alg # "null"
      <3>1. ~rec.plain /\ sent' = Append(sent, rec) /\ alg = conf.alg BY <1>4, <2>4, <2>5, <2>7
      <3>2. Seals(conf.alg, conf.version, writer, written, rec, writer')
        <4> HIDE DEF rec, mid
        <4>1. half.mac \in Nat BY <1>3 DEF Sender
        <4>2. \E left \in Nat : rec.auth = Authenticated(conf.alg, left, writer.seq, rec.inner, rec.size)
          BY <1>3, <2>4, <3>1, <4>1
        <4>3. Type(conf.alg) = "AEAD" => rec.iv = <<"nonce", writer.seq>>
          BY <1>3, <2>4, <3>1 DEF RecordIv
        <4>5. conf.version \in Nat BY <1>2 DEF Connection, Versions, SSLv3, TLS10, TLS11, TLS12, TLS13
        <4>4. Blocks(conf.alg) /\ conf.version > TLS10 => rec.iv = <<"random", written>>
          BY <2>4, <3>1, <4>5 DEF RecordIv, Blocks, TLS10
        <4>6. Blocks(conf.alg) /\ conf.version <= TLS10 =>
                 rec.iv = writer.iv /\ writer'.iv = <<"block", written>>
          BY <1>3, <2>3, <2>4, <3>1, <4>5 DEF RecordIv, Blocks, TLS10, TLS11
        <4>7. Type(conf.alg) = "STREAM" =>
                 rec.iv = <<"stream", writer.stream>> /\ writer'.stream = writer.stream + rec.actual
          BY <1>3, <2>2, <2>3, <2>4, <2>7, <3>1 DEF RecordIv
        <4>8. writer'.seq = writer.seq + 1 BY <1>3, <2>2, <2>3, <2>7
        <4> QED BY <2>4, <3>1, <4>2, <4>3, <4>4, <4>6, <4>7, <4>8 DEF Seals
      <3>3. sent' \in Seq(Record) /\ Sealing(conf.alg, conf.version, sent', writer', written')
        <4>1. Sealing(conf.alg, conf.version, sent, writer, written) BY DEF RInv
        <4>2. conf.alg \in Others \cup Tls13s /\ conf.version \in Versions BY <1>2 DEF Connection
        <4> HIDE DEF rec
        <4> QED BY <1>2, <1>7, <2>3, <2>5, <3>1, <3>2, <4>1, <4>2, SealingAppend
      <3>4. Queue(sent', wire') BY <1>1, <1>2, <1>7, <3>1, QueueGrows DEF RInv
      <3> HIDE DEF rec
      <3>5. Len(sent') = Len(sent) + 1 /\ Len(sent) \in Nat /\ sent'[Len(sent) + 1] = rec
            /\ \A i \in 1 .. Len(sent) : sent'[i] = sent[i]
        BY <1>2, <1>7, <3>1
      <3>6. Queue(sent', out'.pending) BY <2>1, <3>5 DEF Queue, Honest, Same
      <3>7. RecordsIntact'
        <4>1. got' = got /\ reader' = reader /\ conf' = conf /\ Len(got) \in Nat /\ Len(got) <= Len(sent)
          BY <1>1, <1>2 DEF RInv, RecordsIntact
        <4>2. Len(got') <= Len(sent') BY <3>5, <4>1
        <4>3. \A i \in 1 .. Len(got) : i \in 1 .. Len(sent) BY <3>5, <4>1
        <4> QED BY <3>5, <4>1, <4>2, <4>3 DEF RInv, RecordsIntact
      <3>8. TypeInv'
        <4>1. written' \in Nat BY <1>2, <2>5
        <4> QED BY <1>1, <1>2, <2>1, <2>3, <2>5, <3>3, <4>1 DEF TypeInv
      <3> QED BY <1>1, <2>1, <2>5, <3>3, <3>4, <3>6, <3>7, <3>8 DEF RInv
    <2> QED BY <2>6, <2>7
  <1> QED BY <1>1, <1>11, <1>12

LEMMA NextRInv == RInv /\ [Next]_vars => RInv'
  <1> SUFFICES ASSUME RInv, [Next]_vars PROVE RInv' OBVIOUS
  <1>1. CASE UNCHANGED vars
    BY <1>1 DEF vars, RInv, TypeInv, RecordsIntact
  <1>2. ASSUME NEW type \in Types, Write(type) PROVE RInv' BY <1>2, WriteKeeps
  <1> QED BY <1>1, <1>2, FlushKeeps, PreferKeeps, MflKeeps, ReleaseKeeps, ParseKeeps, DisturbKeeps,
     OwnWriteKeeps DEF Next

(***************************************************************************)
(* The connection keeps an algorithm of its version, the buffer its sizes, *)
(* and conn->client and conn->server point at one of their two targets.    *)
(***************************************************************************)
THEOREM TypeCorrect == Spec => []TypeOK
  <1>1. RInv => TypeOK BY DEF RInv, TypeInv, TypeOK, Buffer, Sender, Receiver, Reasons
  <1> QED BY InitRInv, NextRInv, <1>1, PTL DEF Spec

(***************************************************************************)
(* What s2n_record_parse accepts under the connection's keys is what       *)
(* s2n_record_writev sealed under them, in order, without a gap, with its  *)
(* type and its length: for every algorithm and version, any number of     *)
(* records of any size, failed writes and disturbances of the network.     *)
(* What it takes without protection is an alert or a CCS of TLS 1.3,       *)
(* unless its own write of a CCS failed between the switches.              *)
(***************************************************************************)
THEOREM AcceptedIsSealed == Spec => []RecordsIntact
  <1>1. RInv => RecordsIntact BY DEF RInv
  <1> QED BY InitRInv, NextRInv, <1>1, PTL DEF Spec

(***************************************************************************)
(* No write fails for want of room, whatever the fragment lengths in force *)
(* and the writes before it, and what s2n_record_min_write_payload_size    *)
(* allows fits one Ethernet frame.                                         *)
(***************************************************************************)
THEOREM WritesAlwaysFit == Spec => []WritesFit
  <1>1. RInv => WritesFit BY DEF RInv, Sealing, WritesFit
  <1> QED BY InitRInv, NextRInv, <1>1, PTL DEF Spec

(***************************************************************************)
(* No two records of a key share a nonce, an IV or a stretch of keystream. *)
(***************************************************************************)
THEOREM IvsAreFresh == Spec => []IvNeverRepeats
  <1>1. RInv => IvNeverRepeats
    <2> SUFFICES ASSUME RInv, NEW i \in 1 .. Len(sent), NEW j \in 1 .. i - 1
                 PROVE  /\ sent[i].iv # sent[j].iv
                        /\ Type(conf.alg) = "STREAM" => sent[i].iv[2] >= sent[j].iv[2] + sent[j].actual
      BY DEF IvNeverRepeats
    <2>1. sent \in Seq(Record) /\ j \in 1 .. Len(sent) /\ conf \in Connection BY DEF RInv, TypeInv
    <2>2. sent[i] \in Record /\ sent[j] \in Record BY <2>1
    <2>4. IvOf(conf.alg, conf.version, sent, i) /\ IvOf(conf.alg, conf.version, sent, j)
      BY <2>1 DEF RInv, Sealing
    <2>3. sent[i].id \in Nat /\ sent[j].id \in Nat /\ sent[i].id # sent[j].id /\ sent[j].actual \in Nat
      <3>1. sent[j].id < sent[i].id BY <2>4 DEF IvOf
      <3>2. sent[i].id \in Nat /\ sent[j].id \in Nat /\ sent[j].actual \in Nat BY <2>2 DEF Record
      <3> QED BY <3>1, <3>2
    <2>5. Type(conf.alg) = "STREAM" => sent[i].iv[2] >= sent[j].iv[2] + sent[j].actual BY <2>4 DEF IvOf
    <2>6. CASE Type(conf.alg) = "AEAD"
      <3>1. sent[i].iv = <<"nonce", i - 1>> /\ sent[j].iv = <<"nonce", j - 1>> BY <2>4, <2>6 DEF IvOf
      <3>2. i - 1 # j - 1 OBVIOUS
      <3> QED BY <2>5, <3>1, <3>2
    <2>7. CASE Blocks(conf.alg) /\ conf.version > TLS10
      <3>1. sent[i].iv = <<"random", sent[i].id>> /\ sent[j].iv = <<"random", sent[j].id>>
        BY <2>4, <2>7 DEF IvOf
      <3> QED BY <2>3, <2>5, <3>1
    <2>8. CASE Blocks(conf.alg) /\ conf.version <= TLS10
      <3>1. sent[i].iv = Prior(sent, i) /\ sent[j].iv = Prior(sent, j) BY <2>4, <2>8 DEF IvOf
      <3>2. Prior(sent, i) = <<"block", sent[i - 1].id>> BY DEF Prior
      <3>3. CASE j = 1 BY <2>5, <3>1, <3>2, <3>3 DEF Prior
      <3>4. CASE j # 1
        <4>1. Prior(sent, j) = <<"block", sent[j - 1].id>> BY <3>4 DEF Prior
        <4>2. i - 1 \in 1 .. Len(sent) /\ j - 1 \in 1 .. (i - 1) - 1 BY <2>1, <3>4
        <4>3. IvOf(conf.alg, conf.version, sent, i - 1) BY <4>2 DEF RInv, Sealing
        <4>4. sent[j - 1].id < sent[i - 1].id BY <4>2, <4>3 DEF IvOf
        <4>5. sent[i - 1] \in Record /\ sent[j - 1] \in Record BY <2>1, <4>2
        <4>6. sent[i - 1].id # sent[j - 1].id BY <4>4, <4>5 DEF Record
        <4> QED BY <2>5, <3>1, <3>2, <4>1, <4>6
      <3> QED BY <3>3, <3>4
    <2>9. CASE Type(conf.alg) = "STREAM"
      <3> DEFINE a == sent[i].iv[2]
                 b == sent[j].iv[2]
                 c == sent[j].actual
      <3>1. a \in Nat /\ b \in Nat /\ c \in Nat /\ c > 0 /\ a >= b + c BY <2>3, <2>4, <2>5, <2>9 DEF IvOf
      <3> HIDE DEF a, b, c
      <3>2. a # b BY <3>1
      <3> QED BY <2>5, <3>2 DEF a, b
    <2>10. conf.version \in Nat /\ TLS10 \in Nat
      BY <2>1 DEF Connection, Versions, SSLv3, TLS10, TLS11, TLS12, TLS13
    <2>11. Type(conf.alg) \in {"AEAD", "CBC", "COMPOSITE", "STREAM"}
      BY <2>1, SizedAlgs DEF Connection, Sized, Type
    <2> QED BY <2>6, <2>7, <2>8, <2>9, <2>10, <2>11 DEF Blocks
  <1> QED BY InitRInv, NextRInv, <1>1, PTL DEF Spec

-----------------------------------------------------------------------------
(* Reader and writer in step: what is under way takes the reader's half of *)
(* the parameters to the writer's, record by record.                       *)

View(h) == [seq |-> h.seq, iv |-> h.iv, stream |-> h.stream]
State == [seq : Nat, iv : Iv, stream : Nat]

After(alg, version, a, r) ==
    [seq |-> a.seq + 1,
     iv |-> IF Type(alg) = "COMPOSITE" \/ (Type(alg) = "CBC" /\ version < TLS11)
            THEN <<"block", r.id>> ELSE a.iv,
     stream |-> IF Type(alg) = "STREAM" THEN a.stream + r.actual ELSE a.stream]

Moves(alg, version, a, r, b) ==
    /\ r.whole /\ r.version = version /\ r.length = r.actual
    /\ \/ r.plain /\ version = TLS13 /\ r.outer = "ccs" /\ b = a
       \/ /\ ~r.plain /\ r.intact /\ b = After(alg, version, a, r)
          /\ r.actual = EncryptedLength(alg, version, r.size)
          /\ r.outer = IF Tls13Alg(alg) THEN "app" ELSE r.inner
          /\ r.auth = Authenticated(alg, 0, a.seq, r.inner, r.size)
          /\ Type(alg) = "AEAD" => r.iv = <<"nonce", a.seq>>
          /\ Blocks(alg) /\ version <= TLS10 => r.iv = a.iv
          /\ Type(alg) = "STREAM" => r.iv = <<"stream", a.stream>>

Chain(alg, version, a, q, b) ==
    \E st \in [Nat -> State] :
        /\ st[1] = a /\ st[Len(q) + 1] = b
        /\ \A i \in 1 .. Len(q) : Moves(alg, version, st[i], q[i], st[i + 1])

InStep ==
    failed = {} =>
        /\ reader.alive /\ reader.at = "secure" /\ writer.at = "secure" /\ writer.mac = 0
        /\ Chain(conf.alg, conf.version, View(reader), wire \o out.pending, View(writer))

LEMMA ChainEmpty == ASSUME NEW alg, NEW version, NEW a \in State PROVE Chain(alg, version, a, <<>>, a)
  <1> DEFINE st == [i \in Nat |-> a]
  <1>1. st \in [Nat -> State] /\ st[1] = a /\ Len(<<>>) + 1 = 1 OBVIOUS
  <1>2. \A i \in 1 .. Len(<<>>) : FALSE OBVIOUS
  <1> HIDE DEF st
  <1> QED BY <1>1, <1>2 DEF Chain

LEMMA ChainAppend ==
    ASSUME NEW alg, NEW version, NEW a, NEW b, NEW c \in State, NEW q \in Seq(Record), NEW r \in Record,
           Chain(alg, version, a, q, b), Moves(alg, version, b, r, c)
    PROVE  Chain(alg, version, a, Append(q, r), c)
  <1> DEFINE t == Append(q, r)
             n == Len(q)
  <1>1. n \in Nat /\ Len(t) = n + 1 /\ t[n + 1] = r /\ \A i \in 1 .. n : t[i] = q[i] OBVIOUS
  <1>2. PICK st \in [Nat -> State] :
           st[1] = a /\ st[n + 1] = b /\ \A i \in 1 .. n : Moves(alg, version, st[i], q[i], st[i + 1])
    BY DEF Chain
  <1> DEFINE su == [st EXCEPT ![n + 2] = c]
  <1> HIDE DEF t, n
  <1>3. su \in [Nat -> State] /\ su[n + 2] = c /\ \A i \in 1 .. n + 1 : su[i] = st[i] BY <1>1, <1>2
  <1> HIDE DEF su
  <1>4. \A i \in 1 .. n + 1 : Moves(alg, version, su[i], t[i], su[i + 1])
    <2> SUFFICES ASSUME NEW i \in 1 .. n + 1 PROVE Moves(alg, version, su[i], t[i], su[i + 1]) OBVIOUS
    <2>1. CASE i = n + 1
      <3>1. su[i] = b /\ t[i] = r /\ su[i + 1] = c BY <1>1, <1>2, <1>3, <2>1
      <3> QED BY <3>1
    <2>2. CASE i # n + 1
      <3>1. i \in 1 .. n /\ i + 1 \in 1 .. n + 1 BY <1>1, <2>2
      <3>2. su[i] = st[i] /\ t[i] = q[i] /\ su[i + 1] = st[i + 1] BY <1>1, <1>3, <3>1
      <3> QED BY <1>2, <3>1, <3>2
    <2> QED BY <2>1, <2>2
  <1>5. su[1] = a /\ Len(t) + 1 = n + 2 BY <1>1, <1>2, <1>3
  <1>6. Chain(alg, version, a, t, c) BY <1>1, <1>3, <1>4, <1>5 DEF Chain
  <1> QED BY <1>6 DEF t

LEMMA ChainHead ==
    ASSUME NEW alg, NEW version, NEW a, NEW b, NEW q \in Seq(Record), q # <<>>,
           Chain(alg, version, a, q, b)
    PROVE  \E c \in State : Moves(alg, version, a, q[1], c) /\ Chain(alg, version, c, Tail(q), b)
  <1> DEFINE t == Tail(q)
             n == Len(q)
  <1>1. n \in Nat /\ n >= 1 /\ Len(t) = n - 1 /\ \A i \in 1 .. n - 1 : t[i] = q[i + 1] OBVIOUS
  <1>2. PICK st \in [Nat -> State] :
           st[1] = a /\ st[n + 1] = b /\ \A i \in 1 .. n : Moves(alg, version, st[i], q[i], st[i + 1])
    BY DEF Chain
  <1> DEFINE su == [i \in Nat |-> st[i + 1]]
  <1> HIDE DEF t, n
  <1>3. su \in [Nat -> State] /\ \A i \in Nat : su[i] = st[i + 1] BY <1>2
  <1> HIDE DEF su
  <1>4. su[1] = st[2] /\ su[(n - 1) + 1] = b /\ st[2] \in State BY <1>1, <1>2, <1>3
  <1>5. \A i \in 1 .. n - 1 : Moves(alg, version, su[i], t[i], su[i + 1])
    <2> SUFFICES ASSUME NEW i \in 1 .. n - 1 PROVE Moves(alg, version, su[i], t[i], su[i + 1]) OBVIOUS
    <2>1. i + 1 \in 1 .. n /\ i \in Nat /\ i + 1 \in Nat BY <1>1
    <2>2. su[i] = st[i + 1] /\ su[i + 1] = st[(i + 1) + 1] /\ t[i] = q[i + 1] BY <1>1, <1>3, <2>1
    <2> QED BY <1>2, <2>1, <2>2
  <1>6. Chain(alg, version, st[2], t, b) BY <1>1, <1>3, <1>4, <1>5 DEF Chain
  <1>7. Moves(alg, version, a, q[1], st[2])
    <2>1. 1 \in 1 .. n /\ 1 + 1 = 2 BY <1>1
    <2> QED BY <1>2, <2>1
  <1> QED BY <1>4, <1>6, <1>7 DEF t

(* The reader opens a record that its half of the parameters fits. *)
LEMMA MovesOpens ==
    ASSUME RInv, reader.at = "secure", NEW rec \in Record, NEW c \in State,
           Moves(conf.alg, conf.version, View(reader), rec, c)
    PROVE  LET alg == Alg(reader, s2n_is_tls13_plaintext_content(rec.outer))
           IN  Framed(rec) /\ Opens(alg, rec, reader) /\ View(AfterReading(alg, reader, rec)) = c
  <1> DEFINE alg == Alg(reader, s2n_is_tls13_plaintext_content(rec.outer))
             a == View(reader)
             nxt == AfterReading(alg, reader, rec)
  <1>1. /\ conf.alg \in Others \cup Tls13s /\ conf.alg # "null" /\ conf.version \in Nat
        /\ (conf.version = TLS13 => Tls13Alg(conf.alg)) /\ conf.alg \in Used
    <2>1. conf \in Connection /\ conf.alg \in AlgsOf(conf.version) BY DEF RInv, TypeInv
    <2>2. conf.version \in Nat
      BY <2>1 DEF Connection, Versions, SSLv3, TLS10, TLS11, TLS12, TLS13
    <2>3. conf.version = TLS13 => conf.alg \in Tls13s BY <2>1, <2>2, AlgsListed
    <2> QED BY <2>1, <2>2, <2>3, SizedAlgs DEF Connection, Used
  <1>2. reader \in Receiver /\ reader.at = "secure" BY DEF RInv, TypeInv, Receiver
  <1>3. Framed(rec) BY DEF Moves, Framed
  <1>4. a.seq = reader.seq /\ a.iv = reader.iv /\ a.stream = reader.stream BY DEF View
  <1>5. CASE rec.plain
    <2>1. conf.version = TLS13 /\ rec.outer = "ccs" /\ c = a BY <1>5 DEF Moves
    <2>2. alg = "null" BY <2>1 DEF Alg, s2n_is_tls13_plaintext_content
    <2>3. Opens(alg, rec, reader)
      <3>1. Type("null") = "STREAM" BY CipherNames, CipherSizes DEF Type
      <3> QED BY <2>1, <2>2, <3>1 DEF Opens
    <2>4. View(nxt) = a
      <3>1. Type("null") = "STREAM" BY CipherNames, CipherSizes DEF Type
      <3> DEFINE mid == s2n_increment_sequence_number(alg, reader)
      <3>2. mid = [reader EXCEPT !.seq = reader.seq] BY <2>2 DEF s2n_increment_sequence_number
      <3>3. mid \in Receiver /\ mid.seq = reader.seq /\ mid.iv = reader.iv /\ mid.stream = reader.stream
        BY <1>2, <3>2 DEF Receiver
      <3>4. nxt = [mid EXCEPT !.iv = mid.iv, !.stream = mid.stream]
        BY <2>2, <3>1 DEF AfterReading, s2n_record_encrypt
      <3> HIDE DEF mid, nxt
      <3>5. nxt.seq = mid.seq /\ nxt.iv = mid.iv /\ nxt.stream = mid.stream BY <3>3, <3>4 DEF Receiver
      <3> QED BY <3>3, <3>5 DEF View
    <2> QED BY <1>3, <2>1, <2>3, <2>4
  <1>6. CASE ~rec.plain
    <2>1. /\ rec.intact /\ c = After(conf.alg, conf.version, a, rec) /\ rec.length = rec.actual
          /\ rec.actual = EncryptedLength(conf.alg, conf.version, rec.size)
          /\ rec.outer = (IF Tls13Alg(conf.alg) THEN "app" ELSE rec.inner)
          /\ rec.auth = Authenticated(conf.alg, 0, a.seq, rec.inner, rec.size)
          /\ Type(conf.alg) = "AEAD" => rec.iv = <<"nonce", a.seq>>
          /\ Blocks(conf.alg) /\ conf.version <= TLS10 => rec.iv = a.iv
          /\ Type(conf.alg) = "STREAM" => rec.iv = <<"stream", a.stream>>
      BY <1>6 DEF Moves
    <2>2. alg = conf.alg BY <1>1, <1>2, <2>1 DEF Alg, s2n_is_tls13_plaintext_content
    <2>3. rec.size \in Nat /\ rec.id \in Nat /\ rec.actual \in Nat BY DEF Record
    <2>4. PayloadLength(conf.alg, rec) = rec.size
      <3>1. Type(conf.alg) = "AEAD" =>
              rec.length - ExplicitIv(conf.alg, conf.version) - cipher[CipherOf(conf.alg)].tag
                - ContentTypeLength(conf.alg) = rec.size
        <4>1. Lengths(conf.alg, conf.version, rec.size) BY <1>1, <2>3, LengthsOf
        <4>2. rec.length = EncryptedLength(conf.alg, conf.version, rec.size) BY <2>1
        <4> QED BY <4>1, <4>2 DEF Lengths
      <3> QED BY <1>1, <3>1 DEF PayloadLength
    <2>5. Type(conf.alg) = "AEAD" =>
             rec.auth = Aad(conf.alg, reader.seq, rec.outer, PayloadLength(conf.alg, rec))
      <3> SUFFICES ASSUME Type(conf.alg) = "AEAD"
                   PROVE  rec.auth = Aad(conf.alg, reader.seq, rec.outer, rec.size)
        BY <2>4
      <3>1. rec.auth = Aad(conf.alg, reader.seq, rec.inner, rec.size)
        BY <1>1, <1>4, <2>1 DEF Authenticated
      <3> QED BY <2>1, <3>1 DEF Aad
    <2>6. Type(conf.alg) # "AEAD" => rec.auth = Mac(rec, reader)
      <3> SUFFICES ASSUME Type(conf.alg) # "AEAD"
                   PROVE  rec.auth = Authenticated(conf.alg, 0, reader.seq, rec.outer, rec.size)
        BY <2>4 DEF Mac
      <3>1. ~Tls13Alg(conf.alg) BY <1>1, SizedAlgs DEF Sized, Type
      <3> QED BY <1>4, <2>1, <3>1
    <2>7. Type(conf.alg) \in {"AEAD", "CBC", "COMPOSITE", "STREAM"}
      BY <1>1, SizedAlgs DEF Sized, Type
    <2>8. Opens(conf.alg, rec, reader)
      <3>1. CASE Type(conf.alg) = "AEAD"
        <4>1. AeadIv(rec, reader) = rec.iv BY <1>4, <2>1, <3>1 DEF AeadIv
        <4> QED BY <1>1, <1>6, <2>1, <2>5, <3>1, <4>1 DEF Opens, s2n_record_parse_aead,
                s2n_aead_cipher_aes_gcm_decrypt, s2n_aead_chacha20_poly1305_decrypt
      <3>2. CASE Type(conf.alg) = "CBC"
        <4>1. conf.version > TLS10 \/ rec.iv = reader.iv BY <1>1, <1>4, <2>1, <3>2 DEF Blocks, TLS10
        <4>2. rec.iv = IF conf.version > TLS10 THEN rec.iv ELSE reader.iv BY <4>1
        <4> QED BY <1>1, <1>6, <2>1, <2>6, <3>2, <4>2 DEF Opens, s2n_record_parse_cbc, s2n_verify_cbc,
                s2n_cbc_cipher_3des_decrypt, s2n_cbc_cipher_aes_decrypt
      <3>3. CASE Type(conf.alg) = "COMPOSITE"
        <4>1. conf.version > TLS10 \/ rec.iv = reader.iv BY <1>1, <1>4, <2>1, <3>3 DEF Blocks, TLS10
        <4> QED BY <1>1, <1>6, <2>1, <2>6, <3>3, <4>1 DEF Opens, s2n_record_parse_composite,
                s2n_composite_cipher_aes_sha_decrypt
      <3>4. CASE Type(conf.alg) = "STREAM"
        BY <1>1, <1>4, <1>6, <2>1, <2>6, <3>4 DEF Opens, s2n_record_parse_stream,
           s2n_stream_cipher_rc4_decrypt
      <3> QED BY <2>7, <3>1, <3>2, <3>3, <3>4
    <2>9. View(nxt) = c
      <3> DEFINE mid == s2n_increment_sequence_number(conf.alg, reader)
                 iv == IF Type(conf.alg) = "COMPOSITE" \/ (Type(conf.alg) = "CBC" /\ conf.version < TLS11)
                       THEN <<"block", rec.id>> ELSE mid.iv
                 stream == IF Type(conf.alg) = "STREAM" /\ conf.alg # "null"
                           THEN mid.stream + rec.actual ELSE mid.stream
      <3>1. mid = [reader EXCEPT !.seq = reader.seq + 1] BY <1>1 DEF s2n_increment_sequence_number
      <3>2. mid \in Receiver /\ mid.seq = reader.seq + 1 /\ mid.iv = reader.iv /\ mid.stream = reader.stream
        BY <1>2, <3>1 DEF Receiver
      <3>3. nxt = [mid EXCEPT !.iv = iv, !.stream = stream] BY <2>2 DEF AfterReading, s2n_record_encrypt
      <3> HIDE DEF mid, nxt, iv, stream
      <3>4. nxt.seq = mid.seq /\ nxt.iv = iv /\ nxt.stream = stream BY <3>2, <3>3 DEF Receiver
      <3>5. c.seq = nxt.seq /\ c.iv = nxt.iv /\ c.stream = nxt.stream
        BY <1>1, <1>4, <2>1, <3>2, <3>4 DEF After, iv, stream
      <3>6. c = [seq |-> c.seq, iv |-> c.iv, stream |-> c.stream] BY DEF State
      <3> QED BY <3>5, <3>6 DEF View
    <2> QED BY <1>3, <2>2, <2>8, <2>9
  <1>7. rec.plain \in BOOLEAN BY DEF Record
  <1> QED BY <1>5, <1>6, <1>7

LEMMA ViewState ==
    /\ \A w \in Sender : View(w) \in State
    /\ \A r \in Receiver : View(r) \in State
  BY DEF View, State, Sender, Receiver

LEMMA InitInStep == Init => InStep
  <1> SUFFICES ASSUME Init PROVE InStep OBVIOUS
  <1>1. RInv BY InitRInv
  <1>2. wire = <<>> /\ out.pending = <<>> BY DEF Init
  <1>3. reader.alive /\ reader.at = "secure" /\ writer.at = "secure" /\ writer.mac = 0 /\ View(reader) = View(writer)
    BY DEF Init, Half, View
  <1>4. View(writer) \in State BY <1>1, ViewState DEF RInv, TypeInv
  <1>5. wire \o out.pending = <<>> BY <1>2
  <1> QED BY <1>3, <1>4, <1>5, ChainEmpty DEF InStep

LEMMA SameInStep ==
    ASSUME InStep, failed' = failed, reader' = reader, writer' = writer,
           conf'.alg = conf.alg, conf'.version = conf.version,
           wire' \o out'.pending = wire \o out.pending
    PROVE  InStep'
  BY DEF InStep

LEMMA ParseInStep == RInv /\ InStep /\ s2n_record_parse => InStep'
  <1> SUFFICES ASSUME RInv, InStep, s2n_record_parse, failed = {} PROVE InStep'
    BY DEF InStep, s2n_record_parse
  <1> DEFINE rec == wire[1]
             p == out.pending
             q == wire \o p
             alg == Alg(reader, s2n_is_tls13_plaintext_content(rec.outer))
  <1>1. wire \in Seq(Record) /\ p \in Seq(Record) /\ wire # <<>> BY DEF RInv, TypeInv, Buffer, s2n_record_parse
  <1> HIDE DEF p
  <1>2. q \in Seq(Record) /\ q # <<>> /\ q[1] = rec /\ Tail(q) = Tail(wire) \o p /\ rec \in Record
    <2>1. Len(q) = Len(wire) + Len(p) /\ Len(wire) >= 1 /\ q \in Seq(Record) BY <1>1
    <2>2. q # <<>> /\ q[1] = rec BY <1>1, <2>1
    <2>3. Tail(q) = Tail(wire) \o p
      <3>1. Tail(q) \in Seq(Record) /\ Len(Tail(q)) = Len(q) - 1
            /\ \A i \in 1 .. Len(q) - 1 : Tail(q)[i] = q[i + 1]
        BY <2>1, <2>2
      <3>2. Tail(wire) \in Seq(Record) /\ Len(Tail(wire)) = Len(wire) - 1
            /\ \A i \in 1 .. Len(wire) - 1 : Tail(wire)[i] = wire[i + 1]
        BY <1>1
      <3> DEFINE t == Tail(wire) \o p
      <3>3. t \in Seq(Record) /\ Len(t) = Len(q) - 1 BY <1>1, <2>1, <3>2
      <3>4. \A i \in 1 .. Len(q) - 1 : t[i] = q[i + 1] BY <1>1, <2>1, <3>2
      <3> HIDE DEF t, q
      <3>5. t = Tail(q) BY <3>1, <3>3, <3>4, SeqEqual
      <3> QED BY <3>5 DEF t
    <2> QED BY <1>1, <2>1, <2>2, <2>3
  <1>3. PICK c \in State : /\ Moves(conf.alg, conf.version, View(reader), rec, c)
                           /\ Chain(conf.alg, conf.version, c, Tail(q), View(writer))
    <2>1. Chain(conf.alg, conf.version, View(reader), q, View(writer)) BY DEF InStep, p
    <2> HIDE DEF q
    <2> QED BY <1>2, <2>1, ChainHead
  <1>4. Framed(rec) /\ Opens(alg, rec, reader) /\ View(AfterReading(alg, reader, rec)) = c
    BY <1>2, <1>3, MovesOpens DEF InStep
  <1> DEFINE after == AfterReading(alg, reader, rec)
  <1>5. reader' = [after EXCEPT !.bare = IF alg = "null" THEN @ \cup {rec.outer} ELSE @]
        /\ wire' = Tail(wire)
        /\ UNCHANGED <<conf, out, writer, failed>>
    BY <1>4 DEF s2n_record_parse
  <1>6. reader'.alive /\ reader'.at = "secure" /\ View(reader') = View(after)
    <2>1. reader.alive /\ reader.at = "secure" /\ reader \in Receiver /\ reader' \in Receiver
      BY ParseKeeps DEF InStep, RInv, TypeInv
    <2> DEFINE mid == s2n_increment_sequence_number(alg, reader)
    <2>2. mid \in Receiver /\ mid.alive /\ mid.at = "secure"
      BY <2>1 DEF s2n_increment_sequence_number, Receiver
    <2>3. after = s2n_record_encrypt(alg, mid, rec) BY DEF AfterReading
    <2> HIDE DEF mid, alg, rec, after
    <2>4. after.alive /\ after.at = "secure"
          /\ DOMAIN after = {"at", "seq", "iv", "stream", "mac", "alive", "bare"}
      BY <2>2, <2>3 DEF s2n_record_encrypt, Receiver
    <2> QED BY <1>5, <2>4 DEF View
  <1>7. wire' \o out'.pending = Tail(q) BY <1>2, <1>5 DEF p
  <1> QED BY <1>3, <1>4, <1>5, <1>6, <1>7 DEF InStep

LEMMA WriteInStep == ASSUME RInv, InStep, NEW type \in Types, Write(type) PROVE InStep'
  <1>0. PICK size \in Nat : s2n_record_writev(type, size) BY WriteSize
  <1> DEFINE half == Switched(writer, type)
             alg == Alg(half, FALSE)
             max == s2n_record_max_write_payload_size(out.max)
             n == IF size < max THEN size ELSE max
             rec == Sealed(alg, half, type, n)
             mid == s2n_increment_sequence_number(alg, half)
             next == s2n_record_encrypt(alg, mid, rec)
  <1>1. \/ failed' # {}
        \/ /\ \E g : out' = [g EXCEPT !.tainted = TRUE, !.pending = <<rec>>]
           /\ writer' = [Digested(next) EXCEPT !.at = writer.at] /\ failed' = failed
    BY <1>0 DEF s2n_record_writev
  <1>2. SUFFICES ASSUME failed' = {}, failed = {},
                        writer' = [Digested(next) EXCEPT !.at = writer.at], out'.pending = <<rec>>
                 PROVE  InStep'
    <2>1. CASE failed' # {} BY <2>1 DEF InStep
    <2>2. CASE failed' = {}
      <3>1. PICK g : out' = [g EXCEPT !.tainted = TRUE, !.pending = <<rec>>] BY <1>1, <2>2
      <3>2. out' \in Buffer BY WriteKeeps DEF RInv, TypeInv
      <3> HIDE DEF rec
      <3>3. out'.pending = <<rec>> BY <3>1, <3>2 DEF Buffer
      <3> QED BY <1>1, <1>2, <2>2, <3>3
    <2> QED BY <2>1, <2>2
  <1>3. conf' = conf /\ reader' = reader /\ wire' = wire /\ out.pending = <<>>
    BY <1>0 DEF s2n_record_writev
  <1>4. /\ TypeInv /\ conf \in Connection /\ conf.alg \in AlgsOf(conf.version) /\ out \in Buffer
        /\ writer \in Sender /\ wire \in Seq(Record) /\ written \in Nat
    BY DEF RInv, TypeInv
  <1>5. /\ reader.alive /\ reader.at = "secure" /\ writer.at = "secure" /\ writer.mac = 0
        /\ Chain(conf.alg, conf.version, View(reader), wire \o out.pending, View(writer))
    BY <1>2 DEF InStep
  <1>6. wire \o out.pending = wire BY <1>3, <1>4
  <1>7. half \in Sender /\ half.seq = writer.seq /\ half.iv = writer.iv /\ half.stream = writer.stream
        /\ half.mac = 0 /\ half.at = (IF conf.version = TLS13 /\ type = "ccs" THEN "initial" ELSE "secure")
    BY <1>4, <1>5 DEF Switched, Sender
  <1>8. /\ alg = IF conf.version = TLS13 /\ type = "ccs" THEN "null" ELSE conf.alg
        /\ conf.alg # "null" /\ conf.alg \in Used /\ alg \in Used /\ alg \in {"null", conf.alg}
    BY <1>4, <1>7, SizedAlgs DEF Alg, Connection, Used
  <1>9. max \in Nat /\ n \in Nat
    <2>1. out.max \in Nat BY <1>4 DEF Buffer
    <2> QED BY <2>1 DEF s2n_record_max_write_payload_size, S2N_TLS_MAXIMUM_FRAGMENT_LENGTH
  <1>10. type \in Content BY BoundAssumption DEF Content
  <1>11. conf.version \in Nat BY <1>4 DEF Connection, Versions, SSLv3, TLS10, TLS11, TLS12, TLS13
  <1> HIDE DEF half, alg, n
  <1>12. rec \in Record BY <1>4, <1>7, <1>8, <1>9, <1>10, SealedRecord
  <1>13. /\ rec.plain = (alg = "null") /\ rec.id = written /\ rec.iv = RecordIv(alg, half)
         /\ rec.auth = Authenticated(alg, 0, half.seq, type, n) /\ rec.inner = type /\ rec.size = n
         /\ rec.actual = EncryptedLength(alg, conf.version, n) /\ rec.intact /\ rec.whole
         /\ rec.length = FragmentLength(alg, conf.version, n) /\ rec.version = conf.version
         /\ rec.outer = (IF Tls13Alg(alg) THEN "app" ELSE type)
    BY <1>7 DEF Sealed
  <1>14. rec.length = rec.actual
    <2>1. Lengths(alg, conf.version, n) BY <1>8, <1>9, <1>11, LengthsOf
    <2> HIDE DEF rec
    <2> QED BY <1>13, <2>1 DEF Lengths
  <1> DEFINE iv == IF Type(alg) = "COMPOSITE" \/ (Type(alg) = "CBC" /\ conf.version < TLS11)
                   THEN <<"block", rec.id>> ELSE mid.iv
             stream == IF Type(alg) = "STREAM" /\ alg # "null"
                       THEN mid.stream + rec.actual ELSE mid.stream
  <1>15. mid \in Sender /\ mid.seq = (IF alg = "null" THEN writer.seq ELSE writer.seq + 1)
         /\ mid.iv = writer.iv /\ mid.stream = writer.stream
    BY <1>7 DEF s2n_increment_sequence_number, Sender
  <1>16. writer' \in Sender /\ writer'.seq = mid.seq /\ writer'.iv = iv /\ writer'.stream = stream
         /\ writer'.mac = 0 /\ writer'.at = "secure"
    <2>1. rec.id \in Nat /\ rec.actual \in Nat BY <1>12 DEF Record
    <2>2. next = [mid EXCEPT !.iv = iv, !.stream = stream] BY DEF s2n_record_encrypt
    <2>3. writer' = [Digested(next) EXCEPT !.at = "secure"] BY <1>2, <1>5
    <2> HIDE DEF mid, rec, next
    <2>4. iv \in Iv BY <1>15, <2>1 DEF Iv, Sender
    <2>5. stream \in Nat BY <1>15, <2>1 DEF Sender
    <2> HIDE DEF iv, stream
    <2>6. next \in Sender /\ next.seq = mid.seq /\ next.iv = iv /\ next.stream = stream
      BY <1>15, <2>2, <2>4, <2>5 DEF Sender
    <2> QED BY <2>3, <2>6 DEF Sender, Digested
  <1>17. Moves(conf.alg, conf.version, View(writer), rec, View(writer'))
    <2> DEFINE a == View(writer)
               b == View(writer')
    <2>1. a.seq = writer.seq /\ a.iv = writer.iv /\ a.stream = writer.stream BY DEF View
    <2>2. CASE alg = "null"
      <3>1. Type(alg) = "STREAM" BY <2>2, CipherNames, CipherSizes DEF Type
      <3>2. writer'.seq = writer.seq /\ writer'.iv = writer.iv /\ writer'.stream = writer.stream
        BY <1>15, <1>16, <2>2, <3>1
      <3>3. b = a BY <3>2 DEF View
      <3>4. conf.version = TLS13 /\ type = "ccs" /\ ~Tls13Alg(alg) BY <1>8, <2>2 DEF Tls13Alg
      <3> HIDE DEF rec, a, b
      <3> QED BY <1>13, <1>14, <2>2, <3>3, <3>4 DEF Moves, a, b
    <2>3. CASE alg # "null"
      <3>1. alg = conf.alg BY <1>8, <2>3
      <3>2. b = After(conf.alg, conf.version, a, rec)
        <4>1. writer'.seq = a.seq + 1 BY <1>15, <1>16, <2>1, <2>3
        <4>2. writer'.iv = IF Type(conf.alg) = "COMPOSITE" \/ (Type(conf.alg) = "CBC" /\ conf.version < TLS11)
                           THEN <<"block", rec.id>> ELSE a.iv
          BY <1>15, <1>16, <2>1, <3>1
        <4>3. writer'.stream = IF Type(conf.alg) = "STREAM" THEN a.stream + rec.actual ELSE a.stream
          BY <1>15, <1>16, <2>1, <2>3, <3>1
        <4> HIDE DEF rec, a
        <4> QED BY <4>1, <4>2, <4>3 DEF View, After
      <3> HIDE DEF rec, mid
      <3>3. Type(conf.alg) = "AEAD" => rec.iv = <<"nonce", a.seq>>
        BY <1>7, <1>13, <2>1, <3>1 DEF RecordIv
      <3>4. Blocks(conf.alg) /\ conf.version <= TLS10 => rec.iv = a.iv
        BY <1>7, <1>11, <1>13, <2>1, <3>1 DEF RecordIv, Blocks, TLS10
      <3>5. Type(conf.alg) = "STREAM" => rec.iv = <<"stream", a.stream>>
        BY <1>7, <1>13, <2>1, <3>1 DEF RecordIv
      <3>6. rec.auth = Authenticated(conf.alg, 0, a.seq, rec.inner, rec.size)
        BY <1>7, <1>13, <2>1, <3>1
      <3>7. rec.outer = (IF Tls13Alg(conf.alg) THEN "app" ELSE rec.inner) BY <1>13, <3>1
      <3>8. ~rec.plain /\ rec.actual = EncryptedLength(conf.alg, conf.version, rec.size)
        BY <1>13, <2>3, <3>1
      <3> HIDE DEF a, b
      <3> QED BY <1>13, <1>14, <3>2, <3>3, <3>4, <3>5, <3>6, <3>7, <3>8 DEF Moves, a, b
    <2> QED BY <2>2, <2>3
  <1>18. View(writer') \in State BY <1>16, ViewState
  <1> HIDE DEF rec
  <1>19. Chain(conf.alg, conf.version, View(reader), Append(wire, rec), View(writer'))
    <2>1. Chain(conf.alg, conf.version, View(reader), wire, View(writer)) BY <1>5, <1>6
    <2> QED BY <1>4, <1>12, <1>17, <1>18, <2>1, ChainAppend
  <1>20. wire' \o out'.pending = Append(wire, rec) BY <1>2, <1>3, <1>4, <1>12
  <1> QED BY <1>3, <1>5, <1>16, <1>19, <1>20 DEF InStep

LEMMA NextInStep == RInv /\ InStep /\ [Next]_vars => InStep'
  <1> SUFFICES ASSUME RInv, InStep, [Next]_vars PROVE InStep' OBVIOUS
  <1>0. out \in Buffer /\ conf \in Connection /\ wire \in Seq(Record) /\ out.pending \in Seq(Record)
    BY DEF RInv, TypeInv, Buffer
  <1>1. CASE UNCHANGED vars BY <1>1, SameInStep DEF vars
  <1>2. ASSUME NEW type \in Types, Write(type) PROVE InStep' BY <1>2, WriteInStep
  <1>3. CASE s2n_flush
    <2>1. /\ wire' = wire \o out.pending /\ out' = [out EXCEPT !.pending = <<>>]
          /\ failed' = failed /\ reader' = reader /\ writer' = writer /\ conf' = conf
      BY <1>3 DEF s2n_flush
    <2>2. out'.pending = <<>> BY <1>0, <2>1 DEF Buffer
    <2>3. wire' \o out'.pending = wire \o out.pending
      <3> DEFINE q == wire \o out.pending
      <3>1. q \in Seq(Record) BY <1>0
      <3> HIDE DEF q
      <3>2. q \o <<>> = q BY <3>1
      <3> QED BY <2>1, <2>2, <3>2 DEF q
    <2> QED BY <2>1, <2>3, SameInStep
  <1>4. CASE PreferLength
    <2>1. out'.pending = out.pending
      BY <1>0, <1>4 DEF PreferLength, s2n_connection_set_max_fragment_length, Buffer
    <2> QED BY <1>4, <2>1, SameInStep DEF PreferLength
  <1>5. CASE s2n_max_fragment_length_recv
    <2>1. out'.pending = out.pending /\ conf'.alg = conf.alg /\ conf'.version = conf.version
      BY <1>0, <1>5 DEF s2n_max_fragment_length_recv, Buffer, Connection
    <2> QED BY <1>5, <2>1, SameInStep DEF s2n_max_fragment_length_recv
  <1>6. CASE s2n_connection_release_buffers
    <2>1. out'.pending = out.pending BY <1>0, <1>6 DEF s2n_connection_release_buffers, Buffer
    <2> QED BY <1>6, <2>1, SameInStep DEF s2n_connection_release_buffers
  <1>7. CASE s2n_record_parse BY <1>7, ParseInStep
  <1>8. CASE Disturb
    <2>1. failed' # {} BY <1>8 DEF Disturb
    <2> QED BY <2>1 DEF InStep
  <1>9. CASE OwnWriteFails
    <2>1. failed' # {} BY <1>9 DEF OwnWriteFails
    <2> QED BY <2>1 DEF InStep
  <1> QED BY <1>1, <1>2, <1>3, <1>4, <1>5, <1>6, <1>7, <1>8, <1>9 DEF Next

(***************************************************************************)
(* As long as nothing fails, every record that s2n_record_writev seals     *)
(* opens in s2n_record_parse: for every algorithm and version, any number  *)
(* of records of any size and any changes of the fragment length.          *)
(***************************************************************************)
THEOREM SealedIsAccepted == Spec => []NoSpuriousReject
  <1>1. Init => RInv /\ InStep BY InitRInv, InitInStep
  <1>2. RInv /\ InStep /\ [Next]_vars => RInv' /\ InStep' BY NextRInv, NextInStep
  <1>3. InStep => NoSpuriousReject BY DEF InStep, NoSpuriousReject
  <1> QED BY <1>1, <1>2, <1>3, PTL DEF Spec
=============================================================================
