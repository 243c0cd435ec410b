---------------------------- MODULE RecordLayer ----------------------------
(***************************************************************************)
(* The record layer (tls/s2n_record_write.c, tls/s2n_record_read*.c,       *)
(* tls/s2n_aead.c, tls/s2n_cbc.c, crypto/s2n_*_cipher_*.c): one direction  *)
(* of a connection whose keys are in place.  The writer turns data into    *)
(* records in conn->out and flushes them, the reader opens what arrives.   *)
(* Lengths are exact; data is known by its position, keys, IVs and MACs    *)
(* are symbolic: what was sealed opens only with the same key, nonce and   *)
(* additional data.  Memory or randomness may run out in the middle of a   *)
(* write, and the network may disturb a record.                            *)
(***************************************************************************)
EXTENDS RecordCiphers, Integers, FiniteSets

CONSTANTS
    Sizes,      \* how much data a write may be asked to take
    MaxWrites,  \* bound: records written
    MaxEvents,  \* bound: failures, disturbances and buffer operations
    Types       \* content types written under the negotiated keys

ASSUME BoundAssumption ==
    /\ Sizes \subseteq Nat /\ MaxWrites \in Nat /\ MaxEvents \in Nat
    /\ Types \subseteq {"app", "handshake", "alert", "ccs"}

-----------------------------------------------------------------------------
Tls13Alg(alg) == alg \in {"tls13_aes128_gcm", "tls13_aes256_gcm", "tls13_chacha20_poly1305"}
GcmNonce(alg) == alg \in {"aes128_gcm", "aes256_gcm"}

(* The record algorithms a connection of a version may end up with. *)
AlgsOf(version) ==
    LET allowed == {s \in DOMAIN cipher_suite :
                        /\ cipher_suite[s].min <= version /\ cipher_suite[s].min # UNKNOWN
                        /\ (cipher_suite[s].min = TLS13) = (version = TLS13)}
    IN  IF version = SSLv3 THEN {cipher_suite[s].sslv3 : s \in allowed} \ {"none"}
        ELSE UNION {ToSet(cipher_suite[s].algs) : s \in allowed}

S2N_TLS_MAXIMUM_FRAGMENT_LENGTH == 16384
S2N_DEFAULT_FRAGMENT_LENGTH == 8087
S2N_SMALL_FRAGMENT_LENGTH == 1435
HeaderLength == 5

-----------------------------------------------------------------------------
(* The sizes s2n_record_writev works out before it writes anything.        *)
ExplicitIv(alg, version) ==
    LET c == cipher[CipherOf(alg)]
    IN  CASE c.type = "AEAD" -> c.iv
          [] c.type \in {"CBC", "COMPOSITE"} /\ version > TLS10 -> c.iv
          [] OTHER -> 0

s2n_tls_record_overhead(alg, version) ==
    LET c == cipher[CipherOf(alg)]
    IN  s2n_hmac_digest_size(alg) + ExplicitIv(alg, version)
          + (IF c.type = "CBC" THEN 1 ELSE IF c.type = "AEAD" THEN c.tag ELSE 0)

Padding(alg, version, n) ==
    LET c == cipher[CipherOf(alg)]
        over == (n + s2n_tls_record_overhead(alg, version)) % c.block
    IN  IF c.type = "CBC" /\ over # 0 THEN c.block - over ELSE 0

(* What EVP_CTRL_AEAD_TLS1_AAD returns for a payload of n bytes: digest,   *)
(* padding and the padding length byte.                                    *)
initial_hmac(alg, n) ==
    LET c == cipher[CipherOf(alg)]
    IN  IF c.type = "COMPOSITE"
        THEN ((n + c.mac + c.block) \div c.block) * c.block - n ELSE 0

ContentTypeLength(alg) == IF Tls13Alg(alg) THEN 1 ELSE 0

(* actual_fragment_length, the length in the header *)
FragmentLength(alg, version, n) ==
    n + Padding(alg, version, n) + s2n_tls_record_overhead(alg, version)
      + initial_hmac(alg, n) + ContentTypeLength(alg)

(* What really follows the header: what is skipped when the buffer is      *)
(* rewound to encrypt it in place, and encrypted_length.                   *)
EncryptedLength(alg, version, n) ==
    LET c == cipher[CipherOf(alg)]
        base == n + s2n_hmac_digest_size(alg)
    IN  CASE c.type = "AEAD" -> c.iv + base + c.tag + ContentTypeLength(alg)
          [] c.type = "CBC" -> ExplicitIv(alg, version) + base + Padding(alg, version, n) + 1
          [] c.type = "COMPOSITE" -> base + ExplicitIv(alg, version) + initial_hmac(alg, n)
          [] OTHER -> base

s2n_record_max_write_payload_size(max) ==
    IF max < S2N_TLS_MAXIMUM_FRAGMENT_LENGTH THEN max ELSE S2N_TLS_MAXIMUM_FRAGMENT_LENGTH

s2n_record_max_write_size_NoTag(version, fragment) == fragment + HeaderLength + 1
s2n_record_max_write_size(version, fragment) ==
    fragment + HeaderLength + (IF version < TLS13 THEN 1024 ELSE 1 + 255)

MaxRecordLength(alg) ==
    s2n_record_max_write_size(IF Tls13Alg(alg) THEN TLS13 ELSE TLS12,
                              S2N_TLS_MAXIMUM_FRAGMENT_LENGTH)

(* The payload of a record that fits one Ethernet frame with IPv6. *)
FrameLength == 1500 - 40 - 20 - 40
s2n_record_min_write_payload_size(alg, version) ==
    LET c == cipher[CipherOf(alg)]
        size == FrameLength - HeaderLength
        aligned == size - (size % c.block)
    IN  (IF c.type = "COMPOSITE" THEN aligned - c.mac - 1 ELSE aligned)
          - ContentTypeLength(alg) - s2n_tls_record_overhead(alg, version)

(* S2N_LARGE_FRAGMENT_LENGTH, S2N_SMALL_FRAGMENT_LENGTH and                *)
(* mfl_code_to_length.                                                     *)
FragmentLengths == {S2N_TLS_MAXIMUM_FRAGMENT_LENGTH, S2N_SMALL_FRAGMENT_LENGTH}
MflLengths == {512, 4096}

-----------------------------------------------------------------------------
VARIABLES
    conf,     \* record algorithm and version of the connection
    out,      \* conn->out: its size (0: freed), its taint, what waits in it
    writer,   \* this direction's half of the crypto parameters, at the sender
    reader,   \* and at the receiver
    wire,     \* records (and pieces of records) under way
    written,  \* how many records have been written
    sent,     \* those of them that were sealed under the connection's keys
    got,      \* every record opened under them so far
    failed,   \* why writes have failed
    events    \* failures, disturbances and buffer operations so far

vars == <<conf, out, writer, reader, wire, written, sent, got, failed, events>>

(* at: do conn->client and conn->server point at the secure parameters?    *)
(* iv: the implicit IV, derived with the keys or a block of an earlier     *)
(* record.  mac: what the running MAC already holds.  bare: the types of   *)
(* the records the receiver took without protection.                       *)
Half == [at |-> "secure", seq |-> 0, iv |-> <<"derived">>, stream |-> 0, mac |-> 0]

Init ==
    /\ conf \in UNION {[alg : AlgsOf(v), version : {v}, negotiated : {0}] :
                           v \in {SSLv3, TLS10, TLS11, TLS12, TLS13}}
    /\ out \in {[size |-> z, tainted |-> FALSE, pending |-> <<>>,
                 max |-> S2N_DEFAULT_FRAGMENT_LENGTH] :
                   z \in {0, s2n_record_max_write_size(TLS12, S2N_DEFAULT_FRAGMENT_LENGTH)}}
    /\ writer = Half
    /\ reader = [at |-> "secure", seq |-> 0, iv |-> <<"derived">>, stream |-> 0, mac |-> 0,
                 alive |-> TRUE, bare |-> {}]
    /\ wire = <<>> /\ written = 0 /\ sent = <<>> /\ got = <<>> /\ failed = {} /\ events = 0

Event == events < MaxEvents /\ events' = events + 1

-----------------------------------------------------------------------------
(* Writing a record.                                                       *)
Alg(half, plain) == IF plain \/ half.at = "initial" THEN "null" ELSE conf.alg
Type(alg) == cipher[CipherOf(alg)].type

s2n_is_tls13_plaintext_content(type) == conf.version = TLS13 /\ type \in {"alert", "ccs"}

(* The nonce of an AEAD record, or the IV of a CBC record.  The implicit   *)
(* part of a nonce is the same for all records of a key.                   *)
RecordIv_Implicit(alg, half) ==
    CASE Type(alg) = "AEAD" -> <<"nonce", half.seq>>
      [] Type(alg) \in {"CBC", "COMPOSITE"} -> half.iv
      [] OTHER -> <<"stream", half.stream>>
RecordIv(alg, half) ==
    CASE Type(alg) = "AEAD" -> <<"nonce", half.seq>>
      [] Type(alg) \in {"CBC", "COMPOSITE"} /\ conf.version > TLS10 -> <<"random", written>>
      [] Type(alg) \in {"CBC", "COMPOSITE"} /\ conf.version <= TLS10 -> half.iv
      [] OTHER -> <<"stream", half.stream>>

(* s2n_aead_aad_init and s2n_tls13_aead_aad_init: in TLS 1.3 the sequence  *)
(* number is in the nonce only and the type is inside the record.          *)
s2n_aead_aad_init_NoSequence(seq, type, n) == [seq |-> 0, type |-> type, length |-> n]
s2n_aead_aad_init(seq, type, n) == [seq |-> seq, type |-> type, length |-> n]
s2n_tls13_aead_aad_init(n, tag) == [seq |-> 0, type |-> "app", length |-> n + tag]

Aad(alg, seq, type, n) ==
    IF Tls13Alg(alg) THEN s2n_tls13_aead_aad_init(n + 1, cipher[CipherOf(alg)].tag)
    ELSE s2n_aead_aad_init(seq, type, n)

(* What authenticates a record: the additional data of an AEAD, or what    *)
(* the MAC runs over; left is what an aborted write left in the MAC.       *)
Authenticated(alg, left, seq, type, n) ==
    CASE Type(alg) = "AEAD" -> Aad(alg, seq, type, n)
      [] alg = "null" -> [seq |-> 0, type |-> type, length |-> n]
      [] OTHER -> [seq |-> seq, type |-> type, length |-> n, left |-> left]

Sealed(alg, half, type, n) ==
    [outer |-> IF Tls13Alg(alg) THEN "app" ELSE type, version |-> conf.version,
     length |-> FragmentLength(alg, conf.version, n),
     actual |-> EncryptedLength(alg, conf.version, n),
     plain |-> alg = "null", iv |-> RecordIv(alg, half), inner |-> type,
     auth |-> Authenticated(alg, half.mac, half.seq, type, n),
     size |-> n, id |-> written, intact |-> TRUE, whole |-> TRUE]

(* The header of a record whose rest was never written. *)
Piece == [outer |-> "app", version |-> conf.version, length |-> 0, actual |-> 0,
          plain |-> FALSE, iv |-> <<"derived">>, inner |-> "app",
          auth |-> Authenticated("null", 0, 0, "app", 0),
          size |-> 0, id |-> written, intact |-> FALSE, whole |-> FALSE]

(* s2n_record_encrypt: the last block becomes the next IV up to TLS 1.0    *)
(* and for composite ciphers, a stream cipher moves on.                    *)
s2n_record_encrypt(alg, half, rec) ==
    [half EXCEPT
        !.iv = IF Type(alg) = "COMPOSITE" \/ (Type(alg) = "CBC" /\ conf.version < TLS11)
               THEN <<"block", rec.id>> ELSE @,
        !.stream = IF Type(alg) = "STREAM" /\ alg # "null" THEN @ + rec.actual ELSE @]

s2n_increment_sequence_number(alg, half) ==
    [half EXCEPT !.seq = IF alg = "null" THEN @ ELSE @ + 1]

(* s2n_stuffer_growable_alloc in s2n_record_writev, then                   *)
(* s2n_stuffer_reserve_space: the buffer grows only until a raw write has  *)
(* handed out a pointer into it.                                           *)
Allocated(o) ==
    IF o.size = 0
    THEN [o EXCEPT !.size = s2n_record_max_write_size(conf.version,
                                s2n_record_max_write_payload_size(o.max)),
                   !.tainted = FALSE]
    ELSE o

s2n_stuffer_reserve_space(o, need) ==
    IF o.tainted \/ need <= o.size THEN o
    ELSE [o EXCEPT !.size = @ + (IF need - @ > 1024 THEN need - @ ELSE 1024)]

(* The steps of s2n_record_writev, in their order: the point at which the  *)
(* parameters are switched for a TLS 1.3 CCS and switched back (only if    *)
(* nothing fails in between), the MAC that is fed before the buffer is     *)
(* allocated, the header that is written before randomness is drawn.       *)
Switched(half, type) ==
    [half EXCEPT !.at = IF conf.version = TLS13 /\ type = "ccs" THEN "initial" ELSE @]
Fed(alg, half) ==
    [half EXCEPT !.mac = IF s2n_hmac_digest_size(alg) > 0 THEN @ + 1 ELSE @]
Digested(half) == [half EXCEPT !.mac = 0]
NeedsRandom(alg) == Type(alg) \in {"CBC", "COMPOSITE"} /\ conf.version > TLS10

(* What a write that fails leaves behind: nothing is undone.  By the time  *)
(* the room for the encrypted record is checked the sequence number has    *)
(* moved on, the MAC is finished and the digest has tainted the buffer.    *)
Abandoned(alg, half, why) ==
    CASE why = "null" -> half
      [] why = "space" -> s2n_increment_sequence_number(alg, Digested(half))
      [] OTHER -> Fed(alg, half)
LeftIn(o, grown, why) ==
    CASE why \in {"null", "alloc"} -> out
      [] why = "space" -> [grown EXCEPT !.tainted = TRUE, !.pending = <<Piece>>]
      [] OTHER -> [o EXCEPT !.pending = <<Piece>>]

(* Why a write fails whatever happens, and what may go wrong besides.      *)
Refused(alg, type, rec, room) ==
    IF alg = "null" /\ type = "app" THEN {"null"}
    ELSE IF rec.length + HeaderLength > MaxRecordLength(alg) THEN {"length"}
    ELSE IF rec.actual + HeaderLength > room THEN {"space"} ELSE {}
Unlucky(alg, o) ==
    (IF o.size = 0 THEN {"alloc"} ELSE {}) \cup (IF NeedsRandom(alg) THEN {"random"} ELSE {})

s2n_record_writev(type, size) ==
    LET half == Switched(writer, type)
        alg == Alg(half, FALSE)
        max == s2n_record_max_write_payload_size(out.max)
        n == IF size < max THEN size ELSE max
        o == Allocated(out)
        rec == Sealed(alg, half, type, n)
        next == s2n_record_encrypt(alg, s2n_increment_sequence_number(alg, half), rec)
        grown == s2n_stuffer_reserve_space(o, HeaderLength + ExplicitIv(alg, conf.version) + n)
        refused == Refused(alg, type, rec, grown.size)
    IN  /\ out.pending = <<>>
        /\ written < MaxWrites
        /\ \/ /\ Event
              /\ \E why \in refused \cup Unlucky(alg, out) :
                    /\ failed' = failed \cup {why}
                    /\ writer' = Abandoned(alg, half, why)
                    /\ out' = LeftIn(o, grown, why)
              /\ UNCHANGED <<sent, written>>
           \/ /\ refused = {}
              /\ out' = [grown EXCEPT !.tainted = TRUE, !.pending = <<rec>>]
              /\ writer' = [Digested(next) EXCEPT !.at = writer.at]
              /\ sent' = IF rec.plain THEN sent ELSE Append(sent, rec)
              /\ written' = written + 1
              /\ UNCHANGED <<failed, events>>
        /\ UNCHANGED <<conf, reader, got, wire>>

(* The receiver writes too.  Its records travel the other way and matter   *)
(* here for one thing: when its write of a TLS 1.3 CCS fails half way (its *)
(* buffer was released and memory has run out), both conn->client and      *)
(* conn->server stay at the initial parameters, so it reads with the null  *)
(* cipher as well.                                                         *)
OwnWriteFails ==
    /\ Event
    /\ reader.alive /\ Switched(reader, "ccs") # reader
    /\ reader' = Switched(reader, "ccs")
    /\ failed' = failed \cup {"own"}
    /\ UNCHANGED <<conf, out, writer, wire, written, sent, got>>

(* Application data is written in records of up to the maximum fragment    *)
(* length, or of one Ethernet frame while record sizes are dynamic;        *)
(* everything else is small.                                               *)
Write(type) ==
    \E size \in IF type = "app"
                THEN Sizes \cup {s2n_record_min_write_payload_size(conf.alg, conf.version)}
                ELSE {2} :
        s2n_record_writev(type, size)

(* s2n_flush: whatever is in the buffer goes out, s2n_stuffer_rewrite      *)
(* leaves the taint.                                                       *)
s2n_flush ==
    /\ out.pending # <<>>
    /\ wire' = wire \o out.pending
    /\ out' = [out EXCEPT !.pending = <<>>]
    /\ UNCHANGED <<conf, writer, reader, written, sent, got, failed, events>>

(* s2n_connection_set_max_fragment_length, called when an extension is     *)
(* negotiated and by s2n_connection_prefer_throughput and                  *)
(* s2n_connection_prefer_low_latency: the buffer is reallocated whether    *)
(* tainted or not.                                                         *)
s2n_connection_set_max_fragment_length(length) ==
    LET max == IF conf.negotiated = 0 \/ length < conf.negotiated THEN length ELSE conf.negotiated
        need == s2n_record_max_write_size(conf.version, max)
    IN  out' = [out EXCEPT !.max = max,
                           !.size = IF @ = 0 \/ @ >= need THEN @ ELSE need]

PreferLength ==
    /\ Event
    /\ \E length \in FragmentLengths : s2n_connection_set_max_fragment_length(length)
    /\ UNCHANGED <<conf, writer, reader, wire, written, sent, got, failed>>

(* s2n_max_fragment_length_recv: before any data is sent *)
s2n_max_fragment_length_recv ==
    /\ Event
    /\ written = 0 /\ conf.negotiated = 0 /\ failed = {}
    /\ \E length \in MflLengths :
          /\ conf' = [conf EXCEPT !.negotiated = length]
          /\ out' = [out EXCEPT !.max = IF @ < length THEN @ ELSE length]
    /\ UNCHANGED <<writer, reader, wire, written, sent, got, failed>>

(* s2n_connection_release_buffers: s2n_stuffer_resize to nothing, refused  *)
(* for a tainted buffer.                                                   *)
ReleaseRefused == out.tainted \/ out.pending # <<>>
s2n_connection_release_buffers ==
    /\ Event
    /\ out.size > 0 /\ ~ReleaseRefused
    /\ out' = [out EXCEPT !.size = 0]
    /\ UNCHANGED <<conf, writer, reader, wire, written, sent, got, failed>>

-----------------------------------------------------------------------------
(* Reading a record.                                                       *)

(* s2n_record_header_parse and the bytes that are then read for the        *)
(* fragment: a length that is not what follows loses the framing.          *)
Framed(rec) == rec.whole /\ rec.version = conf.version /\ rec.length = rec.actual

(* The nonce comes from the own sequence number, or from the record.       *)
AeadIv(rec, half) ==
    IF GcmNonce(conf.alg) THEN rec.iv ELSE <<"nonce", half.seq>>

PayloadLength(alg, rec) ==
    CASE Type(alg) = "AEAD" -> rec.length - ExplicitIv(alg, conf.version)
                                 - cipher[CipherOf(alg)].tag - ContentTypeLength(alg)
      [] alg = "null" -> rec.length
      [] OTHER -> rec.size

(* The ciphers' decrypt functions: what comes out is what went in when the *)
(* key, the nonce, IV or position, and the additional data are the same.   *)
s2n_aead_cipher_aes_gcm_decrypt(rec, iv, aad) ==
    rec.intact /\ ~rec.plain /\ rec.iv = iv /\ rec.auth = aad
s2n_aead_chacha20_poly1305_decrypt(rec, iv, aad) ==
    rec.intact /\ ~rec.plain /\ rec.iv = iv /\ rec.auth = aad
s2n_cbc_cipher_aes_decrypt(rec, iv) == rec.intact /\ ~rec.plain /\ rec.iv = iv
s2n_cbc_cipher_3des_decrypt(rec, iv) == rec.intact /\ ~rec.plain /\ rec.iv = iv
s2n_composite_cipher_aes_sha_decrypt(rec, iv, mac) ==
    rec.intact /\ ~rec.plain /\ (conf.version > TLS10 \/ rec.iv = iv) /\ rec.auth = mac
s2n_stream_cipher_rc4_decrypt(rec, position) ==
    rec.intact /\ ~rec.plain /\ rec.iv = <<"stream", position>>

s2n_record_parse_aead(rec, half) ==
    LET aad == Aad(conf.alg, half.seq, rec.outer, PayloadLength(conf.alg, rec))
    IN  IF CipherOf(conf.alg) \in DOMAIN ChachaCiphers
        THEN s2n_aead_chacha20_poly1305_decrypt(rec, AeadIv(rec, half), aad)
        ELSE s2n_aead_cipher_aes_gcm_decrypt(rec, AeadIv(rec, half), aad)

(* The MAC of what was decrypted, over the own sequence number; the reader *)
(* starts it afresh for every record.                                      *)
Mac(rec, half) ==
    Authenticated(conf.alg, 0, half.seq, rec.outer, PayloadLength(conf.alg, rec))

(* The padding says how much of what was decrypted is payload. *)
s2n_verify_cbc(rec, half) == rec.auth = Mac(rec, half)

s2n_record_parse_cbc(rec, half) ==
    LET iv == IF conf.version > TLS10 THEN rec.iv ELSE half.iv
    IN  /\ IF CipherOf(conf.alg) \in DOMAIN DesCbcCiphers
           THEN s2n_cbc_cipher_3des_decrypt(rec, iv) ELSE s2n_cbc_cipher_aes_decrypt(rec, iv)
        /\ s2n_verify_cbc(rec, half)

s2n_record_parse_composite(rec, half) ==
    s2n_composite_cipher_aes_sha_decrypt(rec, half.iv, Mac(rec, half))

s2n_record_parse_stream(rec, half) ==
    s2n_stream_cipher_rc4_decrypt(rec, half.stream) /\ rec.auth = Mac(rec, half)

(* s2n_null_cipher copies, and is never used for application data. *)
Opens(alg, rec, half) ==
    CASE alg = "null" -> rec.outer # "app"
      [] Type(alg) = "AEAD" -> s2n_record_parse_aead(rec, half)
      [] Type(alg) = "CBC" -> s2n_record_parse_cbc(rec, half)
      [] Type(alg) = "COMPOSITE" -> s2n_record_parse_composite(rec, half)
      [] OTHER -> s2n_record_parse_stream(rec, half)

(* What the reader keeps of the record for the next one. *)
AfterReading_KeepsIv(alg, half, rec) == s2n_increment_sequence_number(alg, half)
AfterReading(alg, half, rec) ==
    s2n_record_encrypt(alg, s2n_increment_sequence_number(alg, half), rec)

(* s2n_tls13_parse_record_type: the type is inside the record. *)
s2n_tls13_parse_record_type(alg, rec) == IF Tls13Alg(alg) THEN rec.inner ELSE rec.outer

(* s2n_record_parse; a record that does not open ends the connection.      *)
s2n_record_parse ==
    LET rec == wire[1]
        alg == Alg(reader, s2n_is_tls13_plaintext_content(rec.outer))
    IN  /\ reader.alive /\ wire # <<>>
        /\ rec.whole \/ Len(wire) > 1
        /\ IF Framed(rec) /\ Opens(alg, rec, reader)
           THEN /\ reader' = [AfterReading(alg, reader, rec) EXCEPT
                                 !.bare = IF alg = "null" THEN @ \cup {rec.outer} ELSE @]
                /\ got' = IF alg = "null" THEN got
                          ELSE Append(got, [type |-> s2n_tls13_parse_record_type(alg, rec),
                                            size |-> PayloadLength(alg, rec), id |-> rec.id])
           ELSE /\ reader' = [reader EXCEPT !.alive = FALSE]
                /\ UNCHANGED got
        /\ wire' = Tail(wire)
        /\ UNCHANGED <<conf, out, writer, written, sent, failed, events>>

-----------------------------------------------------------------------------
(* The network: one record is lost, repeated, overtaken, or changed in its *)
(* body, its content type or its version.                                  *)
Disturbances(i) ==
    {RemoveAt(wire, i), InsertAt(wire, i, wire[i]),
     [wire EXCEPT ![i].intact = FALSE], [wire EXCEPT ![i].version = SSLv3 - 1]}
      \cup {[wire EXCEPT ![i].outer = t] : t \in {"app", "handshake", "alert", "ccs"}}
      \cup (IF i < Len(wire)
            THEN {[wire EXCEPT ![i] = wire[i + 1], ![i + 1] = wire[i]]} ELSE {})

Disturb ==
    /\ Event
    /\ \E i \in 1 .. Len(wire) : wire' \in Disturbances(i) \ {wire}
    /\ failed' = failed \cup {"network"}
    /\ UNCHANGED <<conf, out, writer, reader, written, sent, got>>

Next ==
    \/ \E type \in Types : Write(type)
    \/ OwnWriteFails
    \/ s2n_flush
    \/ PreferLength
    \/ s2n_max_fragment_length_recv
    \/ s2n_connection_release_buffers
    \/ s2n_record_parse
    \/ Disturb

Spec == Init /\ [][Next]_vars

-----------------------------------------------------------------------------
(* What the reader accepts under the connection's keys is what was sealed  *)
(* under them, in order, with its type and its length, from the first      *)
(* record on without a gap: whatever the network does to the records, and  *)
(* whatever a write that failed half way left in the MAC, in the buffer or *)
(* in conn->server.  And with the keys in place nothing unprotected is     *)
(* taken but alerts and CCS of TLS 1.3; the exception is an endpoint whose *)
(* own write of a CCS failed between the two switches of conn->client and  *)
(* conn->server: it takes any unprotected record but application data      *)
(* (s2n_record_parse, s2n_record_writev).                                  *)
RecordsIntact ==
    /\ Len(got) <= Len(sent)
    /\ \A i \in 1 .. Len(got) :
          got[i].id = sent[i].id /\ got[i].type = sent[i].inner /\ got[i].size = sent[i].size
    /\ reader.bare # {} => conf.version = TLS13
    /\ reader.at = "secure" => reader.bare \subseteq {"alert", "ccs"}
    /\ "app" \notin reader.bare

(* As long as nothing fails, every record the writer seals opens at the    *)
(* reader, whatever the algorithm, the version, the sizes and the changes  *)
(* of the fragment length: both work out the same lengths, nonces, IVs,    *)
(* additional data and MAC inputs on their own.                            *)
NoSpuriousReject == failed = {} => reader.alive

(* No write fails for want of room: the buffer allocated for the fragment  *)
(* length in force always takes the record with its IV, MAC, padding and   *)
(* tag, also where it cannot grow any more; and what                       *)
(* s2n_record_min_write_payload_size allows fits one Ethernet frame        *)
(* (s2n_record_max_write_size, s2n_connection_set_max_fragment_length).    *)
WritesFit ==
    /\ failed \cap {"length", "space"} = {}
    /\ \A i \in 1 .. Len(sent) :
          sent[i].size <= s2n_record_min_write_payload_size(conf.alg, conf.version)
            => sent[i].actual + HeaderLength <= FrameLength

(* No two records of a key are sealed with the same nonce, IV or stretch   *)
(* of keystream, also when writes fail and are tried again                 *)
(* (s2n_record_writev, s2n_record_encrypt).                                *)
IvNeverRepeats ==
    \A i \in 1 .. Len(sent) : \A j \in 1 .. i - 1 :
        /\ sent[i].iv # sent[j].iv
        /\ Type(conf.alg) = "STREAM" => sent[i].iv[2] >= sent[j].iv[2] + sent[j].actual

(* docs/USAGE-GUIDE.md says of s2n_connection_release_buffers that it "may *)
(* be called when a connection is in keep-alive or idle state".            *)
ReleaseWhenIdle == out.pending = <<>> => ~ReleaseRefused

TypeOK ==
    /\ conf.alg \in AlgsOf(conf.version)
    /\ out.size \in Nat /\ out.max \in Nat /\ out.tainted \in BOOLEAN
    /\ writer.at \in {"secure", "initial"} /\ reader.at \in {"secure", "initial"}
    /\ failed \subseteq {"null", "alloc", "random", "length", "space", "network", "own"}
    /\ events \in 0 .. MaxEvents
=============================================================================
