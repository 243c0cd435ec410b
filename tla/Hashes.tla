------------------------------- MODULE Hashes -------------------------------
(***************************************************************************)
(* Hash states, HMAC states and what is built from them:                   *)
(* crypto/s2n_hash.c, crypto/s2n_evp.c, crypto/s2n_hmac.c,                 *)
(* crypto/s2n_hkdf.c, tls/s2n_handshake_hashes.c and the P_hash of         *)
(* tls/s2n_prf.c.  Everything here is a function of states to states.      *)
(*                                                                         *)
(* Bytes are terms: a tuple whose first element says how they were         *)
(* computed, so that the same bytes are the same term.  A hash is known by *)
(* what went in.  In FIPS mode the contexts of libcrypto's EVP interface   *)
(* do the work, and MD5 needs a permission that is a flag of the context.  *)
(***************************************************************************)
EXTENDS Integers, Sequences, SequencesExt

None == <<"none">>          \* nothing: a zero-length blob, a secret never set
Error == <<"error">>        \* what an operation that fails leaves as output

Digest(alg, input) == <<"digest", alg, input>>

-----------------------------------------------------------------------------
(* struct s2n_hash_state: the implementation, the algorithm, whether it    *)
(* takes input, one or two contexts (the second for the MD5 of MD5_SHA1)   *)
(* and whether every operation so far succeeded.                           *)
Md5Algs == {"MD5", "MD5_SHA1"}
HashAlgs == Md5Algs \cup {"SHA1", "SHA224", "SHA256", "SHA384", "SHA512"}
s2n_hash_digest_size(alg) ==
    [NONE |-> 0, MD5 |-> 16, SHA1 |-> 20, SHA224 |-> 28, SHA256 |-> 32, SHA384 |-> 48,
     SHA512 |-> 64, MD5_SHA1 |-> 36][alg]

Context == [md |-> "none", input |-> << >>, allowed |-> FALSE]
Raw(impl) == [impl |-> impl, alg |-> "NONE", ready |-> FALSE, ctx |-> Context, second |-> Context,
              ok |-> TRUE]
Fail(state) == [state EXCEPT !.ok = FALSE]
Initial(ctx, md) == [ctx EXCEPT !.md = md, !.input = << >>]
More(ctx, data) == [ctx EXCEPT !.input = Append(@, data)]

(* The low level functions of libcrypto; a copy is a copy of the struct.   *)
s2n_low_level_hash_new == Raw("low_level")
s2n_low_level_hash_init(state, alg) ==
    [state EXCEPT !.alg = alg, !.ready = TRUE, !.ctx = IF alg = "NONE" THEN @ ELSE Initial(@, alg)]
s2n_low_level_hash_update(state, data) ==
    IF ~state.ready THEN Fail(state)
    ELSE [state EXCEPT !.ctx = IF state.alg = "NONE" THEN @ ELSE More(@, data)]
s2n_low_level_hash_digest(state, size) ==
    IF ~state.ready \/ (state.alg # "NONE" /\ size # s2n_hash_digest_size(state.alg))
    THEN [state |-> Fail(state), out |-> Error]
    ELSE [state |-> [state EXCEPT !.ready = FALSE],
          out |-> IF state.alg = "NONE" THEN None ELSE Digest(state.alg, state.ctx.input)]
s2n_low_level_hash_copy(to, from) == [from EXCEPT !.ok = to.ok /\ from.ok]
s2n_low_level_hash_reset(state) == s2n_low_level_hash_init(state, state.alg)
s2n_low_level_hash_free(state) == [state EXCEPT !.ready = FALSE]

(* EVP contexts, used in FIPS mode only.                                   *)
s2n_digest_allow_md5_for_fips(ctx) == [ctx EXCEPT !.allowed = TRUE]
s2n_digest_is_md5_allowed_for_fips(ctx) == ctx.allowed
s2n_evp_hash_new == Raw("evp")
s2n_evp_hash_allow_md5_for_fips(state) ==
    [state EXCEPT !.ctx = s2n_digest_allow_md5_for_fips(@),
                  !.second = s2n_digest_allow_md5_for_fips(@)]
s2n_evp_hash_init(state, alg) ==
    CASE alg = "NONE" -> [state EXCEPT !.alg = alg, !.ready = TRUE]
      [] alg = "MD5_SHA1" /\ state.second.allowed ->
            [state EXCEPT !.alg = alg, !.ready = TRUE, !.ctx = Initial(@, "SHA1"),
                          !.second = Initial(@, "MD5")]
      [] alg \notin Md5Algs \/ (alg = "MD5" /\ state.ctx.allowed) ->
            [state EXCEPT !.alg = alg, !.ready = TRUE, !.ctx = Initial(@, alg)]
      [] OTHER -> Fail(state)
s2n_evp_hash_update(state, data) ==
    IF ~state.ready THEN Fail(state)
    ELSE [state EXCEPT !.ctx = IF state.alg = "NONE" THEN @ ELSE More(@, data),
                       !.second = IF state.alg = "MD5_SHA1" THEN More(@, data) ELSE @]
s2n_evp_hash_digest(state, size) ==
    IF ~state.ready \/ size # s2n_hash_digest_size(state.alg)
    THEN [state |-> Fail(state), out |-> Error]
    ELSE [state |-> [state EXCEPT !.ready = FALSE],
          out |-> CASE state.alg = "NONE" -> None
                    [] state.alg = "MD5_SHA1" /\ state.second.input # state.ctx.input ->
                        <<"digests", state.second.input, state.ctx.input>>
                    [] OTHER -> Digest(state.alg, state.ctx.input)]

(* EVP_MD_CTX_copy_ex copies the flags too; there is nothing to copy for   *)
(* S2N_HASH_NONE.                                                          *)
s2n_evp_hash_copy(to, from) ==
    LET permitted == IF from.alg \in Md5Algs /\ s2n_digest_is_md5_allowed_for_fips(from.ctx)
                     THEN s2n_evp_hash_allow_md5_for_fips(to) ELSE to
    IN  [permitted EXCEPT !.alg = from.alg, !.ready = from.ready, !.ok = to.ok /\ from.ok,
                          !.ctx = IF from.alg = "NONE" THEN @ ELSE from.ctx,
                          !.second = IF from.alg = "MD5_SHA1" THEN from.second ELSE @]

(* Resetting a context clears its flags; only a state whose algorithm needs*)
(* MD5 gets the permission back.                                           *)
s2n_evp_hash_reset(state) ==
    LET again == state.alg \in Md5Algs /\ s2n_digest_is_md5_allowed_for_fips(state.ctx)
        cleared == [state EXCEPT !.ctx = Context,
                                 !.second = IF state.alg = "MD5_SHA1" THEN Context ELSE @]
    IN  s2n_evp_hash_init(IF again THEN s2n_evp_hash_allow_md5_for_fips(cleared) ELSE cleared,
                          state.alg)
s2n_evp_hash_free(state) == [state EXCEPT !.ctx = Context, !.second = Context, !.ready = FALSE]

(* s2n_hash_set_impl and the functions that go through it.                 *)
s2n_hash_is_available(fips, alg) == alg \in Md5Algs => ~fips
s2n_hash_new(fips) == IF fips THEN s2n_evp_hash_new ELSE s2n_low_level_hash_new
Evp(state) == state.impl = "evp"
s2n_hash_allow_md5_for_fips(state) ==
    IF Evp(state) THEN s2n_evp_hash_allow_md5_for_fips(state) ELSE Fail(state)
s2n_hash_init(state, alg) ==
    CASE ~s2n_hash_is_available(Evp(state), alg) /\ ~s2n_digest_is_md5_allowed_for_fips(state.ctx) ->
            Fail(state)
      [] Evp(state) -> s2n_evp_hash_init(state, alg)
      [] OTHER -> s2n_low_level_hash_init(state, alg)
s2n_hash_update(state, data) ==
    IF Evp(state) THEN s2n_evp_hash_update(state, data) ELSE s2n_low_level_hash_update(state, data)
s2n_hash_digest(state, size) ==
    IF Evp(state) THEN s2n_evp_hash_digest(state, size) ELSE s2n_low_level_hash_digest(state, size)
s2n_hash_copy(to, from) ==
    IF Evp(from) THEN s2n_evp_hash_copy(to, from) ELSE s2n_low_level_hash_copy(to, from)
s2n_hash_reset(state) ==
    IF Evp(state) THEN s2n_evp_hash_reset(state) ELSE s2n_low_level_hash_reset(state)
s2n_hash_free(state) ==
    IF Evp(state) THEN s2n_evp_hash_free(state) ELSE s2n_low_level_hash_free(state)

Updated(state, list) == FoldLeft(s2n_hash_update, state, list)
OutputOf(d) == IF d.state.ok THEN d ELSE [d EXCEPT !.out = Error]
Finished(state) == OutputOf(s2n_hash_digest(state, s2n_hash_digest_size(state.alg)))

-----------------------------------------------------------------------------
(* struct s2n_handshake_hashes: a running hash of each algorithm, two      *)
(* copies kept for later and a workspace.  s2n_connection_new resets them  *)
(* all once more before the first handshake.                               *)
HandshakeHashes == HashAlgs \cup {"server_hello_copy", "server_finished_copy", "workspace"}
s2n_handshake_hashes_new_hashes(fips) == [h \in HandshakeHashes |-> s2n_hash_new(fips)]
s2n_handshake_hashes_init_hashes(fips, hashes) ==
    [h \in HandshakeHashes |->
        s2n_hash_init(IF fips /\ h \in Md5Algs \cup {"workspace"}
                      THEN s2n_hash_allow_md5_for_fips(hashes[h]) ELSE hashes[h],
                      IF h \in HashAlgs THEN h ELSE "NONE")]
s2n_handshake_hashes_wipe(hashes) == [h \in HandshakeHashes |-> s2n_hash_reset(hashes[h])]
s2n_handshake_hashes_new(fips) ==
    s2n_handshake_hashes_wipe(s2n_handshake_hashes_init_hashes(fips, s2n_handshake_hashes_new_hashes(fips)))
s2n_handshake_hashes_free(hashes) == [h \in HandshakeHashes |-> s2n_hash_free(hashes[h])]

-----------------------------------------------------------------------------
(* HMAC.  How full the last block is, which only keeps the time of a digest*)
(* constant, is left out.                                                  *)
Sslv3Macs == {"SSLv3_MD5", "SSLv3_SHA1"}
s2n_hmac_hash_alg(hmac) ==
    CASE hmac = "SSLv3_MD5" -> "MD5" [] hmac = "SSLv3_SHA1" -> "SHA1" [] OTHER -> hmac
HmacSize(hmac) == s2n_hash_digest_size(s2n_hmac_hash_alg(hmac))
s2n_hmac_is_available(fips, hmac) == hmac \in Sslv3Macs \cup {"MD5"} => ~fips
s2n_hmac_hash_block_size(hmac) == IF hmac \in {"SHA384", "SHA512"} THEN 128 ELSE 64
s2n_hmac_xor_pad_size(hmac) ==
    CASE hmac = "SSLv3_MD5" -> 48 [] hmac = "SSLv3_SHA1" -> 40
      [] OTHER -> s2n_hmac_hash_block_size(hmac)

(* struct s2n_hmac_state *)
HmacHashes == {"inner", "inner_just_key", "outer", "outer_just_key"}
EachHash(value(_)) == [h \in HmacHashes |-> value(h)]
s2n_hmac_new(fips) ==
    [alg |-> "NONE", block |-> 0, ok |-> TRUE, hash |-> EachHash(LAMBDA h : s2n_hash_new(fips))]
s2n_hmac_state_validate(state) == state.ok /\ \A h \in HmacHashes : state.hash[h].ok

(* The key, padded with zeros, XORed with a byte; in SSLv3 the key and the *)
(* byte, repeated as often as the pad is long.                             *)
IPAD == 54
OPAD == 92
Pad(byte, key) == <<"pad", byte, key>>
Repeated(byte, size) == <<"repeated", byte, size>>
s2n_sslv3_mac_init(state, key) ==
    LET size == s2n_hmac_xor_pad_size(state.alg)
    IN  [state EXCEPT !.hash["inner_just_key"] = Updated(@, <<key, Repeated(IPAD, size)>>),
                      !.hash["outer_just_key"] = Updated(@, <<key, Repeated(OPAD, size)>>)]
Padded(state, pad) ==
    [state EXCEPT !.hash["inner_just_key"] = s2n_hash_update(@, Pad(IPAD, pad)),
                  !.hash["outer_just_key"] = s2n_hash_update(@, Pad(OPAD, pad))]
PaddedDigest(state, hashed) == Padded([state EXCEPT !.hash["outer"] = hashed.state], hashed.out)
s2n_tls_hmac_init(state, key, klen) ==
    IF klen > s2n_hmac_xor_pad_size(state.alg)
    THEN PaddedDigest(state, s2n_hash_digest(s2n_hash_update(state.hash["outer"], key),
                                             HmacSize(state.alg)))
    ELSE Padded(state, key)

s2n_hmac_reset(state) ==
    IF state.block = 0 THEN [state EXCEPT !.ok = FALSE]
    ELSE [state EXCEPT !.hash["inner"] = s2n_hash_copy(@, state.hash["inner_just_key"])]
HmacKeyed(state, key, klen) ==
    IF state.alg \in Sslv3Macs THEN s2n_sslv3_mac_init(state, key)
    ELSE s2n_tls_hmac_init(state, key, klen)
s2n_hmac_init(state, alg, key, klen) ==
    IF ~s2n_hmac_is_available(Evp(state.hash["inner"]), alg) THEN [state EXCEPT !.ok = FALSE]
    ELSE s2n_hmac_reset(HmacKeyed([state EXCEPT !.alg = alg, !.block = s2n_hmac_hash_block_size(alg),
            !.hash = [h \in HmacHashes |-> s2n_hash_init(@[h], s2n_hmac_hash_alg(alg))]], key, klen))
s2n_hmac_update(state, data) ==
    IF state.block = 0 THEN [state EXCEPT !.ok = FALSE]
    ELSE [state EXCEPT !.hash["inner"] = s2n_hash_update(@, data)]

(* Bytes that are an HMAC as RFC 2104 defines it are known as such:        *)
(* H(K xor opad, H(K xor ipad, text)).                                     *)
Hmac(alg, key, text) == <<"hmac", alg, key, text>>
Named(out) ==
    IF out[1] # "digest" \/ Len(out[3]) # 2 THEN out
    ELSE LET pad == out[3][1]
             inner == out[3][2]
         IN  IF pad[1] = "pad" /\ pad[2] = OPAD /\ inner[1] = "digest" /\ inner[2] = out[2]
                /\ inner[3][1] = Pad(IPAD, pad[3])
             THEN Hmac(out[2], pad[3], Tail(inner[3])) ELSE out
HmacOutput(state, out) ==
    [state |-> state, out |-> IF s2n_hmac_state_validate(state) THEN Named(out) ELSE Error]
HmacOuter(state, inner, size) ==
    s2n_hash_digest(s2n_hash_update(
        s2n_hash_copy(state.hash["outer"], state.hash["outer_just_key"]), inner), size)
HmacFinished(state, inner, outer) ==
    HmacOutput([state EXCEPT !.hash["inner"] = inner.state, !.hash["outer"] = outer.state], outer.out)
HmacOfInner(state, inner, size) == HmacFinished(state, inner, HmacOuter(state, inner.out, size))
s2n_hmac_digest(state, size) ==
    HmacOfInner(state, s2n_hash_digest(state.hash["inner"], HmacSize(state.alg)), size)
s2n_hmac_copy(to, from) ==
    [from EXCEPT !.hash = EachHash(LAMBDA h : s2n_hash_copy(to.hash[h], from.hash[h])), !.ok = @ /\ to.ok]
s2n_hmac_free(state) == [state EXCEPT !.hash = EachHash(LAMBDA h : s2n_hash_free(state.hash[h]))]

-----------------------------------------------------------------------------
(* HKDF, on a state of its own that every call initialises.  A salt or a   *)
(* secret is never longer than the digest.                                 *)
HmacOf(fips, alg, key, klen, text) ==
    s2n_hmac_digest(FoldLeft(s2n_hmac_update, s2n_hmac_init(s2n_hmac_new(fips), alg, key, klen), text),
                    HmacSize(alg)).out
s2n_hkdf_extract(fips, alg, salt, key) == HmacOf(fips, alg, salt, HmacSize(alg), <<key>>)

Rounds(size, n) == [i \in 1..(size + n - 1) \div n |-> i]
First(size, of, bytes) == IF size = of THEN bytes ELSE <<"first", size, bytes>>
MAX_HKDF_ROUNDS == 255
LastOf(blocks) == IF blocks = << >> THEN << >> ELSE <<Last(blocks)>>
HkdfJoined(blocks) == IF Len(blocks) = 1 THEN blocks[1] ELSE <<"concat", blocks>>
s2n_hkdf_expand(fips, alg, key, info, size) ==
    LET n == HmacSize(alg)
        rounds == (size + n - 1) \div n
    IN  IF rounds \notin 1..MAX_HKDF_ROUNDS THEN Error
        ELSE First(size, rounds * n,
                   HkdfJoined(FoldLeft(LAMBDA prev, i : Append(prev,
                                            HmacOf(fips, alg, key, n, LastOf(prev) \o <<info, i>>)),
                                       << >>, Rounds(size, n))))

(* HkdfLabel: the size of the output, the label after "tls13 ", a context. *)
HkdfLabel(size, label, context) == <<"hkdf_label", size, label, context>>
s2n_hkdf_expand_label(fips, alg, secret, label, context, size) ==
    s2n_hkdf_expand(fips, alg, secret, HkdfLabel(size, label, context), size)

-----------------------------------------------------------------------------
(* P_hash.  struct s2n_prf_working_space has an HMAC state of s2n and an   *)
(* EVP context with a MAC key, of which FIPS mode uses the second.         *)
NoMac == [md |-> "none", key |-> None, input |-> << >>]
s2n_get_hmac_implementation(fips) == IF fips THEN "s2n_evp_hmac" ELSE "s2n_hmac"
s2n_prf_new(fips) ==
    [impl |-> s2n_get_hmac_implementation(fips), evp |-> NoMac, ok |-> TRUE,
     hmac |-> IF fips THEN s2n_hmac_new(fips) ELSE s2n_hmac_init(s2n_hmac_new(fips), "NONE", None, 0)]
s2n_prf_wipe(ws) == IF ws.hmac.block = 0 THEN ws ELSE [ws EXCEPT !.hmac = s2n_hmac_reset(@)]

(* EVP_DigestSign: HMAC as libcrypto computes it, external. *)
MacKey(alg, key, klen) == IF klen > s2n_hmac_hash_block_size(alg) THEN Digest(alg, <<key>>) ELSE key
s2n_evp_hmac_p_hash_digest_init(ws) ==
    IF None \in {ws.evp.key} \/ ws.evp.md = "none" THEN [ws EXCEPT !.ok = FALSE]
    ELSE [ws EXCEPT !.evp.input = << >>]
s2n_evp_hmac_p_hash_init(ws, alg, secret, klen) ==
    LET md == s2n_hmac_hash_alg(alg)
    IN  s2n_evp_hmac_p_hash_digest_init([ws EXCEPT !.evp.md = md, !.evp.key = MacKey(md, secret, klen)])
s2n_evp_hmac_p_hash_update(ws, data) == [ws EXCEPT !.evp.input = Append(@, data)]
s2n_evp_hmac_p_hash_digest(ws) == [ws |-> ws, out |-> Hmac(ws.evp.md, ws.evp.key, ws.evp.input)]
s2n_evp_hmac_p_hash_wipe(ws) == [ws EXCEPT !.evp.input = << >>]
s2n_evp_hmac_p_hash_reset(ws) == s2n_evp_hmac_p_hash_digest_init(s2n_evp_hmac_p_hash_wipe(ws))
s2n_evp_hmac_p_hash_cleanup(ws) == [s2n_evp_hmac_p_hash_wipe(ws) EXCEPT !.evp.key = None]

WithHmac(ws, d) == [ws |-> [ws EXCEPT !.hmac = d.state], out |-> d.out]
s2n_hmac_p_hash_digest(ws, size) == WithHmac(ws, s2n_hmac_digest(ws.hmac, size))

MacInit(ws, alg, secret, klen) ==
    IF ws.impl = "s2n_evp_hmac" THEN s2n_evp_hmac_p_hash_init(ws, alg, secret, klen)
    ELSE [ws EXCEPT !.hmac = s2n_hmac_init(@, alg, secret, klen)]
MacUpdate(ws, data) ==
    IF ws.impl = "s2n_evp_hmac" THEN s2n_evp_hmac_p_hash_update(ws, data)
    ELSE [ws EXCEPT !.hmac = s2n_hmac_update(@, data)]
MacFinal(ws, size) ==
    IF ws.impl = "s2n_evp_hmac" THEN s2n_evp_hmac_p_hash_digest(ws) ELSE s2n_hmac_p_hash_digest(ws, size)
MacReset(ws) ==
    IF ws.impl = "s2n_evp_hmac" THEN s2n_evp_hmac_p_hash_reset(ws) ELSE [ws EXCEPT !.hmac = s2n_hmac_reset(@)]
MacCleanup(ws) ==
    IF ws.impl = "s2n_evp_hmac" THEN s2n_evp_hmac_p_hash_cleanup(ws) ELSE [ws EXCEPT !.hmac = s2n_hmac_reset(@)]

(* RFC 5246, section 5: P_hash as a list of blocks, and its name. *)
PHash(alg, key, text) == <<"p_hash", alg, key, text>>
PHashBlocks(alg, key, text, n) ==
    LET A[i \in 0..n] == IF i = 0 THEN text ELSE <<Hmac(alg, key, A[i - 1])>>
    IN  [i \in 1..n |-> Hmac(alg, key, A[i] \o text)]

(* s2n_p_hash: digest0 is A(i); each round's digest1 is XORed into out.    *)
MacOf(ws, text, n) == MacFinal(FoldLeft(MacUpdate, ws, text), n)
PHashState(d, out) == [ws |-> d.ws, digest0 |-> d.out, out |-> out]
PHashExtended(r, digest1, n) ==
    PHashState(MacOf(MacReset(digest1.ws), <<r.digest0>>, n), Append(r.out, digest1.out))
PHashRound(r, text, n) ==
    IF r.digest0 = Error THEN r
    ELSE PHashExtended(r, MacOf(MacReset(r.ws), <<r.digest0>> \o text, n), n)
PHashResult(r, alg, key, text) ==
    [ws |-> MacCleanup(r.ws),
     out |-> CASE r.digest0 = Error \/ ~r.ws.ok -> Error
               [] r.out = PHashBlocks(alg, key, text, Len(r.out)) -> PHash(alg, key, text)
               [] OTHER -> <<"blocks", r.out>>]
s2n_p_hash(ws, alg, secret, klen, text, size) ==
    PHashResult(FoldLeft(LAMBDA r, i : PHashRound(r, text, HmacSize(alg)),
                         PHashState(MacOf(MacInit(ws, alg, secret, klen), text, HmacSize(alg)), << >>),
                         Rounds(size, HmacSize(alg))),
                alg, MacKey(alg, secret, klen), text)

(* s2n_sslv3_prf, in the workspace of the handshake hashes: MD5(secret,    *)
(* SHA1("A", secret, seeds)), then with "BB" and so on.                    *)
Sslv3Prf(secret, seeds) == <<"sslv3", secret, seeds>>
Sslv3Blocks(secret, seeds, n) ==
    [i \in 1..n |-> Digest("MD5", <<secret, Digest("SHA1", <<<<"letters", i>>, secret>> \o seeds)>>)]
Sslv3Hashed(w, alg, list) == Finished(Updated(s2n_hash_init(s2n_hash_reset(w), alg), list))
Sslv3Extended(md5, out) == [state |-> md5.state, out |-> Append(out, md5.out)]
Sslv3Outer(sha1, secret, out) ==
    Sslv3Extended(Sslv3Hashed(sha1.state, "MD5", <<secret, sha1.out>>), out)
Sslv3Round(r, i, secret, seeds) ==
    IF ~r.state.ok THEN r
    ELSE Sslv3Outer(Sslv3Hashed(r.state, "SHA1", <<<<"letters", i>>, secret>> \o seeds), secret, r.out)
Sslv3Result(r, secret, seeds) ==
    [state |-> r.state,
     out |-> CASE ~r.state.ok -> Error
               [] r.out = Sslv3Blocks(secret, seeds, Len(r.out)) -> Sslv3Prf(secret, seeds)
               [] OTHER -> <<"blocks", r.out>>]
s2n_sslv3_prf(workspace, secret, seeds, size) ==
    Sslv3Result(FoldLeft(LAMBDA r, i : Sslv3Round(r, i, secret, seeds),
                         [state |-> workspace, out |-> << >>], Rounds(size, 16)), secret, seeds)
=============================================================================
