---------------------------- MODULE Certificates ----------------------------
(***************************************************************************)
(* Certificates as s2n handles them: the names a chain is known by, how a  *)
(* configuration files its chains under them, which one a server picks for *)
(* a client's server name, and how a peer's names are compared with the    *)
(* one asked for (crypto/s2n_certificate.c, tls/s2n_config.c,              *)
(* tls/s2n_handshake.c, s2n_verify_host_information).                      *)
(*                                                                         *)
(* A name is the sequence of its labels, an IP address in the place of a   *)
(* name likewise; <<>> is no name.  Certificates, chains and responses are *)
(* referred to by their identifiers in the tables given as constants.      *)
(***************************************************************************)
EXTENDS HashMap, SequencesExt

CONSTANTS
    Cert,       \* subject, issuer, key, signer, kind, scheme, san, cn, from, until, ca
    Chain,      \* certs (the leaf first), priv (its private key), junk (text after the last one)
    LowerCase   \* the lower case form of the labels that have capitals

None == "none"
KeyTypes == <<"RSA", "ECDSA", "RSA_PSS">>

(***************************************************************************)
(* s2n_blob_char_to_lower, and strncasecmp, which compares lower forms.    *)
(***************************************************************************)
s2n_blob_char_to_lower(name) ==
    [i \in 1..Len(name) |-> IF name[i] \in DOMAIN LowerCase THEN LowerCase[name[i]] ELSE name[i]]
SameName(a, b) == s2n_blob_char_to_lower(a) = s2n_blob_char_to_lower(b)

\* s2n_inet_ntop, of the four bytes of an IPv4 address.
s2n_inet_ntop(bytes) == [i \in 1..Len(bytes) |-> ToString(bytes[i])]

Leaf(chain) == Cert[Head(Chain[chain].certs)]

-----------------------------------------------------------------------------
(***************************************************************************)
(* s2n_cert_chain_and_key_load_pem: every certificate of the text must be  *)
(* read, the leaf's key must be of a type known and match the private key. *)
(***************************************************************************)
s2n_cert_chain_and_key_load_pem(chain) ==
    /\ Chain[chain].certs # <<>> /\ ~Chain[chain].junk
    /\ Leaf(chain).kind \in ToSet(KeyTypes)
    /\ Leaf(chain).key = Chain[chain].priv

\* s2n_cert_chain_and_key_load_sans keeps the DNS names only, in lower case.
s2n_cert_chain_and_key_load_sans(chain) ==
    LET san == Leaf(chain).san
        kept[i \in 0..Len(san)] ==
            IF i = 0 THEN <<>>
            ELSE IF san[i][1] = "DNS" THEN Append(kept[i - 1], s2n_blob_char_to_lower(san[i][2]))
            ELSE kept[i - 1]
    IN kept[Len(san)]

\* s2n_cert_chain_and_key_load_cns decodes every common name, whatever its string type.
s2n_cert_chain_and_key_load_cns(chain) ==
    [i \in 1..Len(Leaf(chain).cn) |-> s2n_blob_char_to_lower(Leaf(chain).cn[i][2])]

\* The names s2n_config_build_domain_name_to_cert_map files a chain under.
StoreNames(chain) ==
    IF s2n_cert_chain_and_key_load_sans(chain) = <<>> THEN s2n_cert_chain_and_key_load_cns(chain)
    ELSE s2n_cert_chain_and_key_load_sans(chain)

NoCerts == [t \in ToSet(KeyTypes) |-> None]

(***************************************************************************)
(* s2n_config_update_domain_name_to_cert_map.  A tie between two chains of *)
(* one type goes to the first unless the application's callback, where one *)
(* is set, names the other: here the one that is valid for longer.         *)
(***************************************************************************)
Winner(tiebreak, old, new) ==
    IF tiebreak /\ Leaf(new).until > Leaf(old).until THEN new ELSE old

s2n_config_update_domain_name_to_cert_map(map, tiebreak, name, chain) ==
    LET slot == s2n_map_lookup(map, name)
        t == Leaf(chain).kind
    IN CASE name = <<>> -> map
         [] name # <<>> /\ slot = map.capacity ->
              s2n_map_complete(s2n_map_add(s2n_map_unlock(map), name, [NoCerts EXCEPT ![t] = chain]))
         [] OTHER -> [map EXCEPT !.table[slot].value[t] =
                          IF @ = None THEN chain ELSE Winner(tiebreak, @, chain)]

s2n_config_build_domain_name_to_cert_map(map, tiebreak, chain) ==
    LET names == StoreNames(chain)
        built[i \in 0..Len(names)] ==
            IF i = 0 THEN map
            ELSE s2n_config_update_domain_name_to_cert_map(built[i - 1], tiebreak, names[i], chain)
    IN built[Len(names)]

-----------------------------------------------------------------------------
(***************************************************************************)
(* A server's choice.  s2n_create_wildcard_hostname puts a star in the     *)
(* place of the first label; a name of one label has no such form.         *)
(***************************************************************************)
s2n_create_wildcard_hostname(name) == IF Len(name) < 2 THEN <<>> ELSE <<"*">> \o Tail(name)

s2n_find_cert_matches(map, name) ==
    LET slot == s2n_map_lookup(map, name)
    IN IF name # <<>> /\ slot < map.capacity THEN map.table[slot].value ELSE NoCerts

(***************************************************************************)
(* s2n_conn_find_name_matching_certs and s2n_get_compatible_cert_chain_    *)
(* and_key: once some chain has the name, with whatever type of key, the   *)
(* wildcards are not looked at, nor the defaults.                          *)
(***************************************************************************)
Candidates_AsWritten(cfg, name) ==
    LET exact == s2n_find_cert_matches(cfg.map, name)
        wild == s2n_find_cert_matches(cfg.map, s2n_create_wildcard_hostname(name))
    IN CASE name # <<>> /\ exact # NoCerts -> exact
         [] name # <<>> /\ exact = NoCerts /\ wild # NoCerts -> wild
         [] OTHER -> cfg.defaults

Candidates(cfg, name) ==
    LET lower == s2n_blob_char_to_lower(name)
        exact == s2n_find_cert_matches(cfg.map, lower)
        wild == s2n_find_cert_matches(cfg.map, s2n_create_wildcard_hostname(lower))
    IN CASE name # <<>> /\ exact # NoCerts -> exact
         [] name # <<>> /\ exact = NoCerts /\ wild # NoCerts -> wild
         [] OTHER -> cfg.defaults

\* s2n_config_get_single_default_cert: the first type that has a default.
s2n_config_get_num_default_certs(cfg) == Cardinality({t \in DOMAIN cfg.defaults : cfg.defaults[t] # None})
s2n_config_get_single_default_cert(cfg) ==
    LET set == {i \in 1..Len(KeyTypes) : cfg.defaults[KeyTypes[i]] # None}
    IN IF set = {} THEN None ELSE cfg.defaults[KeyTypes[CHOOSE i \in set : \A j \in set : i <= j]]

-----------------------------------------------------------------------------
(***************************************************************************)
(* A verifier's comparison.  s2n_default_verify_host accepts the name it   *)
(* asked for, or a star for its first label.                               *)
(***************************************************************************)
s2n_default_verify_host(host, server_name) ==
    /\ server_name # <<>>
    /\ \/ SameName(host, server_name)
       \/ /\ Len(host) >= 2 /\ host[1] = "*" /\ Len(server_name) >= 2
          /\ SameName(Tail(host), Tail(server_name))

(***************************************************************************)
(* s2n_verify_host_information, with the names Accepts takes.  DNS names   *)
(* and addresses rule out the common name, URIs do not.  Of several common *)
(* names the last counts, if its string type is one of bytes that may be   *)
(* compared as they are; wide characters never equal a host name.  For a   *)
(* common name of 255 bytes and more the function returns S2N_FAILURE,     *)
(* which its callers take for "verified".                                  *)
(***************************************************************************)
SanName(entry) == IF entry[1] = "IP" THEN s2n_inet_ntop(entry[2]) ELSE entry[2]

s2n_verify_host_information(cert, accepted) ==
    LET san_found == \E i \in 1..Len(cert.san) : cert.san[i][1] \in {"DNS", "IP"}
    IN \/ \E i \in 1..Len(cert.san) : SanName(cert.san[i]) \in accepted
       \/ /\ ~san_found /\ cert.cn # <<>>
          /\ LET last == cert.cn[Len(cert.cn)]
             IN last[1] = "LONG" \/ (last[1] = "UTF8" /\ last[2] \in accepted)
=============================================================================
