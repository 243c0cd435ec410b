------------------------------- MODULE Trust -------------------------------
(***************************************************************************)
(* Who is believed: two endpoints are configured, attach their             *)
(* configurations to connections in any order with the settings of the     *)
(* connections themselves, present certificates and validate each other's  *)
(* (tls/s2n_x509_validator.c, s2n_connection_set_config, s2n_server_cert.c,*)
(* s2n_client_cert.c, s2n_server_cert_request.c, OCSP stapling).           *)
(*                                                                         *)
(* A peer may also be another implementation that presents any chain of    *)
(* the world it is in.  A world says which calls the applications make (in *)
(* any order, each at most once) and which names they ask for.  libcrypto  *)
(* builds and checks paths; times are minutes, of the wall clock.          *)
(***************************************************************************)
EXTENDS Certificates

CONSTANTS
    Response,      \* OCSP responses: about, signer, status, this, next
    Worlds,        \* by name: menu, names, versions, kinds, strangers, responses, callback, system, depth, own
    Instants,      \* the readings of the clock, in order
    Zone,          \* the verifier's time zone: base, and daylight saving from .. until
    Policy,        \* certificate_signature_preferences
    Sha1Schemes,   \* the schemes among them that use SHA-1
    DefaultMaxChainDepth,
    MaxRounds      \* bound on the handshakes of one pair of connections

ASSUME TableAssumption ==
    /\ IsFiniteSet(DOMAIN Cert)
    /\ \A c \in DOMAIN Cert :
          /\ Len(Cert[c].san) \in Nat
          /\ \A i \in 1..Len(Cert[c].san) : SanName(Cert[c].san[i]) \in Seq(STRING)
          /\ Cert[c].cn \in Seq(STRING \X Seq(STRING))
    /\ \A x \in DOMAIN Chain : Chain[x].certs \in Seq(DOMAIN Cert)
    /\ None \notin DOMAIN Chain

ASSUME TimeAssumption ==
    /\ Instants \in Seq(Nat) /\ Instants # <<>>
    /\ Zone \in [base : Int, from : Int, until : Int]
    /\ \A r \in DOMAIN Response : \A time \in {Response[r].this, Response[r].next} :
          /\ time.at \in Int /\ time.hours \in Nat /\ time.minutes \in Nat
          /\ time.zone \in {"local", "Z", "+", "-", "absent"}
          /\ time.zone = "Z" => time.hours = 0 /\ time.minutes = 0
    /\ \A r \in DOMAIN Response : Response[r].this.zone # "absent"
    /\ None \notin DOMAIN Response

ASSUME WorldAssumption ==
    \A w \in DOMAIN Worlds :
       /\ Worlds[w].depth \in Nat /\ Worlds[w].names \subseteq Seq(STRING)
       /\ Worlds[w].system \subseteq DOMAIN Cert /\ Worlds[w].strangers \subseteq DOMAIN Chain
       /\ Worlds[w].responses \subseteq DOMAIN Response /\ Worlds[w].kinds \subseteq ToSet(KeyTypes)
       /\ \A op \in Worlds[w].menu :
             /\ op.end \in {"client", "server"}
             /\ op.op \in {"add_cert", "set_defaults"} => op.arg \in DOMAIN Chain
             /\ op.op = "add_pem" => op.arg \in DOMAIN Cert
             /\ op.op = "ocsp_data" => op.arg \in DOMAIN Response
       /\ \A name \in Worlds[w].names :
             LET lower == s2n_blob_char_to_lower(name) IN
             \A n \in {lower, s2n_create_wildcard_hostname(lower)} \ {<<>>} : Hash[n] \in Nat

ASSUME DepthAssumption == DefaultMaxChainDepth \in Nat \ {0}

Ends == {"client", "server"}
Peer(e) == IF e = "client" THEN "server" ELSE "client"
AuthTypes == {"NONE", "OPTIONAL", "REQUIRED"}

VARIABLES
    world,    \* the name of this behaviour's world
    todo,     \* the calls on configurations still to come
    cfg,      \* the configurations
    staple,   \* the OCSP response kept with each chain
    conn,     \* the connections
    version,  \* the protocol version negotiated
    stage,    \* how far the handshake is
    shown,    \* the certificate message in flight
    clock,    \* index of the present instant
    round     \* handshakes begun

vars == <<world, todo, cfg, staple, conn, version, stage, shown, clock, round>>

scene == Worlds[world]
now == Instants[clock]

-----------------------------------------------------------------------------
(***************************************************************************)
(* s2n_asn1_time_to_nano_since_epoch_ticks.  The time as written is taken  *)
(* for local time (mktime), then moved by the offset written, the local    *)
(* offset of the present and the difference in daylight saving between the *)
(* two.  Offsets are hours and minutes, neither above 23.                  *)
(***************************************************************************)
Bad == -1
IsDst(t) == IF t >= Zone.from /\ t < Zone.until THEN 1 ELSE 0
GmtOff(t) == Zone.base + (60 * IsDst(t))
mktime(local) == IF IsDst(local - Zone.base - 60) = 1 THEN local - Zone.base - 60 ELSE local - Zone.base

s2n_asn1_time_to_nano_since_epoch_ticks(time, present) ==
    LET clock_data == mktime(time.at)
        written == (60 * time.hours + time.minutes) * (IF time.zone = "-" THEN -1 ELSE 1)
        gmt_offset == IF time.zone = "local" THEN 0
                      ELSE written - GmtOff(present) - 60 * (IsDst(clock_data) - IsDst(present))
    IN IF time.hours > 23 \/ time.minutes > 23 \/ clock_data < 0 \/ clock_data < gmt_offset THEN Bad
       ELSE clock_data - gmt_offset

-----------------------------------------------------------------------------
(***************************************************************************)
(* Trust stores, X509_STORE or NULL, with the flag that lets a path end in *)
(* any certificate of the store.                                           *)
(***************************************************************************)
NullStore == [null |-> TRUE, certs |-> {}, partial |-> FALSE]
s2n_x509_trust_store_from_system_defaults(certs) == [null |-> FALSE, certs |-> certs, partial |-> FALSE]
s2n_x509_trust_store_add_pem(store, cert) == [store EXCEPT !.null = FALSE, !.certs = @ \cup {cert}]
s2n_x509_trust_store_from_ca_file(store, cert) ==
    IF cert \in DOMAIN Cert THEN [null |-> FALSE, certs |-> store.certs \cup {cert}, partial |-> TRUE]
    ELSE NullStore

NewConfig(system) ==
    [map |-> s2n_map_complete(s2n_map_new_with_initial_capacity(1)), defaults |-> NoCerts,
     explicit |-> FALSE, tiebreak |-> FALSE, loaded |-> {},
     store |-> s2n_x509_trust_store_from_system_defaults(system), disabled |-> FALSE,
     check_ocsp |-> TRUE, verify_host |-> FALSE, depth |-> 0, status_request |-> FALSE,
     auth |-> "NONE"]

(***************************************************************************)
(* Validators.  store says whose trust store is pointed at, path is what   *)
(* X509_verify_cert left in the store context.                             *)
(***************************************************************************)
s2n_x509_validator_init_no_x509_validation ==
    [state |-> "INIT", skip |-> TRUE, check_ocsp |-> FALSE, depth |-> DefaultMaxChainDepth, path |-> <<>>]
s2n_x509_validator_init(check_ocsp) ==
    [state |-> "INIT", skip |-> FALSE, check_ocsp |-> check_ocsp, depth |-> DefaultMaxChainDepth, path |-> <<>>]
s2n_x509_validator_set_max_chain_depth(v, depth) == [v EXCEPT !.depth = depth]

(***************************************************************************)
(* X509_verify_cert (external): a path from the leaf over certificates it  *)
(* was sent or trusts, trusted ones first, each signed by the next and in  *)
(* its time, up to one of the store that is its own issuer, or to any of   *)
(* the store if partial chains will do.  <<>> if there is none.            *)
(***************************************************************************)
InTime(c, t) == Cert[c].from <= t /\ t <= Cert[c].until
SelfIssued(c) == Cert[c].issuer = Cert[c].subject
Issued(i, c) == Cert[c].issuer = Cert[i].subject /\ Cert[c].signer = Cert[i].key /\ Cert[i].ca
Anchor(store, c) == c \in store.certs /\ (SelfIssued(c) \/ store.partial)

Issuers(pool, c, t) == {i \in pool \ {c} : Issued(i, c) /\ InTime(i, t)}
Lengthened(store, certs, t, path) ==
    LET c == path[Len(path)]
        trusted == Issuers(store.certs, c, t)
        sent == Issuers(ToSet(certs), c, t)
    IN IF path = <<>> \/ Anchor(store, c) THEN path
       ELSE IF trusted # {} THEN Append(path, CHOOSE i \in trusted : TRUE)
       ELSE IF sent # {} THEN Append(path, CHOOSE i \in sent : TRUE)
       ELSE <<>>

LongestPath(store, certs, t) ==
    LET built[n \in 0..(Len(certs) + 1)] ==
            IF n = 0 THEN (IF InTime(certs[1], t) THEN <<certs[1]>> ELSE <<>>)
            ELSE Lengthened(store, certs, t, built[n - 1])
    IN built[Len(certs) + 1]

X509_verify_cert(store, certs, depth, t) ==
    LET path == LongestPath(store, certs, t)
    IN IF path # <<>> /\ Anchor(store, path[Len(path)]) /\ Len(path) <= depth + 2 THEN path ELSE <<>>

\* s2n_validate_certificate_signature: no look at a certificate that signs itself.
s2n_validate_certificate_signature(c) ==
    \/ SelfIssued(c)
    \/ Cert[c].scheme \in Policy /\ ~(version = 13 /\ Cert[c].scheme \in Sha1Schemes)

-----------------------------------------------------------------------------
(***************************************************************************)
(* Connections.  attached: has a configuration of its own been set?  Until *)
(* then a connection has the library's default one.  late: was its client  *)
(* authentication set after that?  peer, response, checked and stapled are *)
(* what was presented to it and when it looked, outcome what it decided.   *)
(***************************************************************************)
Config(c, e) == IF c.attached THEN cfg[e] ELSE NewConfig(scene.system)
s2n_connection_get_client_auth_type(c, e) == IF c.auth = "unset" THEN Config(c, e).auth ELSE c.auth

Zeroed == [attached |-> FALSE, v |-> s2n_x509_validator_init_no_x509_validation, verify |-> "null",
           overridden |-> FALSE, server_name |-> <<>>, auth |-> "unset", late |-> FALSE,
           peer |-> <<>>, response |-> None, checked |-> 0, stapled |-> 0, outcome |-> "open"]

(***************************************************************************)
(* s2n_connection_set_config, of a connection c of endpoint e: the         *)
(* validator is made anew from the configuration, which the server needs   *)
(* only if it asks for certificates; the function that compares names is   *)
(* the connection's own, else the configuration's, else the default.       *)
(***************************************************************************)
s2n_connection_set_config_IgnoresOverride(c, e, g) ==
    LET auth == IF c.auth = "unset" THEN g.auth ELSE c.auth
        v == s2n_x509_validator_init(g.check_ocsp)
        skip == g.disabled \/ (e = "server" /\ auth = "NONE")
    IN IF skip THEN [c EXCEPT !.v = s2n_x509_validator_init_no_x509_validation]
       ELSE [c EXCEPT !.v = IF g.depth > 0 THEN s2n_x509_validator_set_max_chain_depth(v, g.depth) ELSE v,
                      !.verify = IF g.verify_host THEN "callback" ELSE "default"]

s2n_connection_set_config(c, e, g) ==
    LET auth == IF c.auth = "unset" THEN g.auth ELSE c.auth
        v == s2n_x509_validator_init(g.check_ocsp)
        skip == g.disabled \/ (e = "server" /\ auth = "NONE")
    IN IF skip THEN [c EXCEPT !.v = s2n_x509_validator_init_no_x509_validation]
       ELSE [c EXCEPT !.v = IF g.depth > 0 THEN s2n_x509_validator_set_max_chain_depth(v, g.depth) ELSE v,
                      !.verify = IF c.overridden THEN @ ELSE IF g.verify_host THEN "callback" ELSE "default"]

\* s2n_connection_new, and s2n_connection_wipe, which keeps the configuration only.
s2n_connection_new(e, system) == s2n_connection_set_config(Zeroed, e, NewConfig(system))
s2n_connection_wipe(c, e) ==
    s2n_connection_set_config([Zeroed EXCEPT !.attached = c.attached], e, Config(c, e))

-----------------------------------------------------------------------------
(***************************************************************************)
(* Calls on configurations.  Each is [op, end, arg]; a configuration is    *)
(* left alone once a connection has it.                                    *)
(***************************************************************************)
Call(op) ==
    /\ stage = "setup" /\ op \in todo /\ ~conn[op.end].attached
    /\ todo' = todo \ {op}
    /\ UNCHANGED <<world, conn, version, stage, shown, clock, round>>
Set(op, field, value) == cfg' = [cfg EXCEPT ![op.end][field] = value] /\ UNCHANGED staple

(***************************************************************************)
(* s2n_config_add_cert_chain_and_key_to_store, after the load.  The first  *)
(* chain of a type is the default, unless the defaults were set.           *)
(***************************************************************************)
s2n_config_add_cert_chain_and_key_to_store(g, chain) ==
    LET t == Leaf(chain).kind IN
    [g EXCEPT !.map = s2n_config_build_domain_name_to_cert_map(@, g.tiebreak, chain),
              !.loaded = @ \cup {chain},
              !.defaults[t] = IF g.explicit \/ @ # None THEN @ ELSE chain]

AddCertChain(op) ==
    /\ Call(op) /\ op.op = "add_cert"
    /\ cfg' = [cfg EXCEPT ![op.end] = IF s2n_cert_chain_and_key_load_pem(op.arg)
                                      THEN s2n_config_add_cert_chain_and_key_to_store(@, op.arg) ELSE @]
    /\ UNCHANGED staple

\* s2n_config_set_cert_chain_and_key_defaults, with one chain that was loaded.
SetDefaults(op) ==
    /\ Call(op) /\ op.op = "set_defaults" /\ op.arg \in cfg[op.end].loaded
    /\ cfg' = [cfg EXCEPT ![op.end].defaults = [NoCerts EXCEPT ![Leaf(op.arg).kind] = op.arg],
                          ![op.end].explicit = TRUE]
    /\ UNCHANGED staple

\* s2n_config_set_extension_data: the response goes to the single default chain.
SetOcspData(op) ==
    /\ Call(op) /\ op.op = "ocsp_data"
    /\ LET chain == s2n_config_get_single_default_cert(cfg[op.end])
       IN staple' = IF chain = None THEN staple ELSE [staple EXCEPT ![chain] = op.arg]
    /\ UNCHANGED cfg

AddPem(op) ==
    Call(op) /\ op.op = "add_pem" /\ Set(op, "store", s2n_x509_trust_store_add_pem(cfg[op.end].store, op.arg))

\* s2n_config_set_verification_ca_location also asks for OCSP responses.
SetCaLocation(op) ==
    /\ Call(op) /\ op.op = "ca_file"
    /\ LET store == s2n_x509_trust_store_from_ca_file(cfg[op.end].store, op.arg)
       IN cfg' = [cfg EXCEPT ![op.end].store = store,
                             ![op.end].status_request = @ \/ ~store.null]
    /\ UNCHANGED staple

WipeTrustStore(op) == Call(op) /\ op.op = "wipe" /\ Set(op, "store", NullStore)
DisableVerification(op) ==
    /\ Call(op) /\ op.op = "disable"
    /\ cfg' = [cfg EXCEPT ![op.end].store = NullStore, ![op.end].disabled = TRUE]
    /\ UNCHANGED staple
SetMaxDepth(op) == Call(op) /\ op.op = "depth" /\ Set(op, "depth", scene.depth)
IgnoreOcsp(op) == Call(op) /\ op.op = "no_ocsp" /\ Set(op, "check_ocsp", FALSE)
SetStatusRequest(op) == Call(op) /\ op.op = "status_request" /\ Set(op, "status_request", TRUE)
SetVerifyHost(op) == Call(op) /\ op.op = "verify_host" /\ Set(op, "verify_host", TRUE)
SetTiebreak(op) == Call(op) /\ op.op = "tiebreak" /\ Set(op, "tiebreak", TRUE)
SetConfigAuth(op) == Call(op) /\ op.op = "auth" /\ Set(op, "auth", op.arg)

Configure ==
    \E op \in todo :
       \/ AddCertChain(op) \/ SetDefaults(op) \/ SetOcspData(op)
       \/ AddPem(op) \/ SetCaLocation(op) \/ WipeTrustStore(op) \/ DisableVerification(op)
       \/ SetMaxDepth(op) \/ IgnoreOcsp(op) \/ SetStatusRequest(op) \/ SetVerifyHost(op)
       \/ SetTiebreak(op) \/ SetConfigAuth(op)

-----------------------------------------------------------------------------
(***************************************************************************)
(* Calls on connections, before their handshake.                           *)
(***************************************************************************)
OnConn(e, c) ==
    /\ stage = "setup" /\ conn' = [conn EXCEPT ![e] = c]
    /\ UNCHANGED <<world, todo, cfg, staple, version, stage, shown, clock, round>>

\* s2n_connection_set_config; a client may have one certificate only.
AttachConfig(e) ==
    /\ ~conn[e].attached
    /\ e = "client" => s2n_config_get_num_default_certs(cfg[e]) <= 1
    /\ OnConn(e, [s2n_connection_set_config(conn[e], e, cfg[e]) EXCEPT !.attached = TRUE])

s2n_set_server_name(name) ==
    conn["client"].server_name = <<>> /\ OnConn("client", [conn["client"] EXCEPT !.server_name = name])

s2n_connection_set_verify_host_callback(e) ==
    /\ "verify_host" \in scene.own[e] /\ ~conn[e].overridden
    /\ OnConn(e, [conn[e] EXCEPT !.verify = "callback", !.overridden = TRUE])

s2n_connection_set_client_auth_type(e) ==
    /\ "auth" \in scene.own[e] /\ conn[e].auth = "unset"
    /\ OnConn(e, [conn[e] EXCEPT !.auth = "REQUIRED", !.late = conn[e].attached])

SetUp ==
    \/ \E e \in Ends : AttachConfig(e) \/ s2n_connection_set_verify_host_callback(e)
                       \/ s2n_connection_set_client_auth_type(e)
    \/ \E name \in scene.names : s2n_set_server_name(name)

-----------------------------------------------------------------------------
(***************************************************************************)
(* s2n_x509_validator_validate_cert_chain, by connection c of endpoint e:  *)
(* the validator afterwards, with state "FAILED" for an error.  At most    *)
(* depth certificates are read, and more are an error where certificates   *)
(* are validated.                                                          *)
(***************************************************************************)
HostNames(cert) ==
    {SanName(cert.san[i]) : i \in 1..Len(cert.san)} \cup {cert.cn[i][2] : i \in 1..Len(cert.cn)}
AcceptedNames(c, cert) ==
    IF c.verify = "callback" THEN HostNames(cert) \cap scene.callback
    ELSE {n \in HostNames(cert) : s2n_default_verify_host(n, c.server_name)}

Failed(v) == [v EXCEPT !.state = "FAILED"]

s2n_x509_validator_validate_cert_chain(c, e, certs) ==
    LET v == c.v
        store == Config(c, e).store
        read == SubSeq(certs, 1, IF Len(certs) < v.depth THEN Len(certs) ELSE v.depth)
        path == X509_verify_cert(store, read, v.depth, now)
    IN IF (~v.skip /\ store.null) \/ v.state # "INIT" \/ read = <<>> THEN Failed(v)
       ELSE IF v.skip THEN v
       ELSE IF /\ \A i \in 1..Len(read) : s2n_validate_certificate_signature(read[i])
               /\ Len(read) = Len(certs)
               /\ c.verify = "null"
                  \/ s2n_verify_host_information(Cert[read[1]], AcceptedNames(c, Cert[read[1]]))
               /\ path # <<>>
            THEN [v EXCEPT !.state = "VALIDATED", !.path = path]
            ELSE Failed(v)

(***************************************************************************)
(* s2n_x509_validator_validate_cert_stapled_ocsp_response.  The signature  *)
(* of a response is libcrypto's to check: it is the issuer's.              *)
(***************************************************************************)
Current(response, t) ==
    LET r == Response[response]
        this_update == s2n_asn1_time_to_nano_since_epoch_ticks(r.this, t)
        next_update == IF r.next.zone = "absent" THEN this_update + 60
                       ELSE s2n_asn1_time_to_nano_since_epoch_ticks(r.next, t)
    IN this_update # Bad /\ next_update # Bad /\ this_update <= t /\ t <= next_update

s2n_x509_validator_validate_cert_stapled_ocsp_response(v, response) ==
    LET r == Response[response]
        issuers == {i \in ToSet(v.path) : Cert[v.path[1]].issuer = Cert[i].subject}
    IN IF v.skip \/ ~v.check_ocsp THEN [v EXCEPT !.state = "OCSP_VALIDATED"]
       ELSE IF /\ v.state = "VALIDATED" /\ response # None
               /\ \E i \in issuers : r.signer = Cert[i].key
               /\ r.about = v.path[1]
               /\ Current(response, now) /\ r.status = "GOOD"
            THEN [v EXCEPT !.state = "OCSP_VALIDATED"]
            ELSE Failed(v)

-----------------------------------------------------------------------------
(***************************************************************************)
(* The handshake.  The server hears of the name and whether a response is  *)
(* wanted; only a server with chains can go on.                            *)
(***************************************************************************)
Nothing == [certs |-> <<>>, chain |-> None, response |-> None, honest |-> FALSE]
Handshaking(next) ==
    /\ stage' = next /\ UNCHANGED <<world, todo, cfg, staple, clock, round>>

ClientHello ==
    /\ stage = "setup" /\ round < MaxRounds /\ conn["server"].attached
    /\ version' \in scene.versions
    /\ conn' = [conn EXCEPT !["server"].server_name = conn["client"].server_name]
    /\ round' = round + 1 /\ stage' = "hello" /\ shown' = Nothing
    /\ UNCHANGED <<world, todo, cfg, staple, clock>>

StatusRequested == Config(conn["client"], "client").status_request

(***************************************************************************)
(* s2n_server_cert_send, with the chain for one of the kinds of key the    *)
(* negotiation allows and the response kept with it, if it was asked for.  *)
(***************************************************************************)
s2n_server_cert_send ==
    /\ stage = "hello"
    /\ \E found \in {Candidates(cfg["server"], conn["server"].server_name)} :
       LET kinds == {t \in scene.kinds : found[t] # None}
       IN \/ kinds = {} /\ Handshaking("failed") /\ UNCHANGED <<conn, version, shown>>
          \/ \E t \in kinds :
                /\ shown' = [certs |-> Chain[found[t]].certs, chain |-> found[t], honest |-> TRUE,
                             response |-> IF StatusRequested THEN staple[found[t]] ELSE None]
                /\ Handshaking("server_cert") /\ UNCHANGED <<conn, version>>

\* Another implementation shows any chain and, if one was asked for, any response.
StrangersCert(from, to) ==
    /\ stage = from /\ Handshaking(to) /\ UNCHANGED <<conn, version>>
    /\ \E c \in scene.strangers, r \in scene.responses \cup {None} :
          /\ r # None => to = "server_cert" /\ StatusRequested
          /\ shown' = [certs |-> Chain[c].certs, chain |-> c, response |-> r, honest |-> FALSE]

Decide(e, v, t, done, next) ==
    LET ok == v.state # "FAILED" IN
    /\ conn' = [conn EXCEPT ![e].v = v, ![e].peer = shown.certs, ![e].response = shown.response,
                            ![e].checked = t, ![e].stapled = now,
                            ![e].outcome = IF ~ok THEN "rejected" ELSE IF done THEN "accepted" ELSE @]
    /\ Handshaking(IF ok THEN next ELSE "failed") /\ UNCHANGED <<version, shown>>

(***************************************************************************)
(* s2n_server_cert_recv.  In TLS 1.3 the response is in the message, else  *)
(* it follows in one of its own; the kind of key must be what was agreed.  *)
(***************************************************************************)
s2n_server_cert_recv ==
    /\ stage = "server_cert"
    /\ \E v \in {s2n_x509_validator_validate_cert_chain(conn["client"], "client", shown.certs)} :
       \E w \in {IF v.state = "FAILED" \/ version < 13 \/ shown.response = None THEN v
                ELSE s2n_x509_validator_validate_cert_stapled_ocsp_response(v, shown.response)} :
       LET kind == IF Cert[Head(shown.certs)].kind \in scene.kinds THEN w ELSE Failed(w)
           separate == version < 13 /\ shown.response # None
       IN Decide("client", kind, now, ~separate, IF separate THEN "status" ELSE "server_done")

s2n_server_status_recv ==
    /\ stage = "status"
    /\ LET c == conn["client"]
           v == s2n_x509_validator_validate_cert_stapled_ocsp_response(c.v, shown.response)
       IN Decide("client", v, c.checked, TRUE, "server_done")

(***************************************************************************)
(* s2n_cert_req_send and s2n_cert_req_recv.  A client that takes no part   *)
(* in client authentication does not expect the request; one that does     *)
(* takes its only chain, if the server knows its kind of key.              *)
(***************************************************************************)
ClientAuth(e) == s2n_connection_get_client_auth_type(conn[e], e)

s2n_cert_req_recv ==
    /\ stage = "server_done" /\ UNCHANGED <<conn, version>>
    /\ LET chain == s2n_config_get_single_default_cert(Config(conn["client"], "client"))
       IN \/ /\ ClientAuth("server") = "NONE"
             /\ Handshaking("done") /\ UNCHANGED shown
          \/ /\ ClientAuth("server") # "NONE"
             /\ \/ ClientAuth("client") = "NONE"
                \/ chain # None /\ Leaf(chain).kind \notin scene.kinds
                \/ chain = None /\ ClientAuth("client") # "OPTIONAL"
             /\ Handshaking("failed") /\ UNCHANGED shown
          \/ /\ ClientAuth("server") # "NONE" /\ ClientAuth("client") # "NONE"
             /\ chain # None => Leaf(chain).kind \in scene.kinds
             /\ chain = None => ClientAuth("client") = "OPTIONAL"
             /\ shown' = IF chain = None THEN Nothing
                         ELSE [certs |-> Chain[chain].certs, chain |-> chain, response |-> None, honest |-> TRUE]
             /\ Handshaking("client_cert")

\* s2n_client_cert_recv: no certificate will do where it is optional.
s2n_client_cert_recv ==
    /\ stage = "client_cert"
    /\ \/ /\ shown.certs = <<>> /\ UNCHANGED <<conn, version, shown>>
          /\ Handshaking(IF ClientAuth("server") = "OPTIONAL" THEN "done" ELSE "failed")
       \/ /\ shown.certs # <<>>
          /\ Decide("server", s2n_x509_validator_validate_cert_chain(conn["server"], "server", shown.certs),
                    now, TRUE, "done")

\* Both connections are wiped for another handshake.
Reuse ==
    /\ stage \in {"done", "failed"} /\ round < MaxRounds
    /\ conn' = [e \in Ends |-> s2n_connection_wipe(conn[e], e)]
    /\ stage' = "setup" /\ shown' = Nothing
    /\ UNCHANGED <<world, todo, cfg, staple, version, clock, round>>

Tick ==
    /\ clock < Len(Instants) /\ stage \notin {"done", "failed"}
    /\ clock' = clock + 1
    /\ UNCHANGED <<world, todo, cfg, staple, conn, version, stage, shown, round>>

Init ==
    /\ world \in DOMAIN Worlds /\ todo = scene.menu
    /\ cfg = [e \in Ends |-> NewConfig(scene.system)]
    /\ staple = [c \in DOMAIN Chain |-> None]
    /\ conn = [e \in Ends |-> s2n_connection_new(e, scene.system)]
    /\ version = 12 /\ stage = "setup" /\ shown = Nothing /\ clock = 1 /\ round = 0

Next ==
    \/ Configure \/ SetUp
    \/ ClientHello \/ s2n_server_cert_send \/ StrangersCert("hello", "server_cert")
    \/ s2n_server_cert_recv \/ s2n_server_status_recv
    \/ s2n_cert_req_recv \/ s2n_client_cert_recv
    \/ (ClientAuth("server") # "NONE" /\ StrangersCert("server_done", "client_cert"))
    \/ Reuse \/ Tick

Spec == Init /\ [][Next]_vars

-----------------------------------------------------------------------------
(***************************************************************************)
(* What it means to be trustworthy, said of certificates as such: from the *)
(* anchors down, certificate by certificate.                               *)
(***************************************************************************)
Raised(known, t, above) ==
    above \cup {c \in known : InTime(c, t) /\ \E i \in above : Issued(i, c)}
Certified(store, certs, t) ==
    LET known == ToSet(certs) \cup store.certs
        below[n \in 0..Cardinality(known)] ==
            IF n = 0 THEN {c \in known : Anchor(store, c) /\ InTime(c, t)}
            ELSE Raised(known, t, below[n - 1])
    IN below[Cardinality(known)]

(***************************************************************************)
(* Which instant a time denotes, and which the code reads in it: an hour   *)
(* more for a time with an offset whose digits fall, read as local time,   *)
(* into the hour that daylight saving skips.                               *)
(***************************************************************************)
Denotes(time) ==
    CASE time.zone = "local" -> mktime(time.at)
      [] time.zone = "Z" -> time.at
      [] time.zone = "+" -> time.at - (60 * time.hours + time.minutes)
      [] OTHER -> time.at + (60 * time.hours + time.minutes)

Skipped(time) ==
    time.zone \in {"Z", "+", "-"} /\ IsDst(time.at - Zone.base) = 1 /\ IsDst(time.at - Zone.base - 60) # 1
ReadAs(time) == Denotes(time) + (IF Skipped(time) THEN 60 ELSE 0)

\* A response is signed by a certified authority with the name of the leaf's issuer, and current.
Vouches(response, leaf, store, certs, checked, t) ==
    LET r == Response[response] IN
    /\ r.about = leaf /\ r.status = "GOOD"
    /\ \E i \in Certified(store, certs, checked) : Cert[leaf].issuer = Cert[i].subject /\ r.signer = Cert[i].key
    /\ ReadAs(r.this) <= t
    /\ t <= IF r.next.zone = "absent" THEN ReadAs(r.this) + 60 ELSE ReadAs(r.next)

\* The names a certificate is for, and whether one of them is the name asked for.
ForNames(cert) ==
    LET alt == {i \in 1..Len(cert.san) : cert.san[i][1] \in {"DNS", "IP"}}
    IN {SanName(cert.san[i]) : i \in 1..Len(cert.san)}
       \cup IF alt = {} /\ cert.cn # <<>> /\ Last(cert.cn)[1] = "UTF8" THEN {Last(cert.cn)[2]} ELSE {}
Covers(name, wanted) ==
    \/ SameName(name, wanted)
    \/ Len(name) >= 2 /\ Len(wanted) >= 2 /\ SameName(name, <<"*">> \o Tail(wanted))
\* The only name is a common name too long to be looked at.
NameUnread(cert) ==
    (\A i \in 1..Len(cert.san) : cert.san[i][1] \notin {"DNS", "IP"}) /\ cert.cn # <<>> /\ Last(cert.cn)[1] = "LONG"
FitsName(c, g, cert) ==
    IF c.overridden \/ g.verify_host THEN ForNames(cert) \cap scene.callback # {}
    ELSE c.server_name # <<>> /\ \E n \in ForNames(cert) : Covers(n, c.server_name)

Depth(g) == IF g.depth = 0 THEN DefaultMaxChainDepth ELSE g.depth
Trustworthy(e, certs, response, checked, stapled) ==
    LET c == conn[e]
        g == Config(c, e)
        leaf == certs[1]
    IN /\ ~g.store.null /\ Len(certs) <= Depth(g)
       /\ leaf \in Certified(g.store, certs, checked)
       /\ \A i \in 1..Len(certs) : s2n_validate_certificate_signature(certs[i])
       /\ FitsName(c, g, Cert[leaf]) \/ NameUnread(Cert[leaf])
       /\ g.check_ocsp /\ response # None => Vouches(response, leaf, g.store, certs, checked, stapled)

(***************************************************************************)
(* A peer's certificate is accepted only if it is for the name asked for,  *)
(* leads to the trust store in force over certificates in their time, no   *)
(* longer and no weaker than allowed, and is vouched for by the response   *)
(* stapled to it, if one was and responses are checked: whatever was set   *)
(* on configuration and connection in which order, and when the connection *)
(* is used again (s2n_x509_validator_validate_cert_chain).  Excepted are   *)
(* endpoints told not to verify, and a server whose connection was made to *)
(* require certificates after its configuration was set.  And nothing is   *)
(* said of the name of a certificate that has only an over-long common     *)
(* name (s2n_x509_validator.c:275 returns an error, taken for "verified"), *)
(* nor of the hour by which a response's time is misread (ReadAs).         *)
(***************************************************************************)
Asked(e) ==
    LET c == conn[e] IN
    ~Config(c, e).disabled /\ (e = "client" \/ (ClientAuth(e) # "NONE" /\ ~c.late))

OnlyTrustedAccepted ==
    \A e \in Ends :
       LET c == conn[e] IN
       c.outcome = "accepted" /\ Asked(e) => Trustworthy(e, c.peer, c.response, c.checked, c.stapled)

(***************************************************************************)
(* If chains for the name the client asks for are among those the server   *)
(* loaded, with the kind of key agreed on, all of them trustworthy to this *)
(* client, then the client does not reject the server: the server files    *)
(* names the way clients compare them (s2n_conn_find_name_matching_certs,  *)
(* s2n_verify_host_information).  Chains whose names the two sides read    *)
(* differently are left aside: several common names, or a common name      *)
(* beside addresses or URIs.                                               *)
(***************************************************************************)
Plain(cert) ==
    \/ \E i \in 1..Len(cert.san) : cert.san[i][1] = "DNS"
    \/ cert.san = <<>> /\ Len(cert.cn) <= 1 /\ \A i \in 1..Len(cert.cn) : cert.cn[i][1] = "UTF8"

FittingCertificateAccepted ==
    LET c == conn["client"]
        kind == Cert[shown.certs[1]].kind
        fitting == {x \in cfg["server"].loaded : FitsName(c, Config(c, "client"), Leaf(x)) /\ Leaf(x).kind = kind}
        response(x) == IF StatusRequested THEN staple[x] ELSE None
    IN c.outcome = "rejected" /\ shown.honest /\ c.verify = "default"
          /\ (\A x \in cfg["server"].loaded : Plain(Leaf(x)))
       => \/ fitting = {}
          \/ \E x \in fitting : ~Trustworthy("client", Chain[x].certs, response(x), c.checked, c.stapled)

\* What the guide says of client authentication, for connections set in any order.
RequiredMeansVerified ==
    LET c == conn["server"] IN
    c.outcome = "accepted" /\ ~Config(c, "server").disabled /\ ClientAuth("server") = "REQUIRED"
    => Trustworthy("server", c.peer, c.response, c.checked, c.stapled)
=============================================================================
