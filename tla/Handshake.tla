----------------------------- MODULE Handshake -----------------------------
(***************************************************************************)
(* s2n_negotiate between an s2n client and an s2n server, for TLS 1.2 (and *)
(* older, which is the same machine) and TLS 1.3: the handshake state      *)
(* machine of tls/s2n_handshake_io.c, the handlers that choose the         *)
(* handshake type, the traffic keys of each direction, and early data.     *)
(*                                                                         *)
(* What the applications and their configurations decide is the scenario,  *)
(* chosen once.  A connection is a record, a handler an operator from the  *)
(* connection and the content of the message to the connection, and a      *)
(* handler that fails leaves its reason in err.  A record on the wire is   *)
(* its content type, its message, the key it is sealed with and the        *)
(* extensions and fields the peer acts on.                                 *)
(***************************************************************************)
EXTENDS HandshakeTables, FiniteSets

CONSTANTS
    Scenarios,     \* the configurations that are considered
    MaxEarlyData,  \* max_early_data_size of the PSK, in units of one send
    Overhead       \* what sealing adds to a record, in the same unit

Endpoint == {"client", "server"}
Peer(e) == IF e = "client" THEN "server" ELSE "client"

Auth == {"NONE", "OPTIONAL", "REQUIRED"}
Policy == {p \in [min : {12, 13}, max : {12, 13}] : p.min <= p.max}

(***************************************************************************)
(* policy: the versions of each security policy.  auth: each client        *)
(* certificate authentication type.  psk: whether the client offers PSKs   *)
(* and which one the server takes.  early: who calls the early data API.   *)
(* retry: the client's key share is of a group the server does not take.   *)
(* session: what the client offers to resume in TLS 1.2; known: the server *)
(* can; reissue: its ticket is under a key that only decrypts any more.    *)
(* tickets: who sets use_tickets; ticketKey: the server has a key to       *)
(* encrypt tickets with.  status: the server staples an OCSP response,     *)
(* or, as other implementations may, says so and does not.                 *)
(***************************************************************************)
Scenario ==
    [policy : [Endpoint -> Policy], quic : BOOLEAN, auth : [Endpoint -> Auth],
     clientCert : BOOLEAN, psk : {"none", "refused", "second", "first"},
     early : SUBSET Endpoint, retry : BOOLEAN, pfs : BOOLEAN,
     status : {"none", "staple", "promise"}, session : {"none", "ticket", "cache"},
     known : BOOLEAN, reissue : BOOLEAN, tickets : SUBSET Endpoint,
     ticketKey : BOOLEAN]

ASSUME ScenarioAssumption == Scenarios \subseteq Scenario
ASSUME EarlyAssumption == MaxEarlyData \in Nat /\ Overhead \in Nat

VARIABLES
    cfg,        \* the scenario
    conn,       \* the two connections
    wire,       \* wire[e]: records e has written and its peer has not read
    delivered   \* early data that reached the server's application

vars == <<cfg, conn, wire, delivered>>

EarlyState == {"UNKNOWN", "REQUESTED", "NOT_REQUESTED", "REJECTED", "ACCEPTED", "END"}
KeyName == {"initial", "early", "handshake", "application", "secure", "quic"}
Error == {"none", "decrypt", "bad_message", "version", "early_data_state",
          "max_early_data", "not_allowed"}

(***************************************************************************)
(* type, num: conn->handshake.handshake_type and message_number.           *)
(* version: actual_protocol_version, 0 when unknown.  early, expected,     *)
(* bytes: early_data_state, early_data_expected and early_data_bytes.      *)
(* keys: what conn->client and conn->server point to.  psk: chosen_psk.    *)
(* ticket: session_ticket_status.  resumed: client_session_resumed.        *)
(* status: the server's status_request answer was seen.  cert: the client  *)
(* certificate was sent or received.                                       *)
(***************************************************************************)
Connection ==
    [type : SUBSET Flags, num : Nat, version : {0, 12, 13}, early : EarlyState,
     expected : BOOLEAN, bytes : Nat, keys : [Endpoint -> KeyName], psk : BOOLEAN,
     ticket : {"none", "DECRYPT", "NEW"}, resumed : BOOLEAN, status : BOOLEAN,
     cert : BOOLEAN, err : Error]

Fail(c, error) == [c EXCEPT !.err = error]

----------------------------------------------------------------------------
(* ACTIVE_MESSAGE and what follows from it. *)

ActiveMessage(c) == Message(c.version, c.type, c.num)
Done(e) == ActiveMessage(conn[e]) = "APPLICATION_DATA"
IsWriter(e) == Writer(ActiveMessage(conn[e])) = e

(***************************************************************************)
(* s2n_advance_message: a reader skips a ChangeCipherSpec in TLS 1.3.      *)
(***************************************************************************)
s2n_advance_message(e, c) ==
    LET next == Message(c.version, c.type, c.num + 1)
        skip == /\ c.version = 13
                /\ Writer(next) # e
                /\ RecordType(next) = "ccs"
    IN  [c EXCEPT !.num = @ + IF skip THEN 2 ELSE 1]

(***************************************************************************)
(* s2n_tls13_handle_secrets, after the message was sent or received.       *)
(***************************************************************************)
Key(c, direction, key) == [c EXCEPT !.keys[direction] = key]

ClientSecrets_Eager(c) ==
    LET m == ActiveMessage(c)
    IN  CASE m = "CLIENT_HELLO" /\ c.early = "REQUESTED" -> Key(c, "client", "early")
          [] m = "HELLO_RETRY_MSG" -> Key(c, "client", "initial")
          [] m = "SERVER_HELLO"
                -> Key(Key(c, "server", "handshake"), "client", "handshake")
          [] m = "CLIENT_FINISHED"
                -> Key(Key(c, "server", "application"), "client", "application")
          [] OTHER -> c

s2n_tls13_client_handle_secrets(c) ==
    LET m == ActiveMessage(c)
    IN  CASE m = "CLIENT_HELLO" /\ c.early = "REQUESTED" -> Key(c, "client", "early")
          [] m = "HELLO_RETRY_MSG" -> Key(c, "client", "initial")
          [] m = "SERVER_HELLO"
                -> LET d == Key(c, "server", "handshake")
                   IN  IF c.early = "NOT_REQUESTED" THEN Key(d, "client", "handshake")
                                                    ELSE d
          [] m = "ENCRYPTED_EXTENSIONS" /\ c.early = "REJECTED"
                -> Key(c, "client", "handshake")
          [] m = "END_OF_EARLY_DATA" -> Key(c, "client", "handshake")
          [] m = "CLIENT_FINISHED"
                -> Key(Key(c, "server", "application"), "client", "application")
          [] OTHER -> c

ServerSecrets_NoFinal(c) ==
    LET m == ActiveMessage(c)
    IN  CASE m = "CLIENT_HELLO" /\ c.early = "ACCEPTED" -> Key(c, "client", "early")
          [] m = "HELLO_RETRY_MSG" -> Key(c, "client", "initial")
          [] m = "SERVER_HELLO"
                -> LET d == Key(c, "server", "handshake")
                   IN  IF c.early # "ACCEPTED" THEN Key(d, "client", "handshake") ELSE d
          [] m = "SERVER_FINISHED" /\ c.early # "ACCEPTED"
                -> Key(c, "server", "application")
          [] m = "END_OF_EARLY_DATA"
                -> Key(Key(c, "client", "handshake"), "server", "application")
          [] OTHER -> c

s2n_tls13_server_handle_secrets(c) ==
    LET m == ActiveMessage(c)
    IN  CASE m = "CLIENT_HELLO" /\ c.early = "ACCEPTED" -> Key(c, "client", "early")
          [] m = "HELLO_RETRY_MSG" -> Key(c, "client", "initial")
          [] m = "SERVER_HELLO"
                -> LET d == Key(c, "server", "handshake")
                   IN  IF c.early # "ACCEPTED" THEN Key(d, "client", "handshake") ELSE d
          [] m = "SERVER_FINISHED" /\ c.early # "ACCEPTED"
                -> Key(c, "server", "application")
          [] m = "END_OF_EARLY_DATA"
                -> Key(Key(c, "client", "handshake"), "server", "application")
          [] m = "CLIENT_FINISHED" -> Key(c, "client", "application")
          [] OTHER -> c

s2n_tls13_handle_secrets(e, c) ==
    CASE c.version < 13 -> c
      [] c.version = 13 /\ e = "client" -> s2n_tls13_client_handle_secrets(c)
      [] c.version = 13 /\ e = "server" -> s2n_tls13_server_handle_secrets(c)

----------------------------------------------------------------------------
(* The early data state. *)

(***************************************************************************)
(* s2n_connection_set_early_data_state and valid_previous_states.          *)
(***************************************************************************)
Previous(state) ==
    CASE state \in {"REQUESTED", "NOT_REQUESTED"} -> "UNKNOWN"
      [] state \in {"REJECTED", "ACCEPTED"} -> "REQUESTED"
      [] state = "END" -> "ACCEPTED"

s2n_connection_set_early_data_state(c, state) ==
    CASE c.early = state -> c
      [] c.early # state /\ c.early = Previous(state) -> [c EXCEPT !.early = state]
      [] OTHER -> Fail(c, "early_data_state")

(***************************************************************************)
(* s2n_early_data_is_valid_for_connection: the first PSK was chosen (that  *)
(* it matches the connection is the meaning of "first").                   *)
(***************************************************************************)
s2n_early_data_is_valid_for_connection(c) == c.psk /\ cfg.psk = "first"

(***************************************************************************)
(* s2n_early_data_accept_or_reject; application is what the server's       *)
(* early_data_cb decides.                                                  *)
(***************************************************************************)
s2n_early_data_accept_or_reject(e, c, application) ==
    CASE c.early # "REQUESTED" -> c
      [] c.early = "REQUESTED" /\ ~s2n_early_data_is_valid_for_connection(c)
            -> s2n_connection_set_early_data_state(c, "REJECTED")
      [] OTHER
            -> IF e = "client" THEN c
               ELSE s2n_connection_set_early_data_state(c,
                        IF c.expected /\ application = "accept" THEN "ACCEPTED"
                                                                ELSE "REJECTED")

(***************************************************************************)
(* s2n_connection_get_max_early_data_size and _remaining_early_data_size.  *)
(* A server whose PSK list is empty is optimistic until it has negotiated. *)
(***************************************************************************)
NoPsks(e) == cfg.psk = "none" \/ (e = "server" /\ cfg.psk = "refused")

s2n_connection_get_max_early_data_size(e, c) ==
    IF NoPsks(e) /\ (e = "client" \/ "NEGOTIATED" \in c.type) THEN 0 ELSE MaxEarlyData

s2n_early_data_can_continue(e, c) ==
    /\ c.early \in {"UNKNOWN", "REQUESTED", "ACCEPTED"}
    /\ s2n_connection_get_max_early_data_size(e, c) > c.bytes

s2n_is_early_data_io(e, c) ==
    /\ ActiveMessage(c) # "APPLICATION_DATA"
    /\ \/ c.expected
       \/ e = "client" /\ c.early = "REQUESTED"
       \/ c.early \in {"ACCEPTED", "END"}

RecordBytes_CountsDown(e, c, size) == [c EXCEPT !.bytes = @ - size]
s2n_early_data_record_bytes(e, c, size) ==
    LET d == [c EXCEPT !.bytes = @ + size]
    IN  CASE ~s2n_is_early_data_io(e, c) -> c
          [] s2n_is_early_data_io(e, c)
             /\ d.bytes <= s2n_connection_get_max_early_data_size(e, c) -> d
          [] OTHER -> Fail(d, "max_early_data")

----------------------------------------------------------------------------
(* The handshake type. *)

(* s2n_is_middlebox_compat_enabled *)
MiddleboxCompat(c) == c.version = 13 /\ ~cfg.quic

Flag(condition, flag) == IF condition THEN {flag} ELSE {}

(***************************************************************************)
(* A client that requires authentication must see the request for its      *)
(* certificate; a server that takes certificates must send it.             *)
(***************************************************************************)
WantsClientAuth(e) ==
    IF e = "client" THEN cfg.auth[e] = "REQUIRED" ELSE cfg.auth[e] # "NONE"

(***************************************************************************)
(* s2n_conn_set_tls13_handshake_type keeps the flags that have already     *)
(* affected the message order and computes the others again.               *)
(***************************************************************************)
SetType13_Reset(e, c) ==
    [c EXCEPT !.type =
        {"NEGOTIATED"}
        \cup (c.type \cap {"HELLO_RETRY_REQUEST"})
        \cup Flag(~c.psk, "FULL_HANDSHAKE")
        \cup Flag(c.early = "ACCEPTED", "WITH_EARLY_DATA")
        \cup Flag(WantsClientAuth(e) /\ ~c.psk, "CLIENT_AUTH")
        \cup Flag(MiddleboxCompat(c), "MIDDLEBOX_COMPAT")]

s2n_conn_set_tls13_handshake_type(e, c) ==
    [c EXCEPT !.type =
        {"NEGOTIATED"}
        \cup (c.type \cap {"HELLO_RETRY_REQUEST", "MIDDLEBOX_COMPAT", "EARLY_CLIENT_CCS"})
        \cup Flag(~c.psk, "FULL_HANDSHAKE")
        \cup Flag(c.early = "ACCEPTED", "WITH_EARLY_DATA")
        \cup Flag(WantsClientAuth(e) /\ ~c.psk, "CLIENT_AUTH")
        \cup Flag(MiddleboxCompat(c), "MIDDLEBOX_COMPAT")]

(***************************************************************************)
(* s2n_conn_set_handshake_type before TLS 1.3: a ticket that decrypts (and *)
(* is issued again when its key is retiring), a ticket that does not, a    *)
(* session in the cache, the client's view of a resumed session, or a full *)
(* handshake.                                                              *)
(***************************************************************************)
DecryptsTicket(e, c) == e \in cfg.tickets /\ c.ticket = "DECRYPT" /\ cfg.known
RefusesTicket(e, c) == e \in cfg.tickets /\ c.ticket = "DECRYPT" /\ ~cfg.known

NewTicket(e, c) ==
    CASE DecryptsTicket(e, c) -> cfg.reissue /\ cfg.ticketKey
      [] RefusesTicket(e, c) -> cfg.ticketKey
      [] OTHER -> e \in cfg.tickets /\ c.ticket = "NEW"

ResumesFromCache(e, c) ==
    /\ e = "server"
    /\ ~RefusesTicket(e, c)
    /\ cfg.auth[e] = "NONE"
    /\ cfg.session = "cache"
    /\ cfg.known

SetType12(e, c) ==
    LET resumes == DecryptsTicket(e, c) \/ ResumesFromCache(e, c)
                   \/ (e = "client" /\ c.resumed)
        ocsp == IF e = "server" THEN cfg.status = "staple" ELSE c.status
        full == {"FULL_HANDSHAKE"} \cup Flag(cfg.pfs, "TLS12_PERFECT_FORWARD_SECRECY")
                \cup Flag(ocsp, "OCSP_STATUS")
    IN  [c EXCEPT !.type = {"NEGOTIATED"}
                           \cup Flag(WantsClientAuth(e), "CLIENT_AUTH")
                           \cup Flag(NewTicket(e, c), "WITH_SESSION_TICKET")
                           \cup (IF resumes THEN {} ELSE full),
                  !.ticket = IF NewTicket(e, c) THEN "NEW" ELSE @]

s2n_conn_set_handshake_type(e, c) ==
    CASE c.err # "none" -> c
      [] c.err = "none" /\ c.version = 13 -> s2n_conn_set_tls13_handshake_type(e, c)
      [] OTHER -> SetType12(e, c)

NoClientCert_Unchecked(e, c) == [c EXCEPT !.type = @ \cup {"NO_CLIENT_CERT"}]
s2n_conn_set_handshake_no_client_cert(e, c) ==
    IF cfg.auth[e] = "OPTIONAL" THEN [c EXCEPT !.type = @ \cup {"NO_CLIENT_CERT"}]
                                ELSE Fail(c, "bad_message")

----------------------------------------------------------------------------
(* The hello messages. *)

RequestEarly(c) ==
    s2n_connection_set_early_data_state(
        [c EXCEPT !.type = @ \cup (IF MiddleboxCompat(c)
                                   THEN {"MIDDLEBOX_COMPAT", "EARLY_CLIENT_CCS"} ELSE {})],
        "REQUESTED")

RejectEarly(c) ==
    IF c.early = "REQUESTED" THEN s2n_connection_set_early_data_state(c, "REJECTED") ELSE c

(***************************************************************************)
(* s2n_client_hello_send.  A second hello never asks for early data, and   *)
(* what the first one has not asked for never will be.                     *)
(***************************************************************************)
s2n_client_hello_send(c) ==
    LET d == IF cfg.policy["client"].max = 12 THEN [c EXCEPT !.version = 12] ELSE c
        asks == /\ d.expected
                /\ cfg.psk # "none"
                /\ d.version = 13
                /\ "HELLO_RETRY_REQUEST" \notin d.type
    IN  CASE asks -> RequestEarly(d)
          [] ~asks /\ d.early = "UNKNOWN"
                -> s2n_connection_set_early_data_state(d, "NOT_REQUESTED")
          [] OTHER -> d

ClientHelloExtensions(c) ==
    Flag(c.version = 13, "tls13")
    \cup Flag(c.early = "REQUESTED" /\ "HELLO_RETRY_REQUEST" \notin c.type, "early")
    \cup Flag("client" \in cfg.tickets /\ cfg.psk = "none", "ticket")

(***************************************************************************)
(* s2n_process_client_hello: the version, the session ticket and early     *)
(* data extensions, the PSK, and the need for a retry.                     *)
(***************************************************************************)
SessionTicketStatus(version, ext, status) ==
    CASE version = 13 \/ "ticket" \notin ext \/ "server" \notin cfg.tickets
         \/ cfg.auth["server"] # "NONE" -> status
      [] OTHER -> IF cfg.session = "ticket" THEN "DECRYPT"
                  ELSE IF cfg.ticketKey THEN "NEW" ELSE status

s2n_client_early_data_recv(c, ext) ==
    CASE "early" \in ext -> IF c.num = 0 THEN RequestEarly(c) ELSE Fail(c, "bad_message")
      [] "early" \notin ext /\ c.early # "REJECTED"
            -> s2n_connection_set_early_data_state(c, "NOT_REQUESTED")
      [] OTHER -> c

RetryRequired_KeepsEarly(c) == [c EXCEPT !.type = @ \cup {"HELLO_RETRY_REQUEST"}]
s2n_set_hello_retry_required(c) ==
    RejectEarly([c EXCEPT !.type = @ \cup {"HELLO_RETRY_REQUEST"}])

s2n_process_client_hello(c, ext) ==
    LET v == IF "tls13" \in ext /\ cfg.policy["server"].max = 13 THEN 13 ELSE 12
        d == s2n_client_early_data_recv(
                [c EXCEPT !.version = v,
                          !.psk = v = 13 /\ cfg.psk \in {"second", "first"},
                          !.ticket = SessionTicketStatus(v, ext, @)], ext)
    IN  CASE d.err # "none" -> d
          [] d.err = "none" /\ (v < cfg.policy["server"].min \/ (cfg.quic /\ v < 13))
                -> Fail(d, "version")
          [] OTHER -> IF v = 13 /\ cfg.retry /\ "HELLO_RETRY_REQUEST" \notin c.type
                      THEN s2n_set_hello_retry_required(d) ELSE d

s2n_establish_session(c, ext, application) ==
    s2n_conn_set_handshake_type("server",
        s2n_early_data_accept_or_reject("server", s2n_process_client_hello(c, ext),
                                        application))

(***************************************************************************)
(* s2n_server_hello_send and s2n_server_hello_retry_send.  "downgrade" is  *)
(* the value in the server random that says the server could have done     *)
(* TLS 1.3.                                                                *)
(***************************************************************************)
ServerHelloExtensions(c) ==
    IF c.version = 13
    THEN {"tls13"} \cup Flag(c.psk, "psk")
    ELSE Flag(cfg.policy["server"].max = 13, "downgrade")
         \cup Flag("FULL_HANDSHAKE" \notin c.type, "resumed")
         \cup Flag("WITH_SESSION_TICKET" \in c.type, "ticket")
         \cup Flag(cfg.status # "none", "status")

(***************************************************************************)
(* s2n_server_hello_parse and s2n_server_hello_recv, for both the hello    *)
(* and the retry.                                                          *)
(***************************************************************************)
Parse13(c, ext) == [c EXCEPT !.version = 13, !.psk = "psk" \in ext]

Parse12(c, ext) ==
    IF \/ "downgrade" \in ext /\ cfg.policy["client"].max = 13
       \/ cfg.quic
       \/ c.early = "REQUESTED"
       \/ 12 < cfg.policy["client"].min
    THEN Fail(c, "version")
    ELSE [c EXCEPT !.version = 12,
                   !.resumed = "resumed" \in ext,
                   !.ticket = IF "ticket" \in ext THEN "NEW" ELSE @,
                   !.status = "status" \in ext]

s2n_server_hello_parse(c, ext) ==
    LET d == IF "retry" \in ext THEN s2n_set_hello_retry_required(c) ELSE c
    IN  CASE "retry" \in ext /\ "HELLO_RETRY_REQUEST" \in c.type -> Fail(c, "bad_message")
          [] "tls13" \in ext -> s2n_early_data_accept_or_reject("client", Parse13(d, ext), "")
          [] OTHER -> s2n_early_data_accept_or_reject("client", Parse12(d, ext), "")

s2n_server_hello_recv(c, ext) ==
    s2n_conn_set_handshake_type("client", s2n_server_hello_parse(c, ext))

(***************************************************************************)
(* s2n_server_early_data_indication_recv and _is_missing, in               *)
(* EncryptedExtensions.                                                    *)
(***************************************************************************)
s2n_encrypted_extensions_recv(c, ext) ==
    CASE "early" \in ext /\ s2n_early_data_is_valid_for_connection(c)
            -> s2n_connection_set_early_data_state(
                    [c EXCEPT !.type = @ \cup {"WITH_EARLY_DATA"}], "ACCEPTED")
      [] "early" \in ext /\ ~s2n_early_data_is_valid_for_connection(c)
            -> Fail(c, "not_allowed")
      [] OTHER -> RejectEarly(c)

----------------------------------------------------------------------------
(* The other handlers. *)

s2n_client_cert_send(c) ==
    IF c.cert THEN c ELSE s2n_conn_set_handshake_no_client_cert("client", c)

s2n_client_cert_recv(c, ext) ==
    IF "cert" \in ext THEN [c EXCEPT !.cert = TRUE]
                      ELSE s2n_conn_set_handshake_no_client_cert("server", c)

(* s2n_end_of_early_data_send and _recv *)
EndOfEarlyData(c) == s2n_connection_set_early_data_state(c, "END")

(***************************************************************************)
(* s2n_client_finished_send and s2n_server_finished_send switch their own  *)
(* direction; the peer's direction is switched by its ChangeCipherSpec.    *)
(***************************************************************************)
FinishedSend_TooLate(e, c) == c
FinishedSend(e, c) == IF c.version = 13 THEN c ELSE Key(c, e, "secure")

CcsRecv(e, c) == IF c.version = 13 THEN c ELSE Key(c, Peer(e), "secure")

(* The send and the receive column of the state machines. *)
SendHandler(e, c) ==
    LET m == ActiveMessage(c)
    IN  CASE m = "CLIENT_HELLO" -> s2n_client_hello_send(c)
          [] m = "CLIENT_CERT" -> s2n_client_cert_send(c)
          [] m = "END_OF_EARLY_DATA" -> EndOfEarlyData(c)
          [] m \in {"CLIENT_FINISHED", "SERVER_FINISHED"} -> FinishedSend(e, c)
          [] OTHER -> c

Extensions(c, m) ==
    CASE m = "CLIENT_HELLO" -> ClientHelloExtensions(c)
      [] m = "SERVER_HELLO" -> ServerHelloExtensions(c)
      [] m = "HELLO_RETRY_MSG" -> {"tls13", "retry"}
      [] m = "ENCRYPTED_EXTENSIONS" -> Flag(c.early = "ACCEPTED", "early")
      [] m = "CLIENT_CERT" -> Flag(c.cert, "cert")
      [] OTHER -> {}

RecvHandler(e, c, ext, application) ==
    LET m == ActiveMessage(c)
    IN  CASE m = "CLIENT_HELLO" -> s2n_establish_session(c, ext, application)
          [] m = "SERVER_HELLO" -> s2n_server_hello_recv(c, ext)
          [] m = "ENCRYPTED_EXTENSIONS" -> s2n_encrypted_extensions_recv(c, ext)
          [] m = "SERVER_CERT_REQ" -> [c EXCEPT !.cert = cfg.clientCert]
          [] m = "CLIENT_CERT" -> s2n_client_cert_recv(c, ext)
          [] m = "END_OF_EARLY_DATA" -> EndOfEarlyData(c)
          [] OTHER -> c

----------------------------------------------------------------------------
(***************************************************************************)
(* The two endpoints.  A client that holds a TLS 1.2 session starts with   *)
(* that session's version.                                                 *)
(***************************************************************************)
S2N_MAX_HANDSHAKE_LENGTH == 32

s2n_connection_new(e, s) ==
    [type |-> {}, num |-> 0,
     version |-> CASE e = "server" -> 0
                   [] e = "client" /\ s.session # "none" -> 12
                   [] OTHER -> 13,
     early |-> "UNKNOWN", expected |-> e \in s.early, bytes |-> 0,
     keys |-> [d \in Endpoint |-> "initial"], psk |-> FALSE, ticket |-> "none",
     resumed |-> FALSE, status |-> FALSE, cert |-> FALSE, err |-> "none"]

Init ==
    /\ cfg \in Scenarios
    /\ conn = [e \in Endpoint |-> s2n_connection_new(e, cfg)]
    /\ wire = [e \in Endpoint |-> << >>]
    /\ delivered = 0

(***************************************************************************)
(* s2n_record_write or s2n_quic_write_handshake_message.  ChangeCipherSpec *)
(* is plaintext in TLS 1.3.                                                *)
(***************************************************************************)
SealedWith(e, c, recordType) ==
    CASE cfg.quic -> "quic"
      [] ~cfg.quic /\ c.version = 13 /\ recordType = "ccs" -> "initial"
      [] OTHER -> c.keys[e]

(* s2n_record_parse finds the key the record was sealed with *)
Opens(e, r) ==
    \/ cfg.quic
    \/ r.type = "ccs" /\ conn[e].version = 13 /\ r.key = "initial"
    \/ r.type # "ccs" /\ r.key = conn[e].keys[Peer(e)]
    \/ r.type = "ccs" /\ conn[e].version # 13 /\ r.key = conn[e].keys[Peer(e)]

Running(e) == conn[e].err = "none" /\ ~Done(e)

(* What follows a handler that succeeded, in s2n_finish_read and when writing. *)
FinishMessage(e, c) ==
    IF c.err # "none" THEN c ELSE s2n_advance_message(e, s2n_tls13_handle_secrets(e, c))

(***************************************************************************)
(* s2n_end_of_early_data_send waits while the application may still send   *)
(* early data.                                                             *)
(***************************************************************************)
Blocked_UntilTheLimit(e, m) ==
    m = "END_OF_EARLY_DATA" /\ s2n_early_data_can_continue(e, conn[e])
EarlyDataBlocked(e, m) == m = "END_OF_EARLY_DATA" /\ conn[e].expected

s2n_handshake_write_io(e) ==
    LET m == ActiveMessage(conn[e])
        record(c) == [type |-> RecordType(m), msg |-> m,
                      key |-> SealedWith(e, c, RecordType(m)), ext |-> Extensions(c, m)]
    IN  /\ Running(e)
        /\ IsWriter(e)
        /\ ~EarlyDataBlocked(e, m)
        /\ conn[e].num < S2N_MAX_HANDSHAKE_LENGTH
        /\ \E c \in {SendHandler(e, conn[e])} :
              /\ conn' = [conn EXCEPT ![e] = FinishMessage(e, c)]
              /\ wire' = IF c.err # "none" THEN wire
                         ELSE [wire EXCEPT ![e] = Append(@, record(c))]
        /\ UNCHANGED <<cfg, delivered>>

(***************************************************************************)
(* s2n_handshake_read_io: the next record, by what it turns out to be.     *)
(***************************************************************************)
Reads(e) == Running(e) /\ ~IsWriter(e) /\ wire[Peer(e)] # << >>
Record(e) == Head(wire[Peer(e)])
Consume(e, c) ==
    /\ conn' = [conn EXCEPT ![e] = c]
    /\ wire' = [wire EXCEPT ![Peer(e)] = Tail(@)]
    /\ UNCHANGED cfg

(* s2n_early_data_is_trial_decryption_allowed *)
TrialDecryption(e) ==
    /\ e = "server"
    /\ conn[e].early = "REJECTED"
    /\ Record(e).key \in {"early", "handshake", "application"}

ReadUnreadable(e) ==
    /\ Reads(e)
    /\ ~Opens(e, Record(e))
    /\ Consume(e, IF TrialDecryption(e)
                  THEN s2n_early_data_record_bytes(e, conn[e], 1 + Overhead)
                  ELSE Fail(conn[e], "decrypt"))
    /\ UNCHANGED delivered

(* s2n_early_data_validate_recv, then s2n_recv in s2n_recv_early_data *)
MayRecvEarlyData(e, c) ==
    /\ e = "server"
    /\ c.expected
    /\ c.early = "ACCEPTED"
    /\ ActiveMessage(c) = "END_OF_EARLY_DATA"

ReadEarlyData_DropsLast(e) ==
    /\ Reads(e) /\ Opens(e, Record(e)) /\ Record(e).type = "app"
    /\ MayRecvEarlyData(e, conn[e])
    /\ Consume(e, s2n_early_data_record_bytes(e, conn[e], 1))
    /\ delivered' = delivered + IF conn[e].bytes + 1 < MaxEarlyData THEN 1 ELSE 0

ReadEarlyData(e) ==
    /\ Reads(e)
    /\ Opens(e, Record(e))
    /\ Record(e).type = "app"
    /\ IF MayRecvEarlyData(e, conn[e])
       THEN /\ Consume(e, s2n_early_data_record_bytes(e, conn[e], 1))
            /\ delivered' = delivered + 1
       ELSE /\ Consume(e, Fail(conn[e], IF conn[e].expected THEN "not_allowed"
                                                           ELSE "bad_message"))
            /\ UNCHANGED delivered

ReadCcs_AlwaysAdvances(e) ==
    LET c == CcsRecv(e, conn[e])
        expected == RecordType(ActiveMessage(conn[e])) = "ccs"
    IN  /\ Reads(e)
        /\ Opens(e, Record(e))
        /\ Record(e).type = "ccs"
        /\ Consume(e, CASE ~expected /\ (c.version # 13 \/ cfg.quic) -> Fail(conn[e], "bad_message")
                        [] OTHER -> s2n_advance_message(e, c))
        /\ UNCHANGED delivered

(* TLS 1.3 takes a ChangeCipherSpec at any time and does not count it *)
ReadChangeCipherSpec(e) ==
    LET c == CcsRecv(e, conn[e])
        expected == RecordType(ActiveMessage(conn[e])) = "ccs"
    IN  /\ Reads(e)
        /\ Opens(e, Record(e))
        /\ Record(e).type = "ccs"
        /\ Consume(e, CASE expected -> s2n_advance_message(e, c)
                        [] ~expected /\ c.version = 13 /\ ~cfg.quic -> c
                        [] OTHER -> Fail(conn[e], "bad_message"))
        /\ UNCHANGED delivered

(***************************************************************************)
(* A handshake message.  A client that may authenticate joins the state    *)
(* machine with client authentication when it is asked to, and a client    *)
(* whose server announced an OCSP response leaves that machine when the    *)
(* response does not come.                                                 *)
(***************************************************************************)
SwitchMachine(e, c, m) ==
    LET d == IF e = "client" /\ cfg.auth[e] = "OPTIONAL" /\ m = "SERVER_CERT_REQ"
             THEN IF "FULL_HANDSHAKE" \in c.type
                  THEN [c EXCEPT !.type = @ \cup {"CLIENT_AUTH"}]
                  ELSE Fail(c, "bad_message")
             ELSE c
    IN  IF e = "client" /\ ActiveMessage(d) = "SERVER_CERT_STATUS" /\ m # "SERVER_CERT_STATUS"
        THEN [d EXCEPT !.type = @ \ {"OCSP_STATUS"}] ELSE d

HandleMessage(e, c, r, application) ==
    CASE c.err # "none" -> c
      [] c.err = "none" /\ MessageType(ActiveMessage(c)) # MessageType(r.msg)
            -> Fail(c, "bad_message")
      [] OTHER -> RecvHandler(e, c, r.ext, application)

ReadMessage(e) ==
    /\ Reads(e)
    /\ Opens(e, Record(e))
    /\ Record(e).type = "handshake"
    /\ \E c \in {SwitchMachine(e, conn[e], Record(e).msg)} :
       \E d \in {HandleMessage(e, c, Record(e), a) : a \in {"accept", "reject"}} :
            Consume(e, FinishMessage(e, d))
    /\ UNCHANGED delivered

----------------------------------------------------------------------------
(* The early data API. *)

(***************************************************************************)
(* s2n_send_early_data negotiates until that blocks, on reading or on      *)
(* EndOfEarlyData, and sends one more piece.                               *)
(***************************************************************************)
BlockedOnRead(e) == ~IsWriter(e) /\ wire[Peer(e)] = << >>

s2n_send_early_data ==
    LET c == conn["client"]
        record == [type |-> "app", msg |-> "APPLICATION_DATA", key |-> c.keys["client"],
                   ext |-> {}]
    IN  /\ Running("client")
        /\ c.expected
        /\ c.early \in {"REQUESTED", "ACCEPTED"}
        /\ s2n_early_data_can_continue("client", c)
        /\ BlockedOnRead("client") \/ ActiveMessage(c) = "END_OF_EARLY_DATA"
        /\ conn' = [conn EXCEPT !["client"] = s2n_early_data_record_bytes("client", c, 1)]
        /\ wire' = [wire EXCEPT !["client"] = Append(@, record)]
        /\ UNCHANGED <<cfg, delivered>>

(***************************************************************************)
(* The application turns from the early data API to s2n_negotiate          *)
(* (s2n_connection_set_end_of_early_data).  A client may do so once its    *)
(* hello is out.  A server keeps calling s2n_recv_early_data until that    *)
(* is no longer blocked.                                                   *)
(***************************************************************************)
EndEarlyDataApi(e) ==
    /\ conn[e].expected
    /\ Running(e)
    /\ IF e = "client" THEN conn[e].num > 0 \/ ~s2n_early_data_can_continue(e, conn[e])
                       ELSE /\ ~s2n_early_data_can_continue(e, conn[e])
                            /\ IsWriter(e) \/ BlockedOnRead(e)
    /\ conn' = [conn EXCEPT ![e].expected = FALSE]
    /\ UNCHANGED <<cfg, wire, delivered>>

(* Both handshakes are over, or one of them has failed. *)
Over == \/ \A e \in Endpoint : Done(e)
        \/ \E e \in Endpoint : conn[e].err # "none"
Terminated == Over /\ UNCHANGED vars

Negotiate(e) ==
    \/ s2n_handshake_write_io(e)
    \/ ReadUnreadable(e)
    \/ ReadEarlyData(e)
    \/ ReadChangeCipherSpec(e)
    \/ ReadMessage(e)

Next ==
    \/ \E e \in Endpoint : Negotiate(e) \/ EndEarlyDataApi(e)
    \/ s2n_send_early_data
    \/ Terminated

Spec == Init /\ [][Next]_vars

(***************************************************************************)
(* Each application calls s2n_negotiate, or the early data API in its      *)
(* place, until it succeeds or fails, and stops sending early data.        *)
(***************************************************************************)
FairSpec ==
    Spec /\ \A e \in Endpoint : WF_vars(Negotiate(e)) /\ WF_vars(EndEarlyDataApi(e))

----------------------------------------------------------------------------
(* What the handshake must do. *)

RecordSet ==
    [type : {"handshake", "ccs", "app"}, msg : Messages, key : KeyName,
     ext : SUBSET {"tls13", "early", "ticket", "psk", "downgrade", "resumed", "status",
                   "retry", "cert"}]

(***************************************************************************)
(* The types of the variables: the fields of struct s2n_connection and     *)
(* the records of the model.                                               *)
(***************************************************************************)
TypeOK ==
    /\ cfg \in Scenario
    /\ conn \in [Endpoint -> Connection]
    /\ \A e \in Endpoint : \A i \in DOMAIN wire[e] : wire[e][i] \in RecordSet
    /\ delivered \in Nat

(***************************************************************************)
(* What two configurations let each other do.  The version is the higher   *)
(* one both sides allow, but a TLS 1.2 session is only ever offered as     *)
(* TLS 1.2, which a TLS 1.3 server answers as a downgrade.                 *)
(***************************************************************************)
Offers13(s) == s.policy["client"].max = 13 /\ s.session = "none"
Negotiated(s) == IF Offers13(s) /\ s.policy["server"].max = 13 THEN 13 ELSE 12

VersionFits(s) ==
    /\ \A e \in Endpoint : s.policy[e].min <= Negotiated(s)
    /\ Negotiated(s) = 12 =>
          /\ ~s.quic
          /\ \E e \in Endpoint : s.policy[e].max = 12
          /\ ~("client" \in s.early /\ s.psk # "none" /\ Offers13(s))

Resumes(s) ==
    IF Negotiated(s) = 13 THEN s.psk \in {"second", "first"}
    ELSE /\ s.known
         /\ s.auth["server"] = "NONE"
         /\ \/ s.session = "cache"
            \/ s.session = "ticket" /\ s.tickets = Endpoint /\ s.psk = "none"

AuthFits(s) ==
    IF s.auth["server"] = "NONE" THEN s.auth["client"] # "REQUIRED"
    ELSE /\ s.auth["client"] # "NONE"
         /\ s.clientCert \/ \A e \in Endpoint : s.auth[e] = "OPTIONAL"

Compatible(s) == VersionFits(s) /\ (Resumes(s) \/ AuthFits(s))

Established == \A e \in Endpoint : Done(e) /\ conn[e].err = "none"

(***************************************************************************)
(* handshakes[] and tls13_handshakes[] are sparse: a handshake type        *)
(* without a row, or a message number past the end of its row, reads as    *)
(* CLIENT_HELLO.  No connection is ever there, whatever was negotiated.    *)
(***************************************************************************)
InsideTheTable ==
    \A e \in Endpoint :
        conn[e].err = "none" => conn[e].num + 1 \in DOMAIN Row(conn[e].version, conn[e].type)

(***************************************************************************)
(* The handshake type is computed again in mid-handshake (after a retry,   *)
(* when early data is accepted, when a certificate is requested or         *)
(* missing, when an OCSP response does not come).  As the comment in       *)
(* s2n_conn_set_tls13_handshake_type asks, that never rewrites the past:   *)
(* the messages already exchanged are the same in the new row.             *)
(***************************************************************************)
KeepsThePast ==
    \A e \in Endpoint : \A n \in 0 .. conn[e].num - 1 :
        Message(conn'[e].version, conn'[e].type, n) = Message(conn[e].version, conn[e].type, n)
NeverRewritesThePast == [][KeepsThePast]_vars

(***************************************************************************)
(* Both ends change the key of a direction at the same record, although    *)
(* each decides on its own and the client learns late whether its early    *)
(* data was accepted: no record fails to decrypt.                          *)
(***************************************************************************)
RecordsOpen == \A e \in Endpoint : conn[e].err # "decrypt"

(***************************************************************************)
(* What a record carries is sealed with the key that belongs to it: early  *)
(* data under the early traffic key only, never under a later or no key;   *)
(* every Finished, and everything TLS 1.3 has after its hellos, encrypted. *)
(***************************************************************************)
Hellos == {"CLIENT_HELLO", "SERVER_HELLO", "HELLO_RETRY_MSG"}
SealedProperly ==
    \A e \in Endpoint : \A i \in DOMAIN wire[e] :
        LET r == wire[e][i]
        IN  r.key # "quic" =>
            /\ r.type = "app" => r.key = "early"
            /\ r.msg \in {"CLIENT_FINISHED", "SERVER_FINISHED"}
                 => r.key \in {"handshake", "secure"}
            /\ r.type = "handshake" /\ r.msg \notin Hellos /\ conn[e].version = 13
                 => r.key # "initial"

(***************************************************************************)
(* When both handshakes are over the two connections agree on everything   *)
(* they negotiated, on the keys of both directions, and nothing is left    *)
(* unread.                                                                 *)
(***************************************************************************)
PeersAgree ==
    Established =>
        /\ \A field \in {"type", "version", "early", "psk", "keys"} :
                conn["client"][field] = conn["server"][field]
        /\ \A e \in Endpoint : wire[e] = << >>

(***************************************************************************)
(* A handshake between configurations that fit never fails, in any         *)
(* interleaving of the two ends and with early data stopped at any moment. *)
(* The limit on rejected early data is the exception that                  *)
(* RejectedEarlyDataIgnored is about.                                      *)
(***************************************************************************)
NoSpuriousFailure ==
    Compatible(cfg) => \A e \in Endpoint : conn[e].err \in {"none", "max_early_data"}

(***************************************************************************)
(* And one between configurations that do not fit is never established:    *)
(* not with a version below a minimum, not without the certificate a       *)
(* server requires or the request a client requires.                       *)
(***************************************************************************)
OnlyCompatibleEstablished == Established => Compatible(cfg)

(***************************************************************************)
(* Early data is delivered once and in full, or not at all: when the       *)
(* server has seen EndOfEarlyData it has delivered what the client sent,   *)
(* and a server that did not accept early data has delivered none of it.   *)
(***************************************************************************)
EarlyDataAllOrNothing ==
    /\ conn["server"].early = "END" => delivered = conn["client"].bytes
    /\ conn["server"].early \notin {"ACCEPTED", "END"} => delivered = 0

(***************************************************************************)
(* s2n_negotiate, called until it no longer blocks, ends.                  *)
(***************************************************************************)
HandshakeEnds ==
    Compatible(cfg) =>
        <>(Established \/ conn["server"].err = "max_early_data")

(***************************************************************************)
(* S2N_EARLY_DATA_STATUS_REJECTED of api/s2n.h: "Early data may have been  *)
(* sent, but was not received."  Rejecting it does not end the connection. *)
(***************************************************************************)
RejectedEarlyDataIgnored == conn["server"].err # "max_early_data"

(***************************************************************************)
(* s2n_handshake_validate: "message_number >= 0 && message_number < 32".   *)
(***************************************************************************)
HandshakeValid == \A e \in Endpoint : conn[e].num < S2N_MAX_HANDSHAKE_LENGTH
============================================================================
