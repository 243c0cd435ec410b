----------------------------- MODULE Extensions -----------------------------
(***************************************************************************)
(* The extension lists of a handshake (tls/extensions/, the lists in       *)
(* s2n_extension_type_lists.c) and the ClientHello with its callback       *)
(* (tls/s2n_client_hello.c): which extensions each side writes, what the   *)
(* other makes of them, and what a HelloRetryRequest leaves behind in the  *)
(* two connections.                                                        *)
(*                                                                         *)
(* A message is a sequence of <<iana name, data>>; the data of every       *)
(* extension is a sequence of numbers, and Bad stands for data whose       *)
(* lengths do not fit.  A peer that is not s2n is an s2n endpoint one of   *)
(* whose messages is altered on the way (the field foreign of the world).  *)
(***************************************************************************)
EXTENDS Integers, Sequences, SequencesExt, FiniteSets

CONSTANTS Worlds,     \* the pairs of configured endpoints
          SwapBlocking  \* may a nonblocking callback install a blocking config?

TLS12 == 33
TLS13 == 34
UNKNOWN == 0
Bad == <<-1>>

VARIABLES world,    \* [client, server, other |-> config, foreign |-> "no", "may" or "did"]
          client,   \* the two struct s2n_connection
          server,
          net,      \* messages of the server and the client, in order
          asked     \* what the client's latest ClientHello asked for

vars == <<world, client, server, net, asked>>

(***************************************************************************)
(* s2n_extension_type: iana value, is_response, minimum_version.           *)
(***************************************************************************)
Request(iana, min) == [iana |-> iana, response |-> FALSE, min |-> min]
Response(iana, min) == [iana |-> iana, response |-> TRUE, min |-> min]

ExtensionType ==
  [client_supported_versions |-> Request("supported_versions", 0),
   client_supported_groups |-> Request("supported_groups", 0),
   client_key_share |-> Request("key_share", TLS13),
   client_signature_algorithms |-> Request("signature_algorithms", 0),
   client_server_name |-> Request("server_name", 0),
   client_alpn |-> Request("alpn", 0),
   client_status_request |-> Request("status_request", 0),
   client_sct_list |-> Request("sct_list", 0),
   client_max_frag_len |-> Request("max_frag_len", 0),
   client_session_ticket |-> Request("session_ticket", 0),
   client_ec_point_format |-> Request("ec_point_formats", 0),
   client_pq_kem |-> Request("pq_kem", 0),
   client_renegotiation_info |-> Request("renegotiation_info", 0),
   client_cookie |-> Response("cookie", TLS13),
   quic_transport_parameters |-> Request("quic", TLS13),
   psk_key_exchange_modes |-> Request("psk_ke_modes", TLS13),
   client_early_data |-> Request("early_data", 0),
   client_ems |-> Request("ems", 0),
   client_psk |-> Request("psk", TLS13),
   server_supported_versions |-> Response("supported_versions", 0),
   server_server_name |-> Response("server_name", 0),
   server_ec_point_format |-> Response("ec_point_formats", 0),
   server_renegotiation_info |-> Request("renegotiation_info", 0),
   server_alpn |-> Response("alpn", 0),
   server_status_request |-> Response("status_request", 0),
   server_sct_list |-> Response("sct_list", 0),
   server_max_fragment_length |-> Response("max_frag_len", 0),
   server_session_ticket |-> Response("session_ticket", 0),
   server_ems |-> Response("ems", 0),
   server_cookie |-> Request("cookie", TLS13),
   server_key_share |-> Request("key_share", TLS13),
   server_psk |-> Response("psk", TLS13),
   server_early_data |-> Response("early_data", 0),
   server_signature_algorithms |-> Request("signature_algorithms", 0),
   tls13_status_request |-> Response("status_request", 0),
   nst_early_data |-> Request("early_data", 0)]

SupportedIanas == {ExtensionType[e].iana : e \in DOMAIN ExtensionType}

\* extension_lists
CLIENT_HELLO ==
  <<"client_supported_versions", "client_supported_groups", "client_key_share",
    "client_signature_algorithms", "client_server_name", "client_alpn",
    "client_status_request", "client_sct_list", "client_max_frag_len",
    "client_session_ticket", "client_ec_point_format", "client_pq_kem",
    "client_renegotiation_info", "client_cookie", "quic_transport_parameters", "psk_key_exchange_modes",
    "client_early_data", "client_ems", "client_psk">>
SERVER_HELLO_DEFAULT ==
  <<"server_supported_versions", "server_server_name", "server_ec_point_format",
    "server_renegotiation_info", "server_alpn", "server_status_request",
    "server_sct_list", "server_max_fragment_length", "server_session_ticket",
    "server_ems">>
HELLO_RETRY_REQUEST == <<"server_supported_versions", "server_cookie", "server_key_share">>
SERVER_HELLO_TLS13 ==
  <<"server_supported_versions", "server_key_share", "server_cookie", "server_psk">>
ENCRYPTED_EXTENSIONS ==
  <<"server_server_name", "server_max_fragment_length", "server_alpn",
    "quic_transport_parameters", "server_early_data">>
CERT_REQ == <<"server_signature_algorithms">>
CERTIFICATE == <<"tls13_status_request", "server_sct_list">>
NST == <<"nst_early_data">>

-----------------------------------------------------------------------------
(***************************************************************************)
(* Parts of a connection.                                                  *)
(***************************************************************************)
Min2(a, b) == IF a < b THEN a ELSE b
Max2(a, b) == IF a > b THEN a ELSE b
Fail(conn) == [conn EXCEPT !.failed = TRUE]

s2n_connection_get_protocol_version(conn) ==
  IF conn.actual # UNKNOWN THEN conn.actual
  ELSE IF conn.mode = "client" THEN conn.client_version ELSE conn.server_version

\* The HelloRetryRequest is due or under way / has been.
s2n_is_hello_retry_message(conn) == conn.retry = "message"
s2n_is_hello_retry_handshake(conn) == conn.retry # "none"

s2n_connection_set_early_data_state_AnyOrder(conn, next) == [conn EXCEPT !.early = next]

ValidPrevious == [requested |-> "unknown", not_requested |-> "unknown",
                  rejected |-> "requested", accepted |-> "requested"]

s2n_connection_set_early_data_state(conn, next) ==
  IF conn.early = next THEN conn
  ELSE IF conn.early = ValidPrevious[next] THEN [conn EXCEPT !.early = next]
  ELSE Fail(conn)

s2n_set_hello_retry_required(conn) ==
  IF conn.actual < TLS13 THEN Fail(conn)
  ELSE LET marked == IF conn.retry = "none" THEN [conn EXCEPT !.retry = "message"] ELSE conn
       IN  IF conn.early = "requested"
           THEN s2n_connection_set_early_data_state(marked, "rejected") ELSE marked

(***************************************************************************)
(* A PSK is the number of its hash; early data is bound to the first one.  *)
(* Its protocol is compared with a terminating byte here, without one when *)
(* the client looks it up among its own (psk_nul: it was stored with one). *)
(***************************************************************************)
s2n_early_data_is_valid_for_connection(conn) ==
  /\ conn.chosen_psk # 0
  /\ conn.chosen_wire = 0
  /\ conn.config.psk_early
  /\ conn.actual = TLS13
  /\ conn.cipher = conn.chosen_psk
  /\ conn.app_protocol = conn.config.psk_alpn
  /\ conn.app_protocol # 0 => conn.config.psk_nul

\* What the application answers in early_data_cb; "later": nothing yet.
early_data_cb(conn) ==
  CASE conn.config.early_cb = "fail" -> Fail(conn)
    [] conn.config.early_cb = "later" -> conn
    [] OTHER -> s2n_connection_set_early_data_state(conn, conn.config.early_cb)

\* A server whose early data stays "requested" is blocked (S2N_ERR_ASYNC_BLOCKED).
s2n_early_data_accept_or_reject(conn) ==
  IF conn.early # "requested" THEN conn
  ELSE IF ~s2n_early_data_is_valid_for_connection(conn)
       THEN s2n_connection_set_early_data_state(conn, "rejected")
  ELSE IF conn.mode = "client" THEN conn
  ELSE IF ~conn.config.early_expected
       THEN s2n_connection_set_early_data_state(conn, "rejected")
  ELSE IF conn.config.early_cb # "none" THEN early_data_cb(conn)
  ELSE s2n_connection_set_early_data_state(conn, "accepted")

s2n_server_can_send_ocsp(conn) ==
  conn.mode = "server" /\ conn.status_type /\ conn.config.ocsp
s2n_server_can_send_sct_list(conn) ==
  conn.mode = "server" /\ conn.ct_requested /\ conn.config.sct
s2n_server_sending_nst(conn) == conn.config.tickets /\ conn.ticket_status = "new"

(***************************************************************************)
(* should_send and send of every extension: <<>>, or <<data>>.             *)
(***************************************************************************)
If(sends, data) == IF sends THEN <<data>> ELSE <<>>

s2n_extension_send_if_tls13_connection(conn) ==
  s2n_connection_get_protocol_version(conn) >= TLS13
s2n_client_supported_versions_send(conn) ==
  If(s2n_extension_send_if_tls13_connection(conn),
     [i \in 1 .. conn.client_version - TLS12 + 1 |-> conn.client_version - i + 1])
s2n_client_supported_groups_send(conn) == <<conn.config.groups>>
\* Only the preferred group, or the one the server asked for.
s2n_client_key_share_send(conn) == <<<<conn.share>>>>
s2n_client_signature_algorithms_send(conn) ==
  If(s2n_connection_get_protocol_version(conn) >= TLS12, <<1>>)
s2n_client_server_name_send(conn) == If(conn.server_name # 0, <<conn.server_name>>)
s2n_client_alpn_send(conn) == If(conn.config.alpn # <<>>, conn.config.alpn)
s2n_client_status_request_send(conn) == If(conn.config.ocsp, <<1>>)
s2n_client_sct_list_send(conn) == If(conn.config.sct, <<>>)
s2n_client_max_frag_len_send(conn) == If(conn.config.mfl # 0, <<conn.config.mfl>>)
s2n_quic_transport_params_send(conn) == If(conn.config.quic, conn.config.quic_params)

OfferedPsks(conn) ==
  IF s2n_is_hello_retry_handshake(conn)
  THEN SelectSeq(conn.config.psks, LAMBDA p : p = conn.cipher) ELSE conn.config.psks
s2n_client_psk_should_send(conn) == OfferedPsks(conn) # <<>>
s2n_client_psk_send(conn) == If(s2n_client_psk_should_send(conn), OfferedPsks(conn))
s2n_psk_key_exchange_modes_send(conn) == If(s2n_client_psk_should_send(conn), <<1>>)
s2n_client_session_ticket_send(conn) ==
  If(conn.config.tickets /\ ~s2n_client_psk_should_send(conn), <<>>)
s2n_ec_point_format_send(conn) == <<<<0>>>>
s2n_client_pq_kem_send(conn) == If(conn.config.pq /\ conn.config.kems # <<>>, conn.config.kems)

s2n_early_data_config_is_possible(conn) ==
  /\ conn.config.psks # <<>> /\ conn.config.psk_early
  /\ s2n_connection_get_protocol_version(conn) >= TLS13
  /\ conn.config.psk_alpn # 0 =>
       conn.config.psk_alpn \in ToSet(conn.config.alpn) /\ ~conn.config.psk_nul
s2n_client_early_data_indication_send(conn) ==
  If(/\ s2n_early_data_config_is_possible(conn)
     /\ conn.config.early_expected
     /\ ~s2n_is_hello_retry_handshake(conn)
     /\ s2n_client_psk_should_send(conn), <<>>)
\* Sent by unit tests only: s2n_in_unit_test.
s2n_client_ems_send(conn) == If(conn.config.unit_test, <<>>)

s2n_server_supported_versions_send(conn) ==
  If(s2n_extension_send_if_tls13_connection(conn), <<conn.server_version>>)
s2n_server_name_send(conn) == If(conn.server_name_used /\ conn.chosen_psk = 0, <<>>)
\* The suites of the model use ECDHE.
s2n_server_ec_point_format_send(conn) == <<<<0>>>>
s2n_renegotiation_info_send(conn) ==
  If(conn.reneg /\ s2n_connection_get_protocol_version(conn) < TLS13, <<0>>)
s2n_alpn_send(conn) == If(conn.app_protocol # 0, <<conn.app_protocol>>)
s2n_server_status_request_send(conn) == If(s2n_server_can_send_ocsp(conn), <<>>)
s2n_server_certificate_status_send(conn) == If(s2n_server_can_send_ocsp(conn), <<1>>)
s2n_server_sct_list_send(conn) == If(s2n_server_can_send_sct_list(conn), <<1>>)
s2n_max_fragment_length_send(conn) == If(conn.mfl # 0, <<conn.mfl>>)
s2n_session_ticket_send(conn) ==
  If(s2n_server_sending_nst(conn) /\ s2n_connection_get_protocol_version(conn) < TLS13, <<>>)
s2n_server_ems_send(conn) == If(conn.config.unit_test /\ conn.actual < TLS13, <<>>)
s2n_cookie_send(conn) == If(conn.cookie # <<>>, conn.cookie)
s2n_server_key_share_send(conn) == <<<<conn.group>>>>
s2n_server_psk_send(conn) == If(conn.chosen_psk # 0, <<conn.chosen_wire>>)
s2n_server_early_data_indication_send(conn) == If(conn.early = "accepted", <<>>)
s2n_nst_early_data_indication_send(conn) == If(conn.max_early > 0, <<conn.max_early>>)

Send(ext, conn) ==
  CASE ext = "client_supported_versions" -> s2n_client_supported_versions_send(conn)
    [] ext = "client_supported_groups" -> s2n_client_supported_groups_send(conn)
    [] ext = "client_key_share" -> s2n_client_key_share_send(conn)
    [] ext = "client_signature_algorithms" -> s2n_client_signature_algorithms_send(conn)
    [] ext = "client_server_name" -> s2n_client_server_name_send(conn)
    [] ext = "client_alpn" -> s2n_client_alpn_send(conn)
    [] ext = "client_status_request" -> s2n_client_status_request_send(conn)
    [] ext = "client_sct_list" -> s2n_client_sct_list_send(conn)
    [] ext = "client_max_frag_len" -> s2n_client_max_frag_len_send(conn)
    [] ext = "client_session_ticket" -> s2n_client_session_ticket_send(conn)
    [] ext = "client_ec_point_format" -> s2n_ec_point_format_send(conn)
    [] ext = "client_pq_kem" -> s2n_client_pq_kem_send(conn)
    [] ext \in {"client_renegotiation_info", "client_cookie"} -> <<>>
    [] ext = "quic_transport_parameters" -> s2n_quic_transport_params_send(conn)
    [] ext = "psk_key_exchange_modes" -> s2n_psk_key_exchange_modes_send(conn)
    [] ext = "client_early_data" -> s2n_client_early_data_indication_send(conn)
    [] ext = "client_ems" -> s2n_client_ems_send(conn)
    [] ext = "client_psk" -> s2n_client_psk_send(conn)
    [] ext = "server_supported_versions" -> s2n_server_supported_versions_send(conn)
    [] ext = "server_server_name" -> s2n_server_name_send(conn)
    [] ext = "server_ec_point_format" -> s2n_server_ec_point_format_send(conn)
    [] ext = "server_renegotiation_info" -> s2n_renegotiation_info_send(conn)
    [] ext = "server_alpn" -> s2n_alpn_send(conn)
    [] ext = "server_status_request" -> s2n_server_status_request_send(conn)
    [] ext = "server_sct_list" -> s2n_server_sct_list_send(conn)
    [] ext = "server_max_fragment_length" -> s2n_max_fragment_length_send(conn)
    [] ext = "server_session_ticket" -> s2n_session_ticket_send(conn)
    [] ext = "server_ems" -> s2n_server_ems_send(conn)
    [] ext = "server_cookie" -> s2n_cookie_send(conn)
    [] ext = "server_key_share" -> s2n_server_key_share_send(conn)
    [] ext = "server_psk" -> s2n_server_psk_send(conn)
    [] ext = "server_early_data" -> s2n_server_early_data_indication_send(conn)
    [] ext = "server_signature_algorithms" -> <<<<1>>>>
    [] ext = "tls13_status_request" -> s2n_server_certificate_status_send(conn)
    [] ext = "nst_early_data" -> s2n_nst_early_data_indication_send(conn)

-----------------------------------------------------------------------------
(***************************************************************************)
(* recv of every extension: the connection after it.                       *)
(***************************************************************************)
SupportedVersion(v) == v \in 30 .. TLS13

s2n_client_supported_versions_recv(conn, data) ==
  IF s2n_connection_get_protocol_version(conn) < TLS13 THEN conn
  ELSE LET offered == {v \in ToSet(data) : SupportedVersion(v)}
           mutual == {v \in offered : v \in TLS12 .. conn.server_version}
       IN  IF data = Bad \/ mutual = {} THEN Fail(conn)
           ELSE [conn EXCEPT !.client_version = CHOOSE v \in offered : \A u \in offered : u <= v,
                             !.actual = CHOOSE v \in mutual : \A u \in mutual : u <= v]

\* The groups in common, in the server's order.
s2n_client_supported_groups_recv(conn, data) ==
  IF data = Bad THEN conn
  ELSE [conn EXCEPT !.mutual = SelectSeq(conn.config.groups, LAMBDA g : g \in ToSet(data))]

s2n_client_key_share_recv(conn, data) ==
  LET usable == SelectSeq(conn.mutual, LAMBDA g : g \in ToSet(data))
      read == IF usable = <<>> THEN conn ELSE [conn EXCEPT !.share = Head(usable)]
  IN  IF data = Bad \/ (s2n_is_hello_retry_handshake(conn) /\ Len(data) # 1) THEN Fail(conn)
      ELSE IF read.share = 0 THEN s2n_set_hello_retry_required(read) ELSE read

\* The name of the first hello stays; a malformed one is ignored.
s2n_client_server_name_recv(conn, data) ==
  IF conn.server_name # 0 \/ data \in {Bad, <<>>} THEN conn ELSE [conn EXCEPT !.server_name = Head(data)]

s2n_client_alpn_recv(conn, data) ==
  LET matches == SelectSeq(conn.config.alpn, LAMBDA p : p \in ToSet(data))
  IN  IF matches = <<>> THEN conn ELSE [conn EXCEPT !.app_protocol = Head(matches)]

s2n_client_status_request_recv(conn, data) ==
  IF data # <<1>> THEN conn ELSE [conn EXCEPT !.status_type = TRUE]
s2n_client_sct_list_recv(conn, data) == [conn EXCEPT !.ct_requested = TRUE]
s2n_client_max_frag_len_recv(conn, data) ==
  IF conn.config.accept_mfl /\ data # <<>> /\ Head(data) \in 1 .. 4
  THEN [conn EXCEPT !.mfl = Head(data)] ELSE conn
s2n_client_session_ticket_recv(conn, data) ==
  IF ~conn.config.tickets \/ conn.actual > TLS12 \/ conn.config.client_auth THEN conn
  ELSE [conn EXCEPT !.ticket_status = "new"]
s2n_ec_point_format_recv(conn, data) == [conn EXCEPT !.ec_points = TRUE]
s2n_client_pq_kem_recv(conn, data) ==
  IF ~conn.config.pq \/ data = Bad THEN conn ELSE [conn EXCEPT !.peer_kems = data]
s2n_client_renegotiation_recv(conn, data) ==
  IF data = <<0>> THEN [conn EXCEPT !.reneg = TRUE] ELSE Fail(conn)
s2n_quic_transport_params_recv(conn, data) ==
  IF conn.config.quic THEN [conn EXCEPT !.peer_quic = IF data = <<>> THEN @ ELSE data]
  ELSE Fail(conn)
s2n_psk_key_exchange_modes_recv(conn, data) ==
  IF 1 \in ToSet(data) THEN [conn EXCEPT !.psk_dhe = TRUE] ELSE conn
s2n_client_early_data_indication_recv(conn, data) ==
  IF conn.retry = "done" THEN Fail(conn)
  ELSE s2n_connection_set_early_data_state(conn, "requested")
s2n_client_ems_recv(conn, data) == [conn EXCEPT !.ems = TRUE]

\* The first of the server's PSKs that the client has, and where it stood.
s2n_select_external_psk(conn, data) ==
  LET known == SelectSeq(conn.config.psks, LAMBDA p : p \in ToSet(data))
  IN  IF known = <<>> THEN [conn EXCEPT !.chosen_psk = 0]
      ELSE [conn EXCEPT !.chosen_psk = Head(known),
                        !.chosen_wire = (CHOOSE i \in 1 .. Len(data) : data[i] = Head(known)) - 1]

\* A PSK the server has; a ticket it can open and still honours.
Usable(conn, psk) ==
  /\ psk \in ToSet(conn.config.psks)
  /\ conn.config.psk_type = "resumption" => conn.config.tickets
s2n_offered_psk_list_choose_psk(conn, data, i) ==
  IF i \in 1 .. Len(data) /\ Usable(conn, data[i])
  THEN [conn EXCEPT !.chosen_psk = data[i], !.chosen_wire = i - 1]
  ELSE [conn EXCEPT !.chosen_psk = 0]

\* The first of the client's tickets that can be opened.
MAX_REJECTED_TICKETS == 3
s2n_select_resumption_psk(conn, data) ==
  LET opened == {i \in 1 .. Min2(Len(data), MAX_REJECTED_TICKETS) : Usable(conn, data[i])}
  IN  s2n_offered_psk_list_choose_psk(conn, data,
        IF opened = {} THEN 0 ELSE CHOOSE i \in opened : \A j \in opened : i <= j)

\* psk_selection_cb takes the last one offered, or none.
s2n_client_psk_recv_identity_list(conn, data) ==
  CASE conn.config.psk_cb = "last" -> s2n_offered_psk_list_choose_psk(conn, data, Len(data))
    [] conn.config.psk_cb = "decline" -> s2n_offered_psk_list_choose_psk(conn, data, 0)
    [] OTHER -> IF conn.config.psk_type = "external" THEN s2n_select_external_psk(conn, data)
                ELSE s2n_select_resumption_psk(conn, data)

\* Last of the extensions that are known, after modes and a key share.
s2n_client_psk_recv(conn, data) ==
  IF \/ conn.hello = <<>> \/ Last(conn.hello)[1] # "psk"
     \/ "psk_ke_modes" \notin conn.received
     \/ conn.psk_dhe /\ "key_share" \notin conn.received
  THEN Fail(conn)
  ELSE IF conn.psk_dhe THEN s2n_client_psk_recv_identity_list(conn, data) ELSE conn

\* The server's answers, as the client takes them.
s2n_server_supported_versions_recv(conn, data) ==
  IF s2n_connection_get_protocol_version(conn) < TLS13 THEN conn
  ELSE IF data # <<TLS13>> \/ conn.client_version < TLS13 THEN Fail(conn)
  ELSE [conn EXCEPT !.server_version = TLS13]
s2n_server_name_recv(conn, data) == [conn EXCEPT !.server_name_used = TRUE]
s2n_renegotiation_info_recv(conn, data) ==
  IF data = <<0>> THEN [conn EXCEPT !.reneg = TRUE] ELSE Fail(conn)
s2n_alpn_recv(conn, data) ==
  IF data \in {Bad, <<>>} THEN conn ELSE [conn EXCEPT !.app_protocol = Head(data)]
s2n_server_status_request_recv(conn, data) == [conn EXCEPT !.status_type = TRUE]
s2n_server_certificate_status_recv(conn, data) ==
  IF data # <<1>> THEN conn ELSE [conn EXCEPT !.status_response = TRUE]
s2n_server_sct_list_recv(conn, data) == [conn EXCEPT !.ct_response = TRUE]
s2n_max_fragment_length_recv(conn, data) ==
  IF data = <<conn.config.mfl>> THEN [conn EXCEPT !.mfl = conn.config.mfl] ELSE Fail(conn)
s2n_session_ticket_recv(conn, data) == [conn EXCEPT !.ticket_status = "new"]
s2n_server_ems_recv(conn, data) == [conn EXCEPT !.ems = TRUE]
s2n_cookie_recv(conn, data) == IF data = Bad THEN Fail(conn) ELSE [conn EXCEPT !.cookie = data]
\* A group of the client's; its share too, unless a new one is asked for.
s2n_server_key_share_recv(conn, data) ==
  IF \/ data \in {Bad, <<>>} \/ Head(data) \notin ToSet(conn.config.groups)
     \/ ~s2n_is_hello_retry_message(conn) /\ Head(data) # conn.share
  THEN Fail(conn) ELSE [conn EXCEPT !.group = Head(data)]

s2n_server_psk_recv(conn, data) ==
  IF "key_share" \notin conn.received \/ data \in {Bad, <<>>} \/ Head(data) >= Len(conn.config.psks)
  THEN Fail(conn)
  ELSE [conn EXCEPT !.chosen_wire = Head(data), !.chosen_psk = conn.config.psks[Head(data) + 1]]
s2n_server_early_data_indication_recv(conn, data) ==
  IF s2n_early_data_is_valid_for_connection(conn)
  THEN s2n_connection_set_early_data_state(conn, "accepted") ELSE Fail(conn)
s2n_signature_algorithms_recv(conn, data) == conn
s2n_nst_early_data_indication_recv(conn, data) ==
  IF data \in {Bad, <<>>} THEN Fail(conn) ELSE [conn EXCEPT !.max_early = Head(data)]

Recv(ext, conn, data) ==
  CASE ext = "client_supported_versions" -> s2n_client_supported_versions_recv(conn, data)
    [] ext = "client_supported_groups" -> s2n_client_supported_groups_recv(conn, data)
    [] ext = "client_key_share" -> s2n_client_key_share_recv(conn, data)
    [] ext = "client_server_name" -> s2n_client_server_name_recv(conn, data)
    [] ext = "client_alpn" -> s2n_client_alpn_recv(conn, data)
    [] ext = "client_status_request" -> s2n_client_status_request_recv(conn, data)
    [] ext = "client_sct_list" -> s2n_client_sct_list_recv(conn, data)
    [] ext = "client_max_frag_len" -> s2n_client_max_frag_len_recv(conn, data)
    [] ext = "client_session_ticket" -> s2n_client_session_ticket_recv(conn, data)
    [] ext = "client_ec_point_format" -> s2n_ec_point_format_recv(conn, data)
    [] ext = "client_pq_kem" -> s2n_client_pq_kem_recv(conn, data)
    [] ext = "client_renegotiation_info" -> s2n_client_renegotiation_recv(conn, data)
    [] ext = "quic_transport_parameters" -> s2n_quic_transport_params_recv(conn, data)
    [] ext = "psk_key_exchange_modes" -> s2n_psk_key_exchange_modes_recv(conn, data)
    [] ext = "client_early_data" -> s2n_client_early_data_indication_recv(conn, data)
    [] ext = "client_ems" -> s2n_client_ems_recv(conn, data)
    [] ext = "client_psk" -> s2n_client_psk_recv(conn, data)
    [] ext = "server_supported_versions" -> s2n_server_supported_versions_recv(conn, data)
    [] ext = "server_server_name" -> s2n_server_name_recv(conn, data)
    [] ext = "server_renegotiation_info" -> s2n_renegotiation_info_recv(conn, data)
    [] ext = "server_alpn" -> s2n_alpn_recv(conn, data)
    [] ext = "server_status_request" -> s2n_server_status_request_recv(conn, data)
    [] ext = "server_sct_list" -> s2n_server_sct_list_recv(conn, data)
    [] ext = "server_max_fragment_length" -> s2n_max_fragment_length_recv(conn, data)
    [] ext = "server_session_ticket" -> s2n_session_ticket_recv(conn, data)
    [] ext = "server_ems" -> s2n_server_ems_recv(conn, data)
    [] ext = "server_cookie" -> s2n_cookie_recv(conn, data)
    [] ext = "server_key_share" -> s2n_server_key_share_recv(conn, data)
    [] ext = "server_psk" -> s2n_server_psk_recv(conn, data)
    [] ext = "server_early_data" -> s2n_server_early_data_indication_recv(conn, data)
    [] ext = "tls13_status_request" -> s2n_server_certificate_status_recv(conn, data)
    [] ext = "nst_early_data" -> s2n_nst_early_data_indication_recv(conn, data)
    [] OTHER -> s2n_signature_algorithms_recv(conn, data)

(***************************************************************************)
(* if_missing.                                                             *)
(***************************************************************************)
s2n_quic_transport_params_if_missing(conn) == IF conn.config.quic THEN Fail(conn) ELSE conn
s2n_client_early_data_indication_is_missing(conn) ==
  IF conn.early = "rejected" THEN conn
  ELSE s2n_connection_set_early_data_state(conn, "not_requested")
s2n_client_psk_is_missing(conn) == IF conn.early = "requested" THEN Fail(conn) ELSE conn
s2n_server_early_data_indication_is_missing_StillWaits(conn) == conn
s2n_server_early_data_indication_is_missing(conn) ==
  IF conn.early = "requested" THEN s2n_connection_set_early_data_state(conn, "rejected") ELSE conn
s2n_server_ems_if_missing(conn) == IF conn.ems THEN Fail(conn) ELSE conn
s2n_nst_early_data_indication_missing(conn) == [conn EXCEPT !.max_early = 0]

IfMissing(ext, conn) ==
  CASE ext = "quic_transport_parameters" -> s2n_quic_transport_params_if_missing(conn)
    [] ext = "client_early_data" -> s2n_client_early_data_indication_is_missing(conn)
    [] ext = "client_psk" -> s2n_client_psk_is_missing(conn)
    [] ext = "server_early_data" -> s2n_server_early_data_indication_is_missing(conn)
    [] ext = "server_ems" -> s2n_server_ems_if_missing(conn)
    [] ext = "server_signature_algorithms" -> Fail(conn)
    [] ext = "nst_early_data" -> s2n_nst_early_data_indication_missing(conn)
    [] OTHER -> conn

-----------------------------------------------------------------------------
(***************************************************************************)
(* s2n_extension_type.c: what every extension goes through.  e holds a     *)
(* connection and the extensions written so far.                           *)
(***************************************************************************)
s2n_extension_send(ext, e) ==
  LET type == ExtensionType[ext]
      data == Send(ext, e.conn)
      sent == IF type.response THEN e.conn
              ELSE [e.conn EXCEPT !.sent = @ \cup {type.iana}]
  IN  IF \/ type.response /\ type.iana \notin e.conn.received
         \/ type.min > e.conn.actual
         \/ data = <<>>
      THEN e
      ELSE [conn |-> IF ext = "client_early_data"
                     THEN s2n_connection_set_early_data_state(sent, "requested") ELSE sent,
            out |-> Append(e.out, <<type.iana, data[1]>>)]

\* An answer to nothing asked is an error.
s2n_extension_recv(ext, conn, data) ==
  LET type == ExtensionType[ext]
      read == Recv(ext, conn, data)
  IN  IF type.response /\ type.iana \notin conn.sent THEN Fail(conn)
      ELSE IF type.min > conn.actual THEN conn
      ELSE IF type.response THEN read
      ELSE [read EXCEPT !.received = @ \cup (IF read.failed THEN {} ELSE {type.iana})]

s2n_extension_is_missing(ext, conn) ==
  LET type == ExtensionType[ext]
  IN  IF \/ type.response /\ type.iana \notin conn.sent
         \/ type.min > conn.actual
      THEN conn ELSE IfMissing(ext, conn)

(***************************************************************************)
(* s2n_extension_list.c.  A parsed list holds the extensions known, once   *)
(* each, at their wire index.                                              *)
(***************************************************************************)
s2n_extension_list_send(list, conn) ==
  LET written[i \in 0 .. Len(list)] ==
        IF i = 0 THEN [conn |-> conn, out |-> <<>>]
        ELSE s2n_extension_send(list[i], written[i - 1])
  IN  written[Len(list)]

s2n_extension_list_parse(message) ==
  SelectSeq(message, LAMBDA e : e[1] \in SupportedIanas)
DuplicateExtension(parsed) ==
  \E i, j \in 1 .. Len(parsed) : i < j /\ parsed[i][1] = parsed[j][1]

s2n_extension_process(ext, conn, parsed) ==
  LET found == SelectSeq(parsed, LAMBDA e : e[1] = ExtensionType[ext].iana)
  IN  IF conn.failed THEN conn
      ELSE IF found = <<>> THEN s2n_extension_is_missing(ext, conn)
      ELSE s2n_extension_recv(ext, conn, Head(found)[2])

\* Extensions of other lists stay where they are, unread.
s2n_extension_list_process(list, conn, parsed) ==
  LET processed[i \in 0 .. Len(list)] ==
        IF i = 0 THEN conn ELSE s2n_extension_process(list[i], processed[i - 1], parsed)
  IN  processed[Len(list)]

s2n_extension_list_recv(list, conn, message) ==
  LET parsed == s2n_extension_list_parse(message)
  IN  IF DuplicateExtension(parsed) THEN Fail(conn)
      ELSE s2n_extension_list_process(list, conn, parsed)

ServerHelloList(conn, version) ==
  IF s2n_is_hello_retry_message(conn) THEN HELLO_RETRY_REQUEST
  ELSE IF version >= TLS13 THEN SERVER_HELLO_TLS13 ELSE SERVER_HELLO_DEFAULT

s2n_server_extensions_send(conn) ==
  s2n_extension_list_send(ServerHelloList(conn, conn.actual), conn)

\* The version first: it tells which list applies.
s2n_server_extensions_recv(conn, message) ==
  LET parsed == s2n_extension_list_parse(message)
      rest == SelectSeq(parsed, LAMBDA e : e[1] # "supported_versions")
      process(versioned) ==
        s2n_extension_list_process(ServerHelloList(versioned, versioned.server_version),
                                   versioned, rest)
  IN  IF DuplicateExtension(parsed) THEN Fail(conn)
      ELSE process(s2n_extension_process("server_supported_versions", conn, parsed))

-----------------------------------------------------------------------------
(***************************************************************************)
(* The messages.                                                           *)
(***************************************************************************)
New(mode, config) ==
  [mode |-> mode, config |-> config, step |-> "client_hello", failed |-> FALSE,
   client_version |-> IF mode = "client" THEN config.version ELSE UNKNOWN,
   server_version |-> IF mode = "server" THEN TLS13 ELSE UNKNOWN,
   actual |-> IF mode = "client" THEN config.version ELSE UNKNOWN,
   sent |-> {}, received |-> {}, retry |-> "none", early |-> "unknown", cipher |-> 0,
   server_name |-> IF mode = "client" THEN config.name ELSE 0, server_name_used |-> FALSE,
   app_protocol |-> 0, mfl |-> 0, status_type |-> FALSE, status_response |-> FALSE,
   ct_requested |-> FALSE, ct_response |-> FALSE, ticket_status |-> "none",
   ec_points |-> FALSE, reneg |-> FALSE, cookie |-> <<>>, peer_quic |-> <<>>,
   peer_kems |-> <<>>,
   psk_dhe |-> FALSE, chosen_psk |-> 0, chosen_wire |-> 0, ems |-> FALSE,
   mutual |-> <<>>, group |-> 0,
   share |-> IF mode = "client" THEN Head(config.groups) ELSE 0,
   max_early |-> IF mode = "server" THEN config.max_early ELSE 0,
   hello |-> <<>>, invoked |-> FALSE, blocked |-> FALSE, done |-> FALSE]

Message(type, conn, out) ==
  [type |-> type, retry |-> s2n_is_hello_retry_message(conn), cipher |-> conn.cipher,
   version |-> Min2(conn.actual, TLS12), extensions |-> out,
   downgraded |-> conn.server_version >= TLS13 /\ conn.actual < TLS13]

(***************************************************************************)
(* What arrives of a message: itself or, from a peer that is not s2n and   *)
(* at most once, one with an extension less, an extension twice, the order *)
(* reversed, malformed data, or an extension more.                         *)
(***************************************************************************)
Without(s, i) == SubSeq(s, 1, i - 1) \o SubSeq(s, i + 1, Len(s))
Strange ==
  {<<"unknown", <<>>>>, <<"alpn", <<2>>>>, <<"status_request", <<1>>>>, <<"sct_list", <<1>>>>,
   <<"max_frag_len", <<2>>>>, <<"session_ticket", <<>>>>, <<"ems", <<>>>>, <<"psk", <<0>>>>,
   <<"early_data", <<>>>>, <<"server_name", <<1>>>>, <<"quic", <<7>>>>, <<"cookie", <<5>>>>,
   <<"renegotiation_info", <<0>>>>, <<"key_share", <<2>>>>}
Altered(s) ==
  LET places == 1 .. Len(s)
  IN  {Without(s, i) : i \in places} \cup {Append(s, s[i]) : i \in places}
      \cup {[s EXCEPT ![i][2] = Bad] : i \in places} \cup {Reverse(s)}
      \cup {Append(s, e) : e \in Strange} \cup {<<e>> \o s : e \in Strange}
Arrives(message, altered) ==
  IF altered THEN {[message EXCEPT !.extensions = s] : s \in Altered(message.extensions)}
  ELSE {message}
Travel(message) ==
  \E altered \in {FALSE, world.foreign = "may"} : \E m \in Arrives(message, altered) :
    /\ net' = Append(net, m)
    /\ world' = [world EXCEPT !.foreign = IF altered THEN "did" ELSE @]

Ianas(s) == {s[i][1] : i \in 1 .. Len(s)}

\* s2n_client_hello_send
s2n_client_hello_send ==
  /\ client.step = "client_hello" /\ ~client.failed
  /\ \E e \in {s2n_extension_list_send(CLIENT_HELLO, client)} :
       LET settled == IF e.conn.early = "unknown"
                      THEN s2n_connection_set_early_data_state(e.conn, "not_requested") ELSE e.conn
       IN  /\ client' = [settled EXCEPT !.step = "server_hello"]
           /\ asked' = Ianas(e.out)
           /\ Travel(Message("client_hello", e.conn, e.out))
  /\ UNCHANGED server

(***************************************************************************)
(* s2n_client_hello_recv: parse, callback once, process.                   *)
(***************************************************************************)
s2n_parse_client_hello(conn, message) ==
  LET parsed == s2n_extension_list_parse(message.extensions)
      read == [conn EXCEPT !.client_version = message.version, !.hello = parsed]
  IN  IF DuplicateExtension(parsed) THEN Fail(read) ELSE read

s2n_extensions_server_key_share_select(conn) ==
  IF conn.mutual = <<>> THEN Fail(conn)
  ELSE IF conn.share # 0 THEN [conn EXCEPT !.group = conn.share]
  ELSE s2n_set_hello_retry_required([conn EXCEPT !.group = Head(conn.mutual)])

\* The server's highest version, then every extension the list knows.
ReadExtensions(conn) ==
  LET limited == IF conn.config.version < TLS13
                 THEN [conn EXCEPT !.server_version = TLS12, !.actual = TLS12] ELSE conn
  IN  s2n_extension_list_process(CLIENT_HELLO, limited, conn.hello)

\* Group, version, name and cipher, then the fate of the early data.
Choose(conn) ==
  LET actual == IF conn.actual >= TLS13 THEN conn.actual
                ELSE Min2(conn.server_version, conn.client_version)
  IN  IF conn.failed \/ (conn.config.quic /\ actual < TLS13) THEN Fail(conn)
      ELSE s2n_early_data_accept_or_reject(
             [conn EXCEPT !.actual = actual, !.reneg = TRUE,
                !.server_name_used = @ \/ (conn.server_name # 0 /\ conn.config.named),
                !.cipher = IF conn.chosen_psk # 0 THEN conn.chosen_psk ELSE conn.config.cipher])

s2n_process_client_hello(read) ==
  Choose(IF read.failed \/ read.actual < TLS13 THEN read
         ELSE s2n_extensions_server_key_share_select(read))

\* s2n_client_hello_process_cb_response, after what the callback did.
s2n_client_hello_process_cb_response(conn, does) ==
  IF does = "reject" THEN Fail(conn)
  ELSE IF conn.config.cb = "nonblocking" THEN [conn EXCEPT !.blocked = TRUE]
  ELSE IF does = "swap" THEN [conn EXCEPT !.config = world.other]
  ELSE IF does = "name" THEN [conn EXCEPT !.server_name_used = TRUE]
  ELSE conn

CalledBack(conn) ==
  IF conn.failed \/ conn.invoked THEN conn
  ELSE LET called == [conn EXCEPT !.invoked = TRUE]
       IN  IF conn.config.cb = "none" THEN called
           ELSE s2n_client_hello_process_cb_response(called, conn.config.cb_does)

Processed(conn) ==
  IF conn.failed THEN conn
  ELSE LET read == s2n_process_client_hello(conn)
       IN  [read EXCEPT !.step = IF read.early = "requested" THEN "early_data" ELSE "server_hello"]

s2n_client_hello_recv ==
  /\ server.step = "client_hello" /\ ~server.failed /\ ~server.blocked
  /\ net # <<>> /\ Head(net).type = "client_hello"
  /\ \E parsed \in {IF server.done /\ server.config.cb = "nonblocking" THEN server
                     ELSE s2n_parse_client_hello(server, Head(net))} :
     \E called \in {CalledBack(parsed)} :
       IF called.failed \/ called.blocked
       THEN server' = called /\ net' = IF called.blocked THEN net ELSE Tail(net)
       ELSE /\ \E read \in {ReadExtensions(called)} : server' = Processed(read)
            /\ net' = Tail(net)
  /\ UNCHANGED <<world, client, asked>>

\* The application, outside the callback: a new configuration or none, then done.
s2n_client_hello_cb_done ==
  /\ server.blocked
  /\ LET chosen == IF server.config.cb_does = "swap" THEN world.other ELSE server.config
     IN  /\ chosen.cb = "nonblocking"
         /\ server' = [server EXCEPT !.config = chosen, !.blocked = FALSE, !.done = TRUE]
  /\ UNCHANGED <<world, client, net, asked>>

\* The application answers; s2n_establish_session goes on where it was.
s2n_offered_early_data_Answer ==
  /\ server.step = "early_data" /\ ~server.failed
  /\ \E answer \in {"accepted", "rejected"} :
       server' = [s2n_connection_set_early_data_state(server, answer)
                    EXCEPT !.step = "server_hello"]
  /\ UNCHANGED <<world, client, net, asked>>

(***************************************************************************)
(* The server's messages, in order.  The client, whose state says what     *)
(* comes next, follows the same order.                                     *)
(***************************************************************************)
After(conn) ==
  LET tls13 == conn.actual >= TLS13
  IN  CASE conn.step = "server_hello" ->
             IF tls13 THEN "encrypted_extensions"
             ELSE IF conn.status_type /\ (conn.mode = "client" \/ conn.config.ocsp)
                  THEN "certificate_status" ELSE "done"
        [] conn.step = "encrypted_extensions" ->
             IF conn.chosen_psk # 0 THEN "ticket"
             ELSE IF conn.config.client_auth THEN "cert_request" ELSE "certificate"
        [] conn.step = "cert_request" -> "certificate"
        [] conn.step = "certificate" -> "ticket"
        [] OTHER -> "done"

ListOf == [encrypted_extensions |-> ENCRYPTED_EXTENSIONS, cert_request |-> CERT_REQ,
           certificate |-> CERTIFICATE, ticket |-> NST]

\* s2n_server_hello_send and s2n_server_hello_retry_send
s2n_server_hello_send ==
  /\ server.step = "server_hello" /\ ~server.failed
  /\ LET retried == s2n_is_hello_retry_message(server)
         unshared == server.actual >= TLS13 /\ server.share = 0 /\ ~retried
     IN  IF unshared THEN server' = Fail(server) /\ UNCHANGED <<net, world>>
         ELSE \E e \in {s2n_server_extensions_send(server)} :
                /\ Travel(Message("server_hello", server, e.out))
                /\ server' = IF retried
                             THEN [e.conn EXCEPT !.retry = "done", !.step = "client_hello",
                                                 !.hello = <<>>, !.done = FALSE]
                             ELSE [e.conn EXCEPT !.step = After(e.conn)]
  /\ UNCHANGED <<client, asked>>

s2n_encrypted_extensions_send ==
  /\ server.step \in DOMAIN ListOf /\ ~server.failed
  /\ \E e \in {s2n_extension_list_send(ListOf[server.step], server)} :
       /\ server' = [e.conn EXCEPT !.step = After(e.conn)]
       /\ IF server.step = "ticket" /\ ~server.config.tickets THEN UNCHANGED <<net, world>>
          ELSE Travel(Message(server.step, server, e.out))
  /\ UNCHANGED <<client, asked>>

s2n_server_status_send ==
  /\ server.step = "certificate_status" /\ ~server.failed
  /\ net' = Append(net, Message("certificate_status", server, <<<<"status", <<1>>>>>>))
  /\ server' = [server EXCEPT !.step = "done"]
  /\ UNCHANGED <<world, client, asked>>

(***************************************************************************)
(* s2n_server_hello_recv.                                                  *)
(***************************************************************************)
s2n_set_cipher_as_client(conn, cipher) ==
  IF \/ conn.chosen_psk # 0 /\ conn.chosen_psk # cipher
     \/ conn.retry = "done" /\ conn.cipher # cipher
  THEN Fail(conn) ELSE [conn EXCEPT !.cipher = cipher]

\* A second HelloRetryRequest is an error.
s2n_hello_retry_validate(conn, message) ==
  IF ~message.retry THEN conn
  ELSE IF s2n_is_hello_retry_handshake(conn) THEN Fail(conn)
  ELSE s2n_set_hello_retry_required(conn)

\* What follows the extensions.
s2n_server_hello_parse(read, message) ==
  IF read.failed THEN read
  ELSE IF read.server_version >= TLS13
  THEN s2n_set_cipher_as_client([read EXCEPT !.actual = read.server_version], message.cipher)
  ELSE IF \/ read.config.quic \/ read.early = "requested"
          \/ message.downgraded /\ read.client_version = TLS13
  THEN Fail(read)
  ELSE [read EXCEPT !.server_version = message.version, !.cipher = message.cipher,
                    !.actual = Min2(message.version, read.client_version)]

s2n_server_hello_retry_recv(conn) ==
  IF \/ conn.actual < TLS13 \/ conn.group = 0
     \/ conn.early # "rejected" /\ conn.group = conn.share
  THEN Fail(conn)
  ELSE [conn EXCEPT !.share = conn.group, !.retry = "done", !.step = "client_hello"]

s2n_server_hello_recv ==
  /\ client.step = "server_hello" /\ ~client.failed
  /\ net # <<>> /\ Head(net).type = "server_hello"
  /\ \E retried \in {s2n_hello_retry_validate(client, Head(net))} :
     \E read \in {IF retried.failed THEN retried
                  ELSE s2n_server_extensions_recv(retried, Head(net).extensions)} :
     \E parsed \in {s2n_server_hello_parse(read, Head(net))} :
     \E settled \in {IF parsed.failed THEN parsed ELSE s2n_early_data_accept_or_reject(parsed)} :
       client' = IF settled.failed THEN settled
                 ELSE IF s2n_is_hello_retry_message(settled)
                 THEN s2n_server_hello_retry_recv(settled)
                 ELSE [settled EXCEPT !.step = After(settled)]
  /\ net' = Tail(net)
  /\ UNCHANGED <<world, server, asked>>

Advance(conn) == IF conn.failed THEN conn ELSE [conn EXCEPT !.step = After(conn)]

\* A message that is not the one expected ends the handshake.
s2n_encrypted_extensions_recv ==
  /\ client.step \notin {"client_hello", "server_hello"} /\ ~client.failed
  /\ net # <<>> /\ Head(net).type # "client_hello"
  /\ client' =
       IF Head(net).type # client.step THEN Fail(client)
       ELSE IF client.step = "certificate_status"
       THEN Advance(s2n_server_certificate_status_recv(client, <<1>>))
       ELSE IF client.step = "ticket" /\ ~client.config.tickets THEN Advance(client)
       ELSE Advance(s2n_extension_list_recv(ListOf[client.step], client, Head(net).extensions))
  /\ net' = Tail(net)
  /\ UNCHANGED <<world, server, asked>>

\* The handshake proper is over; a ticket may still come.
Finished ==
  /\ \/ client.failed \/ server.failed
     \/ client.step \in {"ticket", "done"} /\ server.step = "done" /\ net = <<>>
     \/ server.blocked /\ SwapBlocking
  /\ UNCHANGED vars

Init ==
  /\ world \in Worlds
  /\ client = New("client", world.client)
  /\ server = New("server", world.server)
  /\ net = <<>> /\ asked = {}

Next ==
  \/ s2n_client_hello_send
  \/ s2n_client_hello_recv
  \/ s2n_client_hello_cb_done
  \/ s2n_offered_early_data_Answer
  \/ s2n_server_hello_send
  \/ s2n_encrypted_extensions_send
  \/ s2n_server_status_send
  \/ s2n_server_hello_recv
  \/ s2n_encrypted_extensions_recv
  \/ Finished

Spec == Init /\ [][Next]_vars

-----------------------------------------------------------------------------
Done == /\ ~client.failed /\ ~server.failed /\ net = <<>>
        /\ client.step \in {"ticket", "done"} /\ server.step = "done"

\* The configuration that answers, once the callback has run.
Answering ==
  IF world.server.cb # "none" /\ world.server.cb_does = "swap" THEN world.other ELSE world.server
Highest == Min2(world.client.version, Answering.version)
AsksEarly ==
  LET c == world.client
  IN  /\ c.version >= TLS13 /\ c.psks # <<>> /\ c.psk_early /\ c.early_expected
      /\ c.psk_alpn # 0 => c.psk_alpn \in ToSet(c.alpn) /\ ~c.psk_nul

\* Two configurations that ought to understand each other.
Fit ==
  /\ world.server.cb # "none" => world.server.cb_does # "reject"
  /\ Answering.early_cb # "fail"
  /\ world.client.quic = Answering.quic
  /\ world.client.quic => Highest >= TLS13
  /\ Highest >= TLS13 =>
       ToSet(world.client.groups) \cap ToSet(Answering.groups) # {}
  /\ AsksEarly => Highest >= TLS13

(***************************************************************************)
(* Between two s2n endpoints no list of extensions is turned down unless   *)
(* the configurations are at odds, and at the end both hold the same       *)
(* protocol, fragment length, group, PSK, fate of the early data and QUIC  *)
(* parameters, while the client has the name's use, the OCSP response, the *)
(* SCTs and the ticket exactly when the server gave them: s2n_extension_   *)
(* send answers only what it received, s2n_extension_recv refuses an       *)
(* answer to what was not sent, and a HelloRetryRequest keeps both records *)
(* of what was asked (s2n_extension_type.c, s2n_server_hello_retry.c).     *)
(***************************************************************************)
ExtensionsAgree ==
  world.foreign # "did" =>
    /\ client.failed \/ server.failed => ~Fit
    /\ Done =>
         LET certificate == client.actual < TLS13 \/ server.chosen_psk = 0
         IN  /\ client.actual = server.actual
             /\ client.app_protocol = server.app_protocol
             /\ client.mfl = server.mfl
             /\ client.early = server.early /\ client.early # "requested"
             /\ client.chosen_psk = server.chosen_psk
             /\ client.status_response = (certificate /\ s2n_server_can_send_ocsp(server))
             /\ client.ct_response = (certificate /\ s2n_server_can_send_sct_list(server))
             /\ client.server_name_used =
                  (server.server_name_used /\ server.chosen_psk = 0 /\ client.config.name # 0)
             /\ client.config.quic => /\ client.peer_quic = server.config.quic_params
                                      /\ server.peer_quic = client.config.quic_params
             /\ server.peer_kems = IF client.config.pq /\ server.config.pq
                                   THEN client.config.kems ELSE <<>>
             /\ client.actual >= TLS13 =>
                  client.group = server.group /\ client.share = server.share
             /\ client.actual < TLS13 =>
                  /\ client.ticket_status = server.ticket_status
                  /\ client.ems = server.ems /\ client.reneg /\ server.reneg

(***************************************************************************)
(* Whatever a server sends, a client that goes on has adopted no extension *)
(* its latest ClientHello did not carry: early data that a                 *)
(* HelloRetryRequest refused is never accepted after it, and no PSK, ALPN  *)
(* answer, ticket, fragment length, OCSP response or SCT list comes        *)
(* unasked.  Whether the protocol named was among those offered is not     *)
(* part of it: s2n_alpn_recv takes any name (s2n_extension_type.c,         *)
(* s2n_early_data.c, s2n_cipher_suites.c).                                 *)
(***************************************************************************)
OnlyRequested ==
  ~client.failed =>
    /\ client.app_protocol # 0 => "alpn" \in asked
    /\ client.mfl # 0 => "max_frag_len" \in asked
    /\ client.status_response => "status_request" \in asked
    /\ client.ct_response => "sct_list" \in asked
    /\ client.ticket_status = "new" => "session_ticket" \in asked
    /\ client.early = "accepted" => "early_data" \in asked
    /\ client.server_name_used => "server_name" \in asked
    /\ client.chosen_psk # 0 => "psk" \in asked
=============================================================================
