-------------------------- MODULE HandshakeTables --------------------------
(***************************************************************************)
(* The tables of tls/s2n_handshake_io.c that drive the handshake: the two  *)
(* state machines (who writes a message, in which kind of record) and the  *)
(* order of the messages for every handshake type.                         *)
(*                                                                         *)
(* A handshake type is the set of its flags.  A row is the sequence of the *)
(* messages the source lists for it.  What the source does not list is     *)
(* zero, which is CLIENT_HELLO: Message returns that beyond a row's end    *)
(* and for a type that has no row.                                         *)
(***************************************************************************)
EXTENDS Integers, Sequences

(***************************************************************************)
(* s2n_handshake_type_flag and the flags that mean something in TLS 1.2    *)
(* (or older) or in TLS 1.3 only.                                          *)
(***************************************************************************)
CommonFlags == {"NEGOTIATED", "FULL_HANDSHAKE", "CLIENT_AUTH", "NO_CLIENT_CERT"}
Tls12Flags == {"TLS12_PERFECT_FORWARD_SECRECY", "OCSP_STATUS", "WITH_SESSION_TICKET"}
Tls13Flags == {"HELLO_RETRY_REQUEST", "MIDDLEBOX_COMPAT", "WITH_EARLY_DATA",
               "EARLY_CLIENT_CCS"}
Flags == CommonFlags \cup Tls12Flags \cup Tls13Flags

Client == {"CLIENT_HELLO", "CLIENT_CHANGE_CIPHER_SPEC", "CLIENT_CERT", "CLIENT_KEY",
           "CLIENT_CERT_VERIFY", "CLIENT_FINISHED", "END_OF_EARLY_DATA"}
Server == {"SERVER_HELLO", "HELLO_RETRY_MSG", "SERVER_NEW_SESSION_TICKET",
           "ENCRYPTED_EXTENSIONS", "SERVER_CERT", "SERVER_CERT_STATUS", "SERVER_KEY",
           "SERVER_CERT_REQ", "SERVER_HELLO_DONE", "SERVER_CERT_VERIFY",
           "SERVER_CHANGE_CIPHER_SPEC", "SERVER_FINISHED"}
Messages == Client \cup Server \cup {"APPLICATION_DATA"}

(***************************************************************************)
(* The columns of state_machine and tls13_state_machine, which agree on    *)
(* every message both of them have.                                        *)
(***************************************************************************)
Writer(m) ==
    CASE m \in Client -> "client"
      [] m \in Server -> "server"
      [] OTHER -> "both"

RecordType(m) ==
    CASE m \in {"CLIENT_CHANGE_CIPHER_SPEC", "SERVER_CHANGE_CIPHER_SPEC"} -> "ccs"
      [] m = "APPLICATION_DATA" -> "app"
      [] OTHER -> "handshake"

(***************************************************************************)
(* The type on the wire, which some messages share.                        *)
(***************************************************************************)
MessageType(m) ==
    CASE m \in {"SERVER_HELLO", "HELLO_RETRY_MSG"} -> "TLS_SERVER_HELLO"
      [] m \in {"SERVER_CERT", "CLIENT_CERT"} -> "TLS_CERTIFICATE"
      [] m \in {"SERVER_CERT_VERIFY", "CLIENT_CERT_VERIFY"} -> "TLS_CERT_VERIFY"
      [] m \in {"SERVER_FINISHED", "CLIENT_FINISHED"} -> "TLS_FINISHED"
      [] OTHER -> m

----------------------------------------------------------------------------

Opt(condition, messages) == IF condition THEN messages ELSE << >>

(***************************************************************************)
(* handshakes[]: resumed sessions, then full handshakes without and with   *)
(* client authentication.                                                  *)
(***************************************************************************)
ResumedRow(t) ==
    <<"CLIENT_HELLO", "SERVER_HELLO">>
    \o Opt("WITH_SESSION_TICKET" \in t, <<"SERVER_NEW_SESSION_TICKET">>)
    \o <<"SERVER_CHANGE_CIPHER_SPEC", "SERVER_FINISHED",
         "CLIENT_CHANGE_CIPHER_SPEC", "CLIENT_FINISHED", "APPLICATION_DATA">>

ServerFlight(t) ==
    <<"CLIENT_HELLO", "SERVER_HELLO", "SERVER_CERT">>
    \o Opt("OCSP_STATUS" \in t, <<"SERVER_CERT_STATUS">>)
    \o Opt("TLS12_PERFECT_FORWARD_SECRECY" \in t, <<"SERVER_KEY">>)

FullEnd(t) ==
    <<"CLIENT_CHANGE_CIPHER_SPEC", "CLIENT_FINISHED">>
    \o Opt("WITH_SESSION_TICKET" \in t, <<"SERVER_NEW_SESSION_TICKET">>)
    \o <<"SERVER_CHANGE_CIPHER_SPEC", "SERVER_FINISHED", "APPLICATION_DATA">>

FullRow(t) ==
    ServerFlight(t) \o <<"SERVER_HELLO_DONE", "CLIENT_KEY">> \o FullEnd(t)

FullClientAuthRow(t) ==
    ServerFlight(t)
    \o <<"SERVER_CERT_REQ", "SERVER_HELLO_DONE", "CLIENT_CERT", "CLIENT_KEY">>
    \o Opt("NO_CLIENT_CERT" \notin t, <<"CLIENT_CERT_VERIFY">>)
    \o FullEnd(t)

FullTypes12(base) == {base \cup t : t \in SUBSET Tls12Flags}

handshakes ==
    LET resumed == {{"NEGOTIATED"}, {"NEGOTIATED", "WITH_SESSION_TICKET"}}
        full == FullTypes12({"NEGOTIATED", "FULL_HANDSHAKE"})
        auth == FullTypes12({"NEGOTIATED", "FULL_HANDSHAKE", "CLIENT_AUTH"})
                \cup FullTypes12(CommonFlags)
    IN  [t \in {{}} \cup resumed \cup full \cup auth |->
            CASE t = {} -> <<"CLIENT_HELLO", "SERVER_HELLO">>
              [] t \in resumed -> ResumedRow(t)
              [] t \in full -> FullRow(t)
              [] t \in auth -> FullClientAuthRow(t)]

----------------------------------------------------------------------------
(***************************************************************************)
(* tls13_handshakes[].  With EARLY_CLIENT_CCS the client's one             *)
(* ChangeCipherSpec follows its first hello; otherwise it precedes its     *)
(* second flight.                                                          *)
(***************************************************************************)
Hello13(t) ==
    <<"CLIENT_HELLO">> \o Opt("EARLY_CLIENT_CCS" \in t, <<"CLIENT_CHANGE_CIPHER_SPEC">>)

LateClientCcs(t) == "MIDDLEBOX_COMPAT" \in t /\ "EARLY_CLIENT_CCS" \notin t

HelloOnly13(t) ==
    Hello13(t) \o IF "HELLO_RETRY_REQUEST" \in t THEN <<"HELLO_RETRY_MSG">>
                                                 ELSE <<"SERVER_HELLO">>

ServerHello13(t) ==
    Hello13(t) \o <<"SERVER_HELLO">>
    \o Opt("MIDDLEBOX_COMPAT" \in t, <<"SERVER_CHANGE_CIPHER_SPEC">>)

HelloRetry13(t) ==
    Hello13(t) \o <<"HELLO_RETRY_MSG">>
    \o Opt("MIDDLEBOX_COMPAT" \in t, <<"SERVER_CHANGE_CIPHER_SPEC">>)
    \o Opt(LateClientCcs(t), <<"CLIENT_CHANGE_CIPHER_SPEC">>)
    \o <<"CLIENT_HELLO", "SERVER_HELLO">>

Authenticated13(t) ==
    <<"ENCRYPTED_EXTENSIONS">>
    \o Opt("CLIENT_AUTH" \in t, <<"SERVER_CERT_REQ">>)
    \o Opt("FULL_HANDSHAKE" \in t, <<"SERVER_CERT", "SERVER_CERT_VERIFY">>)
    \o <<"SERVER_FINISHED">>

ClientFlight13(t) ==
    Opt(LateClientCcs(t) /\ "HELLO_RETRY_REQUEST" \notin t,
        <<"CLIENT_CHANGE_CIPHER_SPEC">>)
    \o Opt("WITH_EARLY_DATA" \in t, <<"END_OF_EARLY_DATA">>)
    \o Opt("CLIENT_AUTH" \in t, <<"CLIENT_CERT">>)
    \o Opt("CLIENT_AUTH" \in t /\ "NO_CLIENT_CERT" \notin t, <<"CLIENT_CERT_VERIFY">>)
    \o <<"CLIENT_FINISHED", "APPLICATION_DATA">>

(***************************************************************************)
(* The types that have a row: MIDDLEBOX_COMPAT alone or with               *)
(* EARLY_CLIENT_CCS goes with everything, early data only with a PSK and   *)
(* no retry, client authentication only with a full handshake.             *)
(***************************************************************************)
Compat == {{}, {"MIDDLEBOX_COMPAT"}, {"MIDDLEBOX_COMPAT", "EARLY_CLIENT_CCS"}}
Initial13 == {{}, {"HELLO_RETRY_REQUEST"}, {"MIDDLEBOX_COMPAT", "EARLY_CLIENT_CCS"},
              {"HELLO_RETRY_REQUEST", "MIDDLEBOX_COMPAT", "EARLY_CLIENT_CCS"}}
Negotiated13 ==
    LET psk == {"NEGOTIATED"}
        full == {"NEGOTIATED", "FULL_HANDSHAKE"}
        auth == {"NEGOTIATED", "FULL_HANDSHAKE", "CLIENT_AUTH"}
    IN  {psk \cup {"WITH_EARLY_DATA"}} \cup
        {t \cup h : t \in {psk, full, auth, CommonFlags}, h \in {{}, {"HELLO_RETRY_REQUEST"}}}

tls13_handshakes ==
    [t \in Initial13 \cup {n \cup c : n \in Negotiated13, c \in Compat} |->
        CASE t \in Initial13 -> HelloOnly13(t)
          [] t \notin Initial13 ->
                (IF "HELLO_RETRY_REQUEST" \in t THEN HelloRetry13(t) ELSE ServerHello13(t))
                \o Authenticated13(t) \o ClientFlight13(t)]

----------------------------------------------------------------------------
(* ACTIVE_HANDSHAKES and ACTIVE_MESSAGE; messages are counted from zero. *)

Row(version, t) ==
    LET rows == IF version = 13 THEN tls13_handshakes ELSE handshakes
    IN  IF t \in DOMAIN rows THEN rows[t] ELSE << >>

MessageOf(row, n) == IF n < Len(row) THEN row[n + 1] ELSE "CLIENT_HELLO"

Message(version, t, n) == MessageOf(Row(version, t), n)
============================================================================
