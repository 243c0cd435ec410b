----------------------------- MODULE Connections -----------------------------
(***************************************************************************)
(* The life of a connection (tls/s2n_connection.c): created, configured,   *)
(* used for a handshake and for records, stripped of memory, wiped and     *)
(* used again, freed; and the memory each of its fields holds meanwhile,   *)
(* where any allocation may fail.                                          *)
(***************************************************************************)
EXTENDS Memory

CONSTANTS
    Limits,         \* how many pages the process may lock
    MaxUses,        \* bound on handshakes of one connection
    MaxEvents,      \* bound on the calls in one handshake
    Cookies,        \* may a HelloRetryRequest bring a cookie?
    Repeats         \* may a call or a message that comes once come again?

VARIABLES
    heap,           \* the heap
    limit,          \* an element of Limits
    mode,           \* conn->mode
    phase,          \* what the application does with the connection
    cell,           \* the cells of the connection, by field
    managed_io,     \* conn->managed_io
    events,         \* what has happened in this handshake
    uses,           \* handshakes begun
    abandoned       \* blocks the code is known to lose, see NothingLost

connectionVars == <<heap, limit, mode, phase, cell, managed_io, events, uses, abandoned>>

(***************************************************************************)
(* The fields that hold memory: the connection itself, objects behind      *)
(* pointers, objects of the cryptographic library, blobs, stuffers.        *)
(***************************************************************************)
Pointers == {"self", "hashes", "prf_space", "send_io_context", "recv_io_context"}
Library == {"keys", "hmacs", "server_public_key", "client_public_key", "dh_params", "keyshare"}
Blobs == {"client_ticket", "status_response", "application_protocols_overridden",
          "our_quic_transport_parameters", "peer_quic_transport_parameters",
          "server_early_data_context", "session_secret", "ct_response", "client_cert_chain",
          "kem_private_key", "kem_public_key", "kem_shared_secret",
          "psk_list", "psk_identity", "psk_secret"}
Stuffers == {"in", "out", "handshake_io", "raw_message", "cookie_stuffer"}
Fields == Pointers \cup Library \cup Blobs \cup Stuffers

Large == 2      \* S2N_LARGE_RECORD_LENGTH, in pages
NoCells == [f \in Fields |-> Empty]

-----------------------------------------------------------------------------
(***************************************************************************)
(* A function of the code as the sequence of its calls on the cells: each  *)
(* call runs if all before it succeeded.                                   *)
(***************************************************************************)
Call(op, f, n) == [op |-> op, f |-> f, n |-> n]
Each(op, fields) == [i \in 1..Len(fields) |-> Call(op, fields[i], 0)]

\* s2n_connection_free_io_contexts.
FreeIoContexts(s) ==
    IF ~s.managed_io THEN s
    ELSE LET t == s2n_free_object(s, "send_io_context")
         IN IF t.ok THEN s2n_free_object(t, "recv_io_context") ELSE t

\* What s2n_connection_wipe saves and restores around s2n_connection_zero.
Kept == {"self", "keys", "hmacs", "hashes", "prf_space", "in", "out", "handshake_io", "raw_message"}
ZeroCells_LosesWorkspace(s) ==
    [s EXCEPT !.c = [f \in Fields |-> IF f \in Kept \ {"prf_space"} THEN s.c[f] ELSE Empty], !.managed_io = FALSE]
ZeroCells(s) ==
    [s EXCEPT !.c = [f \in Fields |-> IF f \in Kept THEN s.c[f] ELSE Empty], !.managed_io = FALSE]

\* s2n_connection_append_psk: the copy is wiped again if any part of it fails.
AppendPsk(s) ==
    LET t1 == s2n_realloc(s, "psk_identity", 1)
        t2 == IF t1.ok THEN s2n_realloc(t1, "psk_secret", 1) ELSE t1
        t3 == IF t2.ok THEN s2n_realloc(t2, "psk_list", 1) ELSE t2
    IN Ensure(s.c["psk_list"].data = NoBlock /\ t3.ok, s, t3)

Do(s, i) ==
    IF ~s.ok THEN s
    ELSE CASE i.op = "s2n_free" -> s2n_free(s, i.f)
           [] i.op = "s2n_free_object" -> s2n_free_object(s, i.f)
           [] i.op = "s2n_alloc" -> s2n_alloc(s, i.f, i.n)
           [] i.op = "s2n_realloc" -> s2n_realloc(s, i.f, i.n)
           [] i.op = "s2n_dup" -> s2n_dup(s, i.f, i.n)
           [] i.op = "s2n_blob_zeroize_free" -> s2n_blob_zeroize_free(s, i.f)
           [] i.op = "new" -> NewObject(s, i.f, i.n)
           [] i.op = "new_if_null" -> NewObjectIfNull(s, i.f, i.n)
           [] i.op = "restore" -> RestoreObject(s, i.f, i.n)
           [] i.op = "s2n_stuffer_growable_alloc" -> s2n_stuffer_growable_alloc(s, i.f, i.n)
           [] i.op = "s2n_stuffer_free" -> s2n_stuffer_free(s, i.f)
           [] i.op = "s2n_stuffer_wipe" -> s2n_stuffer_wipe(s, i.f)
           [] i.op = "s2n_stuffer_resize" -> s2n_stuffer_resize(s, i.f, i.n)
           [] i.op = "s2n_stuffer_resize_if_empty" -> s2n_stuffer_resize_if_empty(s, i.f, i.n)
           [] i.op = "s2n_stuffer_write" -> s2n_stuffer_write(s, i.f, i.n)
           [] i.op = "s2n_stuffer_raw_read" -> s2n_stuffer_raw_read(s, i.f)
           [] i.op = "s2n_stuffer_raw_write" -> s2n_stuffer_raw_write(s, i.f, i.n)
           [] i.op = "s2n_stuffer_rewrite" -> s2n_stuffer_rewrite(s, i.f)
           [] i.op = "consumed" -> Ensure(s2n_stuffer_is_consumed(s, i.f), s, s)
           [] i.op = "free_io_contexts" -> FreeIoContexts(s)
           [] i.op = "managed" -> [s EXCEPT !.managed_io = TRUE]
           [] i.op = "append_psk" -> AppendPsk(s)
           [] i.op = "zero" -> ZeroCells(s)

RunAll(s, calls) ==
    LET after[i \in 0..Len(calls)] == IF i = 0 THEN s ELSE Do(after[i - 1], calls[i])
    IN after[Len(calls)]

-----------------------------------------------------------------------------
s2n_connection_wipe_keys ==
    Each("s2n_free_object", <<"server_public_key", "client_public_key", "dh_params", "keyshare">>)
    \o Each("s2n_blob_zeroize_free", <<"kem_private_key", "kem_public_key", "kem_shared_secret">>)
    \o Each("s2n_free", <<"client_cert_chain", "ct_response">>)

s2n_psk_parameters_wipe == Each("s2n_free", <<"psk_identity", "psk_secret", "psk_list">>)

s2n_connection_wipe_io == <<Call("free_io_contexts", "self", 0)>>

s2n_connection_wipe_ForgetsPeerQuic ==
    <<Call("restore", "hashes", 1), Call("restore", "prf_space", 1)>>
    \o s2n_connection_wipe_keys
    \o Each("s2n_stuffer_wipe", <<"handshake_io", "raw_message", "in", "out">>)
    \o s2n_psk_parameters_wipe
    \o s2n_connection_wipe_io
    \o Each("s2n_free", <<"client_ticket", "status_response", "application_protocols_overridden",
                          "our_quic_transport_parameters", "server_early_data_context", "session_secret">>)
    \o <<Call("s2n_stuffer_resize", "handshake_io", Large)>>
    \o Each("s2n_stuffer_resize", <<"raw_message", "in", "out">>)
    \o <<Call("zero", "self", 0)>>

s2n_connection_wipe ==
    <<Call("restore", "hashes", 1), Call("restore", "prf_space", 1)>>
    \o s2n_connection_wipe_keys
    \o Each("s2n_stuffer_wipe", <<"handshake_io", "raw_message", "in", "out">>)
    \o s2n_psk_parameters_wipe
    \o s2n_connection_wipe_io
    \o Each("s2n_free", <<"client_ticket", "status_response", "application_protocols_overridden",
                          "our_quic_transport_parameters", "peer_quic_transport_parameters",
                          "server_early_data_context", "session_secret">>)
    \o <<Call("s2n_stuffer_resize", "handshake_io", Large)>>
    \o Each("s2n_stuffer_resize", <<"raw_message", "in", "out">>)
    \o <<Call("zero", "self", 0)>>

s2n_connection_new ==
    <<Call("new", "self", 1), Call("new", "keys", 0),
      Call("new_if_null", "prf_space", 1), Call("new_if_null", "hashes", 1), Call("new", "hmacs", 0)>>
    \o Each("s2n_stuffer_growable_alloc", <<"out", "in", "handshake_io", "raw_message">>)
    \o s2n_connection_wipe
    \o Each("s2n_stuffer_growable_alloc", <<"cookie_stuffer">>)

s2n_connection_free ==
    s2n_connection_wipe_keys
    \o Each("s2n_free_object", <<"keys">>)
    \o s2n_psk_parameters_wipe
    \o Each("s2n_free_object", <<"prf_space", "hashes", "hmacs">>)
    \o <<Call("free_io_contexts", "self", 0)>>
    \o Each("s2n_free", <<"client_ticket", "status_response", "our_quic_transport_parameters",
                          "peer_quic_transport_parameters", "server_early_data_context", "session_secret">>)
    \o Each("s2n_stuffer_free", <<"in", "out", "handshake_io", "raw_message">>)
    \o Each("s2n_free", <<"application_protocols_overridden">>)
    \o Each("s2n_stuffer_free", <<"cookie_stuffer">>)
    \o Each("s2n_free_object", <<"self">>)

s2n_connection_free_handshake ==
    Each("s2n_free_object", <<"hashes", "prf_space">>)
    \o Each("s2n_stuffer_wipe", <<"handshake_io", "raw_message">>)
    \o Each("s2n_stuffer_resize", <<"handshake_io", "raw_message">>)
    \o Each("s2n_free", <<"client_ticket", "status_response", "our_quic_transport_parameters",
                          "application_protocols_overridden">>)
    \o Each("s2n_stuffer_free", <<"cookie_stuffer">>)

s2n_connection_release_buffers ==
    <<Call("consumed", "out", 0), Call("s2n_stuffer_resize", "out", 0),
      Call("consumed", "in", 0), Call("s2n_stuffer_resize", "in", 0)>>

(***************************************************************************)
(* The calls and messages before and in a handshake that change memory.    *)
(***************************************************************************)
s2n_connection_set_read_fd == <<Call("new", "recv_io_context", 1), Call("managed", "self", 0)>>
s2n_connection_set_write_fd == <<Call("new", "send_io_context", 1), Call("managed", "self", 0)>>
s2n_connection_set_quic_transport_parameters ==
    <<Call("s2n_free", "our_quic_transport_parameters", 0),
      Call("s2n_alloc", "our_quic_transport_parameters", 1)>>
s2n_connection_append_protocol_preference == <<Call("s2n_realloc", "application_protocols_overridden", 1)>>
s2n_connection_set_server_early_data_context == <<Call("s2n_realloc", "server_early_data_context", 1)>>
s2n_connection_set_session == <<Call("s2n_realloc", "client_ticket", 1)>>
s2n_connection_append_psk == <<Call("append_psk", "psk_list", 0)>>
s2n_psk_parameters_wipe_secrets == <<Call("s2n_free", "psk_secret", 0)>>
s2n_collect_client_hello ==
    <<Call("s2n_stuffer_resize", "raw_message", 1),
      Call("s2n_stuffer_write", "raw_message", 1),
      Call("s2n_stuffer_raw_read", "raw_message", 0)>>
s2n_conn_reset_retry_values ==
    <<Call("s2n_stuffer_wipe", "raw_message", 0),
      Call("s2n_stuffer_resize", "raw_message", 0),
      Call("s2n_stuffer_free", "raw_message", 0),
      Call("s2n_stuffer_growable_alloc", "raw_message", 0)>>
s2n_quic_transport_params_recv == <<Call("s2n_alloc", "peer_quic_transport_parameters", 1)>>
s2n_cookie_recv ==
    <<Call("s2n_stuffer_wipe", "cookie_stuffer", 0),
      Call("s2n_stuffer_resize", "cookie_stuffer", 1),
      Call("s2n_stuffer_write", "cookie_stuffer", 1)>>
s2n_server_certificate_status_recv == <<Call("s2n_realloc", "status_response", 1)>>
s2n_server_sct_list_recv == <<Call("s2n_dup", "ct_response", 1)>>
s2n_client_cert_recv == <<Call("s2n_dup", "client_cert_chain", 1), Call("new", "client_public_key", 0)>>
s2n_server_cert_recv == <<Call("new", "server_public_key", 0)>>
s2n_ecc_evp_generate_ephemeral_key == <<Call("new_if_null", "keyshare", 0)>>
s2n_dh_generate_ephemeral_key == <<Call("new", "dh_params", 0)>>
s2n_kem_generate_keypair == <<Call("s2n_realloc", "kem_private_key", 1)>>
s2n_kem_decapsulate == <<Call("s2n_alloc", "kem_shared_secret", 1)>>
s2n_kem_recv_public_key == <<Call("s2n_alloc", "kem_public_key", 1)>>
s2n_kem_encapsulate == <<Call("s2n_alloc", "kem_shared_secret", 1)>>
s2n_large_message == <<Call("s2n_stuffer_write", "handshake_io", Large + 1)>>

Handler ==
    [s2n_connection_set_read_fd |-> s2n_connection_set_read_fd,
     s2n_connection_set_write_fd |-> s2n_connection_set_write_fd,
     s2n_connection_set_quic_transport_parameters |-> s2n_connection_set_quic_transport_parameters,
     s2n_connection_append_protocol_preference |-> s2n_connection_append_protocol_preference,
     s2n_connection_set_server_early_data_context |-> s2n_connection_set_server_early_data_context,
     s2n_connection_set_session |-> s2n_connection_set_session,
     s2n_connection_append_psk |-> s2n_connection_append_psk,
     s2n_psk_parameters_wipe_secrets |-> s2n_psk_parameters_wipe_secrets,
     s2n_collect_client_hello |-> s2n_collect_client_hello,
     s2n_conn_reset_retry_values |-> s2n_conn_reset_retry_values,
     s2n_quic_transport_params_recv |-> s2n_quic_transport_params_recv,
     s2n_cookie_recv |-> s2n_cookie_recv,
     s2n_server_certificate_status_recv |-> s2n_server_certificate_status_recv,
     s2n_server_sct_list_recv |-> s2n_server_sct_list_recv,
     s2n_client_cert_recv |-> s2n_client_cert_recv,
     s2n_server_cert_recv |-> s2n_server_cert_recv,
     s2n_ecc_evp_generate_ephemeral_key |-> s2n_ecc_evp_generate_ephemeral_key,
     s2n_dh_generate_ephemeral_key |-> s2n_dh_generate_ephemeral_key,
     s2n_kem_generate_keypair |-> s2n_kem_generate_keypair \o s2n_kem_decapsulate,
     s2n_kem_recv_public_key |-> s2n_kem_recv_public_key \o s2n_kem_encapsulate,
     s2n_large_message |-> s2n_large_message]

Of(m) ==
    DOMAIN Handler \ (IF m = "client"
                      THEN {"s2n_collect_client_hello", "s2n_conn_reset_retry_values", "s2n_client_cert_recv",
                            "s2n_kem_generate_keypair", "s2n_connection_set_server_early_data_context"}
                      ELSE {"s2n_connection_set_session", "s2n_cookie_recv", "s2n_server_certificate_status_recv",
                            "s2n_server_sct_list_recv", "s2n_server_cert_recv", "s2n_kem_recv_public_key"})

(***************************************************************************)
(* Records: in is filled, decrypted in place and emptied or left half read *)
(* by the application; out is filled, and rewritten when it is flushed.    *)
(***************************************************************************)
s2n_read_full_record ==
    <<Call("s2n_stuffer_resize_if_empty", "in", Large), Call("s2n_stuffer_raw_write", "in", 1)>>
s2n_recv == <<Call("s2n_stuffer_wipe", "in", 0)>>
s2n_record_write == <<Call("s2n_stuffer_raw_write", "out", 1)>>
s2n_flush == <<Call("s2n_stuffer_rewrite", "out", 0)>>
s2n_connection_prefer_throughput == <<Call("s2n_realloc", "out", Large + 1)>>

Traffic ==
    [s2n_read_full_record |-> s2n_read_full_record,
     s2n_recv |-> s2n_recv,
     s2n_record_write |-> s2n_record_write,
     s2n_flush |-> s2n_flush,
     s2n_connection_prefer_throughput |-> s2n_connection_prefer_throughput,
     s2n_connection_release_buffers |-> s2n_connection_release_buffers]

-----------------------------------------------------------------------------
State == [m |-> heap, c |-> cell, managed_io |-> managed_io, limit |-> limit, ok |-> TRUE]
Becomes(t) == heap' = t.m /\ cell' = t.c /\ managed_io' = t.managed_io

\* s2n_connection_new; a failure leaves what was allocated behind.
New ==
    /\ phase = "none" /\ uses < MaxUses
    /\ \E t \in {RunAll(State, s2n_connection_new)} :
          IF t.ok
          THEN Becomes(t) /\ phase' = "new" /\ UNCHANGED abandoned
          ELSE /\ heap' = t.m /\ cell' = NoCells /\ managed_io' = FALSE /\ phase' = "none"
               /\ abandoned' = t.m.live \ {UserBlock}
    /\ mode' \in {"client", "server"}
    /\ events' = {} /\ uses' = uses + 1 /\ UNCHANGED limit

\* s2n_connection_wipe; if it fails it can be called again.
Wipe ==
    /\ phase # "none" /\ uses < MaxUses
    /\ \E t \in {RunAll(State, s2n_connection_wipe)} :
          /\ Becomes(t)
          /\ phase' = IF t.ok THEN "new" ELSE "broken"
    /\ events' = {} /\ uses' = uses + 1 /\ UNCHANGED <<limit, mode, abandoned>>

\* s2n_connection_free.
Free ==
    /\ phase # "none"
    /\ \E t \in {RunAll(State, s2n_connection_free)} :
          IF t.ok THEN Becomes(t) /\ phase' = "none"
          ELSE Becomes(t) /\ phase' = "broken"
    /\ events' = {} /\ UNCHANGED <<limit, mode, uses, abandoned>>

(***************************************************************************)
(* A handler that fails ends the handshake, except that of a call of the   *)
(* application before it.                                                  *)
(***************************************************************************)
Once(e) == Repeats \/ e \notin events
Again == {"s2n_collect_client_hello"}     \* after a HelloRetryRequest
Handle(e) ==
    /\ phase \in {"new", "handshake"} /\ Cardinality(events) < MaxEvents /\ e \in Of(mode)
    /\ Once(e) \/ (e \in Again /\ "s2n_conn_reset_retry_values" \in events)
    /\ e = "s2n_cookie_recv" => Cookies
    /\ e = "s2n_quic_transport_params_recv" => "s2n_conn_reset_retry_values" \notin events
    /\ e \in {"s2n_connection_set_read_fd", "s2n_connection_set_write_fd"} =>
          Repeats \/ "set_ctx" \notin events
    /\ \E t \in {RunAll(State, Handler[e])} : Becomes(t)
    /\ phase' = "handshake" /\ events' = events \cup {e}
    /\ UNCHANGED <<limit, mode, uses, abandoned>>

(***************************************************************************)
(* The ClientHello after a HelloRetryRequest brings the transport          *)
(* parameters again.  s2n_conn_reset_retry_values has not freed those of   *)
(* the first one and s2n_alloc does not look: their block is lost, and     *)
(* also if the allocation then fails.                                      *)
(***************************************************************************)
Forgotten(f) == heap.live \cap {cell[f].data}
SecondHello ==
    /\ phase = "handshake" /\ "s2n_conn_reset_retry_values" \in events /\ "second_hello" \notin events
    /\ \E t \in {RunAll(State, s2n_quic_transport_params_recv)} : Becomes(t)
    /\ abandoned' = abandoned \cup Forgotten("peer_quic_transport_parameters")
    /\ events' = events \cup {"s2n_quic_transport_params_recv", "second_hello"}
    /\ UNCHANGED <<limit, mode, phase, uses>>

\* s2n_connection_set_recv_ctx with memory of the application.
SetRecvCtx ==
    /\ phase \in {"new", "handshake"} /\ Cardinality(events) < MaxEvents
    /\ Repeats \/ events \cap {"s2n_connection_set_read_fd", "s2n_connection_set_write_fd", "set_ctx"} = {}
    /\ cell' = [cell EXCEPT !["recv_io_context"] = [Empty EXCEPT !.data = UserBlock]]
    /\ phase' = "handshake" /\ events' = events \cup {"set_ctx"}
    /\ UNCHANGED <<heap, limit, mode, managed_io, uses, abandoned>>

\* s2n_negotiate at the end of the handshake: handshake.io is given up.
Negotiated ==
    /\ phase = "handshake"
    /\ \E t \in {RunAll(State, <<Call("s2n_stuffer_wipe", "handshake_io", 0), Call("s2n_stuffer_resize", "handshake_io", 0)>>)} :
          Becomes(t)
    /\ phase' = "done" /\ events' = {} /\ UNCHANGED <<limit, mode, uses, abandoned>>

FreeHandshake ==
    /\ phase = "done"
    /\ \E t \in {RunAll(State, s2n_connection_free_handshake)} : Becomes(t)
    /\ phase' = "slim" /\ UNCHANGED <<limit, mode, events, uses, abandoned>>

(***************************************************************************)
(* Records after the handshake (those in it use the buffers the same way). *)
(* conn->out is allocated anew when it has been freed (s2n_record_writev), *)
(* and s2n_connection_prefer_throughput leaves it alone then.              *)
(***************************************************************************)
Freed(f) == cell[f].data = NoBlock
Carry(e) ==
    /\ phase \in {"done", "slim"}
    /\ e = "s2n_read_full_record" => s2n_stuffer_is_consumed(State, "in") /\ cell["in"].w = 0
    /\ e = "s2n_record_write" => cell["out"].w = 0
    /\ e = "s2n_connection_prefer_throughput" => ~Freed("out") /\ cell["out"].size < Large + 1
    /\ \E t \in {RunAll(State, IF e = "s2n_record_write" /\ Freed("out")
                               THEN <<Call("s2n_stuffer_growable_alloc", "out", Large)>> \o Traffic[e]
                               ELSE Traffic[e])} : Becomes(t)
    /\ UNCHANGED <<limit, mode, phase, events, uses, abandoned>>

ConnectionsInit ==
    /\ heap = NoHeap /\ limit \in Limits
    /\ mode = "client" /\ phase = "none" /\ cell = NoCells /\ managed_io = FALSE
    /\ events = {} /\ uses = 0 /\ abandoned = {}

ConnectionsNext ==
    \/ New \/ Wipe \/ Free \/ SecondHello \/ SetRecvCtx \/ Negotiated \/ FreeHandshake
    \/ \E e \in DOMAIN Handler : Handle(e)
    \/ \E e \in DOMAIN Traffic : Carry(e)

-----------------------------------------------------------------------------
Holders(b) == {f \in Fields : cell[f].data = b}

(***************************************************************************)
(* Every block that is allocated is held by exactly one field of the       *)
(* connection, none is freed twice and none of the application's is freed: *)
(* whichever allocation failed on the way, and whether the connection was  *)
(* wiped, stripped or freed, in any order.  Two things are known to be     *)
(* lost: what a failed s2n_connection_new leaves behind, and the transport *)
(* parameters of a first ClientHello once the second one has come.         *)
(***************************************************************************)
NothingLost ==
    /\ ~heap.bad
    /\ \A b \in heap.live \ abandoned : Cardinality(Holders(b)) = 1
    /\ \A f \in Fields : cell[f].data \in heap.live \cup {NoBlock, UserBlock}

(***************************************************************************)
(* A connection that was wiped is as a new one: what its last handshake    *)
(* left or gave up (s2n_connection_free_handshake,                         *)
(* s2n_connection_release_buffers) is gone or there again.  The cookie     *)
(* stuffer is not, see the README.                                         *)
(***************************************************************************)
Shape(b) == [b EXCEPT !.data = <<>>, !.room = 0]
FreshCell(f) ==
    CASE f \in {"self", "hashes", "prf_space"} -> [Empty EXCEPT !.size = 1, !.growable = TRUE]
      [] f \in {"keys", "hmacs"} -> [Empty EXCEPT !.growable = TRUE]
      [] f = "handshake_io" -> [Empty EXCEPT !.size = Large, !.growable = TRUE, !.alloced = TRUE, !.sgrowable = TRUE]
      [] f \in {"in", "out", "raw_message"} -> [Empty EXCEPT !.alloced = TRUE, !.sgrowable = TRUE]
      [] OTHER -> Empty
Held(f) == f \in {"self", "hashes", "prf_space", "keys", "hmacs", "handshake_io"}

ReusedAsNew ==
    phase = "new" =>
        /\ ~managed_io
        /\ \A f \in Fields \ {"cookie_stuffer"} :
              Shape(cell[f]) = Shape(FreshCell(f)) /\ (Held(f) <=> ~Freed(f))
=============================================================================
