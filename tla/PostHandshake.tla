--------------------------- MODULE PostHandshake ---------------------------
(***************************************************************************)
(* An established TLS 1.3 connection between two s2n endpoints: s2n_send,  *)
(* s2n_recv, KeyUpdate messages, the encryption limit and the tickets the  *)
(* server sends after the handshake (tls/s2n_send.c, tls/s2n_recv.c,       *)
(* tls/s2n_key_update.c, tls/s2n_post_handshake.c,                         *)
(* tls/s2n_server_new_session_ticket.c, tls/s2n_tls13_handshake.c).        *)
(*                                                                         *)
(* A record is what decides whether the peer can open it: the generation   *)
(* of the traffic key and the sequence number that it was sealed with.     *)
(* s2n_send is cut at every s2n_flush, the only place where it may return  *)
(* to its caller half way; the reader of the same connection may run       *)
(* between any two of its steps.  s2n_shutdown is not part of this module. *)
(***************************************************************************)
EXTENDS Integers, Sequences, FiniteSets

CONSTANTS
    EncryptionLimit,   \* record_alg->encryption_limit
    UseTickets,        \* the server's config->use_tickets
    InitialTickets,    \* the server's config->initial_tickets_to_send
    Foreign,           \* endpoints that are not s2n: they may ask for updates
    MaxTickets,        \* bound on conn->tickets_to_send
    MaxGen,            \* bound on the number of key updates of a direction
    MaxSeq,            \* bound on the sequence numbers of a direction
    MaxWire            \* bound on the records a transport buffers

ASSUME LimitAssumption == EncryptionLimit \in Nat \ {0}
ASSUME TicketAssumption ==
    /\ UseTickets \in BOOLEAN
    /\ InitialTickets \in Nat
    /\ MaxTickets \in Nat
    /\ InitialTickets <= MaxTickets
ASSUME BoundAssumption == MaxGen \in Nat /\ MaxSeq \in Nat /\ MaxWire \in Nat

Endpoint == {"client", "server"}

ASSUME ForeignAssumption == Foreign \subseteq Endpoint

Peer(e) == IF e = "client" THEN "server" ELSE "client"

VARIABLES
    writeKey,      \* the writer's key: generation and next sequence number
    readKey,       \* the same for the reader
    pending,       \* conn->key_update_pending
    out,           \* conn->out: at most one sealed record
    wire,          \* wire[e]: what e's transport took and the peer has not read
    pc,            \* where the running s2n_send or s2n_negotiate of e is
    call,          \* which of the two it is
    closed,        \* conn->closed
    readError,     \* how s2n_recv failed
    writeError,    \* how s2n_send failed, other than by blocking
    ticketsToSend, \* the server's conn->tickets_to_send
    ticketsSent,   \* the server's conn->tickets_sent
    ticketsRecv,   \* tickets the client has processed
    io,            \* the server's conn->handshake.io, which holds the ticket
    ticketKey,     \* a key to encrypt tickets with is in its active period
    expired        \* the lifetime of the keying material is over

ticketVars == <<ticketsToSend, ticketsSent, ticketsRecv, io, ticketKey, expired>>
vars == <<writeKey, readKey, pending, out, wire, pc, call, closed, readError,
          writeError, ticketVars>>

Key == [gen : Nat, seq : Nat]
Record == [type : {"app", "ku", "nst"}, key : Key, request : BOOLEAN,
           parses : BOOLEAN]
Io == [tainted : BOOLEAN, partial : BOOLEAN, roomy : BOOLEAN]

(***************************************************************************)
(* A wiped and freed handshake.io: no residue, and no room.                *)
(***************************************************************************)
FreedIo == [tainted |-> FALSE, partial |-> FALSE, roomy |-> FALSE]

(***************************************************************************)
(* s2n_post_handshake_send runs for the first time at the end of           *)
(* s2n_negotiate, with what the handshake left of handshake.io: wiped, and *)
(* large enough for every ticket or not.                                   *)
(***************************************************************************)
Init ==
    /\ writeKey = [e \in Endpoint |-> [gen |-> 0, seq |-> 0]]
    /\ readKey = [e \in Endpoint |-> [gen |-> 0, seq |-> 0]]
    /\ pending = [e \in Endpoint |-> FALSE]
    /\ out = [e \in Endpoint |-> << >>]
    /\ wire = [e \in Endpoint |-> << >>]
    /\ pc = [e \in Endpoint |-> "ku"]
    /\ call = [e \in Endpoint |-> "negotiate"]
    /\ closed = [e \in Endpoint |-> FALSE]
    /\ readError = [e \in Endpoint |-> "none"]
    /\ writeError = [e \in Endpoint |-> "none"]
    /\ ticketsToSend = InitialTickets
    /\ ticketsSent = 0
    /\ ticketsRecv = 0
    /\ io \in {FreedIo, [FreedIo EXCEPT !.roomy = TRUE]}
    /\ ticketKey \in BOOLEAN
    /\ expired = FALSE

----------------------------------------------------------------------------
(* The record layer. *)

(***************************************************************************)
(* s2n_update_application_traffic_keys: the next generation, numbered from *)
(* zero.                                                                   *)
(***************************************************************************)
Update_NoReset(k) == [k EXCEPT !.gen = @ + 1]
Update_BeforeFirst(k) == [gen |-> k.gen + 1, seq |-> -1]
s2n_update_application_traffic_keys(k) == [gen |-> k.gen + 1, seq |-> 0]

(***************************************************************************)
(* s2n_increment_sequence_number, after a record was sealed or opened.     *)
(***************************************************************************)
Increment_Skipped(k) == k
s2n_increment_sequence_number(k) == [k EXCEPT !.seq = @ + 1]

Sealed(e, type, request, parses) ==
    [type |-> type, key |-> writeKey[e], request |-> request, parses |-> parses]

(***************************************************************************)
(* s2n_record_write followed by s2n_flush: the transport takes the record, *)
(* and the call goes on at next, or it would block, and the record stays   *)
(* in conn->out while S2N_ERR_IO_BLOCKED is returned to the caller.        *)
(***************************************************************************)
Flushed(e, rec, next) ==
    /\ Len(wire[e]) < MaxWire
    /\ wire' = [wire EXCEPT ![e] = Append(@, rec)]
    /\ pc' = [pc EXCEPT ![e] = next]
    /\ UNCHANGED out

Blocked(e, rec) ==
    /\ out' = [out EXCEPT ![e] = <<rec>>]
    /\ pc' = [pc EXCEPT ![e] = "idle"]
    /\ UNCHANGED wire

----------------------------------------------------------------------------
(* s2n_send. *)

(***************************************************************************)
(* The entry of s2n_sendv_with_offset_impl: refused on a closed            *)
(* connection; what an earlier call left in conn->out goes first.  A call  *)
(* that would block on it changes nothing.  A call with no data ends here. *)
(***************************************************************************)
Send_Undrained(e) ==
    /\ pc[e] = "idle" /\ ~closed[e]
    /\ pc' = [pc EXCEPT ![e] = "ku"]
    /\ call' = [call EXCEPT ![e] = "send"]
    /\ UNCHANGED <<writeKey, readKey, pending, out, wire, closed, readError,
                   writeError, ticketVars>>

s2n_send(e) ==
    /\ pc[e] = "idle"
    /\ ~closed[e]
    /\ Len(wire[e]) + Len(out[e]) <= MaxWire
    /\ wire' = [wire EXCEPT ![e] = @ \o out[e]]
    /\ out' = [out EXCEPT ![e] = << >>]
    /\ \E next \in {"ku", "idle"} : pc' = [pc EXCEPT ![e] = next]
    /\ call' = [call EXCEPT ![e] = "send"]
    /\ UNCHANGED <<writeKey, readKey, pending, closed, readError, writeError,
                   ticketVars>>

(***************************************************************************)
(* s2n_check_record_limit: the record that would be sealed next is beyond  *)
(* the limit of the key.                                                   *)
(***************************************************************************)
s2n_check_record_limit(e) == writeKey[e].seq + 1 > EncryptionLimit

(***************************************************************************)
(* s2n_key_update_send.  The update is sealed with the old key and the key *)
(* changes before the record is flushed.                                   *)
(***************************************************************************)
KeyUpdateSend_KeyFirst(e) ==
    /\ pc[e] = "ku"
    /\ UNCHANGED <<readKey, call, closed, readError, writeError, ticketVars>>
    /\ IF pending[e] \/ s2n_check_record_limit(e)
       THEN LET k == s2n_update_application_traffic_keys(writeKey[e])
                rec == [Sealed(e, "ku", FALSE, TRUE) EXCEPT !.key = k]
            IN  /\ writeKey[e].gen < MaxGen
                /\ writeKey' = [writeKey EXCEPT ![e] = k]
                /\ pending' = [pending EXCEPT ![e] = FALSE]
                /\ Flushed(e, rec, "nst") \/ Blocked(e, rec)
       ELSE /\ pc' = [pc EXCEPT ![e] = "nst"]
            /\ UNCHANGED <<writeKey, pending, wire, out>>

s2n_key_update_send(e) ==
    /\ pc[e] = "ku"
    /\ UNCHANGED <<readKey, call, closed, readError, writeError, ticketVars>>
    /\ \/ /\ pending[e] \/ s2n_check_record_limit(e)
          /\ writeKey[e].gen < MaxGen
          /\ writeKey' = [writeKey EXCEPT
                            ![e] = s2n_update_application_traffic_keys(@)]
          /\ pending' = [pending EXCEPT ![e] = FALSE]
          /\ LET rec == Sealed(e, "ku", FALSE, TRUE)
             IN  Flushed(e, rec, "nst") \/ Blocked(e, rec)
       \/ /\ ~pending[e] /\ ~s2n_check_record_limit(e)
          /\ pc' = [pc EXCEPT ![e] = "nst"]
          /\ UNCHANGED <<writeKey, pending, wire, out>>

(***************************************************************************)
(* s2n_stuffer_resize refuses a tainted stuffer: the call that needed it   *)
(* fails.                                                                  *)
(***************************************************************************)
ResizeFails(e) ==
    /\ writeError' = [writeError EXCEPT ![e] = "resize_tainted"]
    /\ pc' = [pc EXCEPT ![e] = "idle"]

(***************************************************************************)
(* s2n_tls13_server_nst_send returns: s2n_send goes on to seal its data,   *)
(* s2n_negotiate frees handshake.io and ends.  buf is handshake.io as      *)
(* s2n_tls13_server_nst_send leaves it.                                    *)
(***************************************************************************)
NstSendReturns(e, buf) ==
    \/ /\ call[e] = "send"
       /\ pc' = [pc EXCEPT ![e] = "app"]
       /\ io' = buf
       /\ UNCHANGED writeError
    \/ /\ call[e] = "negotiate"
       /\ ~buf.tainted
       /\ pc' = [pc EXCEPT ![e] = "idle"]
       /\ io' = FreedIo
       /\ UNCHANGED writeError
    \/ /\ call[e] = "negotiate"
       /\ buf.tainted
       /\ ResizeFails(e)
       /\ io' = buf

(***************************************************************************)
(* s2n_tls13_server_nst_send up to its loop.                               *)
(***************************************************************************)
s2n_tls13_server_nst_send(e) ==
    LET sends == e = "server" /\ UseTickets
        allSent == ticketsToSend = ticketsSent
        noSpace == (io.tainted \/ io.partial) /\ ~io.roomy
    IN
    /\ pc[e] = "nst"
    /\ UNCHANGED <<writeKey, readKey, pending, out, wire, call, closed, readError,
                   ticketsSent, ticketsRecv, ticketKey, expired>>
    /\ \/ /\ ~sends
          /\ IF e = "server"
             THEN NstSendReturns(e, io)
             ELSE /\ pc' = [pc EXCEPT ![e] = IF call[e] = "send" THEN "app"
                                                                 ELSE "idle"]
                  /\ UNCHANGED <<io, writeError>>
          /\ UNCHANGED ticketsToSend
       \/ /\ sends /\ allSent /\ io.tainted
          /\ ResizeFails(e)
          /\ UNCHANGED <<io, ticketsToSend>>
       \/ /\ sends /\ allSent /\ ~io.tainted
          /\ NstSendReturns(e, FreedIo)
          /\ UNCHANGED ticketsToSend
       \/ /\ sends /\ ~allSent /\ expired
          /\ ticketsToSend' = ticketsSent
          /\ NstSendReturns(e, io)
       \/ /\ sends /\ ~allSent /\ ~expired /\ noSpace /\ io.tainted
          /\ ResizeFails(e)
          /\ UNCHANGED <<io, ticketsToSend>>
       \/ /\ sends /\ ~allSent /\ ~expired /\ ~(noSpace /\ io.tainted)
          /\ pc' = [pc EXCEPT ![e] = "nst_loop"]
          /\ UNCHANGED <<io, ticketsToSend, writeError>>

(***************************************************************************)
(* One turn of the loop of s2n_tls13_server_nst_send.  Without a ticket    *)
(* key s2n_tls13_server_nst_write fails half way, which is not an error,   *)
(* and what it wrote stays at the front of handshake.io; the next record   *)
(* starts with it.  The ticket is counted before the record is flushed;    *)
(* only a flush that succeeds wipes handshake.io.                          *)
(***************************************************************************)
NstLoop_CountedAfterFlush(e) ==
    /\ pc[e] = "nst_loop" /\ ticketsSent < ticketsToSend /\ ticketKey
    /\ writeKey[e].seq < MaxSeq
    /\ writeKey' = [writeKey EXCEPT ![e] = s2n_increment_sequence_number(@)]
    /\ LET rec == Sealed(e, "nst", FALSE, ~io.partial)
       IN  \/ /\ Flushed(e, rec, "nst_loop")
              /\ ticketsSent' = ticketsSent + 1
              /\ io' = [io EXCEPT !.tainted = FALSE, !.partial = FALSE]
           \/ /\ Blocked(e, rec)
              /\ UNCHANGED ticketsSent
              /\ io' = [io EXCEPT !.tainted = TRUE, !.partial = FALSE]
    /\ UNCHANGED writeError

NstLoop_OneMore(e) ==
    /\ pc[e] = "nst_loop" /\ ticketsSent <= ticketsToSend /\ ticketKey
    /\ writeKey[e].seq < MaxSeq
    /\ ticketsSent' = ticketsSent + 1
    /\ writeKey' = [writeKey EXCEPT ![e] = s2n_increment_sequence_number(@)]
    /\ Flushed(e, Sealed(e, "nst", FALSE, ~io.partial), "nst_loop")
    /\ io' = [io EXCEPT !.tainted = FALSE, !.partial = FALSE]
    /\ UNCHANGED writeError

NstWritten(e) ==
    /\ pc[e] = "nst_loop" /\ ticketsSent < ticketsToSend /\ ticketKey
    /\ writeKey[e].seq < MaxSeq
    /\ ticketsSent' = ticketsSent + 1
    /\ writeKey' = [writeKey EXCEPT ![e] = s2n_increment_sequence_number(@)]
    /\ LET rec == Sealed(e, "nst", FALSE, ~io.partial)
       IN  \/ /\ Flushed(e, rec, "nst_loop")
              /\ io' = [io EXCEPT !.tainted = FALSE, !.partial = FALSE]
           \/ /\ Blocked(e, rec)
              /\ io' = [io EXCEPT !.tainted = TRUE, !.partial = FALSE]
    /\ UNCHANGED writeError

NstNotWritten(e) ==
    /\ pc[e] = "nst_loop"
    /\ \/ /\ ticketsSent < ticketsToSend /\ ~ticketKey
          /\ NstSendReturns(e, [io EXCEPT !.partial = TRUE])
       \/ /\ ticketsSent >= ticketsToSend
          /\ NstSendReturns(e, FreedIo)
    /\ UNCHANGED <<writeKey, out, wire, ticketsSent>>

NstLoop(e) ==
    /\ NstWritten(e) \/ NstNotWritten(e)
    /\ UNCHANGED <<readKey, pending, call, closed, readError,
                   ticketsToSend, ticketsRecv, ticketKey, expired>>

(***************************************************************************)
(* The rest of a turn of the loop of s2n_sendv_with_offset_impl: seal a    *)
(* fragment and flush it; more data takes another turn.                    *)
(***************************************************************************)
SendFragment(e) ==
    /\ pc[e] = "app"
    /\ writeKey[e].seq < MaxSeq
    /\ writeKey' = [writeKey EXCEPT ![e] = s2n_increment_sequence_number(@)]
    /\ LET rec == Sealed(e, "app", FALSE, TRUE)
       IN  Flushed(e, rec, "ku") \/ Flushed(e, rec, "idle") \/ Blocked(e, rec)
    /\ UNCHANGED <<readKey, pending, call, closed, readError, writeError,
                   ticketVars>>

----------------------------------------------------------------------------
(* s2n_recv. *)

(***************************************************************************)
(* A record that does not open, or whose content is refused, fails         *)
(* s2n_recv; error blinding then kills the connection.                     *)
(***************************************************************************)
RecvFails(e, error) ==
    /\ readError' = [readError EXCEPT ![e] = error]
    /\ closed' = [closed EXCEPT ![e] = TRUE]
    /\ UNCHANGED <<readKey, pending, ticketsRecv>>

(***************************************************************************)
(* s2n_key_update_recv: the flag of the peer replaces key_update_pending.  *)
(***************************************************************************)
s2n_key_update_recv(e, r) ==
    /\ pending' = [pending EXCEPT ![e] = r.request]
    /\ readKey' = [readKey EXCEPT ![e] = s2n_update_application_traffic_keys(@)]
    /\ UNCHANGED <<closed, readError, ticketsRecv>>

s2n_tls13_server_nst_recv(e) ==
    /\ readKey' = [readKey EXCEPT ![e] = s2n_increment_sequence_number(@)]
    /\ ticketsRecv' = ticketsRecv + 1
    /\ UNCHANGED <<closed, readError, pending>>

(***************************************************************************)
(* s2n_post_handshake_recv, of the one message the record r holds.         *)
(***************************************************************************)
s2n_post_handshake_recv(e, r) ==
    \/ /\ r.type = "ku"
       /\ s2n_key_update_recv(e, r)
    \/ /\ r.type = "nst" /\ r.parses /\ e = "client"
       /\ s2n_tls13_server_nst_recv(e)
    \/ /\ r.type = "nst" /\ ~(r.parses /\ e = "client")
       /\ RecvFails(e, "bad_message")

(***************************************************************************)
(* s2n_recv_impl on one record: s2n_read_full_record opens it, then        *)
(* s2n_post_handshake_recv or the caller gets its content.                 *)
(***************************************************************************)
s2n_recv(e) ==
    /\ ~closed[e]
    /\ wire[Peer(e)] # << >>
    /\ wire' = [wire EXCEPT ![Peer(e)] = Tail(@)]
    /\ LET r == Head(wire[Peer(e)]) IN
       \/ /\ r.key # readKey[e]
          /\ RecvFails(e, "decrypt")
       \/ /\ r.key = readKey[e] /\ r.type = "app"
          /\ readKey' = [readKey EXCEPT ![e] = s2n_increment_sequence_number(@)]
          /\ UNCHANGED <<pending, closed, readError, ticketsRecv>>
       \/ /\ r.key = readKey[e]
          /\ s2n_post_handshake_recv(e, r)
    /\ UNCHANGED <<writeKey, out, pc, call, writeError, ticketsToSend, ticketsSent,
                   io, ticketKey, expired>>

----------------------------------------------------------------------------
(* The application, time, and peers that are not s2n. *)

(***************************************************************************)
(* s2n_connection_add_new_tickets_to_send.                                 *)
(***************************************************************************)
s2n_connection_add_new_tickets_to_send ==
    /\ ~expired
    /\ \E num \in 1 .. MaxTickets :
          /\ ticketsToSend + num <= MaxTickets
          /\ ticketsToSend' = ticketsToSend + num
    /\ UNCHANGED <<writeKey, readKey, pending, out, wire, pc, call, closed,
                   readError, writeError, ticketsSent, ticketsRecv, io, ticketKey,
                   expired>>

(***************************************************************************)
(* Ticket keys come into their active period and leave it; keying material *)
(* expires for good.                                                       *)
(***************************************************************************)
TicketKeyChanges ==
    /\ ticketKey' = ~ticketKey
    /\ UNCHANGED <<writeKey, readKey, pending, out, wire, pc, call, closed,
                   readError, writeError, ticketsToSend, ticketsSent, ticketsRecv,
                   io, expired>>

KeyingMaterialExpires ==
    /\ ~expired
    /\ expired' = TRUE
    /\ UNCHANGED <<writeKey, readKey, pending, out, wire, pc, call, closed,
                   readError, writeError, ticketsToSend, ticketsSent, ticketsRecv,
                   io, ticketKey>>

(***************************************************************************)
(* RFC 8446 lets a peer ask for a key update in return; s2n never does.    *)
(***************************************************************************)
ForeignKeyUpdate(e) ==
    /\ e \in Foreign
    /\ pc[e] = "idle" /\ ~closed[e] /\ out[e] = << >>
    /\ writeKey[e].gen < MaxGen
    /\ Flushed(e, Sealed(e, "ku", TRUE, TRUE), "idle")
    /\ writeKey' = [writeKey EXCEPT ![e] = s2n_update_application_traffic_keys(@)]
    /\ UNCHANGED <<readKey, pending, call, closed, readError, writeError,
                   ticketVars>>

----------------------------------------------------------------------------

Next ==
    \/ \E e \in Endpoint :
          \/ s2n_send(e)
          \/ s2n_key_update_send(e)
          \/ s2n_tls13_server_nst_send(e)
          \/ NstLoop(e)
          \/ SendFragment(e)
          \/ s2n_recv(e)
          \/ ForeignKeyUpdate(e)
    \/ s2n_connection_add_new_tickets_to_send
    \/ TicketKeyChanges
    \/ KeyingMaterialExpires

Spec == Init /\ [][Next]_vars

----------------------------------------------------------------------------
(* What the connection promises. *)

(***************************************************************************)
(* Records e has sealed and its peer has not opened, oldest first.         *)
(***************************************************************************)
Pipe(e) == wire[e] \o out[e]

(***************************************************************************)
(* Every variable keeps its type; conn->out holds at most one record.      *)
(***************************************************************************)
TypeOK ==
    /\ writeKey \in [Endpoint -> Key]
    /\ readKey \in [Endpoint -> Key]
    /\ pending \in [Endpoint -> BOOLEAN]
    /\ out \in [Endpoint -> Seq(Record)]
    /\ \A e \in Endpoint : Len(out[e]) <= 1
    /\ wire \in [Endpoint -> Seq(Record)]
    /\ pc \in [Endpoint -> {"idle", "ku", "nst", "nst_loop", "app"}]
    /\ call \in [Endpoint -> {"negotiate", "send"}]
    /\ closed \in [Endpoint -> BOOLEAN]
    /\ readError \in [Endpoint -> {"none", "decrypt", "bad_message"}]
    /\ writeError \in [Endpoint -> {"none", "resize_tainted"}]
    /\ ticketsToSend \in Nat
    /\ ticketsSent \in Nat
    /\ ticketsRecv \in Nat
    /\ io \in Io
    /\ ticketKey \in BOOLEAN
    /\ expired \in BOOLEAN

(***************************************************************************)
(* s2n_record_writev never finds conn->out undrained                       *)
(* (S2N_ERR_RECORD_STUFFER_NEEDS_DRAINING): whatever blocked earlier was   *)
(* flushed before the call got to seal anything.                           *)
(***************************************************************************)
DrainedBeforeSealing == \A e \in Endpoint : pc[e] # "idle" => out[e] = << >>

(***************************************************************************)
(* The two ends agree on the key of every record, whatever the             *)
(* interleaving of key updates in both directions, blocked flushes,        *)
(* retries and tickets: s2n_recv never fails to decrypt.                   *)
(***************************************************************************)
EveryRecordDecrypts == \A e \in Endpoint : readError[e] # "decrypt"

(***************************************************************************)
(* s2n_check_record_limit bounds the use of a key.  The client seals no    *)
(* data beyond encryption_limit; the server may exceed it by the tickets   *)
(* that s2n_post_handshake_send seals after the check.                     *)
(***************************************************************************)
KeyUsageBounded ==
    \A e \in Endpoint :
        writeKey[e].seq <= EncryptionLimit + IF e = "server" THEN MaxTickets ELSE 0

(***************************************************************************)
(* A pair of generation and sequence number seals at most one record: a    *)
(* step that seals a record moves the writer's key past the one it used,   *)
(* and no step moves it back.                                              *)
(***************************************************************************)
Later(k, l) == l.gen > k.gen \/ (l.gen = k.gen /\ l.seq > k.seq)
SealsOnce(e) ==
    /\ writeKey'[e] = writeKey[e] \/ Later(writeKey[e], writeKey'[e])
    /\ Len(Pipe(e)') > Len(Pipe(e)) => Later(writeKey[e], writeKey'[e])
AllSealOnce == \A e \in Endpoint : SealsOnce(e)
NonceNeverReused == [][AllSealOnce]_vars

(***************************************************************************)
(* While the client reads, a ticket that the server counts in tickets_sent *)
(* was processed by the client, is on its way or waits in conn->out: a     *)
(* blocked flush and the retry neither lose nor repeat a ticket.           *)
(***************************************************************************)
Tickets(q) == Cardinality({i \in 1 .. Len(q) : q[i].type = "nst"})
TicketAccounting ==
    ~closed["client"] => ticketsSent = ticketsRecv + Tickets(Pipe("server"))

(***************************************************************************)
(* The loop of s2n_tls13_server_nst_send subtracts tickets_sent from       *)
(* tickets_to_send, both unsigned: it never has sent more than it was      *)
(* asked to, through blocked sends, expiry and new requests.               *)
(***************************************************************************)
TicketsWithinRequest == ticketsSent <= ticketsToSend

(***************************************************************************)
(* A send that blocked can be repeated until it succeeds: s2n_send never   *)
(* fails for another reason.  (Refuted: see the README.)                   *)
(***************************************************************************)
RetriedSendSucceeds == \A e \in Endpoint : writeError[e] = "none"

(***************************************************************************)
(* The records the server puts its tickets in are messages the client      *)
(* accepts.  (Refuted: see the README.)                                    *)
(***************************************************************************)
TicketsAccepted == readError["client"] # "bad_message"
============================================================================
