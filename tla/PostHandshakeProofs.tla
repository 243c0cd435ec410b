------------------------ MODULE PostHandshakeProofs ------------------------
(***************************************************************************)
(* Proofs about PostHandshake, for every encryption limit, every number of *)
(* tickets and every bound.                                                *)
(***************************************************************************)
EXTENDS PostHandshake, SequenceTheorems, FunctionTheorems,
        FiniteSetTheorems, TLAPS

(***************************************************************************)
(* Every variable of the connection keeps its type, and conn->out never    *)
(* holds two records, because a call drains it before it seals one.        *)
(***************************************************************************)
TypeInv == TypeOK /\ DrainedBeforeSealing

LEMMA IoTypes ==
    /\ FreedIo \in Io
    /\ [FreedIo EXCEPT !.roomy = TRUE] \in Io
    /\ \A b \in Io : /\ b.tainted \in BOOLEAN /\ b.partial \in BOOLEAN
                    /\ [b EXCEPT !.partial = TRUE] \in Io
                    /\ \A t \in BOOLEAN :
                          [b EXCEPT !.tainted = t, !.partial = FALSE] \in Io
BY DEF FreedIo, Io

LEMMA TypeInit == Init => TypeInv
<1> SUFFICES ASSUME Init PROVE TypeInv
  OBVIOUS
<1>1. io \in Io
  BY IoTypes DEF Init
<1>2. [gen |-> 0, seq |-> 0] \in Key
  BY DEF Key
<1>3. /\ writeKey \in [Endpoint -> Key]
      /\ readKey \in [Endpoint -> Key]
      /\ ticketsToSend \in Nat /\ ticketsSent \in Nat /\ ticketsRecv \in Nat
  BY <1>2, TicketAssumption DEF Init
<1>4. << >> \in Seq(Record) /\ Len(<< >>) = 0
  OBVIOUS
<1>5. /\ out \in [Endpoint -> Seq(Record)]
      /\ wire \in [Endpoint -> Seq(Record)]
      /\ \A e \in Endpoint : Len(out[e]) <= 1 /\ out[e] = << >>
  BY <1>4 DEF Init
<1>6. /\ pending \in [Endpoint -> BOOLEAN]
      /\ closed \in [Endpoint -> BOOLEAN]
      /\ ticketKey \in BOOLEAN
      /\ expired \in BOOLEAN
  BY DEF Init
<1>7. /\ pc \in [Endpoint -> {"idle", "ku", "nst", "nst_loop", "app"}]
      /\ call \in [Endpoint -> {"negotiate", "send"}]
      /\ readError \in [Endpoint -> {"none", "decrypt", "bad_message"}]
      /\ writeError \in [Endpoint -> {"none", "resize_tainted"}]
  BY DEF Init
<1> QED BY <1>1, <1>3, <1>5, <1>6, <1>7 DEF TypeInv, TypeOK, DrainedBeforeSealing

(***************************************************************************)
(* What the return of s2n_tls13_server_nst_send may change.                *)
(***************************************************************************)
LEMMA ReturnTypes ==
    ASSUME TypeInv, NEW e \in Endpoint, NEW buf \in Io,
           NstSendReturns(e, buf)
    PROVE  /\ pc' \in [Endpoint -> {"idle", "ku", "nst", "nst_loop", "app"}]
           /\ \A f \in Endpoint : f # e => pc'[f] = pc[f]
           /\ writeError' \in [Endpoint -> {"none", "resize_tainted"}]
           /\ io' \in Io
BY IoTypes DEF NstSendReturns, ResizeFails, TypeInv, TypeOK

LEMMA KeyTypes ==
    ASSUME NEW k \in Key
    PROVE  /\ s2n_update_application_traffic_keys(k) \in Key
           /\ s2n_increment_sequence_number(k) \in Key
BY DEF Key, s2n_update_application_traffic_keys, s2n_increment_sequence_number

LEMMA SealedType ==
    ASSUME TypeInv, NEW e \in Endpoint, NEW type \in {"app", "ku", "nst"},
           NEW request \in BOOLEAN, NEW parses \in BOOLEAN
    PROVE  Sealed(e, type, request, parses) \in Record
BY DEF TypeInv, TypeOK, Sealed, Record

LEMMA FlushedType ==
    ASSUME TypeInv, NEW e \in Endpoint, NEW rec \in Record,
           NEW next \in {"idle", "ku", "nst", "nst_loop", "app"},
           out[e] = << >>,
           Flushed(e, rec, next) \/ Blocked(e, rec)
    PROVE  /\ wire' \in [Endpoint -> Seq(Record)]
           /\ out' \in [Endpoint -> Seq(Record)]
           /\ \A f \in Endpoint : Len(out'[f]) <= 1
           /\ pc' \in [Endpoint -> {"idle", "ku", "nst", "nst_loop", "app"}]
           /\ \A f \in Endpoint : pc'[f] # "idle" => out'[f] = << >>
<1>1. CASE Flushed(e, rec, next)
  BY <1>1 DEF TypeInv, TypeOK, Flushed, DrainedBeforeSealing
<1>2. CASE Blocked(e, rec)
  <2>1. <<rec>> \in Seq(Record) /\ Len(<<rec>>) = 1
    OBVIOUS
  <2> QED BY <1>2, <2>1 DEF TypeInv, TypeOK, Blocked, DrainedBeforeSealing
<1> QED BY <1>1, <1>2

LEMMA TypeNext == TypeInv /\ [Next]_vars => TypeInv'
<1> SUFFICES ASSUME TypeInv, [Next]_vars PROVE TypeInv'
  OBVIOUS
<1> USE DEF TypeInv
<1>0. CASE UNCHANGED vars
  BY <1>0 DEF vars, ticketVars, TypeOK, DrainedBeforeSealing
<1>1. ASSUME NEW e \in Endpoint, s2n_send(e) PROVE TypeInv'
  <2>1. wire[e] \o out[e] \in Seq(Record) /\ << >> \in Seq(Record)
    BY DEF TypeOK
  <2> QED BY <1>1, <2>1 DEF s2n_send, TypeOK, DrainedBeforeSealing, ticketVars
<1>2. ASSUME NEW e \in Endpoint, s2n_key_update_send(e) PROVE TypeInv'
  <2>1. CASE pc' = [pc EXCEPT ![e] = "nst"] /\ UNCHANGED <<writeKey, pending, wire, out>>
    BY <1>2, <2>1
       DEF s2n_key_update_send, TypeOK, DrainedBeforeSealing, ticketVars
  <2>2. CASE /\ writeKey' = [writeKey EXCEPT ![e] = s2n_update_application_traffic_keys(@)]
             /\ pending' = [pending EXCEPT ![e] = FALSE]
             /\ \/ Flushed(e, Sealed(e, "ku", FALSE, TRUE), "nst")
                \/ Blocked(e, Sealed(e, "ku", FALSE, TRUE))
    <3>1. out[e] = << >>
      BY <1>2 DEF s2n_key_update_send, DrainedBeforeSealing
    <3>2. Sealed(e, "ku", FALSE, TRUE) \in Record
      BY SealedType
    <3>3. s2n_update_application_traffic_keys(writeKey[e]) \in Key
      BY KeyTypes DEF TypeOK
    <3>4. writeKey' \in [Endpoint -> Key] /\ pending' \in [Endpoint -> BOOLEAN]
      BY <2>2, <3>3 DEF TypeOK
    <3>5. /\ wire' \in [Endpoint -> Seq(Record)]
          /\ out' \in [Endpoint -> Seq(Record)]
          /\ \A f \in Endpoint : Len(out'[f]) <= 1
          /\ pc' \in [Endpoint -> {"idle", "ku", "nst", "nst_loop", "app"}]
          /\ \A f \in Endpoint : pc'[f] # "idle" => out'[f] = << >>
      BY <2>2, <3>1, <3>2, FlushedType
    <3> QED BY <1>2, <3>4, <3>5
            DEF s2n_key_update_send, TypeOK, DrainedBeforeSealing, ticketVars
  <2> QED BY <1>2, <2>1, <2>2 DEF s2n_key_update_send
<1>3. ASSUME NEW e \in Endpoint, s2n_tls13_server_nst_send(e) PROVE TypeInv'
  <2>1. out[e] = << >>
    BY <1>3 DEF s2n_tls13_server_nst_send, DrainedBeforeSealing
  <2>2. FreedIo \in Io /\ io \in Io
    BY IoTypes DEF TypeOK
  <2>3. /\ pc' \in [Endpoint -> {"idle", "ku", "nst", "nst_loop", "app"}]
        /\ \A f \in Endpoint : f # e => pc'[f] = pc[f]
        /\ writeError' \in [Endpoint -> {"none", "resize_tainted"}]
        /\ io' \in Io
    <3>1. CASE NstSendReturns(e, io) \/ NstSendReturns(e, FreedIo)
      BY <2>2, <3>1, ReturnTypes
    <3>2. CASE ResizeFails(e) /\ UNCHANGED io
      BY <2>2, <3>2 DEF ResizeFails, TypeOK
    <3>3. CASE /\ \E next \in {"app", "idle", "nst_loop"} :
                     pc' = [pc EXCEPT ![e] = next]
               /\ UNCHANGED <<io, writeError>>
      BY <2>2, <3>3 DEF TypeOK
    <3> QED BY <1>3, <3>1, <3>2, <3>3 DEF s2n_tls13_server_nst_send
  <2>4. ticketsToSend' \in Nat
    BY <1>3 DEF s2n_tls13_server_nst_send, TypeOK
  <2> QED BY <1>3, <2>1, <2>3, <2>4
          DEF s2n_tls13_server_nst_send, TypeOK, DrainedBeforeSealing
<1>4. ASSUME NEW e \in Endpoint, NstLoop(e) PROVE TypeInv'
  <2>1. CASE NstWritten(e)
    <3>1. out[e] = << >>
      BY <2>1 DEF NstWritten, DrainedBeforeSealing
    <3>2. Sealed(e, "nst", FALSE, ~io.partial) \in Record
      BY SealedType DEF TypeOK, Io
    <3>3. s2n_increment_sequence_number(writeKey[e]) \in Key
      BY KeyTypes DEF TypeOK
    <3>4. /\ writeKey' \in [Endpoint -> Key]
          /\ ticketsSent' \in Nat
          /\ UNCHANGED writeError
      BY <2>1, <3>3 DEF NstWritten, TypeOK
    <3>6. io' \in Io
      <4>1. /\ [io EXCEPT !.tainted = FALSE, !.partial = FALSE] \in Io
            /\ [io EXCEPT !.tainted = TRUE, !.partial = FALSE] \in Io
        BY IoTypes DEF TypeOK
      <4> QED BY <2>1, <4>1 DEF NstWritten
    <3>5. /\ wire' \in [Endpoint -> Seq(Record)]
          /\ out' \in [Endpoint -> Seq(Record)]
          /\ \A f \in Endpoint : Len(out'[f]) <= 1
          /\ pc' \in [Endpoint -> {"idle", "ku", "nst", "nst_loop", "app"}]
          /\ \A f \in Endpoint : pc'[f] # "idle" => out'[f] = << >>
      BY <2>1, <3>1, <3>2, FlushedType DEF NstWritten
    <3> QED BY <1>4, <3>4, <3>5, <3>6 DEF NstLoop, TypeOK, DrainedBeforeSealing
  <2>2. CASE NstNotWritten(e)
    <3>1. out[e] = << >>
      BY <2>2 DEF NstNotWritten, DrainedBeforeSealing
    <3>2. /\ pc' \in [Endpoint -> {"idle", "ku", "nst", "nst_loop", "app"}]
          /\ \A f \in Endpoint : f # e => pc'[f] = pc[f]
          /\ writeError' \in [Endpoint -> {"none", "resize_tainted"}]
          /\ io' \in Io
      <4>1. FreedIo \in Io /\ [io EXCEPT !.partial = TRUE] \in Io
        BY IoTypes DEF TypeOK
      <4> QED BY <2>2, <4>1, ReturnTypes DEF NstNotWritten
    <3> QED BY <1>4, <2>2, <3>1, <3>2
            DEF NstLoop, NstNotWritten, TypeOK, DrainedBeforeSealing
  <2> QED BY <1>4, <2>1, <2>2 DEF NstLoop
<1>5. ASSUME NEW e \in Endpoint, SendFragment(e) PROVE TypeInv'
  <2>1. out[e] = << >>
    BY <1>5 DEF SendFragment, DrainedBeforeSealing
  <2>2. Sealed(e, "app", FALSE, TRUE) \in Record
    BY SealedType
  <2>3. s2n_increment_sequence_number(writeKey[e]) \in Key
    BY KeyTypes DEF TypeOK
  <2>4. writeKey' \in [Endpoint -> Key]
    BY <1>5, <2>3 DEF SendFragment, TypeOK
  <2>5. /\ wire' \in [Endpoint -> Seq(Record)]
        /\ out' \in [Endpoint -> Seq(Record)]
        /\ \A f \in Endpoint : Len(out'[f]) <= 1
        /\ pc' \in [Endpoint -> {"idle", "ku", "nst", "nst_loop", "app"}]
        /\ \A f \in Endpoint : pc'[f] # "idle" => out'[f] = << >>
    BY <1>5, <2>1, <2>2, FlushedType DEF SendFragment
  <2> QED BY <1>5, <2>4, <2>5
          DEF SendFragment, TypeOK, DrainedBeforeSealing, ticketVars
<1>6. ASSUME NEW e \in Endpoint, s2n_recv(e) PROVE TypeInv'
  <2>1. Peer(e) \in Endpoint
    BY DEF Peer, Endpoint
  <2>2. /\ wire[Peer(e)] \in Seq(Record)
        /\ wire[Peer(e)] # << >>
    BY <1>6, <2>1 DEF s2n_recv, s2n_post_handshake_recv, TypeOK
  <2>3. Tail(wire[Peer(e)]) \in Seq(Record) /\ Head(wire[Peer(e)]) \in Record
    BY <2>2
  <2>4. /\ s2n_increment_sequence_number(readKey[e]) \in Key
        /\ s2n_update_application_traffic_keys(readKey[e]) \in Key
    BY KeyTypes DEF TypeOK
  <2>5. wire' \in [Endpoint -> Seq(Record)]
    BY <1>6, <2>1, <2>3 DEF s2n_recv, s2n_post_handshake_recv, TypeOK
  <2>6. Head(wire[Peer(e)]).request \in BOOLEAN
    BY <2>3 DEF Record
  <2>7. /\ readKey' \in [Endpoint -> Key] /\ pending' \in [Endpoint -> BOOLEAN]
        /\ closed' \in [Endpoint -> BOOLEAN] /\ ticketsRecv' \in Nat
        /\ readError' \in [Endpoint -> {"none", "decrypt", "bad_message"}]
    <3>1. CASE RecvFails(e, "decrypt") \/ RecvFails(e, "bad_message")
      BY <3>1 DEF RecvFails, TypeOK
    <3>2. CASE s2n_key_update_recv(e, Head(wire[Peer(e)]))
      BY <2>4, <2>6, <3>2 DEF s2n_key_update_recv, TypeOK
    <3>3. CASE s2n_tls13_server_nst_recv(e)
      BY <2>4, <3>3 DEF s2n_tls13_server_nst_recv, TypeOK
    <3>4. CASE /\ readKey' = [readKey EXCEPT ![e] = s2n_increment_sequence_number(@)]
               /\ UNCHANGED <<pending, closed, readError, ticketsRecv>>
      BY <2>4, <3>4 DEF TypeOK
    <3> QED BY <1>6, <3>1, <3>2, <3>3, <3>4 DEF s2n_recv, s2n_post_handshake_recv
  <2> QED BY <1>6, <2>5, <2>7 DEF s2n_recv, s2n_post_handshake_recv, TypeOK, DrainedBeforeSealing
<1>7. ASSUME NEW e \in Endpoint, ForeignKeyUpdate(e) PROVE TypeInv'
  <2>1. Sealed(e, "ku", TRUE, TRUE) \in Record
    BY SealedType
  <2>2. s2n_update_application_traffic_keys(writeKey[e]) \in Key
    BY KeyTypes DEF TypeOK
  <2>3. writeKey' \in [Endpoint -> Key]
    BY <1>7, <2>2 DEF ForeignKeyUpdate, TypeOK
  <2>4. out[e] = << >> /\ Flushed(e, Sealed(e, "ku", TRUE, TRUE), "idle")
    BY <1>7 DEF ForeignKeyUpdate
  <2>5. /\ wire' \in [Endpoint -> Seq(Record)]
        /\ out' \in [Endpoint -> Seq(Record)]
        /\ \A f \in Endpoint : Len(out'[f]) <= 1
        /\ pc' \in [Endpoint -> {"idle", "ku", "nst", "nst_loop", "app"}]
        /\ \A f \in Endpoint : pc'[f] # "idle" => out'[f] = << >>
    BY <2>1, <2>4, FlushedType
  <2> QED BY <1>7, <2>3, <2>5
          DEF ForeignKeyUpdate, TypeOK, DrainedBeforeSealing, ticketVars
<1>8. CASE s2n_connection_add_new_tickets_to_send
  BY <1>8 DEF s2n_connection_add_new_tickets_to_send, TypeOK, DrainedBeforeSealing
<1>9. CASE TicketKeyChanges
  BY <1>9 DEF TicketKeyChanges, TypeOK, DrainedBeforeSealing
<1>10. CASE KeyingMaterialExpires
  BY <1>10 DEF KeyingMaterialExpires, TypeOK, DrainedBeforeSealing
<1> QED BY <1>0, <1>1, <1>2, <1>3, <1>4, <1>5, <1>6, <1>7, <1>8, <1>9, <1>10 DEF Next

(***************************************************************************)
(* The variables of PostHandshake keep their types.                        *)
(***************************************************************************)
THEOREM TypeCorrect == Spec => []TypeOK
<1>1. TypeInv => TypeOK
  BY DEF TypeInv
<1> QED BY <1>1, TypeInit, TypeNext, PTL DEF Spec

(***************************************************************************)
(* s2n_record_writev never finds conn->out undrained.                      *)
(***************************************************************************)
THEOREM AlwaysDrained == Spec => []DrainedBeforeSealing
<1>1. TypeInv => DrainedBeforeSealing
  BY DEF TypeInv
<1> QED BY <1>1, TypeInit, TypeNext, PTL DEF Spec

----------------------------------------------------------------------------
(* The use of a key. *)

(***************************************************************************)
(* Between the check of the limit and the end of the call an endpoint has  *)
(* sealed nothing but tickets, so that the tickets sent so far bound what  *)
(* the server may exceed the limit by; the client never gets to the loop.  *)
(***************************************************************************)
Slack(e) == IF e = "server" THEN ticketsSent ELSE 0

UsageInv ==
    /\ ticketsSent <= ticketsToSend
    /\ ticketsToSend <= MaxTickets
    /\ \A e \in Endpoint :
          /\ writeKey[e].seq <= EncryptionLimit + Slack(e)
          /\ pc[e] \in {"nst", "nst_loop", "app"} =>
                writeKey[e].seq < EncryptionLimit + Slack(e)
          /\ pc[e] = "nst_loop" => e = "server"

LEMMA UsageInit == Init => UsageInv
BY TicketAssumption, LimitAssumption DEF Init, UsageInv, Slack, Endpoint

LEMMA UsageNext == TypeInv /\ UsageInv /\ [Next]_vars => UsageInv'
<1> SUFFICES ASSUME TypeInv, UsageInv, [Next]_vars PROVE UsageInv'
  OBVIOUS
<1>t. /\ writeKey \in [Endpoint -> [gen : Nat, seq : Nat]]
      /\ pc \in [Endpoint -> {"idle", "ku", "nst", "nst_loop", "app"}]
      /\ ticketsToSend \in Nat /\ ticketsSent \in Nat
      /\ EncryptionLimit \in Nat /\ EncryptionLimit > 0 /\ MaxTickets \in Nat
  BY LimitAssumption, TicketAssumption DEF TypeInv, TypeOK, Key
<1> USE <1>t
<1>0. CASE UNCHANGED vars
  BY <1>0 DEF vars, ticketVars, UsageInv, Slack
<1>1. ASSUME NEW e \in Endpoint, s2n_send(e) PROVE UsageInv'
  BY <1>1 DEF s2n_send, UsageInv, Slack, ticketVars
<1>2. ASSUME NEW e \in Endpoint, s2n_key_update_send(e) PROVE UsageInv'
  <2>1. CASE ~pending[e] /\ ~s2n_check_record_limit(e)
    <3>1. /\ UNCHANGED <<writeKey, ticketsSent, ticketsToSend>>
          /\ pc' = [pc EXCEPT ![e] = "nst"]
      BY <1>2, <2>1 DEF s2n_key_update_send, ticketVars
    <3>2. writeKey[e].seq < EncryptionLimit
      BY <2>1 DEF s2n_check_record_limit
    <3> QED BY <3>1, <3>2 DEF UsageInv, Slack
  <2>2. CASE pending[e] \/ s2n_check_record_limit(e)
    <3>1. /\ UNCHANGED <<ticketsSent, ticketsToSend>>
          /\ writeKey' = [writeKey EXCEPT ![e] = s2n_update_application_traffic_keys(@)]
          /\ \E next \in {"nst", "idle"} : pc' = [pc EXCEPT ![e] = next]
      BY <1>2, <2>2 DEF s2n_key_update_send, Flushed, Blocked, ticketVars
    <3>2. writeKey'[e].seq = 0
      BY <3>1 DEF s2n_update_application_traffic_keys
    <3>3. \A f \in Endpoint : f # e => writeKey'[f] = writeKey[f] /\ pc'[f] = pc[f]
      BY <3>1
    <3>4. pc'[e] # "nst_loop"
      BY <3>1
    <3> QED BY <3>1, <3>2, <3>3, <3>4 DEF UsageInv, Slack
  <2> QED BY <2>1, <2>2
<1>3. ASSUME NEW e \in Endpoint, s2n_tls13_server_nst_send(e) PROVE UsageInv'
  <2>1. /\ UNCHANGED <<writeKey, ticketsSent>>
        /\ ticketsToSend' \in {ticketsToSend, ticketsSent}
        /\ pc[e] = "nst"
        /\ \/ \E next \in {"idle", "app"} : pc' = [pc EXCEPT ![e] = next]
           \/ e = "server" /\ pc' = [pc EXCEPT ![e] = "nst_loop"]
    BY <1>3 DEF s2n_tls13_server_nst_send, NstSendReturns, ResizeFails
  <2> QED BY <2>1 DEF UsageInv, Slack
<1>4. ASSUME NEW e \in Endpoint, NstLoop(e) PROVE UsageInv'
  <2>1. CASE NstWritten(e)
    <3>1. /\ ticketsSent' = ticketsSent + 1 /\ ticketsSent < ticketsToSend
          /\ UNCHANGED ticketsToSend
          /\ pc[e] = "nst_loop"
          /\ writeKey' = [writeKey EXCEPT ![e] = s2n_increment_sequence_number(@)]
          /\ \E next \in {"nst_loop", "idle"} : pc' = [pc EXCEPT ![e] = next]
      BY <1>4, <2>1 DEF NstLoop, NstWritten, Flushed, Blocked
    <3>2. writeKey'[e].seq = writeKey[e].seq + 1
      BY <3>1 DEF s2n_increment_sequence_number
    <3>3. \A f \in Endpoint : f # e => writeKey'[f] = writeKey[f] /\ pc'[f] = pc[f]
      BY <3>1
    <3>4. e = "server"
      BY <3>1 DEF UsageInv
    <3> QED BY <3>1, <3>2, <3>3, <3>4 DEF UsageInv, Slack
  <2>2. CASE NstNotWritten(e)
    BY <1>4, <2>2 DEF NstLoop, NstNotWritten, NstSendReturns, ResizeFails,
                      UsageInv, Slack
  <2> QED BY <1>4, <2>1, <2>2 DEF NstLoop
<1>5. ASSUME NEW e \in Endpoint, SendFragment(e) PROVE UsageInv'
  <2>1. /\ UNCHANGED <<ticketsSent, ticketsToSend>>
        /\ pc[e] = "app"
        /\ writeKey' = [writeKey EXCEPT ![e] = s2n_increment_sequence_number(@)]
        /\ \E next \in {"ku", "idle"} : pc' = [pc EXCEPT ![e] = next]
    BY <1>5 DEF SendFragment, Flushed, Blocked, ticketVars
  <2>2. writeKey'[e].seq = writeKey[e].seq + 1
    BY <2>1 DEF s2n_increment_sequence_number
  <2>3. \A f \in Endpoint : f # e => writeKey'[f] = writeKey[f] /\ pc'[f] = pc[f]
    BY <2>1
  <2> QED BY <2>1, <2>2, <2>3 DEF UsageInv, Slack
<1>6. ASSUME NEW e \in Endpoint, s2n_recv(e) PROVE UsageInv'
  BY <1>6 DEF s2n_recv, s2n_post_handshake_recv, UsageInv, Slack
<1>7. ASSUME NEW e \in Endpoint, ForeignKeyUpdate(e) PROVE UsageInv'
  BY <1>7 DEF ForeignKeyUpdate, Flushed, s2n_update_application_traffic_keys,
              UsageInv, Slack, ticketVars
<1>8. CASE s2n_connection_add_new_tickets_to_send
  BY <1>8 DEF s2n_connection_add_new_tickets_to_send, UsageInv, Slack
<1>9. CASE TicketKeyChanges
  BY <1>9 DEF TicketKeyChanges, UsageInv, Slack
<1>10. CASE KeyingMaterialExpires
  BY <1>10 DEF KeyingMaterialExpires, UsageInv, Slack
<1> QED BY <1>0, <1>1, <1>2, <1>3, <1>4, <1>5, <1>6, <1>7, <1>8, <1>9, <1>10 DEF Next

(***************************************************************************)
(* The encryption limit is exceeded by tickets only, and by no more than   *)
(* the server was asked to send.                                           *)
(***************************************************************************)
THEOREM UsageIsBounded == Spec => []KeyUsageBounded
<1>1. TypeInv /\ UsageInv => KeyUsageBounded
  BY LimitAssumption, TicketAssumption
     DEF TypeInv, TypeOK, Key, UsageInv, Slack, KeyUsageBounded, Endpoint
<1> QED BY <1>1, TypeInit, TypeNext, UsageInit, UsageNext, PTL DEF Spec

(***************************************************************************)
(* The unsigned difference of tickets_to_send and tickets_sent never wraps *)
(* around.                                                                 *)
(***************************************************************************)
THEOREM TicketsAreWithinRequest == Spec => []TicketsWithinRequest
<1>1. UsageInv => TicketsWithinRequest
  BY DEF UsageInv, TicketsWithinRequest
<1> QED BY <1>1, TypeInit, TypeNext, UsageInit, UsageNext, PTL DEF Spec

----------------------------------------------------------------------------
(* Agreement on keys. *)

(***************************************************************************)
(* The key the reader has once it has opened a record.                     *)
(***************************************************************************)
After(r) == IF r.type = "ku" THEN s2n_update_application_traffic_keys(r.key)
                             ELSE s2n_increment_sequence_number(r.key)

(***************************************************************************)
(* The records of q take a reader with key k to the key l of the writer.   *)
(***************************************************************************)
Chain(q, k, l) ==
    /\ q = << >> => k = l
    /\ q # << >> => q[1].key = k /\ After(q[Len(q)]) = l
    /\ \A i \in 1 .. Len(q) - 1 : q[i + 1].key = After(q[i])

(***************************************************************************)
(* In either direction, until the reader gives up, what is in flight takes *)
(* the reader's key to the writer's.                                       *)
(***************************************************************************)
ChainInv ==
    \A e \in Endpoint :
        ~closed[Peer(e)] => Chain(Pipe(e), readKey[Peer(e)], writeKey[e])

LEMMA ChainAppend ==
    ASSUME NEW q \in Seq(Record), NEW rec \in Record, NEW k, NEW l,
           Chain(q, k, l), rec.key = l
    PROVE  Chain(Append(q, rec), k, After(rec))
<1> DEFINE p == Append(q, rec)
<1>1. /\ Len(q) \in Nat
      /\ Len(p) = Len(q) + 1
      /\ p[Len(q) + 1] = rec
      /\ \A i \in 1 .. Len(q) : p[i] = q[i]
      /\ p # << >>
  OBVIOUS
<1> HIDE DEF p
<1>2. p[1].key = k
  <2>1. CASE q = << >>
    BY <1>1, <2>1 DEF Chain
  <2>2. CASE q # << >>
    <3>1. Len(q) >= 1
      BY <2>2
    <3> QED BY <1>1, <2>2, <3>1 DEF Chain
  <2> QED BY <2>1, <2>2
<1>3. After(p[Len(p)]) = After(rec)
  BY <1>1
<1>4. ASSUME NEW i \in 1 .. Len(p) - 1 PROVE p[i + 1].key = After(p[i])
  <2>1. CASE i = Len(q)
    <3>1. q # << >>
      BY <1>1, <1>4, <2>1
    <3>2. After(q[Len(q)]) = l
      BY <3>1 DEF Chain
    <3> QED BY <1>1, <1>4, <2>1, <3>2
  <2>2. CASE i # Len(q)
    <3>1. i \in 1 .. Len(q) - 1 /\ i + 1 \in 1 .. Len(q) /\ i \in 1 .. Len(q)
      BY <1>1, <1>4, <2>2
    <3> QED BY <1>1, <3>1 DEF Chain
  <2> QED BY <2>1, <2>2
<1> QED BY <1>1, <1>2, <1>3, <1>4 DEF Chain, p

LEMMA ChainTail ==
    ASSUME NEW q \in Seq(Record), q # << >>, NEW k, NEW l, Chain(q, k, l)
    PROVE  /\ Head(q).key = k
           /\ Chain(Tail(q), After(Head(q)), l)
<1> DEFINE p == Tail(q)
<1>1. /\ Len(q) \in Nat /\ Len(q) >= 1
      /\ Len(p) = Len(q) - 1
      /\ \A i \in 1 .. Len(p) : p[i] = q[i + 1]
      /\ Head(q) = q[1]
      /\ p \in Seq(Record)
  OBVIOUS
<1> HIDE DEF p
<1>6. p = << >> <=> Len(p) = 0
  BY <1>1
<1>2. Head(q).key = k
  BY <1>1 DEF Chain
<1>3. p = << >> => After(Head(q)) = l
  BY <1>1, <1>6 DEF Chain
<1>4. p # << >> => p[1].key = After(Head(q)) /\ After(p[Len(p)]) = l
  <2> HAVE p # << >>
  <2>1. Len(p) >= 1 /\ 1 \in 1 .. Len(q) - 1 /\ Len(p) + 1 = Len(q)
    BY <1>1, <1>6
  <2>2. p[1] = q[1 + 1] /\ p[Len(p)] = q[Len(q)]
    BY <1>1, <2>1
  <2>3. q[1 + 1].key = After(q[1]) /\ After(q[Len(q)]) = l
    BY <2>1 DEF Chain
  <2> QED BY <1>1, <2>2, <2>3
<1>5. \A i \in 1 .. Len(p) - 1 : p[i + 1].key = After(p[i])
  <2> SUFFICES ASSUME NEW i \in 1 .. Len(p) - 1 PROVE p[i + 1].key = After(p[i])
    OBVIOUS
  <2>1. i + 1 \in 1 .. Len(q) - 1 /\ i \in 1 .. Len(p) /\ i + 1 \in 1 .. Len(p)
    BY <1>1
  <2>2. q[(i + 1) + 1].key = After(q[i + 1])
    BY <2>1 DEF Chain
  <2> QED BY <1>1, <2>1, <2>2
<1> QED BY <1>2, <1>3, <1>4, <1>5 DEF Chain, p

(***************************************************************************)
(* Sealing and flushing, in terms of what is in flight.                    *)
(***************************************************************************)
LEMMA ConcatOne ==
    ASSUME NEW q \in Seq(Record), NEW rec \in Record
    PROVE  q \o <<rec>> = Append(q, rec)
<1>1. <<rec>> \in Seq(Record) /\ Append(q, rec) \in Seq(Record) /\ Len(q) \in Nat
  OBVIOUS
<1>2. q \o <<rec>> \in Seq(Record) /\ Len(q \o <<rec>>) = Len(q) + 1
  BY <1>1, ConcatProperties
<1>3. Len(Append(q, rec)) = Len(q) + 1
  OBVIOUS
<1>4. ASSUME NEW i \in 1 .. Len(q) + 1 PROVE (q \o <<rec>>)[i] = Append(q, rec)[i]
  OBVIOUS
<1> QED BY <1>1, <1>2, <1>3, <1>4, SeqEqual

LEMMA ConcatTail ==
    ASSUME NEW q \in Seq(Record), NEW r \in Seq(Record), q # << >>
    PROVE  /\ q \o r # << >>
           /\ Head(q \o r) = Head(q)
           /\ Tail(q \o r) = Tail(q) \o r
<1> DEFINE s == q \o r
           t == Tail(q)
<1>1. /\ Len(q) \in Nat \ {0} /\ Len(r) \in Nat
      /\ t \in Seq(Record) /\ Len(t) = Len(q) - 1
      /\ \A i \in 1 .. Len(t) : t[i] = q[i + 1]
  BY HeadTailProperties, EmptySeq, LenProperties
<1>2. /\ s \in Seq(Record) /\ Len(s) = Len(q) + Len(r)
      /\ \A i \in 1 .. Len(q) + Len(r) :
            s[i] = IF i <= Len(q) THEN q[i] ELSE r[i - Len(q)]
  BY ConcatProperties
<1>3. /\ t \o r \in Seq(Record) /\ Len(t \o r) = Len(t) + Len(r)
      /\ \A i \in 1 .. Len(t) + Len(r) :
            (t \o r)[i] = IF i <= Len(t) THEN t[i] ELSE r[i - Len(t)]
  BY <1>1, ConcatProperties
<1>4. s # << >>
  BY <1>1, <1>2, EmptySeq
<1> HIDE DEF s, t
<1>5. /\ Tail(s) \in Seq(Record) /\ Len(Tail(s)) = Len(s) - 1
      /\ \A i \in 1 .. Len(Tail(s)) : Tail(s)[i] = s[i + 1]
  BY <1>2, <1>4, HeadTailProperties
<1>6. Len(Tail(s)) = Len(t \o r)
  BY <1>1, <1>2, <1>3, <1>5
<1>7. ASSUME NEW i \in 1 .. Len(Tail(s)) PROVE Tail(s)[i] = (t \o r)[i]
  <2>1. i + 1 \in 1 .. Len(q) + Len(r) /\ i \in 1 .. Len(t) + Len(r)
    BY <1>1, <1>2, <1>5
  <2>2. Tail(s)[i] = IF i + 1 <= Len(q) THEN q[i + 1] ELSE r[i + 1 - Len(q)]
    BY <1>2, <1>5, <2>1
  <2>3. (t \o r)[i] = IF i <= Len(t) THEN t[i] ELSE r[i - Len(t)]
    BY <1>3, <2>1
  <2> QED BY <1>1, <2>1, <2>2, <2>3
<1>8. Tail(s) = t \o r
  BY <1>3, <1>5, <1>6, <1>7, SeqEqual
<1>9. Head(s) = Head(q)
  <2>1. Head(s) = s[1] /\ Head(q) = q[1]
    BY <1>2, <1>4
  <2> QED BY <1>1, <1>2, <2>1
<1> QED BY <1>4, <1>8, <1>9 DEF s, t

Keeps(e) == Pipe(e)' = Pipe(e) /\ writeKey'[e] = writeKey[e]

Seals(e) == \E rec \in Record : /\ rec.key = writeKey[e]
                                /\ Pipe(e)' = Append(Pipe(e), rec)
                                /\ writeKey'[e] = After(rec)

LEMMA PipeSealed ==
    ASSUME TypeInv, NEW e \in Endpoint, NEW rec \in Record, NEW next,
           out[e] = << >>,
           Flushed(e, rec, next) \/ Blocked(e, rec)
    PROVE  /\ Pipe(e)' = Append(Pipe(e), rec)
           /\ \A f \in Endpoint : f # e => Pipe(f)' = Pipe(f)
<1>t. wire \in [Endpoint -> Seq(Record)] /\ out \in [Endpoint -> Seq(Record)]
  BY DEF TypeInv, TypeOK
<1>1. Pipe(e) = wire[e]
  BY <1>t, ConcatEmptySeq DEF Pipe
<1>2. CASE Flushed(e, rec, next)
  <2>1. wire'[e] = Append(wire[e], rec) /\ out'[e] = << >>
    BY <1>t, <1>2 DEF Flushed
  <2>2. Append(wire[e], rec) \in Seq(Record)
    BY <1>t
  <2>3. Append(wire[e], rec) \o << >> = Append(wire[e], rec)
    BY <2>2, ConcatEmptySeq
  <2> QED BY <1>t, <1>1, <1>2, <2>1, <2>3 DEF Flushed, Pipe
<1>3. CASE Blocked(e, rec)
  <2>1. wire'[e] = wire[e] /\ out'[e] = <<rec>>
    BY <1>t, <1>3 DEF Blocked
  <2>2. wire[e] \o <<rec>> = Append(wire[e], rec)
    BY <1>t, ConcatOne
  <2> QED BY <1>t, <1>1, <1>3, <2>1, <2>2 DEF Blocked, Pipe
<1> QED BY <1>2, <1>3

(***************************************************************************)
(* A step either lets a reader open a record or leaves the readers alone,  *)
(* and then each writer seals one record with its key or none.             *)
(***************************************************************************)
WriterStep ==
    /\ UNCHANGED <<readKey, closed, readError>>
    /\ \A f \in Endpoint : Keeps(f) \/ Seals(f)

LEMMA StepShape ==
    ASSUME TypeInv, [Next]_vars
    PROVE  (\E e \in Endpoint : s2n_recv(e)) \/ WriterStep
<1>t. /\ wire \in [Endpoint -> Seq(Record)] /\ out \in [Endpoint -> Seq(Record)]
      /\ writeKey \in [Endpoint -> Key]
  BY DEF TypeInv, TypeOK
<1>a. ASSUME UNCHANGED <<wire, out, writeKey>> PROVE \A f \in Endpoint : Keeps(f)
  BY <1>a DEF Keeps, Pipe
<1>b. ASSUME NEW e \in Endpoint, NEW rec \in Record, NEW next, out[e] = << >>,
             Flushed(e, rec, next) \/ Blocked(e, rec),
             rec.key = writeKey[e],
             writeKey' = [writeKey EXCEPT ![e] = After(rec)]
      PROVE  \A f \in Endpoint : Keeps(f) \/ Seals(f)
  <2>1. Pipe(e)' = Append(Pipe(e), rec) /\ \A f \in Endpoint : f # e => Pipe(f)' = Pipe(f)
    BY <1>b, PipeSealed
  <2>2. Seals(e)
    BY <1>t, <1>b, <2>1 DEF Seals
  <2>3. \A f \in Endpoint : f # e => Keeps(f)
    BY <1>t, <1>b, <2>1 DEF Keeps
  <2> QED BY <2>2, <2>3
<1>0. CASE UNCHANGED vars
  BY <1>0, <1>a DEF vars, WriterStep
<1>1. ASSUME NEW e \in Endpoint, s2n_send(e) PROVE WriterStep
  <2>1. /\ wire'[e] = wire[e] \o out[e] /\ out'[e] = << >>
        /\ \A f \in Endpoint : f # e => wire'[f] = wire[f] /\ out'[f] = out[f]
        /\ UNCHANGED <<writeKey, readKey, closed, readError>>
    BY <1>t, <1>1 DEF s2n_send
  <2>2. wire[e] \o out[e] \in Seq(Record)
    BY <1>t, ConcatProperties
  <2>3. (wire[e] \o out[e]) \o << >> = wire[e] \o out[e]
    BY <2>2, ConcatEmptySeq
  <2>4. \A f \in Endpoint : Pipe(f)' = Pipe(f)
    BY <2>1, <2>3 DEF Pipe
  <2> QED BY <2>1, <2>4 DEF WriterStep, Keeps
<1>2. ASSUME NEW e \in Endpoint, s2n_key_update_send(e) PROVE WriterStep
  <2> DEFINE rec == Sealed(e, "ku", FALSE, TRUE)
  <2>1. rec \in Record /\ rec.key = writeKey[e] /\ rec.type = "ku"
    BY SealedType DEF Sealed
  <2>2. out[e] = << >>
    BY <1>2 DEF s2n_key_update_send, TypeInv, DrainedBeforeSealing
  <2>3. \/ UNCHANGED <<writeKey, wire, out>>
        \/ /\ writeKey' = [writeKey EXCEPT ![e] = s2n_update_application_traffic_keys(@)]
           /\ Flushed(e, rec, "nst") \/ Blocked(e, rec)
    BY <1>2 DEF s2n_key_update_send
  <2>4. After(rec) = s2n_update_application_traffic_keys(writeKey[e])
    BY <2>1 DEF After
  <2> HIDE DEF rec
  <2>5. \A f \in Endpoint : Keeps(f) \/ Seals(f)
    BY <1>a, <1>b, <2>1, <2>2, <2>3, <2>4
  <2> QED BY <1>2, <2>5 DEF s2n_key_update_send, WriterStep
<1>3. ASSUME NEW e \in Endpoint, s2n_tls13_server_nst_send(e) PROVE WriterStep
  BY <1>3, <1>a DEF s2n_tls13_server_nst_send, WriterStep
<1>4. ASSUME NEW e \in Endpoint, NstLoop(e) PROVE WriterStep
  <2>1. CASE NstNotWritten(e)
    BY <1>4, <1>a, <2>1 DEF NstLoop, NstNotWritten, WriterStep
  <2>2. CASE NstWritten(e)
    <3> DEFINE rec == Sealed(e, "nst", FALSE, ~io.partial)
    <3>1. rec \in Record
      <4>1. (~io.partial) \in BOOLEAN
        BY IoTypes DEF TypeInv, TypeOK
      <4> QED BY <4>1, SealedType
    <3>2. rec.key = writeKey[e] /\ rec.type = "nst"
      BY DEF Sealed
    <3>3. out[e] = << >>
      BY <2>2 DEF NstWritten, TypeInv, DrainedBeforeSealing
    <3>4. /\ writeKey' = [writeKey EXCEPT ![e] = s2n_increment_sequence_number(@)]
          /\ Flushed(e, rec, "nst_loop") \/ Blocked(e, rec)
      BY <2>2 DEF NstWritten
    <3>5. After(rec) = s2n_increment_sequence_number(writeKey[e])
      BY <3>2 DEF After
    <3> HIDE DEF rec
    <3>6. \A f \in Endpoint : Keeps(f) \/ Seals(f)
      BY <1>b, <3>1, <3>2, <3>3, <3>4, <3>5
    <3> QED BY <1>4, <3>6 DEF NstLoop, WriterStep
  <2> QED BY <1>4, <2>1, <2>2 DEF NstLoop
<1>5. ASSUME NEW e \in Endpoint, SendFragment(e) PROVE WriterStep
  <2> DEFINE rec == Sealed(e, "app", FALSE, TRUE)
  <2>1. rec \in Record /\ rec.key = writeKey[e] /\ rec.type = "app"
    BY SealedType DEF Sealed
  <2>2. out[e] = << >>
    BY <1>5 DEF SendFragment, TypeInv, DrainedBeforeSealing
  <2>3. /\ writeKey' = [writeKey EXCEPT ![e] = s2n_increment_sequence_number(@)]
        /\ \E next : Flushed(e, rec, next) \/ Blocked(e, rec)
    BY <1>5 DEF SendFragment
  <2>4. After(rec) = s2n_increment_sequence_number(writeKey[e])
    BY <2>1 DEF After
  <2> HIDE DEF rec
  <2>5. \A f \in Endpoint : Keeps(f) \/ Seals(f)
    BY <1>b, <2>1, <2>2, <2>3, <2>4
  <2> QED BY <1>5, <2>5 DEF SendFragment, WriterStep
<1>7. ASSUME NEW e \in Endpoint, ForeignKeyUpdate(e) PROVE WriterStep
  <2> DEFINE rec == Sealed(e, "ku", TRUE, TRUE)
  <2>1. rec \in Record /\ rec.key = writeKey[e] /\ rec.type = "ku"
    BY SealedType DEF Sealed
  <2>2. /\ out[e] = << >>
        /\ writeKey' = [writeKey EXCEPT ![e] = s2n_update_application_traffic_keys(@)]
        /\ Flushed(e, rec, "idle")
    BY <1>7 DEF ForeignKeyUpdate
  <2>3. After(rec) = s2n_update_application_traffic_keys(writeKey[e])
    BY <2>1 DEF After
  <2> HIDE DEF rec
  <2>4. \A f \in Endpoint : Keeps(f) \/ Seals(f)
    BY <1>b, <2>1, <2>2, <2>3
  <2> QED BY <1>7, <2>4 DEF ForeignKeyUpdate, WriterStep
<1>8. CASE s2n_connection_add_new_tickets_to_send
  BY <1>8, <1>a DEF s2n_connection_add_new_tickets_to_send, WriterStep
<1>9. CASE TicketKeyChanges
  BY <1>9, <1>a DEF TicketKeyChanges, WriterStep
<1>10. CASE KeyingMaterialExpires
  BY <1>10, <1>a DEF KeyingMaterialExpires, WriterStep
<1> QED BY <1>0, <1>1, <1>2, <1>3, <1>4, <1>5, <1>7, <1>8, <1>9, <1>10 DEF Next

LEMMA ReaderStep ==
    ASSUME TypeInv, NEW e \in Endpoint, s2n_recv(e)
    PROVE  LET p == Peer(e)  r == Head(Pipe(p)) IN
           /\ p \in Endpoint /\ Peer(p) = e /\ p # e
           /\ ~closed[e]
           /\ Pipe(p) # << >>
           /\ Pipe(p)' = Tail(Pipe(p))
           /\ Pipe(e)' = Pipe(e)
           /\ UNCHANGED writeKey
           /\ readKey'[p] = readKey[p] /\ closed'[p] = closed[p]
           /\ readError'[p] = readError[p]
           /\ \/ r.key # readKey[e]
              \/ closed'[e] /\ readError'[e] = "bad_message"
              \/ /\ r.key = readKey[e]
                 /\ readKey'[e] = After(r)
                 /\ readError'[e] = readError[e]
<1> DEFINE p == Peer(e)
           r == Head(wire[p])
<1>t. /\ wire \in [Endpoint -> Seq(Record)] /\ out \in [Endpoint -> Seq(Record)]
      /\ readKey \in [Endpoint -> Key]
      /\ closed \in [Endpoint -> BOOLEAN]
      /\ readError \in [Endpoint -> {"none", "decrypt", "bad_message"}]
  BY DEF TypeInv, TypeOK
<1>1. p \in Endpoint /\ Peer(p) = e /\ p # e
  BY DEF Peer, Endpoint
<1> HIDE DEF p
<1>2. /\ wire[p] # << >> /\ ~closed[e]
      /\ wire' = [wire EXCEPT ![p] = Tail(@)]
      /\ UNCHANGED <<writeKey, out>>
  BY <1>1 DEF s2n_recv, s2n_post_handshake_recv, p
<1>3. /\ Pipe(p) # << >> /\ Head(Pipe(p)) = r /\ Tail(Pipe(p)) = Tail(wire[p]) \o out[p]
  BY <1>t, <1>1, <1>2, ConcatTail DEF Pipe
<1>4. Pipe(p)' = Tail(Pipe(p)) /\ Pipe(e)' = Pipe(e)
  BY <1>t, <1>1, <1>2, <1>3 DEF Pipe
<1>5. r \in Record
  BY <1>t, <1>1, <1>2
<1>6. \/ r.key # readKey[e] /\ RecvFails(e, "decrypt")
      \/ r.key = readKey[e] /\ RecvFails(e, "bad_message")
      \/ /\ r.key = readKey[e] /\ r.type = "ku"
         /\ s2n_key_update_recv(e, r)
      \/ /\ r.key = readKey[e] /\ r.type \in {"app", "nst"}
         /\ readKey' = [readKey EXCEPT ![e] = s2n_increment_sequence_number(@)]
         /\ UNCHANGED <<closed, readError>>
  BY DEF s2n_recv, s2n_post_handshake_recv, s2n_tls13_server_nst_recv, p
<1> HIDE DEF r
<1>7. /\ readKey'[p] = readKey[p] /\ closed'[p] = closed[p]
      /\ readError'[p] = readError[p]
  BY <1>t, <1>1, <1>6 DEF RecvFails, s2n_key_update_recv
<1>8. \/ r.key # readKey[e]
      \/ closed'[e] /\ readError'[e] = "bad_message"
      \/ /\ r.key = readKey[e]
         /\ readKey'[e] = After(r)
         /\ readError'[e] = readError[e]
  <2>1. CASE r.key = readKey[e] /\ RecvFails(e, "bad_message")
    BY <1>t, <2>1 DEF RecvFails
  <2>2. CASE r.key = readKey[e] /\ r.type = "ku" /\ s2n_key_update_recv(e, r)
    BY <1>t, <2>2 DEF s2n_key_update_recv, After
  <2>3. CASE /\ r.key = readKey[e] /\ r.type \in {"app", "nst"}
             /\ readKey' = [readKey EXCEPT ![e] = s2n_increment_sequence_number(@)]
             /\ UNCHANGED <<closed, readError>>
    BY <1>t, <2>3 DEF After
  <2> QED BY <1>6, <2>1, <2>2, <2>3
<1> QED BY <1>1, <1>2, <1>3, <1>4, <1>7, <1>8 DEF p

(***************************************************************************)
(* The inductive invariant: agreement on the key of every record in        *)
(* flight, from which the reader's head record always opens.               *)
(***************************************************************************)
AgreeInv == ChainInv /\ EveryRecordDecrypts

LEMMA PipeType == TypeInv => \A e \in Endpoint : Pipe(e) \in Seq(Record)
<1> SUFFICES ASSUME TypeInv, NEW e \in Endpoint PROVE Pipe(e) \in Seq(Record)
  OBVIOUS
<1>1. wire[e] \in Seq(Record) /\ out[e] \in Seq(Record)
  BY DEF TypeInv, TypeOK
<1> QED BY <1>1, ConcatProperties DEF Pipe

LEMMA AgreeInit == Init => AgreeInv
<1> SUFFICES ASSUME Init PROVE AgreeInv
  OBVIOUS
<1>1. \A e \in Endpoint : Peer(e) \in Endpoint
  BY DEF Peer, Endpoint
<1>2. << >> \o << >> = << >> /\ Len(<< >>) = 0
  OBVIOUS
<1>3. ASSUME NEW e \in Endpoint PROVE Chain(Pipe(e), readKey[Peer(e)], writeKey[e])
  <2>1. Pipe(e) = << >> /\ readKey[Peer(e)] = writeKey[e]
    BY <1>1, <1>2 DEF Init, Pipe
  <2> QED BY <1>2, <2>1 DEF Chain
<1>4. EveryRecordDecrypts
  BY DEF Init, EveryRecordDecrypts
<1> QED BY <1>3, <1>4 DEF AgreeInv, ChainInv

LEMMA AgreeNext == TypeInv /\ AgreeInv /\ [Next]_vars => AgreeInv'
<1> SUFFICES ASSUME TypeInv, AgreeInv, [Next]_vars PROVE AgreeInv'
  OBVIOUS
<1>t. \A e \in Endpoint : Peer(e) \in Endpoint
  BY DEF Peer, Endpoint
<1>1. CASE WriterStep
  <2>1. ASSUME NEW f \in Endpoint, ~closed'[Peer(f)]
        PROVE  Chain(Pipe(f)', readKey'[Peer(f)], writeKey'[f])
    <3>1. /\ readKey'[Peer(f)] = readKey[Peer(f)]
          /\ Chain(Pipe(f), readKey[Peer(f)], writeKey[f])
      BY <1>1, <2>1 DEF WriterStep, AgreeInv, ChainInv
    <3>2. CASE Keeps(f)
      BY <3>1, <3>2 DEF Keeps
    <3>3. CASE Seals(f)
      <4>1. PICK rec \in Record : /\ rec.key = writeKey[f]
                                  /\ Pipe(f)' = Append(Pipe(f), rec)
                                  /\ writeKey'[f] = After(rec)
        BY <3>3 DEF Seals
      <4>2. Chain(Append(Pipe(f), rec), readKey[Peer(f)], After(rec))
        BY <3>1, <4>1, PipeType, ChainAppend
      <4> QED BY <3>1, <4>1, <4>2
    <3> QED BY <1>1, <3>2, <3>3 DEF WriterStep
  <2>2. EveryRecordDecrypts'
    BY <1>1 DEF WriterStep, AgreeInv, EveryRecordDecrypts
  <2> QED BY <2>1, <2>2 DEF AgreeInv, ChainInv
<1>2. ASSUME NEW e \in Endpoint, s2n_recv(e) PROVE AgreeInv'
  <2> DEFINE p == Peer(e)
             r == Head(Pipe(p))
  <2>1. /\ p \in Endpoint /\ Peer(p) = e /\ p # e
        /\ ~closed[e]
        /\ Pipe(p) # << >>
        /\ Pipe(p)' = Tail(Pipe(p))
        /\ Pipe(e)' = Pipe(e)
        /\ UNCHANGED writeKey
        /\ readKey'[p] = readKey[p] /\ closed'[p] = closed[p]
        /\ readError'[p] = readError[p]
        /\ \/ r.key # readKey[e]
           \/ closed'[e] /\ readError'[e] = "bad_message"
           \/ /\ r.key = readKey[e]
              /\ readKey'[e] = After(r)
              /\ readError'[e] = readError[e]
    BY <1>2, ReaderStep
  <2>2. \A f \in Endpoint : f = e \/ f = p
    BY DEF Peer, Endpoint
  <2> HIDE DEF p
  <2>3. Chain(Pipe(p), readKey[e], writeKey[p])
    BY <2>1 DEF AgreeInv, ChainInv
  <2>4. r.key = readKey[e] /\ Chain(Tail(Pipe(p)), After(r), writeKey[p])
    BY <2>1, <2>3, PipeType, ChainTail
  <2>5. ~closed'[e] => Chain(Pipe(p)', readKey'[e], writeKey'[p])
    BY <2>1, <2>4
  <2>6. ~closed'[p] => Chain(Pipe(e)', readKey'[p], writeKey'[e])
    BY <2>1 DEF AgreeInv, ChainInv, p
  <2>7. EveryRecordDecrypts'
    BY <2>1, <2>2, <2>4 DEF AgreeInv, EveryRecordDecrypts
  <2>8. ChainInv'
    <3>1. Peer(e) = p /\ Peer(p) = e
      BY <2>1 DEF p
    <3> QED BY <2>2, <2>5, <2>6, <3>1 DEF ChainInv
  <2> QED BY <2>7, <2>8 DEF AgreeInv
<1> QED BY <1>1, <1>2, StepShape

(***************************************************************************)
(* s2n_recv never fails to decrypt a record of an s2n peer: whatever the   *)
(* key updates of both directions, tickets, blocked flushes and retries,   *)
(* writer and reader change keys at the same record.                       *)
(***************************************************************************)
THEOREM RecordsDecrypt == Spec => []EveryRecordDecrypts
<1>1. AgreeInv => EveryRecordDecrypts
  BY DEF AgreeInv
<1> QED BY <1>1, TypeInit, TypeNext, AgreeInit, AgreeNext, PTL DEF Spec

LEMMA SealsOnceNext == TypeInv /\ [Next]_vars => \A f \in Endpoint : SealsOnce(f)
<1> SUFFICES ASSUME TypeInv, [Next]_vars, NEW f \in Endpoint PROVE SealsOnce(f)
  OBVIOUS
<1>t. writeKey[f] \in [gen : Nat, seq : Nat] /\ Pipe(f) \in Seq(Record)
  BY PipeType DEF TypeInv, TypeOK, Key
<1>1. CASE Keeps(f)
  <2>1. Len(Pipe(f)') = Len(Pipe(f)) /\ Len(Pipe(f)) \in Nat
    BY <1>t, <1>1 DEF Keeps
  <2> QED BY <1>1, <2>1 DEF Keeps, SealsOnce
<1>2. CASE Seals(f)
  <2>1. Later(writeKey[f], writeKey'[f])
    BY <1>t, <1>2 DEF Seals, After, Later, s2n_update_application_traffic_keys,
                      s2n_increment_sequence_number
  <2> QED BY <2>1 DEF SealsOnce
<1>3. ASSUME NEW e \in Endpoint, s2n_recv(e) PROVE SealsOnce(f)
  <2>1. /\ UNCHANGED writeKey
        /\ f = e \/ f = Peer(e)
        /\ \/ Pipe(f)' = Pipe(f)
           \/ Pipe(f) # << >> /\ Pipe(f)' = Tail(Pipe(f))
    BY <1>3, ReaderStep DEF Endpoint, Peer
  <2>2. Len(Pipe(f)') <= Len(Pipe(f)) /\ Len(Pipe(f)) \in Nat /\ Len(Pipe(f)') \in Nat
    BY <1>t, <2>1
  <2> QED BY <2>1, <2>2 DEF SealsOnce
<1> QED BY <1>1, <1>2, <1>3, StepShape DEF WriterStep

(***************************************************************************)
(* No two records are sealed with one traffic key and sequence number, the *)
(* nonce of the AEAD.                                                      *)
(***************************************************************************)
THEOREM NoncesAreUnique == Spec => NonceNeverReused
<1>1. TypeInv /\ [Next]_vars => [AllSealOnce]_vars
  BY SealsOnceNext DEF AllSealOnce
<1> QED BY <1>1, TypeInit, TypeNext, PTL DEF Spec, NonceNeverReused

----------------------------------------------------------------------------
(* Tickets. *)

(***************************************************************************)
(* How a record at either end of a pipe changes the tickets in it.         *)
(***************************************************************************)
One(r) == IF r.type = "nst" THEN 1 ELSE 0

LEMMA TicketsAppend ==
    ASSUME NEW q \in Seq(Record), NEW r \in Record
    PROVE  Tickets(q) \in Nat /\ Tickets(Append(q, r)) = Tickets(q) + One(r)
<1> DEFINE n == Len(q)
           S == {i \in 1 .. n : q[i].type = "nst"}
           T == {i \in 1 .. Len(Append(q, r)) : Append(q, r)[i].type = "nst"}
<1>1. /\ n \in Nat /\ Len(Append(q, r)) = n + 1
      /\ \A i \in 1 .. n : Append(q, r)[i] = q[i]
      /\ Append(q, r)[n + 1] = r
  OBVIOUS
<1>2. IsFiniteSet(S)
  <2>1. IsFiniteSet(1 .. n) /\ S \in SUBSET (1 .. n)
    BY <1>1, FS_Interval
  <2> QED BY <2>1, FS_Subset
<1>3. n + 1 \notin S
  BY <1>1
<1>4. T = IF r.type = "nst" THEN S \cup {n + 1} ELSE S
  BY <1>1
<1> HIDE DEF n, S, T
<1>5. Cardinality(T) = Cardinality(S) + One(r) /\ Cardinality(S) \in Nat
  BY <1>2, <1>3, <1>4, FS_AddElement, FS_CardinalityType DEF One
<1> QED BY <1>5 DEF Tickets, S, T, n

LEMMA TicketsTail ==
    ASSUME NEW q \in Seq(Record), q # << >>
    PROVE  Tickets(Tail(q)) \in Nat /\ Tickets(q) = Tickets(Tail(q)) + One(Head(q))
<1> DEFINE n == Len(q)
           S == {i \in 1 .. n : q[i].type = "nst"}
           T == {i \in 1 .. Len(Tail(q)) : Tail(q)[i].type = "nst"}
           f == [i \in T |-> i + 1]
<1>1. /\ n \in Nat \ {0} /\ Len(Tail(q)) = n - 1
      /\ \A i \in 1 .. n - 1 : Tail(q)[i] = q[i + 1]
      /\ Head(q) = q[1]
  BY HeadTailProperties, EmptySeq, LenProperties
<1>2. IsFiniteSet(S) /\ IsFiniteSet(T)
  <2>1. IsFiniteSet(1 .. n) /\ S \in SUBSET (1 .. n) /\ T \in SUBSET (1 .. n)
    BY <1>1, FS_Interval
  <2> QED BY <2>1, FS_Subset
<1>3. f \in Bijection(T, S \ {1})
  <2>1. f \in [T -> S \ {1}]
    <3>1. ASSUME NEW i \in T PROVE i + 1 \in S \ {1}
      BY <1>1
    <3> HIDE DEF S, T
    <3> QED BY <3>1
  <2>2. \A i, j \in T : f[i] = f[j] => i = j
    BY <1>1
  <2>3. \A j \in S \ {1} : \E i \in T : f[i] = j
    <3> TAKE j \in S \ {1}
    <3>1. j - 1 \in T /\ f[j - 1] = j
      BY <1>1
    <3> QED BY <3>1
  <2> HIDE DEF f, S, T
  <2> QED BY <2>1, <2>2, <2>3, Fun_IsBij
<1>4. 1 \in S <=> Head(q).type = "nst"
  BY <1>1
<1> HIDE DEF n, S, T, f
<1>5. Cardinality(S \ {1}) = Cardinality(T) /\ Cardinality(T) \in Nat
  BY <1>2, <1>3, FS_Bijection, FS_CardinalityType DEF ExistsBijection
<1>6. /\ Cardinality(S) \in Nat
      /\ Cardinality(S \ {1}) = IF 1 \in S THEN Cardinality(S) - 1 ELSE Cardinality(S)
  BY <1>2, FS_RemoveElement, FS_CardinalityType
<1>7. Cardinality(S) = Cardinality(T) + One(Head(q))
  BY <1>4, <1>5, <1>6 DEF One
<1> QED BY <1>5, <1>7 DEF Tickets, S, T, n

(***************************************************************************)
(* A step that reads nothing seals at most one record of the server, and   *)
(* counts it in tickets_sent if and only if it is a ticket.                *)
(***************************************************************************)
LEMMA TicketStep ==
    ASSUME TypeInv, UsageInv, [Next]_vars, \A e \in Endpoint : ~s2n_recv(e)
    PROVE  /\ UNCHANGED <<closed, ticketsRecv>>
           /\ \/ ticketsSent' = ticketsSent /\ Pipe("server")' = Pipe("server")
              \/ \E rec \in Record : /\ Pipe("server")' = Append(Pipe("server"), rec)
                                     /\ ticketsSent' = ticketsSent + One(rec)
<1> DEFINE Goal == \/ ticketsSent' = ticketsSent /\ Pipe("server")' = Pipe("server")
                   \/ \E rec \in Record : /\ Pipe("server")' = Append(Pipe("server"), rec)
                                          /\ ticketsSent' = ticketsSent + One(rec)
<1>t. /\ wire \in [Endpoint -> Seq(Record)] /\ out \in [Endpoint -> Seq(Record)]
      /\ ticketsSent \in Nat /\ "server" \in Endpoint
  BY DEF TypeInv, TypeOK, Endpoint
<1>a. ASSUME UNCHANGED <<wire, out, ticketsSent>> PROVE Goal
  BY <1>a DEF Pipe
<1>b. ASSUME NEW e \in Endpoint, NEW rec \in Record, NEW next, out[e] = << >>,
             Flushed(e, rec, next) \/ Blocked(e, rec),
             ticketsSent' = ticketsSent + One(rec), rec.type = "nst" => e = "server"
      PROVE  Goal
  <2>1. Pipe(e)' = Append(Pipe(e), rec) /\ \A f \in Endpoint : f # e => Pipe(f)' = Pipe(f)
    BY <1>b, PipeSealed
  <2>2. CASE e = "server"
    BY <1>b, <2>1, <2>2
  <2>3. CASE e # "server"
    BY <1>t, <1>b, <2>1, <2>3 DEF One
  <2> QED BY <2>2, <2>3
<1> HIDE DEF Goal
<1>0. CASE UNCHANGED vars
  BY <1>0, <1>a DEF vars, ticketVars, Goal
<1>1. ASSUME NEW e \in Endpoint, s2n_send(e)
      PROVE UNCHANGED <<closed, ticketsRecv>> /\ Goal
  <2>1. /\ wire'[e] = wire[e] \o out[e] /\ out'[e] = << >>
        /\ \A f \in Endpoint : f # e => wire'[f] = wire[f] /\ out'[f] = out[f]
        /\ UNCHANGED <<closed, ticketsRecv, ticketsSent>>
    BY <1>t, <1>1 DEF s2n_send, ticketVars
  <2>2. wire[e] \o out[e] \in Seq(Record)
    BY <1>t, ConcatProperties
  <2>3. (wire[e] \o out[e]) \o << >> = wire[e] \o out[e]
    BY <2>2, ConcatEmptySeq
  <2>4. Pipe("server")' = Pipe("server")
    BY <1>t, <2>1, <2>3 DEF Pipe
  <2> QED BY <2>1, <2>4 DEF Goal
<1>2. ASSUME NEW e \in Endpoint, s2n_key_update_send(e)
      PROVE UNCHANGED <<closed, ticketsRecv>> /\ Goal
  <2> DEFINE rec == Sealed(e, "ku", FALSE, TRUE)
  <2>1. rec \in Record /\ rec.type = "ku" /\ One(rec) = 0
    BY SealedType DEF Sealed, One
  <2>2. out[e] = << >>
    BY <1>2 DEF s2n_key_update_send, TypeInv, DrainedBeforeSealing
  <2>3. /\ UNCHANGED <<closed, ticketsRecv, ticketsSent>>
        /\ UNCHANGED <<wire, out>> \/ Flushed(e, rec, "nst") \/ Blocked(e, rec)
    BY <1>2 DEF s2n_key_update_send, ticketVars
  <2> HIDE DEF rec
  <2>4. ticketsSent' = ticketsSent + One(rec)
    BY <1>t, <2>1, <2>3
  <2> QED BY <1>a, <1>b, <2>1, <2>2, <2>3, <2>4
<1>3. ASSUME NEW e \in Endpoint, s2n_tls13_server_nst_send(e)
      PROVE UNCHANGED <<closed, ticketsRecv>> /\ Goal
  BY <1>3, <1>a DEF s2n_tls13_server_nst_send
<1>4. ASSUME NEW e \in Endpoint, NstLoop(e)
      PROVE UNCHANGED <<closed, ticketsRecv>> /\ Goal
  <2>1. CASE NstNotWritten(e)
    BY <1>4, <1>a, <2>1 DEF NstLoop, NstNotWritten
  <2>2. CASE NstWritten(e)
    <3> DEFINE rec == Sealed(e, "nst", FALSE, ~io.partial)
    <3>1. rec \in Record
      <4>1. (~io.partial) \in BOOLEAN
        BY IoTypes DEF TypeInv, TypeOK
      <4> QED BY <4>1, SealedType
    <3>2. One(rec) = 1
      BY DEF Sealed, One
    <3>3. out[e] = << >> /\ e = "server"
      BY <2>2 DEF NstWritten, TypeInv, DrainedBeforeSealing, UsageInv
    <3>4. ticketsSent' = ticketsSent + 1 /\ (Flushed(e, rec, "nst_loop") \/ Blocked(e, rec))
      BY <2>2 DEF NstWritten
    <3> HIDE DEF rec
    <3>5. Goal
      BY <1>b, <3>1, <3>2, <3>3, <3>4
    <3> QED BY <1>4, <3>5 DEF NstLoop
  <2> QED BY <1>4, <2>1, <2>2 DEF NstLoop
<1>5. ASSUME NEW e \in Endpoint, SendFragment(e)
      PROVE UNCHANGED <<closed, ticketsRecv>> /\ Goal
  <2> DEFINE rec == Sealed(e, "app", FALSE, TRUE)
  <2>1. rec \in Record /\ rec.type = "app" /\ One(rec) = 0
    BY SealedType DEF Sealed, One
  <2>2. out[e] = << >>
    BY <1>5 DEF SendFragment, TypeInv, DrainedBeforeSealing
  <2>3. /\ UNCHANGED <<closed, ticketsRecv, ticketsSent>>
        /\ \E next : Flushed(e, rec, next) \/ Blocked(e, rec)
    BY <1>5 DEF SendFragment, ticketVars
  <2> HIDE DEF rec
  <2>4. ticketsSent' = ticketsSent + One(rec)
    BY <1>t, <2>1, <2>3
  <2> QED BY <1>b, <2>1, <2>2, <2>3, <2>4
<1>7. ASSUME NEW e \in Endpoint, ForeignKeyUpdate(e)
      PROVE UNCHANGED <<closed, ticketsRecv>> /\ Goal
  <2> DEFINE rec == Sealed(e, "ku", TRUE, TRUE)
  <2>1. rec \in Record /\ rec.type = "ku" /\ One(rec) = 0
    BY SealedType DEF Sealed, One
  <2>2. out[e] = << >> /\ Flushed(e, rec, "idle") /\ UNCHANGED <<closed, ticketsRecv, ticketsSent>>
    BY <1>7 DEF ForeignKeyUpdate, ticketVars
  <2> HIDE DEF rec
  <2>3. ticketsSent' = ticketsSent + One(rec)
    BY <1>t, <2>1, <2>2
  <2> QED BY <1>b, <2>1, <2>2, <2>3
<1>8. CASE s2n_connection_add_new_tickets_to_send
  BY <1>8, <1>a DEF s2n_connection_add_new_tickets_to_send, Goal
<1>9. CASE TicketKeyChanges
  BY <1>9, <1>a DEF TicketKeyChanges, Goal
<1>10. CASE KeyingMaterialExpires
  BY <1>10, <1>a DEF KeyingMaterialExpires, Goal
<1> QED BY <1>0, <1>1, <1>2, <1>3, <1>4, <1>5, <1>7, <1>8, <1>9, <1>10 DEF Next, Goal

LEMMA TicketRead ==
    ASSUME TypeInv, s2n_recv("client"), ~closed'["client"]
    PROVE  ticketsRecv' = ticketsRecv + One(Head(Pipe("server"))) /\ ticketsSent' = ticketsSent
<1> DEFINE r == Head(wire["server"])
<1>t. /\ wire \in [Endpoint -> Seq(Record)] /\ out \in [Endpoint -> Seq(Record)]
      /\ closed \in [Endpoint -> BOOLEAN]
      /\ ticketsRecv \in Nat /\ "server" \in Endpoint /\ "client" \in Endpoint
      /\ Peer("client") = "server"
  BY DEF TypeInv, TypeOK, Endpoint, Peer
<1>1. wire["server"] # << >>
  BY <1>t DEF s2n_recv, s2n_post_handshake_recv
<1>2. Head(Pipe("server")) = r
  BY <1>t, <1>1, ConcatTail DEF Pipe
<1>3. \/ RecvFails("client", "decrypt") \/ RecvFails("client", "bad_message")
      \/ r.type \in {"app", "ku"} /\ UNCHANGED ticketsRecv
      \/ r.type = "nst" /\ ticketsRecv' = ticketsRecv + 1
  BY <1>t DEF s2n_recv, s2n_post_handshake_recv, s2n_key_update_recv, s2n_tls13_server_nst_recv
<1>4. ~RecvFails("client", "decrypt") /\ ~RecvFails("client", "bad_message")
  BY <1>t DEF RecvFails
<1> QED BY <1>t, <1>2, <1>3, <1>4 DEF One, s2n_recv, s2n_post_handshake_recv

(***************************************************************************)
(* Through blocked flushes and retries, no ticket that tickets_sent counts *)
(* is lost or sent twice: the client processed it, or it is in flight.     *)
(***************************************************************************)
THEOREM TicketsAreAccounted == Spec => []TicketAccounting
<1>1. Init => TicketAccounting
  <2> SUFFICES ASSUME Init PROVE TicketAccounting
    OBVIOUS
  <2>1. Pipe("server") = << >>
    BY DEF Init, Pipe, Endpoint
  <2>2. {i \in 1 .. Len(<< >>) : << >>[i].type = "nst"} = {}
    OBVIOUS
  <2>3. Tickets(<< >>) = 0
    BY <2>2, FS_EmptySet DEF Tickets
  <2> QED BY <2>1, <2>3 DEF Init, TicketAccounting
<1>2. TypeInv /\ UsageInv /\ TicketAccounting /\ [Next]_vars => TicketAccounting'
  <2> SUFFICES ASSUME TypeInv, UsageInv, TicketAccounting, [Next]_vars, ~closed'["client"]
               PROVE  ticketsSent' = ticketsRecv' + Tickets(Pipe("server")')
    BY DEF TicketAccounting
  <2>t. /\ ticketsSent \in Nat /\ ticketsRecv \in Nat /\ Pipe("server") \in Seq(Record)
        /\ closed \in [Endpoint -> BOOLEAN]
    BY PipeType DEF TypeInv, TypeOK, Endpoint
  <2>1. ASSUME NEW e \in Endpoint, s2n_recv(e)
        PROVE  ticketsSent' = ticketsRecv' + Tickets(Pipe("server")')
    <3>1. CASE e = "client"
      <4>1. /\ ~closed["client"] /\ Pipe("server") # << >>
            /\ Pipe("server")' = Tail(Pipe("server"))
        BY <2>1, <3>1, ReaderStep DEF Peer
      <4>2. ticketsRecv' = ticketsRecv + One(Head(Pipe("server"))) /\ ticketsSent' = ticketsSent
        BY <2>1, <3>1, TicketRead
      <4>3. /\ Tickets(Tail(Pipe("server"))) \in Nat
            /\ Tickets(Pipe("server")) = Tickets(Tail(Pipe("server"))) + One(Head(Pipe("server")))
        BY <2>t, <4>1, TicketsTail
      <4>4. ticketsSent = ticketsRecv + Tickets(Pipe("server"))
        BY <4>1 DEF TicketAccounting
      <4>5. One(Head(Pipe("server"))) \in Nat
        BY DEF One
      <4>6. ticketsSent' = ticketsRecv' + Tickets(Tail(Pipe("server")))
        BY <2>t, <4>2, <4>3, <4>4, <4>5
      <4> QED BY <4>1, <4>6
    <3>2. CASE e = "server"
      <4>1. Pipe("server")' = Pipe("server") /\ closed'["client"] = closed["client"]
        BY <2>1, <3>2, ReaderStep DEF Peer
      <4>2. ticketsRecv' = ticketsRecv /\ ticketsSent' = ticketsSent
        BY <2>1, <3>2 DEF s2n_recv, s2n_post_handshake_recv, RecvFails, s2n_key_update_recv
      <4> QED BY <4>1, <4>2 DEF TicketAccounting
    <3> QED BY <3>1, <3>2 DEF Endpoint
  <2>2. CASE \A e \in Endpoint : ~s2n_recv(e)
    <3>1. CASE ticketsSent' = ticketsSent /\ Pipe("server")' = Pipe("server")
      BY <2>2, <3>1, TicketStep DEF TicketAccounting
    <3>2. ASSUME NEW rec \in Record, Pipe("server")' = Append(Pipe("server"), rec),
                 ticketsSent' = ticketsSent + One(rec)
          PROVE  ticketsSent' = ticketsRecv' + Tickets(Pipe("server")')
      <4>1. UNCHANGED <<closed, ticketsRecv>>
        BY <2>2, TicketStep
      <4>2. /\ Tickets(Pipe("server")) \in Nat
            /\ Tickets(Append(Pipe("server"), rec)) = Tickets(Pipe("server")) + One(rec)
        BY <2>t, TicketsAppend
      <4>3. ticketsSent = ticketsRecv + Tickets(Pipe("server"))
        BY <4>1 DEF TicketAccounting
      <4>4. One(rec) \in Nat
        BY DEF One
      <4>5. ticketsSent' = ticketsRecv' + Tickets(Append(Pipe("server"), rec))
        BY <2>t, <3>2, <4>1, <4>2, <4>3, <4>4
      <4> QED BY <3>2, <4>5
    <3> QED BY <2>2, <3>1, <3>2, TicketStep
  <2> QED BY <2>1, <2>2
<1> QED BY <1>1, <1>2, TypeInit, TypeNext, UsageInit, UsageNext, PTL DEF Spec
============================================================================
