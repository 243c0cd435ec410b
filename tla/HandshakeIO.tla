---------------------------- MODULE HandshakeIO ----------------------------
(***************************************************************************)
(* How handshake messages travel in records: s2n_handshake_write_io,       *)
(* s2n_handshake_read_io and s2n_handle_retry_state of                     *)
(* tls/s2n_handshake_io.c.  Messages are fragmented over records or        *)
(* coalesced in one, a handler may wait for an asynchronous callback, a    *)
(* flush may block, and a HelloRequest may come at any time.               *)
(*                                                                         *)
(* A message is a script entry: who writes it, the length of its body and  *)
(* whether the handler of either side blocks once.  Unit <<m, i>> is the   *)
(* i-th unit (byte) of message m; message 0 is a HelloRequest.  Which      *)
(* message comes next is the subject of Handshake; here it is the script's *)
(* next one.  A foreign endpoint puts its messages into records as it      *)
(* likes; late allows a HelloRequest of its behind the end of its flight.  *)
(***************************************************************************)
EXTENDS Integers, Sequences, SequencesExt

CONSTANTS
    Scenarios,        \* the scenarios that are considered
    HeaderLength,     \* TLS_HANDSHAKE_HEADER_LENGTH
    MaxFragment,      \* what s2n_record_max_write_payload_size allows
    MaxHelloRequests, \* bound on the HelloRequests of a foreign server
    Capacity          \* how many records a transport takes before it blocks

Endpoint == {"client", "server"}
Peer(e) == IF e = "client" THEN "server" ELSE "client"

ScriptEntry == [from : Endpoint, body : Nat, writerBlocks : BOOLEAN,
                readerBlocks : BOOLEAN]
ASSUME ScenarioAssumption ==
    \A s \in Scenarios : /\ s.script \in Seq(ScriptEntry)
                         /\ s.foreign \in SUBSET Endpoint
                         /\ s.late \in BOOLEAN
ASSUME BoundAssumption ==
    /\ HeaderLength \in Nat \ {0} /\ MaxFragment \in Nat \ {0}
    /\ MaxHelloRequests \in Nat   /\ Capacity \in Nat \ {0}

VARIABLES
    sc,          \* the scenario
    conn,        \* the two connections
    wire,        \* wire[e]: records e has written and its peer has not read
    requests     \* HelloRequests the foreign server has written

vars == <<sc, conn, wire, requests>>

----------------------------------------------------------------------------
(***************************************************************************)
(* Messages.                                                               *)
(***************************************************************************)
Script == sc.script
Length(m) == HeaderLength + (IF m = 0 THEN 0 ELSE Script[m].body)
Units(m) == [i \in 1..Length(m) |-> <<m, i>>]
Transcript(k) == FlattenSeq([m \in 1..k |-> Units(m)])

(***************************************************************************)
(* handshake.io is io, of which the writer has read units; wiped tells an  *)
(* empty stuffer from one that was read to its end.  status is in_status,  *)
(* looping means inside the while of s2n_handshake_read_io.                *)
(***************************************************************************)
Connection ==
    [msg : Nat, io : Seq(Nat \X Nat), read : Nat, wiped : BOOLEAN,
     out : Seq(Nat \X Nat), in : Seq(Nat \X Nat),
     status : {"ENCRYPTED", "PLAINTEXT"}, looping : BOOLEAN, paused : BOOLEAN,
     async : {"NOT_INVOKED", "INVOKED_WAITING", "INVOKED_COMPLETE"},
     hash : Seq(Nat \X Nat), failed : BOOLEAN]

NewConnection ==
    [msg |-> 1, io |-> <<>>, read |-> 0, wiped |-> TRUE, out |-> <<>>,
     in |-> <<>>, status |-> "ENCRYPTED", looping |-> FALSE, paused |-> FALSE,
     async |-> "NOT_INVOKED", hash |-> <<>>, failed |-> FALSE]

Done(e) == conn[e].msg > Len(Script)
IsWriter(e) == ~Done(e) /\ Script[conn[e].msg].from = e
S2n(e) == e \notin sc.foreign

(***************************************************************************)
(* An endpoint is at the top of the loop of s2n_negotiate, past s2n_flush. *)
(***************************************************************************)
Negotiating(e) ==
    /\ S2n(e) /\ ~Done(e)
    /\ ~conn[e].failed /\ ~conn[e].looping
    /\ conn[e].out = <<>>

Set(e, c) == conn' = [conn EXCEPT ![e] = c]
Failed(c) == [c EXCEPT !.failed = TRUE]
WipeIo(c) == [c EXCEPT !.io = <<>>, !.read = 0, !.wiped = TRUE]
WipeRecord_StaysPlaintext(c) == [c EXCEPT !.in = <<>>]
s2n_wipe_record(c) == [c EXCEPT !.in = <<>>, !.status = "ENCRYPTED"]
s2n_advance_message(c) == [c EXCEPT !.msg = @ + 1]

----------------------------------------------------------------------------
(***************************************************************************)
(* The writer.                                                             *)
(***************************************************************************)
Flush_Unlimited(e) ==
    /\ S2n(e) /\ ~conn[e].failed
    /\ conn[e].out # <<>>
    /\ wire' = [wire EXCEPT ![e] = Append(@, conn[e].out)]
    /\ Set(e, [conn[e] EXCEPT !.out = <<>>])
    /\ UNCHANGED <<sc, requests>>

s2n_flush(e) ==
    /\ S2n(e) /\ ~conn[e].failed
    /\ conn[e].out # <<>>
    /\ Len(wire[e]) < Capacity
    /\ wire' = [wire EXCEPT ![e] = Append(@, conn[e].out)]
    /\ Set(e, [conn[e] EXCEPT !.out = <<>>])
    /\ UNCHANGED <<sc, requests>>

(***************************************************************************)
(* The header, what the handler can write before it needs the callback,    *)
(* and the rest with the length of the message put into the header.        *)
(***************************************************************************)
s2n_handshake_write_header(c) ==
    [c EXCEPT !.io = SubSeq(Units(c.msg), 1, HeaderLength), !.wiped = FALSE]
s2n_handshake_finish_header(c) ==
    [c EXCEPT !.io = Units(c.msg), !.wiped = FALSE]

(***************************************************************************)
(* s2n_handshake_write_io up to its loop: the handler is called once.      *)
(***************************************************************************)
PopulateIo(e) ==
    /\ Negotiating(e) /\ IsWriter(e)
    /\ ~conn[e].paused
    /\ conn[e].wiped
    /\ LET c == s2n_handshake_write_header(conn[e]) IN
       Set(e, IF Script[c.msg].writerBlocks
              THEN [c EXCEPT !.async = "INVOKED_WAITING", !.paused = TRUE]
              ELSE s2n_handshake_finish_header(c))
    /\ UNCHANGED <<sc, wire, requests>>

Fragment(c) ==
    SubSeq(c.io, c.read + 1,
           IF Len(c.io) - c.read > MaxFragment THEN c.read + MaxFragment ELSE Len(c.io))

(***************************************************************************)
(* One turn of the loop: a record is sealed into conn->out and hashed; the *)
(* flush behind it may block.                                              *)
(***************************************************************************)
WriteFragment(e) ==
    /\ Negotiating(e) /\ IsWriter(e)
    /\ ~conn[e].paused
    /\ conn[e].read < Len(conn[e].io)
    /\ LET f == Fragment(conn[e]) IN
       Set(e, [conn[e] EXCEPT !.out = f, !.read = @ + Len(f), !.hash = @ \o f])
    /\ UNCHANGED <<sc, wire, requests>>

FinishWrite(e) ==
    /\ Negotiating(e) /\ IsWriter(e)
    /\ ~conn[e].paused /\ ~conn[e].wiped
    /\ conn[e].read = Len(conn[e].io)
    /\ Set(e, s2n_advance_message(WipeIo(conn[e])))
    /\ UNCHANGED <<sc, wire, requests>>

----------------------------------------------------------------------------
(***************************************************************************)
(* The reader.                                                             *)
(***************************************************************************)

(***************************************************************************)
(* s2n_read_full_handshake_message: the header if it is incomplete, then   *)
(* as much of the body as the record has.  complete is its return value 0. *)
(***************************************************************************)
Take(c, n) == [c EXCEPT !.io = @ \o SubSeq(c.in, 1, n),
                        !.in = SubSeq(@, n + 1, Len(@)),
                        !.wiped = @ /\ n = 0]
Smaller(a, b) == IF a < b THEN a ELSE b

TakeHeader(c) ==
    IF Len(c.io) >= HeaderLength THEN c
    ELSE Take(c, Smaller(HeaderLength - Len(c.io), Len(c.in)))

s2n_read_full_handshake_message(c) ==
    LET h == TakeHeader(c) IN
    IF Len(h.io) < HeaderLength THEN [c |-> h, complete |-> FALSE]
    ELSE LET missing == Length(h.io[1][1]) - Len(h.io)
             b == Take(h, Smaller(missing, Len(h.in)))
         IN  [c |-> b, complete |-> Len(b.io) = Length(h.io[1][1])]

(***************************************************************************)
(* The message joins the transcript when its handler is done with it.      *)
(***************************************************************************)
s2n_handshake_conn_update_hashes(c) == [c EXCEPT !.hash = @ \o c.io]
FinishRead_WipesRecord(c) ==
    s2n_advance_message(WipeIo(s2n_wipe_record(s2n_handshake_conn_update_hashes(c))))
s2n_finish_read(c) == s2n_advance_message(WipeIo(s2n_handshake_conn_update_hashes(c)))

(***************************************************************************)
(* A record that is still in conn->in counts as application data, which a  *)
(* handshake without early data refuses.                                   *)
(***************************************************************************)
s2n_read_full_record(e) ==
    /\ Negotiating(e) /\ ~IsWriter(e)
    /\ ~conn[e].paused
    /\ \/ /\ conn[e].status = "PLAINTEXT"
          /\ Set(e, Failed(conn[e]))
          /\ UNCHANGED wire
       \/ /\ conn[e].status = "ENCRYPTED"
          /\ wire[Peer(e)] # <<>>
          /\ wire' = [wire EXCEPT ![Peer(e)] = Tail(@)]
          /\ Set(e, [conn[e] EXCEPT !.in = Head(wire[Peer(e)]),
                                    !.status = "PLAINTEXT", !.looping = TRUE])
    /\ UNCHANGED <<sc, requests>>

(***************************************************************************)
(* One turn of the loop over the messages of a record.                     *)
(***************************************************************************)
ReadMessage(c, e) ==
    LET r == s2n_read_full_handshake_message(c)
        m == r.c.io[1][1]
        back == [r.c EXCEPT !.looping = FALSE]
    IN  IF Done(e) THEN Failed(c)
        ELSE IF ~r.complete THEN s2n_wipe_record(back)
        ELSE IF m = 0
             THEN IF e = "client" THEN [back EXCEPT !.read = HeaderLength] ELSE Failed(back)
        ELSE IF m # c.msg \/ IsWriter(e) THEN Failed(back)
        ELSE IF Script[m].readerBlocks
             THEN [back EXCEPT !.async = "INVOKED_WAITING", !.paused = TRUE]
        ELSE s2n_finish_read(r.c)

s2n_handshake_read_io(e) ==
    /\ conn[e].looping /\ ~conn[e].failed
    /\ Set(e, IF conn[e].in = <<>>
              THEN s2n_wipe_record([conn[e] EXCEPT !.looping = FALSE])
              ELSE ReadMessage(conn[e], e))
    /\ UNCHANGED <<sc, wire, requests>>

----------------------------------------------------------------------------
(***************************************************************************)
(* Asynchronous callbacks.  While the application is not done the retried  *)
(* handler blocks again and nothing changes.                               *)
(***************************************************************************)
ApplicationCompletes(e) ==
    /\ conn[e].async = "INVOKED_WAITING"
    /\ Set(e, [conn[e] EXCEPT !.async = "INVOKED_COMPLETE"])
    /\ UNCHANGED <<sc, wire, requests>>

(***************************************************************************)
(* S2N_ASYNC_PKEY_GUARD of a handler that is called again.                 *)
(***************************************************************************)
GuardPasses(c) == c.async = "INVOKED_COMPLETE"
Resume_StaysPaused(c) == [c EXCEPT !.async = "NOT_INVOKED"]
Resume(c) == [c EXCEPT !.async = "NOT_INVOKED", !.paused = FALSE]

AfterRetry_NotHashed(c, writer) ==
    IF writer THEN s2n_handshake_finish_header(Resume(c))
    ELSE s2n_advance_message(WipeIo(s2n_wipe_record(Resume(c))))

AfterRetry(c, writer) ==
    IF writer THEN s2n_handshake_finish_header(Resume(c))
    ELSE s2n_finish_read(s2n_wipe_record(Resume(c)))

s2n_handle_retry_state(e) ==
    /\ Negotiating(e)
    /\ conn[e].paused /\ GuardPasses(conn[e])
    /\ Set(e, AfterRetry(conn[e], IsWriter(e)))
    /\ UNCHANGED <<sc, wire, requests>>

----------------------------------------------------------------------------
(***************************************************************************)
(* A foreign endpoint.  Its io is what it has not put into records yet; it *)
(* may add a message when everything before it has been exchanged.         *)
(***************************************************************************)
ForeignMessage(e) ==
    /\ ~S2n(e) /\ IsWriter(e)
    /\ Set(e, [conn[e] EXCEPT !.io = @ \o Units(conn[e].msg), !.msg = @ + 1,
                              !.hash = @ \o Units(conn[e].msg)])
    /\ UNCHANGED <<sc, wire, requests>>

ForeignHelloRequest(e) ==
    /\ ~S2n(e) /\ e = "server"
    /\ requests < MaxHelloRequests
    /\ conn[e].msg > 1 /\ ~Done(e)
    /\ sc.late \/ IsWriter(e)
    /\ requests' = requests + 1
    /\ Set(e, [conn[e] EXCEPT !.io = @ \o Units(0)])
    /\ UNCHANGED <<sc, wire>>

ForeignRecord(e) ==
    /\ ~S2n(e)
    /\ Len(wire[e]) < Capacity
    /\ \E n \in 1..Len(conn[e].io) :
          /\ wire' = [wire EXCEPT ![e] = Append(@, SubSeq(conn[e].io, 1, n))]
          /\ Set(e, [conn[e] EXCEPT !.io = SubSeq(@, n + 1, Len(@))])
    /\ UNCHANGED <<sc, requests>>

(***************************************************************************)
(* It reads whole messages; in is what has arrived of the next one.        *)
(***************************************************************************)
ForeignRead(e) ==
    /\ ~S2n(e) /\ ~Done(e) /\ ~IsWriter(e)
    /\ wire[Peer(e)] # <<>>
    /\ wire' = [wire EXCEPT ![Peer(e)] = Tail(@)]
    /\ LET got == conn[e].in \o Head(wire[Peer(e)]) IN
       Set(e, IF got = Units(conn[e].msg)
              THEN [conn[e] EXCEPT !.in = <<>>, !.msg = @ + 1, !.hash = @ \o got]
              ELSE [conn[e] EXCEPT !.in = got])
    /\ UNCHANGED <<sc, requests>>

----------------------------------------------------------------------------
Init ==
    /\ sc \in Scenarios
    /\ conn = [e \in Endpoint |-> NewConnection]
    /\ wire = [e \in Endpoint |-> <<>>]
    /\ requests = 0

s2n_negotiate(e) ==
    \/ s2n_flush(e) \/ PopulateIo(e) \/ WriteFragment(e) \/ FinishWrite(e)
    \/ s2n_read_full_record(e) \/ s2n_handshake_read_io(e)
    \/ s2n_handle_retry_state(e)
Foreign(e) == ForeignMessage(e) \/ ForeignRecord(e) \/ ForeignRead(e)

Finished ==
    \/ \E e \in Endpoint : conn[e].failed
    \/ \A e \in Endpoint : Done(e) /\ conn[e].out = <<>> /\ ~conn[e].looping
Terminated == Finished /\ UNCHANGED vars

Next ==
    \/ \E e \in Endpoint : \/ s2n_negotiate(e) \/ ApplicationCompletes(e)
                           \/ Foreign(e) \/ ForeignHelloRequest(e)
    \/ Terminated

Spec == Init /\ [][Next]_vars

(***************************************************************************)
(* Applications call s2n_negotiate until it is not blocked, complete what  *)
(* their callbacks started, and the peer does its part.                    *)
(***************************************************************************)
FairSpec ==
    /\ Spec
    /\ \A e \in Endpoint : /\ WF_vars(s2n_negotiate(e))
                           /\ WF_vars(ApplicationCompletes(e))
                           /\ WF_vars(ForeignMessage(e))
                           /\ WF_vars(ForeignRecord(e))
                           /\ WF_vars(ForeignRead(e))

----------------------------------------------------------------------------
(***************************************************************************)
(* Type invariant.                                                         *)
(***************************************************************************)
TypeOK ==
    /\ sc \in Scenarios
    /\ conn \in [Endpoint -> Connection]
    /\ wire \in [Endpoint -> Seq(Seq(Nat \X Nat))]
    /\ \A e \in Endpoint : conn[e].msg \in 1..(Len(Script) + 1) /\ Len(wire[e]) <= Capacity
    /\ requests \in 0..MaxHelloRequests

(***************************************************************************)
(* However messages are cut into records, whatever blocks and is retried,  *)
(* the transcript an s2n endpoint has hashed when it turns to message m is *)
(* exactly the messages before m: none is missing, hashed twice or hashed  *)
(* with the rest of a neighbour, and no HelloRequest is in it.             *)
(***************************************************************************)
TranscriptExact ==
    \A e \in Endpoint :
       S2n(e) /\ ~conn[e].failed =>
          LET c == conn[e] IN
          c.hash = IF IsWriter(e) THEN Transcript(c.msg - 1) \o SubSeq(c.io, 1, c.read)
                   ELSE Transcript(c.msg - 1)

(***************************************************************************)
(* The units that belong in a transcript.                                  *)
(***************************************************************************)
WithoutRequests(units) ==
    LET kept[i \in 0..Len(units)] ==
            IF i = 0 THEN <<>>
            ELSE IF units[i][1] = 0 THEN kept[i - 1] ELSE Append(kept[i - 1], units[i])
    IN  kept[Len(units)]

(***************************************************************************)
(* Nothing that has been exchanged is dropped: behind an endpoint's        *)
(* transcript come the units in its handshake.io, in conn->in, on the wire *)
(* and in the peer's conn->out, and together they are what the peer has    *)
(* hashed.                                                                 *)
(***************************************************************************)
NothingDropped ==
    \A e \in Endpoint :
       LET c == conn[e]
           p == conn[Peer(e)]
           unread == c.io \o c.in \o FlattenSeq(wire[Peer(e)]) \o
                     (IF S2n(Peer(e)) THEN p.out ELSE p.io)
       IN  S2n(e) /\ ~IsWriter(e) /\ ~c.failed /\ Len(p.hash) >= Len(c.hash)
              => c.hash \o WithoutRequests(unread) = p.hash

(***************************************************************************)
(* A peer that keeps to the protocol and sends no HelloRequest (see the    *)
(* README on those) never makes s2n_negotiate fail.                        *)
(***************************************************************************)
NoSpuriousFailure == requests = 0 => \A e \in Endpoint : ~conn[e].failed

(***************************************************************************)
(* Both ends reach the end of the handshake, unless a HelloRequest came.   *)
(***************************************************************************)
Completes == <>(requests # 0 \/ \A e \in Endpoint : Done(e))

----------------------------------------------------------------------------
(***************************************************************************)
(* The scenarios in which the transcript properties hold: a foreign server *)
(* sends HelloRequests only inside its own flights, and a handler that     *)
(* waits for a callback reads a record that ends with its message, which   *)
(* is what s2n writes.  Without the first the client fails on what follows *)
(* the HelloRequest it left in handshake.io; without the second            *)
(* s2n_handle_retry_state wipes the rest of the record.                    *)
(***************************************************************************)
Tame ==
    \A s \in Scenarios :
       /\ ~s.late
       /\ \A m \in DOMAIN s.script : s.script[m].from \in s.foreign => ~s.script[m].readerBlocks
============================================================================
