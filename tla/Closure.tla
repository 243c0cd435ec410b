------------------------------ MODULE Closure ------------------------------
(***************************************************************************)
(* How a connection ends: alerts, close_notify in both directions,         *)
(* s2n_shutdown and the delay after an error (tls/s2n_alerts.c,            *)
(* tls/s2n_shutdown.c, s2n_flush and s2n_send of tls/s2n_send.c,           *)
(* tls/s2n_recv.c, the blinding of tls/s2n_connection.c).                  *)
(*                                                                         *)
(* A record is a content type and its bytes.  Application data comes in    *)
(* records of two bytes, of which s2n_recv may take one at a time; an      *)
(* alert is two bytes, a level and a description.  One turn of the loop of *)
(* s2n_recv is one step: a turn starts as the call does.  Records open     *)
(* with the right key, except the ones a foreign client seals badly; keys  *)
(* and post-handshake messages are the subject of PostHandshake.           *)
(***************************************************************************)
EXTENDS Integers, Sequences, FiniteSets

CONSTANTS
    Configs,       \* the configurations that are considered
    Alerts,        \* the alerts a foreign client may send
    Packings,      \* how it puts them into records
    MaxData,       \* bound on the application data of a direction, in bytes
    MaxForeign,    \* bound on what a foreign client does
    Capacity       \* how many records a transport takes before it blocks

Endpoint == {"client", "server"}
Peer(e) == IF e = "client" THEN "server" ELSE "client"

(***************************************************************************)
(* tls13, ignoreWarnings: what s2n_handle_as_warning looks at.  failed:    *)
(* the server's handshake failed and it queued an alert.  foreign: the     *)
(* client is not s2n.                                                      *)
(***************************************************************************)
Config == [tls13 : BOOLEAN, ignoreWarnings : BOOLEAN, failed : BOOLEAN,
           foreign : BOOLEAN]
ASSUME ConfigAssumption == Configs \subseteq Config
ASSUME AlertAssumption ==
    /\ Alerts \subseteq {"warning", "fatal"} \X {"close_notify", "user_canceled", "other"}
    /\ Packings \subseteq {"whole", "split", "coalesced"}
ASSUME BoundAssumption ==
    MaxData \in Nat /\ MaxForeign \in Nat /\ Capacity \in Nat \ {0}

VARIABLES
    cfg,         \* the configuration
    conn,        \* the two connections
    wire,        \* wire[e]: records e has written and its peer has not read
    eof,         \* e's application has closed the transport and is gone
    status,      \* how far the s2n_shutdown of each application is
    sealed,      \* bytes of application data put into records by e
    delivered,   \* bytes s2n_recv gave to e's application, by kind
    discarded,   \* bytes of application data s2n_shutdown threw away
    heard,       \* the bytes of the alerts e has read, one from each record at most
    behind,      \* the alerts that came behind another one in the same record
    foreignDone  \* how often the foreign client did something of its own

vars == <<cfg, conn, wire, eof, status, sealed, delivered, discarded, heard,
          behind, foreignDone>>

Byte == {"data", "warning", "fatal", "close_notify", "user_canceled", "other"}
RecordType == {"app", "alert", "handshake", "bad_handshake", "badly_sealed"}
Record == [type : RecordType, bytes : Seq(Byte)]

AppRecord == [type |-> "app", bytes |-> <<"data", "data">>]
AlertRecord(bytes) == [type |-> "alert", bytes |-> bytes]

(***************************************************************************)
(* out: conn->out, at most one record; consumed: there is user data in it  *)
(* that s2n_send has not acknowledged.  readerAlert, writerAlert: the two  *)
(* queued alerts.  queued, received: close_notify_queued and _received.    *)
(* alertIn, alertRead: what was written to conn->alert_in, and whether the *)
(* application has read it.  in, plain: conn->in once opened, and          *)
(* in_status = PLAINTEXT.  broken: conn->in holds a record that does not   *)
(* open.  delayed: the time since the error is less than conn->delay.      *)
(***************************************************************************)
Connection ==
    [out : Seq(Record), consumed : BOOLEAN, readerAlert : BOOLEAN,
     writerAlert : BOOLEAN, queued : BOOLEAN, received : BOOLEAN,
     closing : BOOLEAN, closed : BOOLEAN, alertIn : Seq(Byte),
     alertRead : BOOLEAN, in : Seq(Byte), plain : BOOLEAN, broken : BOOLEAN,
     delayed : BOOLEAN]

(***************************************************************************)
(* A connection after its handshake, or after a handshake of the server    *)
(* that failed with an alert, with a delay or without.                     *)
(***************************************************************************)
NewConnection(failed, delayed) ==
    [out |-> << >>, consumed |-> FALSE, readerAlert |-> failed,
     writerAlert |-> FALSE, queued |-> FALSE, received |-> FALSE,
     closing |-> FALSE, closed |-> failed, alertIn |-> << >>,
     alertRead |-> FALSE, in |-> << >>, plain |-> FALSE, broken |-> FALSE,
     delayed |-> delayed]

Init ==
    /\ cfg \in Configs
    /\ \E d \in IF cfg.failed THEN BOOLEAN ELSE {FALSE} :
         conn = [client |-> NewConnection(FALSE, FALSE),
                 server |-> NewConnection(cfg.failed, d)]
    /\ wire = [e \in Endpoint |-> << >>]
    /\ eof = [e \in Endpoint |-> FALSE]
    /\ status = [e \in Endpoint |-> "none"]
    /\ sealed = [e \in Endpoint |-> 0]
    /\ delivered = [e \in Endpoint |-> [data |-> 0, alert |-> 0]]
    /\ discarded = [e \in Endpoint |-> 0]
    /\ heard = [e \in Endpoint |-> << >>]
    /\ behind = [e \in Endpoint |-> {}]
    /\ foreignDone = 0

----------------------------------------------------------------------------
(* Alerts. *)

(***************************************************************************)
(* s2n_handle_as_warning.                                                  *)
(***************************************************************************)
s2n_handle_as_warning(level, type) ==
    IF cfg.tls13 THEN type = "user_canceled"
    ELSE level = "warning" /\ cfg.ignoreWarnings

(***************************************************************************)
(* s2n_process_alert_fragment: the first turn of its loop, which is always *)
(* the last: either conn->in is then empty or an alert is complete, and    *)
(* every complete alert returns.  alert_in has room for two bytes, and     *)
(* being read does not make room.                                          *)
(***************************************************************************)
Available(c) == IF c.alertRead THEN 0 ELSE Len(c.alertIn)
Required(c) == LET needed == IF Available(c) = 1 THEN 1 ELSE 2
               IN  IF Len(c.in) < needed THEN Len(c.in) ELSE needed

AlertOk(c) == [ok |-> TRUE, c |-> c]
AlertError(c) == [ok |-> FALSE, c |-> c]

CompleteAlert(c) ==
    IF c.alertIn[2] = "close_notify"
      THEN AlertOk([c EXCEPT !.closed = TRUE, !.received = TRUE])
    ELSE IF s2n_handle_as_warning(c.alertIn[1], c.alertIn[2])
      THEN AlertOk([c EXCEPT !.alertIn = << >>, !.alertRead = FALSE])
    ELSE AlertError([c EXCEPT !.closed = TRUE])

ProcessAlert_NoRoomCheck(c) ==
    LET n == Required(c)
        d == [c EXCEPT !.alertIn = @ \o SubSeq(c.in, 1, n),
                       !.in = SubSeq(@, n + 1, Len(@))]
    IN  IF Available(d) = 2 THEN CompleteAlert(d) ELSE AlertOk(d)

ProcessAlert_ForgetsFragment(c) ==
    IF c.in = << >> \/ Available(c) = 2 THEN AlertError(c)
    ELSE LET n == Required(c)
             d == [c EXCEPT !.alertIn = SubSeq(c.in, 1, n),
                            !.in = SubSeq(@, n + 1, Len(@))]
         IN  IF Available(d) = 2 THEN CompleteAlert(d) ELSE AlertOk(d)

s2n_process_alert_fragment(c) ==
    IF \/ c.in = << >>
       \/ Available(c) = 2
       \/ Len(c.alertIn) + Required(c) > 2
      THEN AlertError(c)
    ELSE LET n == Required(c)
             d == [c EXCEPT !.alertIn = @ \o SubSeq(c.in, 1, n),
                            !.in = SubSeq(@, n + 1, Len(@))]
         IN  IF Available(d) = 2 THEN CompleteAlert(d) ELSE AlertOk(d)

(***************************************************************************)
(* s2n_queue_writer_close_alert_warning: once.                             *)
(***************************************************************************)
QueueClose_NotIfReceived(c) ==
    IF c.writerAlert \/ c.queued \/ c.received THEN c
    ELSE [c EXCEPT !.writerAlert = TRUE, !.queued = TRUE]

s2n_queue_writer_close_alert_warning(c) ==
    IF c.writerAlert \/ c.queued THEN c
    ELSE [c EXCEPT !.writerAlert = TRUE, !.queued = TRUE]

(***************************************************************************)
(* s2n_connection_kill: s2n_connection_apply_error_blinding for what does  *)
(* not open or does not parse.                                             *)
(***************************************************************************)
Kill_StaysOpen(c) == [c EXCEPT !.delayed = TRUE]
s2n_connection_kill(c) == [c EXCEPT !.closed = TRUE, !.delayed = TRUE]

----------------------------------------------------------------------------
(* s2n_flush, as the set of ways it may end.  A flush works on a           *)
(* connection c and its transport w.  It drains conn->out, and while an    *)
(* alert is queued loads and drains that, the reader's before the          *)
(* writer's; it may block wherever conn->out holds something.              *)

HasAlert(c) == c.readerAlert \/ c.writerAlert

Drained(f) ==
    [c |-> [f.c EXCEPT !.out = << >>, !.closed = @ \/ f.c.closing],
     w |-> f.w \o f.c.out]

LoadAlert_WriterFirst(f) ==
    IF f.c.writerAlert
    THEN [f EXCEPT !.c.out = <<AlertRecord(<<"warning", "close_notify">>)>>,
                   !.c.writerAlert = FALSE, !.c.closing = TRUE]
    ELSE [f EXCEPT !.c.out = <<AlertRecord(<<"fatal", "other">>)>>,
                   !.c.readerAlert = FALSE, !.c.closing = TRUE]

LoadAlert(f) ==
    IF f.c.readerAlert
    THEN [f EXCEPT !.c.out = <<AlertRecord(<<"fatal", "other">>)>>,
                   !.c.readerAlert = FALSE, !.c.closing = TRUE]
    ELSE [f EXCEPT !.c.out = <<AlertRecord(<<"warning", "close_notify">>)>>,
                   !.c.writerAlert = FALSE, !.c.closing = TRUE]

CanDrain(f) == f.c.out = << >> \/ Len(f.w) < Capacity

NextStage_Undrained(S) == {LoadAlert(f) : f \in {g \in S : HasAlert(g.c)}}
NextStage(S) == {LoadAlert(Drained(f)) : f \in {g \in S : CanDrain(g) /\ HasAlert(g.c)}}

s2n_flush(c, w) ==
    LET first == {[c |-> c, w |-> w]}
        second == NextStage(first)
        stages == first \cup second \cup NextStage(second)
    IN  [blocked |-> {f \in stages : f.c.out # << >>},
         done |-> {Drained(f) : f \in {g \in stages : CanDrain(g) /\ ~HasAlert(g.c)}}]

----------------------------------------------------------------------------
(* The calls of the application. *)

Alive(e) == ~eof[e]
S2n(e) == ~(cfg.foreign /\ e = "client")
Set(e, f) == conn' = [conn EXCEPT ![e] = f.c] /\ wire' = [wire EXCEPT ![e] = f.w]

(***************************************************************************)
(* s2n_send of two bytes, until they are sent.  A call that blocked with   *)
(* its data in conn->out is repeated, and then acknowledges the data.  An  *)
(* application does not send once it has called s2n_shutdown.              *)
(***************************************************************************)
SendBlocks(e) ==
    /\ \E f \in s2n_flush(conn[e], wire[e]).blocked : Set(e, f)
    /\ UNCHANGED sealed

SendAcknowledges(e) ==
    /\ conn[e].consumed
    /\ \E f \in s2n_flush(conn[e], wire[e]).done :
         Set(e, [f EXCEPT !.c.consumed = FALSE])
    /\ UNCHANGED sealed

SendRecord(e) ==
    /\ ~conn[e].consumed
    /\ sealed[e] + 2 <= MaxData
    /\ \E f \in s2n_flush(conn[e], wire[e]).done :
         LET flush == s2n_flush([f.c EXCEPT !.out = <<AppRecord>>], f.w)
         IN  \/ \E g \in flush.blocked : Set(e, [g EXCEPT !.c.consumed = TRUE])
             \/ \E g \in flush.done : Set(e, g)
    /\ sealed' = [sealed EXCEPT ![e] = @ + 2]

s2n_send(e) ==
    /\ Alive(e) /\ ~cfg.failed /\ status[e] = "none"
    /\ ~conn[e].closed
    /\ SendBlocks(e) \/ SendAcknowledges(e) \/ SendRecord(e)
    /\ UNCHANGED <<cfg, eof, status, delivered, discarded, heard, behind, foreignDone>>

(***************************************************************************)
(* s2n_read_full_record, when conn->in does not hold one: the next record  *)
(* of the transport is opened into conn->in, or fails to open.             *)
(***************************************************************************)
HasRecord(e) == conn[e].broken \/ wire[Peer(e)] # << >>
NextType(e) == IF conn[e].broken THEN "badly_sealed" ELSE Head(wire[Peer(e)]).type
Opened(e, c) == [c EXCEPT !.in = Head(wire[Peer(e)]).bytes, !.plain = TRUE]
Wiped(c) == [c EXCEPT !.in = << >>, !.plain = FALSE]
EndOfStream(e) == ~conn[e].broken /\ wire[Peer(e)] = << >> /\ eof[Peer(e)]

(***************************************************************************)
(* What reading takes: the transport without the record.  Of an alert      *)
(* record, the bytes to the end of the first alert that it completes are   *)
(* heard; whole alerts after these are behind it.                          *)
(***************************************************************************)
Take(e) ==
    IF conn[e].broken THEN wire
    ELSE [wire EXCEPT ![Peer(e)] = Tail(@)]

Pairs(bytes) == {<<bytes[2 * i - 1], bytes[2 * i]>> : i \in 1..(Len(bytes) \div 2)}
FrontLength(before, bytes) ==
    LET missing == IF Len(before) % 2 = 1 THEN 1 ELSE 2
    IN  IF Len(bytes) < missing THEN Len(bytes) ELSE missing

HearBytes(e, bytes) ==
    LET n == FrontLength(heard[e], bytes)
        all == heard[e] \o SubSeq(bytes, 1, n)
        front == SubSeq(all, Len(all) - 1, Len(all))
    IN  /\ heard' = [heard EXCEPT ![e] = all]
        /\ behind' = [behind EXCEPT ![e] = @ \cup
             {[front |-> front, alert |-> a] : a \in Pairs(SubSeq(bytes, n + 1, Len(bytes)))}]
Hear(e) ==
    IF NextType(e) = "alert" THEN HearBytes(e, Head(wire[Peer(e)]).bytes)
    ELSE UNCHANGED <<heard, behind>>

Deliver(d, bytes) ==
    LET n == Cardinality({i \in 1..Len(bytes) : bytes[i] = "data"})
    IN  [data |-> d.data + n, alert |-> d.alert + Len(bytes) - n]

(***************************************************************************)
(* s2n_recv with room for size bytes.  What is in conn->in is application  *)
(* data: a record just opened, or whatever an earlier call left there.     *)
(***************************************************************************)
RecvData(e, size) ==
    /\ conn[e].plain \/ (HasRecord(e) /\ NextType(e) = "app")
    /\ LET c == IF conn[e].plain THEN conn[e] ELSE Opened(e, conn[e])
           n == IF Len(c.in) < size THEN Len(c.in) ELSE size
           rest == SubSeq(c.in, n + 1, Len(c.in))
       IN  /\ conn' = [conn EXCEPT ![e] =
                         IF rest = << >> THEN Wiped(c) ELSE [c EXCEPT !.in = rest]]
           /\ delivered' = [delivered EXCEPT ![e] = Deliver(@, SubSeq(c.in, 1, n))]
    /\ wire' = IF conn[e].plain THEN wire ELSE Take(e)
    /\ UNCHANGED <<heard, behind>>

RecvAlert(e) ==
    /\ ~conn[e].plain /\ HasRecord(e) /\ NextType(e) = "alert"
    /\ LET p == s2n_process_alert_fragment(Opened(e, conn[e]))
           flush == s2n_flush(p.c, wire[e])
           Return(c, w) == /\ conn' = [conn EXCEPT ![e] = c]
                           /\ wire' = [Take(e) EXCEPT ![e] = w]
       IN  \/ ~p.ok /\ Return(p.c, wire[e])
           \/ p.ok /\ \E f \in flush.blocked : Return(f.c, f.w)
           \/ p.ok /\ \E f \in flush.done : Return(Wiped(f.c), f.w)
    /\ Hear(e)
    /\ UNCHANGED delivered

RecvOther(e) ==
    /\ ~conn[e].plain /\ HasRecord(e)
    /\ \/ /\ NextType(e) = "handshake"
          /\ conn' = [conn EXCEPT ![e] = Wiped(@)]
       \/ /\ NextType(e) = "bad_handshake"
          /\ conn' = [conn EXCEPT ![e] = s2n_connection_kill(Opened(e, @))]
       \/ /\ NextType(e) = "badly_sealed"
          /\ conn' = [conn EXCEPT ![e] = [s2n_connection_kill(@) EXCEPT !.broken = TRUE]]
    /\ wire' = Take(e)
    /\ UNCHANGED <<delivered, heard, behind>>

RecvEnd(e) ==
    /\ ~conn[e].plain /\ EndOfStream(e)
    /\ conn' = [conn EXCEPT ![e].closed = TRUE]
    /\ UNCHANGED <<wire, delivered, heard, behind>>

s2n_recv(e) ==
    /\ Alive(e) /\ ~cfg.failed
    /\ ~conn[e].closed
    /\ (\E size \in 1..2 : RecvData(e, size)) \/ RecvAlert(e) \/ RecvOther(e) \/ RecvEnd(e)
    /\ UNCHANGED <<cfg, eof, status, sealed, discarded, foreignDone>>

(***************************************************************************)
(* s2n_negotiate of a client whose server's handshake has failed: it reads *)
(* the alert, in s2n_handshake_read_io, and its application gives up.      *)
(***************************************************************************)
s2n_negotiate(e) ==
    /\ Alive(e) /\ cfg.failed /\ e = "client" /\ status[e] = "none"
    /\ ~conn[e].closed
    /\ HasRecord(e) /\ NextType(e) = "alert"
    /\ LET p == s2n_process_alert_fragment(Opened(e, conn[e]))
       IN  conn' = [conn EXCEPT ![e] = IF p.ok THEN Wiped(p.c) ELSE p.c]
    /\ wire' = Take(e)
    /\ Hear(e)
    /\ UNCHANGED <<cfg, eof, status, sealed, delivered, discarded, foreignDone>>

(***************************************************************************)
(* The last part of s2n_shutdown, s2n_recv_close_notify: what the next     *)
(* record makes of the connection and of the call.                         *)
(***************************************************************************)
CloseNotifyRead(e, c) ==
    CASE NextType(e) = "badly_sealed" ->
           [c |-> [s2n_connection_kill(c) EXCEPT !.broken = TRUE], result |-> "failed"]
      [] NextType(e) = "alert" ->
           LET p == s2n_process_alert_fragment(Opened(e, c))
           IN  [c |-> p.c, result |-> IF p.ok THEN "ok" ELSE "failed"]
      [] OTHER -> [c |-> Opened(e, c), result |-> "failed"]

s2n_recv_close_notify(e, c, w) ==
    IF HasRecord(e)
    THEN LET r == CloseNotifyRead(e, c)
         IN  /\ conn' = [conn EXCEPT ![e] = r.c]
             /\ wire' = [Take(e) EXCEPT ![e] = w]
             /\ status' = [status EXCEPT ![e] = r.result]
             /\ Hear(e)
    ELSE /\ conn' = [conn EXCEPT ![e] = IF EndOfStream(e) THEN [c EXCEPT !.closed = TRUE]
                                        ELSE c]
         /\ wire' = [wire EXCEPT ![e] = w]
         /\ status' = [status EXCEPT ![e] = IF EndOfStream(e) THEN "failed" ELSE "trying"]
         /\ UNCHANGED <<heard, behind>>

(***************************************************************************)
(* s2n_shutdown: not before the delay is over; the close_notify is queued  *)
(* once and flushed, what is left in conn->in is thrown away, and unless   *)
(* it is known already the peer's close_notify is read.  A call that       *)
(* meets another record than an alert fails, with S2N_ERR_SHUTDOWN_RECORD_ *)
(* TYPE, and leaves that record in conn->in.  A call that blocked may be   *)
(* repeated, and so may one that failed.                                   *)
(***************************************************************************)
ShutdownReads(e, f) ==
    LET c == IF f.c.plain THEN Wiped(f.c) ELSE f.c
    IN  /\ discarded' = [discarded EXCEPT ![e] = @ + Deliver([data |-> 0, alert |-> 0], f.c.in).data]
        /\ IF c.received
           THEN /\ Set(e, [f EXCEPT !.c = c])
                /\ status' = [status EXCEPT ![e] = "ok"]
                /\ UNCHANGED <<heard, behind>>
           ELSE s2n_recv_close_notify(e, c, f.w)

s2n_shutdown(e) ==
    /\ Alive(e) /\ status[e] # "ok"
    /\ ~conn[e].delayed
    /\ LET flush == s2n_flush(s2n_queue_writer_close_alert_warning(conn[e]), wire[e])
       IN  \/ /\ \E f \in flush.blocked : Set(e, f)
              /\ status' = [status EXCEPT ![e] = "trying"]
              /\ UNCHANGED <<discarded, heard, behind>>
           \/ \E f \in flush.done : ShutdownReads(e, f)
    /\ UNCHANGED <<cfg, eof, sealed, delivered, foreignDone>>

(***************************************************************************)
(* s2n_connection_get_alert reads the alert and leaves no room behind.     *)
(***************************************************************************)
s2n_connection_get_alert(e) ==
    /\ Alive(e) /\ S2n(e)
    /\ Available(conn[e]) = 2
    /\ conn' = [conn EXCEPT ![e].alertRead = TRUE]
    /\ UNCHANGED <<cfg, wire, eof, status, sealed, delivered, discarded, heard, behind, foreignDone>>

----------------------------------------------------------------------------
(* What is not s2n: time, transports and other implementations. *)

DelayExpires(e) ==
    /\ conn[e].delayed
    /\ conn' = [conn EXCEPT ![e].delayed = FALSE]
    /\ UNCHANGED <<cfg, wire, eof, status, sealed, delivered, discarded, heard, behind, foreignDone>>

CloseTransport(e) ==
    /\ Alive(e) /\ status[e] \in {"ok", "failed"}
    /\ eof' = [eof EXCEPT ![e] = TRUE]
    /\ UNCHANGED <<cfg, conn, wire, status, sealed, delivered, discarded, heard, behind, foreignDone>>

PackedAlert(packing) ==
    CASE packing = "whole" -> {<<AlertRecord(a)>> : a \in Alerts}
      [] packing = "split" -> {<<AlertRecord(<<a[1]>>), AlertRecord(<<a[2]>>)>> : a \in Alerts}
      [] packing = "coalesced" -> {<<AlertRecord(a \o b)>> : a, b \in Alerts}
ForeignRecords ==
    (UNION {PackedAlert(p) : p \in Packings})
      \cup {<<[type |-> t, bytes |-> <<"other">>]>> :
              t \in {"handshake", "bad_handshake", "badly_sealed"}}

ForeignSend ==
    /\ cfg.foreign /\ Alive("client") /\ foreignDone < MaxForeign
    /\ conn["client"].out = << >> /\ Len(wire["client"]) < Capacity
    /\ \E records \in ForeignRecords :
         wire' = [wire EXCEPT !["client"] = @ \o records]
    /\ foreignDone' = foreignDone + 1
    /\ UNCHANGED <<cfg, conn, eof, status, sealed, delivered, discarded, heard, behind>>

Next ==
    \/ \E e \in Endpoint :
         \/ s2n_send(e)
         \/ s2n_recv(e)
         \/ s2n_negotiate(e)
         \/ s2n_shutdown(e)
         \/ s2n_connection_get_alert(e)
         \/ DelayExpires(e)
         \/ CloseTransport(e)
    \/ ForeignSend

Spec == Init /\ [][Next]_vars

(***************************************************************************)
(* An application reads until it calls s2n_shutdown, and from then on only *)
(* repeats that call while it is blocked: nothing tells it to read as well *)
(* or to try again after an error.  Delays end.                            *)
(***************************************************************************)
FairSpec ==
    /\ Spec
    /\ \A e \in Endpoint :
         /\ WF_vars(status[e] = "none" /\ s2n_recv(e))
         /\ WF_vars(s2n_negotiate(e))
         /\ WF_vars(status[e] # "failed" /\ s2n_shutdown(e))
         /\ WF_vars(DelayExpires(e))

----------------------------------------------------------------------------
(***************************************************************************)
(* The types; conn->out holds at most one record, alert_in two bytes.      *)
(***************************************************************************)
TypeOK ==
    /\ cfg \in Configs
    /\ DOMAIN conn = Endpoint
    /\ \A e \in Endpoint :
         /\ conn[e] \in Connection
         /\ Len(conn[e].out) <= 1
         /\ Len(conn[e].alertIn) <= 2
         /\ wire[e] \in Seq(Record)
         /\ heard[e] \in Seq(Byte)
         /\ behind[e] \subseteq [front : Seq(Byte), alert : Seq(Byte)]
    /\ eof \in [Endpoint -> BOOLEAN]
    /\ status \in [Endpoint -> {"none", "trying", "ok", "failed"}]
    /\ sealed \in [Endpoint -> 0..MaxData]
    /\ delivered \in [Endpoint -> [data : Nat, alert : Nat]]
    /\ discarded \in [Endpoint -> Nat]
    /\ foreignDone \in 0..MaxForeign

Heard(e) == Pairs(heard[e])
Ends(a) == a[2] = "close_notify" \/ ~s2n_handle_as_warning(a[1], a[2])

(***************************************************************************)
(* close_notify is the end of the data: when it is received, every byte    *)
(* that the peer put into a record has been delivered, or was thrown away  *)
(* by the receiver's own s2n_shutdown.                                     *)
(***************************************************************************)
NoTruncation ==
    \A e \in Endpoint : conn[e].received /\ S2n(Peer(e)) =>
        delivered[e].data + discarded[e] = sealed[Peer(e)]

(***************************************************************************)
(* However alerts are spread over records, split or coalesced, the first   *)
(* one that a record completes takes effect: it closes the connection      *)
(* unless it is a warning to ignore.  An alert behind it in the same       *)
(* record is never looked at (s2n_process_alert_fragment returns from its  *)
(* loop): what can be said of it is that the connection is closed anyway,  *)
(* or that the alert in front of it was a warning to ignore.  close_notify *)
(* is only reported when it was there and was looked at.                   *)
(***************************************************************************)
AlertsHeeded ==
    \A e \in Endpoint :
        /\ (\E a \in Heard(e) : Ends(a)) => conn[e].closed
        /\ \A b \in behind[e] :
             Ends(b.alert) => conn[e].closed \/ s2n_handle_as_warning(b.front[1], b.front[2])
        /\ conn[e].received => \E a \in Heard(e) : a[2] = "close_notify"

(***************************************************************************)
(* After an error that is blinded nothing more is written until the delay  *)
(* is over, whatever the application calls.                                *)
(***************************************************************************)
Silent(e) ==
    conn[e].delayed /\ conn'[e].delayed =>
        conn'[e].out = conn[e].out /\ Len(wire'[e]) <= Len(wire[e])
BlindedIsSilent == [][\A e \in Endpoint : Silent(e)]_vars

(***************************************************************************)
(* Two s2n endpoints that shut down.  If neither calls s2n_shutdown while  *)
(* data of its peer is still to be read, both calls succeed.  If one does, *)
(* there are three ends and no fourth: a call succeeds; it fails, having   *)
(* met the data; or it is jammed for good, its transport full and its peer *)
(* waiting in s2n_shutdown too, or gone from it with an error.             *)
(***************************************************************************)
Unread(e) == delivered[e].data + discarded[e] < sealed[Peer(e)]
Jammed(e) ==
    /\ status[e] = "trying" /\ conn[e].out # << >> /\ Len(wire[e]) >= Capacity
    /\ status[Peer(e)] \in {"trying", "failed"}
Settled(e) == status[e] \in {"ok", "failed"} \/ Jammed(e)
ShutdownCompletes ==
    ~cfg.failed /\ ~cfg.foreign =>
        /\ \/ <>(\A e \in Endpoint : status[e] = "ok")
           \/ <>(\E e \in Endpoint : status[e] # "none" /\ Unread(e))
        /\ <>[](\A e \in Endpoint : Settled(e))

(***************************************************************************)
(* A client learns of the failure of the server's handshake.               *)
(***************************************************************************)
FailureReported ==
    cfg.failed /\ ~cfg.foreign => <>(<<"fatal", "other">> \in Heard("client"))

(***************************************************************************)
(* What the documentation says: s2n_shutdown does not return with success  *)
(* unless a close_notify was sent and received.                            *)
(***************************************************************************)
ShutdownMeansReceived ==
    \A e \in Endpoint : status[e] = "ok" => conn[e].queued /\ conn[e].received

(***************************************************************************)
(* What a comment of s2n_process_alert_fragment says, that alerts "can     *)
(* still be fragmented or coalesced": the ones behind another one take     *)
(* effect too.                                                             *)
(***************************************************************************)
BehindHeeded ==
    \A e \in Endpoint : (\E b \in behind[e] : Ends(b.alert)) => conn[e].closed

(***************************************************************************)
(* What s2n_read_full_record assumes: only application data is left in     *)
(* conn->in, so that s2n_recv delivers nothing else.                       *)
(***************************************************************************)
OnlyDataDelivered == \A e \in Endpoint : delivered[e].alert = 0
=============================================================================
