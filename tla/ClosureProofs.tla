---------------------------- MODULE ClosureProofs ----------------------------
(***************************************************************************)
(* What is proved of Closure: a close_notify is the end of the data and    *)
(* alerts take effect, for any number of bytes and records, any capacity   *)
(* of the transports and any interleaving of the two applications.         *)
(*                                                                         *)
(* The argument follows one direction, from a writer to its Peer: the      *)
(* records that are in conn->out and on the wire (Lane), the bytes of data *)
(* that are somewhere between the two applications (Account), and what     *)
(* cannot follow a close_notify (Sealing).  The reader's half is Aligned:  *)
(* conn->alert_in and the alerts heard so far fit each other.              *)
(***************************************************************************)
EXTENDS Closure, TLAPS, FiniteSetTheorems, FunctionTheorems, SequenceTheorems

NoData(bytes) == \A i \in 1..Len(bytes) : bytes[i] # "data"
AllData(bytes) == \A i \in 1..Len(bytes) : bytes[i] = "data"

\* A record that is not application data holds none; an alert record is not empty.
Shape(r) ==
    /\ r.type = "alert" => r.bytes # << >>
    /\ IF r.type = "app" THEN r = AppRecord ELSE NoData(r.bytes)
Lane(w) == \A i \in 1..Len(w) : Shape(w[i])

\* What conn->out may hold: nothing, application data or an alert of s2n.
Fatal == AlertRecord(<<"fatal", "other">>)
CloseNotify == AlertRecord(<<"warning", "close_notify">>)
Ready == {AppRecord, Fatal, CloseNotify}
Out(c) == c.out = << >> \/ c.out \in {<<r>> : r \in Ready}

\* Records and bytes of application data.
Apps(w) == Cardinality({i \in 1..Len(w) : w[i].type = "app"})
Data(bytes) == Cardinality({i \in 1..Len(bytes) : bytes[i] = "data"})
Loaded(c) == IF c.out = <<AppRecord>> THEN 1 ELSE 0

\* A byte sequence, a record or a wire with a close_notify.
Closes(bytes) == \E i \in 1..Len(bytes) : bytes[i] = "close_notify"
OutCloses(c) == c.out = <<CloseNotify>>
WireCloses(w) == \E i \in 1..Len(w) : Closes(w[i].bytes)
IsOver(c) == c.queued /\ ~c.writerAlert

(***************************************************************************)
(* A writer that is s2n: no data follows its close_notify.                 *)
(***************************************************************************)
Sealing(c, w) ==
    /\ c.writerAlert => c.queued
    /\ WireCloses(w) \/ OutCloses(c) => IsOver(c)
    /\ \A i, j \in 1..Len(w) : i < j /\ Closes(w[i].bytes) => w[j].type # "app"
    /\ WireCloses(w) => Loaded(c) = 0

(***************************************************************************)
(* The reader: either alert_in is full, which is the end, or it is in step *)
(* with the alerts heard, none of which ended the connection.              *)
(***************************************************************************)
FrontOf(h, bytes) == SubSeq(bytes, 1, FrontLength(h, bytes))
Aligned(c, h) ==
    \/ Len(c.alertIn) = 2 /\ c.closed
    \/ /\ ~c.alertRead /\ c.alertIn = IF Len(h) % 2 = 1 THEN <<h[Len(h)]>> ELSE << >>
       /\ \A a \in Pairs(h) : ~Ends(a)

Inner(c) == (AllData(c.in) \/ NoData(c.in)) /\ (~c.plain => c.in = << >>)

TypeInv ==
    /\ cfg \in Configs
    /\ conn \in [Endpoint -> Connection]
    /\ wire \in [Endpoint -> Seq(Record)]
    /\ heard \in [Endpoint -> Seq(Byte)]
    /\ status \in [Endpoint -> {"none", "trying", "ok", "failed"}]
    /\ sealed \in [Endpoint -> Nat]
    /\ delivered \in [Endpoint -> [data : Nat, alert : Int]]
    /\ discarded \in [Endpoint -> Nat]

(***************************************************************************)
(* What is known of a reader c that has heard h, and of a writer c, its    *)
(* wire w, the n bytes that were delivered or discarded and those that are *)
(* in the reader's conn->in.                                               *)
(***************************************************************************)
Reads(w, c, h) ==
    /\ Inner(c)
    /\ Aligned(c, h)
    /\ c.received => \E a \in Pairs(h) : a[2] = "close_notify"
    /\ Lane(w)

Writes(c, w, total, st, n, in, h) ==
    /\ n \in Nat /\ in \in Seq(Byte) /\ h \in Seq(Byte)
    /\ total = n + Data(in) + 2 * (Apps(w) + Loaded(c))
    /\ Sealing(c, w)
    /\ c.queued => st # "none"
    /\ Closes(h) => IsOver(c) /\ Data(in) = 0 /\ Apps(w) = 0 /\ Loaded(c) = 0

Reading(p, e) == Reads(wire[p], conn[e], heard[e])
Writing(p, e) ==
    Writes(conn[p], wire[p], sealed[p], status[p], delivered[e].data + discarded[e], conn[e].in, heard[e])

\* A client that negotiates with a server that failed has nothing in conn->in.
Quiet(e, c, st) == cfg.failed /\ e = "client" /\ st = "none" /\ ~c.closed => ~c.plain

CInv ==
    /\ TypeInv
    /\ \A p \in Endpoint : Out(conn[p]) /\ Quiet(p, conn[p], status[p])
    /\ \A p \in Endpoint : Reading(p, Peer(p))
    /\ \A p \in Endpoint : S2n(p) => Writing(p, Peer(p))
-----------------------------------------------------------------------------
(* Records on a wire. *)

LEMMA ReadyRecords ==
    ASSUME NEW r \in Ready
    PROVE  /\ r \in Record /\ Shape(r)
           /\ (r.type = "app") <=> r = AppRecord
           /\ Closes(r.bytes) <=> r = CloseNotify
  <1>1. CASE r = AppRecord
    <2>1. r.type = "app" /\ r.bytes = <<"data", "data">> BY <1>1 DEF AppRecord
    <2>2. r \in Record BY <1>1 DEF AppRecord, Record, RecordType, Byte
    <2>3. ~Closes(r.bytes) BY <2>1 DEF Closes
    <2>4. r # CloseNotify BY <2>1 DEF CloseNotify, AlertRecord
    <2> QED BY <1>1, <2>1, <2>2, <2>3, <2>4 DEF Shape
  <1>2. CASE r = Fatal
    <2>1. r.type = "alert" /\ r.bytes = <<"fatal", "other">> BY <1>2 DEF Fatal, AlertRecord
    <2>2. r \in Record BY <1>2 DEF Fatal, AlertRecord, Record, RecordType, Byte
    <2>3. ~Closes(r.bytes) /\ NoData(r.bytes) BY <2>1 DEF Closes, NoData
    <2>4. r # CloseNotify /\ r # AppRecord BY <2>1 DEF CloseNotify, AlertRecord, AppRecord
    <2>5. r.bytes # << >> BY <2>1
    <2> QED BY <2>1, <2>2, <2>3, <2>4, <2>5 DEF Shape
  <1>3. CASE r = CloseNotify
    <2>1. r.type = "alert" /\ r.bytes = <<"warning", "close_notify">> BY <1>3 DEF CloseNotify, AlertRecord
    <2>2. r \in Record BY <1>3 DEF CloseNotify, AlertRecord, Record, RecordType, Byte
    <2>3. Closes(r.bytes) /\ NoData(r.bytes) BY <2>1 DEF Closes, NoData
    <2>4. r # AppRecord BY <2>1 DEF AppRecord
    <2>5. r.bytes # << >> BY <2>1
    <2> QED BY <1>3, <2>1, <2>2, <2>3, <2>4, <2>5 DEF Shape
  <1> QED BY <1>1, <1>2, <1>3 DEF Ready

LEMMA AppsType == ASSUME NEW w \in Seq(Record) PROVE Apps(w) \in Nat
  <1> DEFINE S == {i \in 1..Len(w) : w[i].type = "app"}
  <1>1. IsFiniteSet(1..Len(w)) /\ S \in SUBSET (1..Len(w)) BY FS_Interval
  <1>2. IsFiniteSet(S) BY <1>1, FS_Subset
  <1> QED BY <1>2, FS_CardinalityType DEF Apps

\* Does a record hold application data?
One(r) == IF r.type = "app" THEN 1 ELSE 0

LEMMA AppsAppend ==
    ASSUME NEW w \in Seq(Record), NEW r \in Record
    PROVE  Apps(w \o <<r>>) = Apps(w) + One(r)
  <1> DEFINE n == Len(w)
             v == w \o <<r>>
             S == {i \in 1..n : w[i].type = "app"}
             T == {i \in 1..Len(v) : v[i].type = "app"}
  <1>1. n \in Nat /\ Len(v) = n + 1 /\ (\A i \in 1..n : v[i] = w[i]) /\ v[n + 1] = r OBVIOUS
  <1>2. IsFiniteSet(S)
    <2>1. IsFiniteSet(1..n) /\ S \in SUBSET (1..n) BY <1>1, FS_Interval
    <2> QED BY <2>1, FS_Subset
  <1>3. n + 1 \notin S BY <1>1
  <1> HIDE DEF v
  <1>4. T = IF r.type = "app" THEN S \cup {n + 1} ELSE S BY <1>1
  <1> HIDE DEF n, S, T
  <1>5. Cardinality(S) \in Nat /\ Cardinality(S \cup {n + 1}) = Cardinality(S) + 1
    BY <1>2, <1>3, FS_AddElement, FS_CardinalityType
  <1>6. Cardinality(T) = Cardinality(S) + One(r) BY <1>4, <1>5 DEF One
  <1> QED BY <1>6 DEF Apps, S, T, n, v

LEMMA AppsTail ==
    ASSUME NEW w \in Seq(Record), w # << >>
    PROVE  Apps(w) = Apps(Tail(w)) + One(Head(w))
  <1> DEFINE n == Len(w)
             S == {i \in 1..n : w[i].type = "app"}
             T == {i \in 1..Len(Tail(w)) : Tail(w)[i].type = "app"}
             f == [i \in T |-> i + 1]
  <1>1. /\ n \in Nat \ {0} /\ Len(Tail(w)) = n - 1
        /\ \A i \in 1..(n - 1) : Tail(w)[i] = w[i + 1]
        /\ Head(w) = w[1]
    BY HeadTailProperties, EmptySeq, LenProperties
  <1>2. IsFiniteSet(S) /\ IsFiniteSet(T)
    <2>1. IsFiniteSet(1..n) /\ S \in SUBSET (1..n) /\ T \in SUBSET (1..n) BY <1>1, FS_Interval
    <2> QED BY <2>1, FS_Subset
  <1>3. f \in Bijection(T, S \ {1})
    <2>1. f \in [T -> S \ {1}]
      <3>1. ASSUME NEW i \in T PROVE i + 1 \in S \ {1} BY <1>1
      <3> HIDE DEF S, T
      <3> QED BY <3>1
    <2>2. \A i, j \in T : f[i] = f[j] => i = j BY <1>1
    <2>3. \A j \in S \ {1} : \E i \in T : f[i] = j
      <3> TAKE j \in S \ {1}
      <3>1. j - 1 \in T /\ f[j - 1] = j BY <1>1
      <3> QED BY <3>1
    <2> HIDE DEF f, S, T
    <2> QED BY <2>1, <2>2, <2>3, Fun_IsBij
  <1>4. 1 \in S <=> Head(w).type = "app" BY <1>1
  <1> HIDE DEF n, S, T, f
  <1>5. Cardinality(S \ {1}) = Cardinality(T) /\ Cardinality(T) \in Nat
    BY <1>2, <1>3, FS_Bijection, FS_CardinalityType DEF ExistsBijection
  <1>6. /\ Cardinality(S) \in Nat
        /\ Cardinality(S \ {1}) = IF 1 \in S THEN Cardinality(S) - 1 ELSE Cardinality(S)
    BY <1>2, FS_RemoveElement, FS_CardinalityType
  <1>7. Cardinality(S) = Cardinality(T) + One(Head(w)) BY <1>4, <1>5, <1>6 DEF One
  <1> QED BY <1>7 DEF Apps, S, T, n

LEMMA DataOf ==
    ASSUME NEW b \in Seq(Byte)
    PROVE  Data(b) \in Nat /\ (AllData(b) => Data(b) = Len(b)) /\ (NoData(b) => Data(b) = 0)
  <1> DEFINE S == {i \in 1..Len(b) : b[i] = "data"}
  <1>0. Len(b) \in Nat /\ S \in SUBSET (1..Len(b)) OBVIOUS
  <1>1. IsFiniteSet(1..Len(b)) /\ Cardinality(1..Len(b)) = Len(b)
    <2>1. IsFiniteSet(1..Len(b)) /\ Cardinality(1..Len(b)) = IF 1 > Len(b) THEN 0 ELSE Len(b) - 1 + 1
      BY <1>0, FS_Interval
    <2> QED BY <1>0, <2>1
  <1>2. Data(b) = Cardinality(S) /\ Data(b) \in Nat BY <1>0, <1>1, FS_Subset, FS_CardinalityType DEF Data
  <1>3. AllData(b) => S = 1..Len(b) BY DEF AllData
  <1>4. NoData(b) => S = {} BY DEF NoData
  <1> HIDE DEF S
  <1> QED BY <1>1, <1>2, <1>3, <1>4, FS_EmptySet

LEMMA LaneAppend ==
    ASSUME NEW w \in Seq(Record), NEW r \in Record, Shape(r)
    PROVE  Lane(w) => Lane(w \o <<r>>)
  <1> DEFINE v == w \o <<r>>
  <1>1. /\ Len(w) \in Nat /\ Len(v) = Len(w) + 1 /\ v[Len(w) + 1] = r
        /\ \A i \in 1..Len(w) : v[i] = w[i]
    OBVIOUS
  <1> HIDE DEF v
  <1>2. ASSUME Lane(w), NEW i \in 1..Len(v) PROVE Shape(v[i])
    <2>1. CASE i = Len(w) + 1 BY <1>1, <2>1
    <2>2. CASE i \in 1..Len(w) BY <1>1, <1>2, <2>2 DEF Lane
    <2> QED BY <1>1, <2>1, <2>2
  <1> QED BY <1>2 DEF Lane, v

LEMMA LaneTail ==
    ASSUME NEW w \in Seq(Record), Lane(w), w # << >>
    PROVE  Shape(Head(w)) /\ Lane(Tail(w))
  <1> DEFINE v == Tail(w)
  <1>1. /\ Len(w) \in Nat \ {0} /\ Len(v) = Len(w) - 1 /\ Head(w) = w[1]
        /\ \A i \in 1..(Len(w) - 1) : v[i] = w[i + 1]
    BY HeadTailProperties, EmptySeq, LenProperties
  <1> HIDE DEF v
  <1>2. Shape(Head(w)) BY <1>1 DEF Lane
  <1>3. ASSUME NEW i \in 1..Len(v) PROVE Shape(v[i])
    <2>1. i + 1 \in 1..Len(w) /\ v[i] = w[i + 1] BY <1>1
    <2> QED BY <2>1 DEF Lane
  <1> QED BY <1>2, <1>3 DEF Lane, v

-----------------------------------------------------------------------------
(* Flushing. *)

\* A flush changes what is queued to be written, and may close; nothing else.
Flushes(c, w, d, v) ==
    /\ d \in Connection /\ v \in Seq(Record) /\ Out(d)
    /\ d.queued = c.queued /\ d.received = c.received /\ d.alertIn = c.alertIn /\ d.alertRead = c.alertRead
    /\ d.in = c.in /\ d.plain = c.plain
    /\ c.closed => d.closed
    /\ d.writerAlert => c.writerAlert
    /\ Lane(w) => Lane(v)
    /\ Apps(v) + Loaded(d) = Apps(w) + Loaded(c)
    /\ Sealing(c, w) => Sealing(d, v)

LEMMA FlushesTransitive ==
    ASSUME NEW c, NEW w, NEW d, NEW v, NEW e, NEW x, Flushes(c, w, d, v), Flushes(d, v, e, x)
    PROVE  Flushes(c, w, e, x)
  BY DEF Flushes

LEMMA DrainedFlushes ==
    ASSUME NEW c \in Connection, NEW w \in Seq(Record), Out(c)
    PROVE  LET f == Drained([c |-> c, w |-> w]) IN Flushes(c, w, f.c, f.w) /\ f.c.out = << >>
  <1> DEFINE d == [c EXCEPT !.out = << >>, !.closed = c.closed \/ c.closing]
             v == w \o c.out
  <1>1. Drained([c |-> c, w |-> w]) = [c |-> d, w |-> v] BY DEF Drained
  <1>2. << >> \in Seq(Record) /\ (c.closed \/ c.closing) \in BOOLEAN OBVIOUS
  <1>3. /\ d \in Connection /\ d.out = << >> /\ d.queued = c.queued /\ d.received = c.received
        /\ d.alertIn = c.alertIn /\ d.alertRead = c.alertRead /\ d.in = c.in /\ d.plain = c.plain
        /\ (c.closed => d.closed) /\ d.writerAlert = c.writerAlert
    BY <1>2 DEF Connection
  <1> HIDE DEF d
  <1>4. ASSUME c.out = << >> PROVE Flushes(c, w, d, v)
    <2>1. v = w BY <1>4
    <2>2. Loaded(c) = 0 /\ Loaded(d) = 0 /\ ~OutCloses(c) /\ ~OutCloses(d)
      BY <1>4, <1>3 DEF Loaded, OutCloses
    <2>3. Sealing(c, w) => Sealing(d, v) BY <1>3, <2>1, <2>2 DEF Sealing, IsOver
    <2> HIDE DEF v
    <2>4. Out(d) BY <1>3 DEF Out
    <2> QED BY <1>3, <2>1, <2>2, <2>3, <2>4 DEF Flushes
  <1>5. ASSUME NEW r \in Ready, c.out = <<r>>
        PROVE  Flushes(c, w, d, v)
    <2>1. /\ r \in Record /\ Shape(r)
          /\ (r.type = "app") <=> r = AppRecord
          /\ Closes(r.bytes) <=> r = CloseNotify
      BY ReadyRecords
    <2>2. v = w \o <<r>> /\ v \in Seq(Record) /\ Len(w) \in Nat /\ Len(v) = Len(w) + 1 /\ v[Len(w) + 1] = r
          /\ \A i \in 1..Len(w) : v[i] = w[i]
      BY <1>5, <2>1
    <2>3. Lane(w) => Lane(v) BY <2>1, <2>2, LaneAppend
    <2>4. /\ Loaded(d) = 0 /\ Loaded(c) = One(r) /\ ~OutCloses(d)
          /\ OutCloses(c) <=> r = CloseNotify
      BY <1>3, <1>5, <2>1 DEF Loaded, OutCloses, One
    <2>5. Apps(v) + Loaded(d) = Apps(w) + Loaded(c)
      <3>1. Apps(v) = Apps(w) + One(r) /\ Apps(w) \in Nat BY <2>1, <2>2, AppsAppend, AppsType
      <3> QED BY <3>1, <2>4 DEF One
    <2>6. ASSUME Sealing(c, w) PROVE Sealing(d, v)
      <3>1. WireCloses(v) <=> WireCloses(w) \/ r = CloseNotify
        <4>1. ASSUME NEW i \in 1..Len(v), Closes(v[i].bytes) PROVE WireCloses(w) \/ r = CloseNotify
          <5>1. i \in 1..Len(w) \/ i = Len(w) + 1 BY <2>2
          <5> QED BY <4>1, <5>1, <2>1, <2>2 DEF WireCloses
        <4>2. ASSUME NEW i \in 1..Len(w), Closes(w[i].bytes) PROVE WireCloses(v)
          <5>1. i \in 1..Len(v) BY <2>2
          <5> QED BY <4>2, <5>1, <2>2 DEF WireCloses
        <4>3. r = CloseNotify => WireCloses(v)
          <5>1. Len(w) + 1 \in 1..Len(v) BY <2>2
          <5> QED BY <5>1, <2>1, <2>2 DEF WireCloses
        <4> QED BY <4>1, <4>2, <4>3 DEF WireCloses
      <3>2. WireCloses(v) \/ OutCloses(d) => IsOver(d) BY <3>1, <2>4, <2>6, <1>3 DEF Sealing, IsOver
      <3>3. ASSUME NEW i \in 1..Len(v), NEW j \in 1..Len(v), i < j, Closes(v[i].bytes) PROVE v[j].type # "app"
        <4>1. i \in 1..Len(w) /\ v[i] = w[i] /\ WireCloses(w) BY <3>3, <2>2 DEF WireCloses
        <4>2. CASE j \in 1..Len(w) BY <4>1, <4>2, <3>3, <2>2, <2>6 DEF Sealing
        <4>3. CASE j = Len(w) + 1 BY <4>1, <4>3, <2>2, <2>4, <2>6 DEF Sealing, One
        <4> QED BY <4>2, <4>3, <2>2
      <3> QED BY <3>2, <3>3, <2>4, <1>3, <2>6 DEF Sealing
    <2> QED BY <1>3, <2>2, <2>3, <2>5, <2>6 DEF Flushes, Out
  <1>6. Flushes(c, w, d, v) /\ d.out = << >>
    <2>1. c.out = << >> \/ \E r \in Ready : c.out = <<r>> BY DEF Out
    <2> QED BY <1>3, <1>4, <1>5, <2>1
  <1> HIDE DEF v
  <1> QED BY <1>1, <1>6

LEMMA LoadFlushes ==
    ASSUME NEW c \in Connection, NEW w \in Seq(Record), c.out = << >>, HasAlert(c)
    PROVE  LET f == LoadAlert([c |-> c, w |-> w]) IN Flushes(c, w, f.c, f.w)
  <1> DEFINE r == IF c.readerAlert THEN Fatal ELSE CloseNotify
             d == [c EXCEPT !.out = <<r>>, !.closing = TRUE,
                            !.readerAlert = FALSE, !.writerAlert = c.writerAlert /\ c.readerAlert]
  <1>1. LoadAlert([c |-> c, w |-> w]) = [c |-> d, w |-> w]
    <2>0. c.readerAlert \in BOOLEAN /\ c.writerAlert \in BOOLEAN BY DEF Connection
    <2>1. CASE c.readerAlert
      <3>1. LoadAlert([c |-> c, w |-> w]) =
               [c |-> [c EXCEPT !.out = <<Fatal>>, !.readerAlert = FALSE, !.closing = TRUE], w |-> w]
        BY <2>1 DEF LoadAlert, Fatal
      <3>2. d = [c EXCEPT !.out = <<Fatal>>, !.readerAlert = FALSE, !.closing = TRUE]
        BY <2>0, <2>1 DEF Connection
      <3> QED BY <3>1, <3>2
    <2>2. CASE ~c.readerAlert
      <3>1. LoadAlert([c |-> c, w |-> w]) =
               [c |-> [c EXCEPT !.out = <<CloseNotify>>, !.writerAlert = FALSE, !.closing = TRUE], w |-> w]
        BY <2>2 DEF LoadAlert, CloseNotify
      <3>2. d = [c EXCEPT !.out = <<CloseNotify>>, !.writerAlert = FALSE, !.closing = TRUE]
        BY <2>0, <2>2 DEF Connection
      <3> QED BY <3>1, <3>2
    <2> QED BY <2>1, <2>2
  <1>2. r \in Ready /\ r \in Record /\ r # AppRecord /\ (r = CloseNotify => c.writerAlert /\ ~c.readerAlert)
    <2>1. Fatal # CloseNotify /\ Fatal # AppRecord /\ CloseNotify # AppRecord
      BY DEF Fatal, CloseNotify, AppRecord, AlertRecord
    <2>2. r \in Ready BY DEF Ready
    <2> QED BY <2>1, <2>2, ReadyRecords DEF HasAlert
  <1> HIDE DEF r
  <1>3. <<r>> \in Seq(Record) /\ (c.writerAlert /\ c.readerAlert) \in BOOLEAN BY <1>2 DEF Connection
  <1>4. /\ d \in Connection /\ d.out = <<r>> /\ d.queued = c.queued /\ d.received = c.received
        /\ d.alertIn = c.alertIn /\ d.alertRead = c.alertRead /\ d.in = c.in /\ d.plain = c.plain
        /\ d.closed = c.closed /\ d.writerAlert = (c.writerAlert /\ c.readerAlert)
    BY <1>3 DEF Connection
  <1> HIDE DEF d
  <1>5. Loaded(c) = 0 /\ Loaded(d) = 0 /\ (OutCloses(d) <=> r = CloseNotify) /\ ~OutCloses(c)
    BY <1>2, <1>4 DEF Loaded, OutCloses
  <1>6. Sealing(c, w) => Sealing(d, w) BY <1>2, <1>4, <1>5 DEF Sealing, IsOver
  <1>7. Out(d) BY <1>2, <1>4 DEF Out
  <1>8. Flushes(c, w, d, w) BY <1>4, <1>5, <1>6, <1>7 DEF Flushes
  <1> QED BY <1>1, <1>8

LEMMA FlushResult ==
    ASSUME NEW c \in Connection, NEW w \in Seq(Record), Out(c)
    PROVE  /\ \A f \in s2n_flush(c, w).blocked : Flushes(c, w, f.c, f.w) /\ f = [c |-> f.c, w |-> f.w]
           /\ \A f \in s2n_flush(c, w).done :
                Flushes(c, w, f.c, f.w) /\ f = [c |-> f.c, w |-> f.w] /\ f.c.out = << >>
  <1> DEFINE Good(f) == f = [c |-> f.c, w |-> f.w] /\ Flushes(c, w, f.c, f.w)
             start == [c |-> c, w |-> w]
             first == {start}
             second == NextStage(first)
             third == NextStage(second)
  <1>1. Good(start) BY DEF Flushes
  <1>2. ASSUME NEW f, Good(f) PROVE Good(Drained(f)) /\ Drained(f).c.out = << >>
    <2>1. f.c \in Connection /\ f.w \in Seq(Record) /\ Out(f.c) BY <1>2 DEF Flushes
    <2>2. LET g == Drained([c |-> f.c, w |-> f.w]) IN Flushes(f.c, f.w, g.c, g.w) /\ g.c.out = << >>
      BY <2>1, DrainedFlushes
    <2>3. Flushes(f.c, f.w, Drained(f).c, Drained(f).w) /\ Drained(f).c.out = << >> BY <2>2, <1>2
    <2>4. Flushes(c, w, Drained(f).c, Drained(f).w) BY <2>3, <1>2, FlushesTransitive
    <2>5. Drained(f) = [c |-> Drained(f).c, w |-> Drained(f).w] BY DEF Drained
    <2> QED BY <2>3, <2>4, <2>5
  <1>3. ASSUME NEW f, Good(f), f.c.out = << >>, HasAlert(f.c) PROVE Good(LoadAlert(f))
    <2>1. f.c \in Connection /\ f.w \in Seq(Record) BY <1>3 DEF Flushes
    <2>2. LET g == LoadAlert([c |-> f.c, w |-> f.w]) IN Flushes(f.c, f.w, g.c, g.w)
      BY <1>3, <2>1, LoadFlushes
    <2>3. Flushes(f.c, f.w, LoadAlert(f).c, LoadAlert(f).w) BY <2>2, <1>3
    <2>4. Flushes(c, w, LoadAlert(f).c, LoadAlert(f).w) BY <2>3, <1>3, FlushesTransitive
    <2>5. LoadAlert(f) = [c |-> LoadAlert(f).c, w |-> LoadAlert(f).w]
      <3> DEFINE x == f.c
                 y == f.w
      <3>1. f = [c |-> x, w |-> y] BY <1>3
      <3> HIDE DEF x, y
      <3> QED BY <3>1 DEF LoadAlert
    <2> QED BY <2>4, <2>5
  <1>4. ASSUME NEW f, Good(f), HasAlert(f.c) PROVE Good(LoadAlert(Drained(f)))
    <2>1. HasAlert(Drained(f).c)
      <3> DEFINE x == f.c
                 y == f.w
      <3>1. f = [c |-> x, w |-> y] /\ x \in Connection BY <1>4 DEF Flushes
      <3>2. HasAlert(x) BY <1>4
      <3> HIDE DEF x, y
      <3>3. Drained(f).c = [x EXCEPT !.out = << >>, !.closed = x.closed \/ x.closing] BY <3>1 DEF Drained
      <3> QED BY <3>1, <3>2, <3>3 DEF HasAlert, Connection
    <2> QED BY <1>2, <1>3, <1>4, <2>1
  <1> HIDE DEF Good
  <1>5. ASSUME NEW S, \A f \in S : Good(f) PROVE \A g \in NextStage(S) : Good(g)
    BY <1>4, <1>5 DEF NextStage
  <1>6. \A f \in first \cup second \cup third : Good(f)
    <2>1. \A f \in first : Good(f) BY <1>1
    <2> HIDE DEF first
    <2>2. \A f \in second : Good(f) BY <2>1, <1>5
    <2> HIDE DEF second
    <2>3. \A f \in third : Good(f) BY <2>2, <1>5
    <2> QED BY <2>1, <2>2, <2>3
  <1> DEFINE stages == first \cup second \cup third
  <1>7. /\ s2n_flush(c, w).blocked = {f \in stages : f.c.out # << >>}
        /\ s2n_flush(c, w).done = {Drained(f) : f \in {g \in stages : CanDrain(g) /\ ~HasAlert(g.c)}}
    BY DEF s2n_flush
  <1> HIDE DEF stages
  <1>8. \A f \in stages : Good(f) BY <1>6 DEF stages
  <1>9. \A f : Good(f) => Flushes(c, w, f.c, f.w) /\ f = [c |-> f.c, w |-> f.w] BY DEF Good
  <1> QED BY <1>2, <1>7, <1>8, <1>9

-----------------------------------------------------------------------------
(* Alerts. *)

\* The alerts heard, as they grow by records.
LEMMA PairsGrow ==
    ASSUME NEW h \in Seq(Byte), NEW x \in Seq(Byte)
    PROVE  Pairs(h) \subseteq Pairs(h \o x)
  <1> DEFINE n == Len(h)
  <1>0. n \in Nat OBVIOUS
  <1>1. Len(h \o x) = n + Len(x) /\ Len(x) \in Nat /\ \A i \in 1..n : (h \o x)[i] = h[i] OBVIOUS
  <1>2. ASSUME NEW i \in 1..(n \div 2)
        PROVE i \in 1..(Len(h \o x) \div 2) /\ (h \o x)[2 * i - 1] = h[2 * i - 1] /\ (h \o x)[2 * i] = h[2 * i]
    <2>1. 2 * i - 1 \in 1..n /\ 2 * i \in 1..n BY <1>0
    <2>2. i <= (n + Len(x)) \div 2 BY <1>0, <1>1
    <2> QED BY <2>1, <2>2, <1>1
  <1> QED BY <1>2 DEF Pairs

\* With the length even, what two bytes or one byte add; with it odd, what one byte adds.
LEMMA PairsExtended ==
    ASSUME NEW h \in Seq(Byte), NEW g \in Seq(Byte), NEW k \in Nat,
           Len(h) \in {2 * k, 2 * k + 1}, \A i \in 1..(2 * k) : g[i] = h[i]
    PROVE  /\ Len(g) \in {2 * k, 2 * k + 1} => Pairs(g) = Pairs(h)
           /\ Len(g) = 2 * k + 2 => Pairs(g) = Pairs(h) \cup {<<g[2 * k + 1], g[2 * k + 2]>>}
  <1> DEFINE P(x, i) == <<x[2 * i - 1], x[2 * i]>>
  <1>1. Len(h) \div 2 = k OBVIOUS
  <1>2. \A i \in 1..k : 2 * i - 1 \in 1..(2 * k) /\ 2 * i \in 1..(2 * k) OBVIOUS
  <1>3. \A i \in 1..k : P(g, i) = P(h, i) BY <1>2
  <1>4. Pairs(h) = {P(h, i) : i \in 1..k} BY <1>1 DEF Pairs
  <1>5. ASSUME Len(g) \in {2 * k, 2 * k + 1} PROVE Pairs(g) = Pairs(h)
    <2>1. Len(g) \div 2 = k BY <1>5
    <2>2. Pairs(g) = {P(g, i) : i \in 1..k} BY <2>1 DEF Pairs
    <2> HIDE DEF P
    <2> QED BY <1>3, <1>4, <2>2
  <1>6. ASSUME Len(g) = 2 * k + 2 PROVE Pairs(g) = Pairs(h) \cup {<<g[2 * k + 1], g[2 * k + 2]>>}
    <2>1. Len(g) \div 2 = k + 1 BY <1>6
    <2>2. Pairs(g) = {P(g, i) : i \in 1..(k + 1)} BY <2>1 DEF Pairs
    <2>3. P(g, k + 1) = <<g[2 * k + 1], g[2 * k + 2]>>
      <3>1. 2 * (k + 1) - 1 = 2 * k + 1 /\ 2 * (k + 1) = 2 * k + 2 OBVIOUS
      <3> QED BY <3>1
    <2>4. 1..(k + 1) = (1..k) \cup {k + 1} OBVIOUS
    <2> HIDE DEF P
    <2> QED BY <1>3, <1>4, <2>2, <2>3, <2>4
  <1> QED BY <1>5, <1>6

LEMMA PairsWhole ==
    ASSUME NEW h \in Seq(Byte), NEW a \in Byte, NEW b \in Byte, NEW g, g = h \o <<a, b>>, Len(h) % 2 = 0
    PROVE  g \in Seq(Byte) /\ Pairs(g) = Pairs(h) \cup {<<a, b>>} /\ Len(g) % 2 = 0
  <1> DEFINE k == Len(h) \div 2
  <1>1. k \in Nat /\ Len(h) = 2 * k OBVIOUS
  <1>2. g \in Seq(Byte) /\ Len(g) = Len(h) + 2 /\ g[Len(h) + 1] = a /\ g[Len(h) + 2] = b /\ \A i \in 1..Len(h) : g[i] = h[i]
    OBVIOUS
  <1> HIDE DEF k
  <1>3. Len(g) = 2 * k + 2 /\ g[2 * k + 1] = a /\ g[2 * k + 2] = b /\ \A i \in 1..(2 * k) : g[i] = h[i] BY <1>1, <1>2
  <1>4. Pairs(g) = Pairs(h) \cup {<<g[2 * k + 1], g[2 * k + 2]>>} BY <1>1, <1>2, <1>3, PairsExtended
  <1>5. <<g[2 * k + 1], g[2 * k + 2]>> = <<a, b>> BY <1>3
  <1>6. Len(g) % 2 = 0
    <2>1. (2 * k + 2) % 2 = 0 BY <1>1
    <2> QED BY <1>3, <2>1
  <1>7. Pairs(g) = Pairs(h) \cup {<<a, b>>} BY <1>4, <1>5, Zenon
  <1> QED BY <1>2, <1>6, <1>7

LEMMA PairsFirst ==
    ASSUME NEW h \in Seq(Byte), NEW a \in Byte, NEW g, g = h \o <<a>>, Len(h) % 2 = 0
    PROVE  g \in Seq(Byte) /\ Pairs(g) = Pairs(h) /\ Len(g) % 2 = 1 /\ g[Len(g)] = a
  <1> DEFINE k == Len(h) \div 2
  <1>1. k \in Nat /\ Len(h) = 2 * k OBVIOUS
  <1>2. g \in Seq(Byte) /\ Len(g) = Len(h) + 1 /\ g[Len(h) + 1] = a /\ \A i \in 1..Len(h) : g[i] = h[i]
    OBVIOUS
  <1> HIDE DEF k
  <1>3. Len(g) = 2 * k + 1 /\ g[2 * k + 1] = a /\ \A i \in 1..(2 * k) : g[i] = h[i] BY <1>1, <1>2
  <1>4. Pairs(g) = Pairs(h) BY <1>1, <1>2, <1>3, PairsExtended
  <1> QED BY <1>1, <1>2, <1>3, <1>4

LEMMA PairsSecond ==
    ASSUME NEW h \in Seq(Byte), NEW a \in Byte, NEW g, g = h \o <<a>>, Len(h) % 2 = 1
    PROVE  g \in Seq(Byte) /\ Pairs(g) = Pairs(h) \cup {<<h[Len(h)], a>>} /\ Len(g) % 2 = 0
  <1> DEFINE k == Len(h) \div 2
  <1>1. k \in Nat /\ Len(h) = 2 * k + 1 OBVIOUS
  <1>2. g \in Seq(Byte) /\ Len(g) = Len(h) + 1 /\ g[Len(h) + 1] = a /\ \A i \in 1..Len(h) : g[i] = h[i]
    OBVIOUS
  <1> HIDE DEF k
  <1>3. /\ Len(g) = 2 * k + 2 /\ g[2 * k + 1] = h[Len(h)] /\ g[2 * k + 2] = a
        /\ \A i \in 1..(2 * k) : g[i] = h[i]
    BY <1>1, <1>2
  <1>4. Pairs(g) = Pairs(h) \cup {<<g[2 * k + 1], g[2 * k + 2]>>} BY <1>1, <1>2, <1>3, PairsExtended
  <1>5. <<g[2 * k + 1], g[2 * k + 2]>> = <<h[Len(h)], a>> BY <1>3
  <1>6. Len(g) % 2 = 0
    <2>1. (2 * k + 2) % 2 = 0 BY <1>1
    <2> QED BY <1>3, <2>1
  <1>7. Pairs(g) = Pairs(h) \cup {<<h[Len(h)], a>>} BY <1>4, <1>5, Zenon
  <1> QED BY <1>2, <1>6, <1>7

(***************************************************************************)
(* s2n_process_alert_fragment of a record r: for every connection, what it *)
(* leaves alone; for an aligned one, that it stays aligned.                *)
(***************************************************************************)
Open(c, r) == [c EXCEPT !.in = r.bytes, !.plain = TRUE]
SameWriter(c, d) ==
    /\ d \in Connection
    /\ d.out = c.out /\ d.queued = c.queued /\ d.writerAlert = c.writerAlert

LEMMA OpenedConnection ==
    ASSUME NEW c \in Connection, NEW r \in Record
    PROVE  LET o == Open(c, r)
           IN  /\ SameWriter(c, o) /\ o.in = r.bytes /\ o.plain = TRUE /\ o.closed = c.closed
               /\ o.received = c.received /\ o.alertIn = c.alertIn /\ o.alertRead = c.alertRead
  <1>1. r.bytes \in Seq(Byte) BY DEF Record
  <1> QED BY <1>1 DEF Open, SameWriter, Connection

LEMMA CompleteAlertKeeps ==
    ASSUME NEW d \in Connection
    PROVE  LET p == CompleteAlert(d)
           IN  /\ SameWriter(d, p.c) /\ (d.closed => p.c.closed) /\ p.c.in = d.in /\ p.c.plain = d.plain
  <1>1. CASE d.alertIn[2] = "close_notify"
    <2> DEFINE x == [d EXCEPT !.closed = TRUE, !.received = TRUE]
    <2>1. CompleteAlert(d).c = x BY <1>1 DEF CompleteAlert, AlertOk
    <2>2. SameWriter(d, x) /\ x.closed = TRUE /\ x.in = d.in /\ x.plain = d.plain BY DEF SameWriter, Connection
    <2> HIDE DEF x
    <2> QED BY <2>1, <2>2
  <1>2. CASE d.alertIn[2] # "close_notify" /\ s2n_handle_as_warning(d.alertIn[1], d.alertIn[2])
    <2> DEFINE x == [d EXCEPT !.alertIn = << >>, !.alertRead = FALSE]
    <2>1. CompleteAlert(d).c = x BY <1>2 DEF CompleteAlert, AlertOk
    <2>2. SameWriter(d, x) /\ x.closed = d.closed /\ x.in = d.in /\ x.plain = d.plain
      <3>1. << >> \in Seq(Byte) OBVIOUS
      <3> QED BY <3>1 DEF SameWriter, Connection
    <2> HIDE DEF x
    <2> QED BY <2>1, <2>2
  <1>3. CASE d.alertIn[2] # "close_notify" /\ ~s2n_handle_as_warning(d.alertIn[1], d.alertIn[2])
    <2> DEFINE x == [d EXCEPT !.closed = TRUE]
    <2>1. CompleteAlert(d).c = x BY <1>3 DEF CompleteAlert, AlertError
    <2>2. SameWriter(d, x) /\ x.closed = TRUE /\ x.in = d.in /\ x.plain = d.plain BY DEF SameWriter, Connection
    <2> HIDE DEF x
    <2> QED BY <2>1, <2>2
  <1> QED BY <1>1, <1>2, <1>3

LEMMA FragmentKeeps ==
    ASSUME NEW o \in Connection
    PROVE  LET p == s2n_process_alert_fragment(o)
           IN  SameWriter(o, p.c) /\ (o.closed => p.c.closed) /\ p.c.plain = o.plain
  <1> DEFINE n == Required(o)
             d == [o EXCEPT !.alertIn = o.alertIn \o SubSeq(o.in, 1, n), !.in = SubSeq(o.in, n + 1, Len(o.in))]
             refused == o.in = << >> \/ Available(o) = 2 \/ Len(o.alertIn) + n > 2
  <1>1. s2n_process_alert_fragment(o) =
           IF refused THEN AlertError(o) ELSE IF Available(d) = 2 THEN CompleteAlert(d) ELSE AlertOk(d)
    BY DEF s2n_process_alert_fragment
  <1>2. o.in \in Seq(Byte) /\ o.alertIn \in Seq(Byte) BY DEF Connection
  <1>3. n \in 0..Len(o.in) /\ Len(o.in) \in Nat BY <1>2 DEF Required
  <1> HIDE DEF n
  <1>4. SubSeq(o.in, 1, n) \in Seq(Byte) /\ SubSeq(o.in, n + 1, Len(o.in)) \in Seq(Byte)
    BY <1>2, <1>3, SubSeqProperties
  <1>5. o.alertIn \o SubSeq(o.in, 1, n) \in Seq(Byte) BY <1>2, <1>4
  <1>6. d \in Connection /\ SameWriter(o, d) /\ d.closed = o.closed /\ d.plain = o.plain
    BY <1>4, <1>5 DEF SameWriter, Connection
  <1> HIDE DEF d, refused
  <1>7. CASE refused BY <1>1, <1>7 DEF AlertError, SameWriter
  <1>8. CASE ~refused /\ Available(d) # 2 BY <1>1, <1>6, <1>8 DEF AlertOk
  <1>9. CASE ~refused /\ Available(d) = 2
    <2>1. SameWriter(d, CompleteAlert(d).c) /\ (d.closed => CompleteAlert(d).c.closed) /\ CompleteAlert(d).c.plain = d.plain
      BY <1>6, CompleteAlertKeeps
    <2> QED BY <1>1, <1>6, <1>9, <2>1 DEF SameWriter
  <1> QED BY <1>7, <1>8, <1>9

\* An alert that is complete: alert_in holds both bytes, which were heard.
LEMMA CompleteAlertAligned ==
    ASSUME NEW d \in Connection, NEW l \in Byte, NEW b \in Byte, NEW h \in Seq(Byte), NEW g \in Seq(Byte),
           d.alertIn = <<l, b>>,
           Pairs(g) = Pairs(h) \cup {<<l, b>>}, Len(g) % 2 = 0,
           \A a \in Pairs(h) : ~Ends(a),
           d.received => \E a \in Pairs(h) : a[2] = "close_notify"
    PROVE  LET p == CompleteAlert(d)
           IN  /\ Aligned(p.c, g)
               /\ p.c.received => \E a \in Pairs(g) : a[2] = "close_notify"
               /\ p.c.in = d.in
               /\ ~p.ok => p.c.closed
  <1>0. d.alertIn[1] = l /\ d.alertIn[2] = b /\ Len(d.alertIn) = 2 OBVIOUS
  <1>1. CASE b = "close_notify"
    <2> DEFINE x == [d EXCEPT !.closed = TRUE, !.received = TRUE]
    <2>1. CompleteAlert(d).c = x /\ CompleteAlert(d).ok = TRUE BY <1>0, <1>1 DEF CompleteAlert, AlertOk
    <2>2. x.closed = TRUE /\ x.in = d.in /\ x.alertIn = d.alertIn BY DEF Connection
    <2>3. <<l, b>> \in Pairs(g) /\ <<l, b>>[2] = "close_notify" BY <1>1
    <2> HIDE DEF x
    <2> QED BY <2>1, <2>2, <2>3, <1>0 DEF Aligned
  <1>2. CASE b # "close_notify" /\ s2n_handle_as_warning(l, b)
    <2> DEFINE x == [d EXCEPT !.alertIn = << >>, !.alertRead = FALSE]
    <2>1. CompleteAlert(d).c = x /\ CompleteAlert(d).ok = TRUE BY <1>0, <1>2 DEF CompleteAlert, AlertOk
    <2>2. x.alertIn = << >> /\ ~x.alertRead /\ x.in = d.in /\ x.received = d.received BY DEF Connection
    <2>3. ~Ends(<<l, b>>) BY <1>2 DEF Ends
    <2> HIDE DEF x
    <2> QED BY <2>1, <2>2, <2>3 DEF Aligned
  <1>3. CASE b # "close_notify" /\ ~s2n_handle_as_warning(l, b)
    <2> DEFINE x == [d EXCEPT !.closed = TRUE]
    <2>1. CompleteAlert(d).c = x BY <1>0, <1>3 DEF CompleteAlert, AlertError
    <2>2. x.closed = TRUE /\ x.in = d.in /\ x.received = d.received /\ x.alertIn = d.alertIn BY DEF Connection
    <2> HIDE DEF x
    <2> QED BY <2>1, <2>2, <1>0 DEF Aligned
  <1> QED BY <1>1, <1>2, <1>3

\* The bytes of a record that are heard.
LEMMA Front ==
    ASSUME NEW h \in Seq(Byte), NEW b \in Seq(Byte)
    PROVE  LET x == FrontOf(h, b)
               n == FrontLength(h, b)
           IN  /\ n \in 0..Len(b) /\ (b # << >> => n > 0)
               /\ n = IF Len(h) % 2 = 1 THEN (IF Len(b) < 1 THEN Len(b) ELSE 1) ELSE (IF Len(b) < 2 THEN Len(b) ELSE 2)
               /\ x \in Seq(Byte) /\ Len(x) = n /\ (\A i \in 1..n : x[i] = b[i])
               /\ Closes(x) => Closes(b)
  <1> DEFINE n == FrontLength(h, b)
             x == SubSeq(b, 1, n)
  <1>1. n = IF Len(h) % 2 = 1 THEN (IF Len(b) < 1 THEN Len(b) ELSE 1) ELSE (IF Len(b) < 2 THEN Len(b) ELSE 2)
    BY DEF FrontLength
  <1>2. n \in 0..Len(b) /\ (b # << >> => n > 0) /\ Len(b) \in Nat
    <2>1. Len(b) \in Nat /\ (b # << >> => Len(b) # 0) BY EmptySeq
    <2> HIDE DEF n
    <2> QED BY <1>1, <2>1
  <1> HIDE DEF n
  <1>3. x \in Seq(Byte) /\ Len(x) = n /\ (\A i \in 1..n : x[i] = b[i])
    <2>1. \A i \in 1..n : i \in 1..Len(b) BY <1>2
    <2> QED BY <1>2, <2>1, SubSeqProperties
  <1> HIDE DEF x
  <1>4. Closes(x) => Closes(b) BY <1>2, <1>3 DEF Closes
  <1> QED BY <1>1, <1>2, <1>3, <1>4 DEF FrontOf, n, x

LEMMA ShortSequences ==
    ASSUME NEW x \in Seq(Byte)
    PROVE  /\ Len(x) = 1 => x = <<x[1]>> /\ x[1] \in Byte
           /\ Len(x) = 2 => x = <<x[1], x[2]>> /\ x[1] \in Byte /\ x[2] \in Byte
  <1>1. ASSUME Len(x) = 1 PROVE x = <<x[1]>> /\ x[1] \in Byte
    <2> DEFINE y == <<x[1]>>
    <2>1. x[1] \in Byte BY <1>1
    <2>2. y \in Seq(Byte) /\ Len(y) = 1 /\ y[1] = x[1] BY <2>1
    <2> HIDE DEF y
    <2>3. \A i \in 1..Len(x) : x[i] = y[i]
      <3>1. \A i \in 1..Len(x) : i = 1 BY <1>1
      <3> QED BY <2>2, <3>1
    <2>4. x = y BY <1>1, <2>2, <2>3, SeqEqual
    <2> QED BY <2>1, <2>4 DEF y
  <1>2. ASSUME Len(x) = 2 PROVE x = <<x[1], x[2]>> /\ x[1] \in Byte /\ x[2] \in Byte
    <2> DEFINE y == <<x[1], x[2]>>
    <2>1. x[1] \in Byte /\ x[2] \in Byte BY <1>2
    <2>2. y \in Seq(Byte) /\ Len(y) = 2 /\ y[1] = x[1] /\ y[2] = x[2] BY <2>1
    <2> HIDE DEF y
    <2>3. \A i \in 1..Len(x) : x[i] = y[i]
      <3>1. \A i \in 1..Len(x) : i = 1 \/ i = 2 BY <1>2
      <3> QED BY <2>2, <3>1
    <2>4. x = y BY <1>2, <2>2, <2>3, SeqEqual
    <2> QED BY <2>1, <2>4 DEF y
  <1> QED BY <1>1, <1>2

LEMMA JoinedBytes ==
    ASSUME NEW a \in Byte, NEW b \in Byte
    PROVE  <<a>> \o <<b>> = <<a, b>>
  <1> DEFINE x == <<a>> \o <<b>>
  <1>1. x \in Seq(Byte) /\ Len(x) = 2 /\ x[1] = a /\ x[2] = b OBVIOUS
  <1> HIDE DEF x
  <1>2. x = <<x[1], x[2]>> BY <1>1, ShortSequences
  <1> QED BY <1>1, <1>2 DEF x

LEMMA FragmentAligned ==
    ASSUME NEW c \in Connection, NEW r \in Record, NEW h \in Seq(Byte),
           r.bytes # << >>, NoData(r.bytes),
           Aligned(c, h), c.received => \E a \in Pairs(h) : a[2] = "close_notify"
    PROVE  LET p == s2n_process_alert_fragment(Open(c, r))
               g == h \o FrontOf(h, r.bytes)
           IN  /\ Aligned(p.c, g)
               /\ p.c.received => \E a \in Pairs(g) : a[2] = "close_notify"
               /\ NoData(p.c.in)
               /\ p.ok \/ p.c.closed
  <1> DEFINE o == Open(c, r)
             b == r.bytes
             x == FrontOf(h, b)
             p == s2n_process_alert_fragment(o)
             g == h \o x
             n == Required(o)
             rest == SubSeq(o.in, n + 1, Len(o.in))
             d == [o EXCEPT !.alertIn = o.alertIn \o SubSeq(o.in, 1, n), !.in = rest]
             refused == o.in = << >> \/ Available(o) = 2 \/ Len(o.alertIn) + n > 2
  <1>0. /\ o \in Connection /\ o.in = b /\ o.closed = c.closed /\ b \in Seq(Byte)
        /\ o.received = c.received /\ o.alertIn = c.alertIn /\ o.alertRead = c.alertRead
    BY OpenedConnection DEF SameWriter, Record
  <1>1. p = IF refused THEN AlertError(o) ELSE IF Available(d) = 2 THEN CompleteAlert(d) ELSE AlertOk(d)
    BY DEF s2n_process_alert_fragment
  <1> HIDE DEF b
  <1>2. /\ x \in Seq(Byte) /\ Len(x) = FrontLength(h, b)
        /\ FrontLength(h, b) = IF Len(h) % 2 = 1 THEN (IF Len(b) < 1 THEN Len(b) ELSE 1) ELSE (IF Len(b) < 2 THEN Len(b) ELSE 2)
    BY <1>0, Front
  <1>3. Len(b) \in Nat \ {0} /\ NoData(b)
    <2>1. b # << >> BY DEF b
    <2> QED BY <1>0, <2>1, EmptySeq DEF b
  <1>4. Pairs(h) \subseteq Pairs(g) BY <1>2, PairsGrow
  <1> SUFFICES /\ Aligned(p.c, g)
               /\ p.c.received => \E a \in Pairs(g) : a[2] = "close_notify"
               /\ NoData(p.c.in)
               /\ p.ok \/ p.c.closed
    BY DEF b
  <1> HIDE DEF o, p, x
  <1>5. n \in 1..Len(b) /\ NoData(rest) /\ rest \in Seq(Byte)
    <2>1. n \in 1..Len(b) BY <1>0, <1>3 DEF Required
    <2> HIDE DEF n
    <2>2. /\ rest \in Seq(Byte) /\ Len(rest) = Len(b) - n
          /\ \A i \in 1..(Len(b) - n) : rest[i] = b[n + i]
      <3>1. \A i \in n + 1 .. Len(b) : i \in 1..Len(b) BY <1>3, <2>1
      <3>2. n + 1 \in Int /\ Len(b) \in Int /\ n + 1 \in 1..(Len(b) + 1) BY <1>3, <2>1
      <3> QED BY <1>0, <1>3, <2>1, <3>1, <3>2, SubSeqProperties
    <2> HIDE DEF rest
    <2>3. NoData(rest) BY <1>3, <2>1, <2>2 DEF NoData
    <2> QED BY <2>1, <2>2, <2>3
  <1>6. CASE Len(c.alertIn) = 2 /\ c.closed
    <2>1. refused
      <3>1. n \in Nat \ {0} BY <1>3, <1>5
      <3> HIDE DEF n
      <3> QED BY <3>1, <1>0, <1>6
    <2>2. p.c = o /\ p.ok = FALSE BY <1>1, <2>1 DEF AlertError
    <2>3. Aligned(o, g) BY <1>0, <1>6 DEF Aligned
    <2>4. ASSUME o.received PROVE \E a \in Pairs(g) : a[2] = "close_notify"
      <3>1. PICK a \in Pairs(h) : a[2] = "close_notify" BY <1>0, <2>4
      <3> QED BY <3>1, <1>4
    <2>5. NoData(o.in) /\ o.closed BY <1>0, <1>3, <1>6
    <2> QED BY <2>2, <2>3, <2>4, <2>5
  <1>7. CASE /\ ~c.alertRead /\ c.alertIn = IF Len(h) % 2 = 1 THEN <<h[Len(h)]>> ELSE << >>
             /\ \A a \in Pairs(h) : ~Ends(a)
    <2>0. /\ ~o.alertRead /\ o.alertIn = c.alertIn
          /\ o.received => \E a \in Pairs(h) : a[2] = "close_notify"
      BY <1>0, <1>7
    <2>1. /\ Len(o.alertIn) = IF Len(h) % 2 = 1 THEN 1 ELSE 0
          /\ n = FrontLength(h, b) /\ ~refused /\ SubSeq(o.in, 1, n) = x
      <3>1. Len(o.alertIn) = IF Len(h) % 2 = 1 THEN 1 ELSE 0 BY <1>7, <2>0
      <3>2. Available(o) = Len(o.alertIn) BY <2>0 DEF Available
      <3>3. n = FrontLength(h, b) BY <1>0, <1>2, <1>3, <3>1, <3>2 DEF Required
      <3>4. o.in # << >> BY <1>0, <1>3
      <3> HIDE DEF n
      <3>5. ~refused BY <1>2, <1>3, <3>1, <3>2, <3>3, <3>4
      <3>6. SubSeq(o.in, 1, n) = x BY <1>0, <3>3 DEF x, FrontOf
      <3> QED BY <3>1, <3>3, <3>5, <3>6
    <2>2. d = [o EXCEPT !.alertIn = o.alertIn \o x, !.in = rest] BY <2>1
    <2> HIDE DEF d, n, refused, rest, g
    <2>3. ASSUME NEW l \in Byte, NEW k \in Byte, o.alertIn \o x = <<l, k>>,
                 Pairs(g) = Pairs(h) \cup {<<l, k>>}, Len(g) % 2 = 0, g \in Seq(Byte)
          PROVE  /\ Aligned(p.c, g)
                 /\ p.c.received => \E a \in Pairs(g) : a[2] = "close_notify"
                 /\ NoData(p.c.in) /\ (p.ok \/ p.c.closed)
      <3>1. <<l, k>> \in Seq(Byte) OBVIOUS
      <3>2. /\ d \in Connection /\ d.alertIn = <<l, k>> /\ d.in = rest /\ d.received = o.received
            /\ d.alertRead = o.alertRead
        BY <1>0, <1>5, <2>2, <2>3, <3>1 DEF Connection
      <3>3. Len(d.alertIn) = 2 BY <3>2
      <3>4. p = CompleteAlert(d) BY <1>1, <2>0, <2>1, <3>2, <3>3 DEF Available
      <3>5. /\ Aligned(CompleteAlert(d).c, g)
            /\ CompleteAlert(d).c.received => \E a \in Pairs(g) : a[2] = "close_notify"
            /\ CompleteAlert(d).c.in = d.in /\ (~CompleteAlert(d).ok => CompleteAlert(d).c.closed)
        BY <2>3, <3>2, <2>0, <1>7, CompleteAlertAligned
      <3> QED BY <1>5, <3>2, <3>4, <3>5
    <2>4. CASE Len(h) % 2 # 1 /\ Len(b) >= 2
      <3>1. Len(x) = 2 /\ o.alertIn = << >> /\ Len(h) % 2 = 0 BY <1>2, <1>3, <1>7, <2>0, <2>4
      <3>2. x = <<x[1], x[2]>> /\ x[1] \in Byte /\ x[2] \in Byte BY <1>2, <3>1, ShortSequences
      <3> DEFINE l == x[1]
                 k == x[2]
      <3>3. x = <<l, k>> /\ l \in Byte /\ k \in Byte BY <3>2
      <3> HIDE DEF l, k
      <3>4. g = h \o <<l, k>> BY <3>3 DEF g
      <3>5. g \in Seq(Byte) /\ Pairs(g) = Pairs(h) \cup {<<l, k>>} /\ Len(g) % 2 = 0 BY <3>1, <3>3, <3>4, PairsWhole
      <3>6. o.alertIn \o x = <<l, k>> BY <3>1, <3>3
      <3> QED BY <2>3, <3>3, <3>5, <3>6
    <2>5. CASE Len(h) % 2 = 1
      <3>1. Len(x) = 1 /\ o.alertIn = <<h[Len(h)]>> BY <1>2, <1>3, <1>7, <2>0, <2>5
      <3>2. x = <<x[1]>> /\ x[1] \in Byte BY <1>2, <3>1, ShortSequences
      <3> DEFINE l == h[Len(h)]
                 k == x[1]
      <3>3. x = <<k>> /\ k \in Byte /\ l \in Byte
        <4>1. Len(h) \in 1..Len(h) BY <2>5
        <4> QED BY <3>2, <4>1
      <3>4. g = h \o <<k>> BY <3>3 DEF g
      <3>5. g \in Seq(Byte) /\ Pairs(g) = Pairs(h) \cup {<<h[Len(h)], k>>} /\ Len(g) % 2 = 0
        <4> HIDE DEF k
        <4> QED BY <2>5, <3>3, <3>4, PairsSecond
      <3>6. o.alertIn \o x = <<l, k>>
        <4> HIDE DEF k
        <4>1. o.alertIn = <<l>> BY <3>1
        <4> HIDE DEF l
        <4>2. <<l>> \o <<k>> = <<l, k>> BY <3>3, JoinedBytes
        <4> QED BY <3>3, <4>1, <4>2
      <3>7. Pairs(g) = Pairs(h) \cup {<<l, k>>} BY <3>5
      <3> HIDE DEF l, k
      <3> QED BY <2>3, <3>3, <3>5, <3>6, <3>7
    <2>6. CASE Len(h) % 2 # 1 /\ ~(Len(b) >= 2)
      <3>1. Len(x) = 1 /\ o.alertIn = << >> /\ Len(h) % 2 = 0
        <4>1. Len(x) = FrontLength(h, b) /\ FrontLength(h, b) > 0 BY <1>2, <1>3
        <4>2. FrontLength(h, b) = IF Len(b) < 2 THEN Len(b) ELSE 2 BY <1>2, <2>6
        <4>3. Len(b) \in Nat /\ Len(b) < 2 /\ Len(h) \in Nat BY <2>6
        <4>4. Len(b) = 1 BY <4>1, <4>2, <4>3
        <4>5. Len(h) % 2 = 0 BY <2>6, <4>3
        <4> QED BY <4>1, <4>2, <4>4, <4>5, <1>7, <2>0
      <3>2. x = <<x[1]>> /\ x[1] \in Byte BY <1>2, <3>1, ShortSequences
      <3> DEFINE l == x[1]
      <3>3. x = <<l>> /\ l \in Byte BY <3>2
      <3> HIDE DEF l
      <3>4. <<l>> \in Seq(Byte) /\ o.alertIn \o x = <<l>>
        <4>1. <<l>> \in Seq(Byte) BY <3>3
        <4>2. << >> \o <<l>> = <<l>> BY <4>1, ConcatEmptySeq
        <4> QED BY <3>1, <3>3, <4>1, <4>2
      <3>5. /\ d \in Connection /\ d.alertIn = <<l>> /\ d.in = rest /\ d.received = o.received
            /\ d.alertRead = o.alertRead
        BY <1>0, <1>5, <2>2, <3>4 DEF Connection
      <3>6. Len(d.alertIn) = 1 BY <3>5
      <3>7. p.c = d /\ p.ok = TRUE BY <1>1, <2>0, <2>1, <3>5, <3>6 DEF Available, AlertOk
      <3>8. g = h \o <<l>> BY <3>3 DEF g
      <3>9. Pairs(g) = Pairs(h) /\ Len(g) % 2 = 1 /\ g[Len(g)] = l BY <3>1, <3>3, <3>8, PairsFirst
      <3>10. Aligned(d, g) BY <3>5, <3>9, <2>0, <1>7 DEF Aligned
      <3> QED BY <1>5, <2>0, <3>5, <3>7, <3>9, <3>10
    <2> QED BY <2>4, <2>5, <2>6
  <1> QED BY <1>6, <1>7 DEF Aligned

-----------------------------------------------------------------------------
(***************************************************************************)
(* The two directions of an endpoint e, for values that its connection,    *)
(* transport and counters may take while a call goes on.                   *)
(***************************************************************************)
Inbound(e, c, w, h, n) ==
    /\ Reads(w, c, h)
    /\ S2n(Peer(e)) => Writes(conn[Peer(e)], w, sealed[Peer(e)], status[Peer(e)], n, c.in, h)

Outbound(e, c, w, total, st) ==
    /\ Lane(w)
    /\ S2n(e) => Writes(c, w, total, st, delivered[Peer(e)].data + discarded[Peer(e)],
                        conn[Peer(e)].in, heard[Peer(e)])

LEMMA Peers ==
    ASSUME NEW e \in Endpoint
    PROVE  /\ Peer(e) \in Endpoint /\ Peer(Peer(e)) = e /\ Peer(e) # e
           /\ \A p \in Endpoint : p = e \/ p = Peer(e)
  BY DEF Endpoint, Peer

LEMMA Directions ==
    ASSUME CInv, NEW e \in Endpoint
    PROVE  /\ conn[e] \in Connection /\ wire[e] \in Seq(Record) /\ wire[Peer(e)] \in Seq(Record)
           /\ heard[e] \in Seq(Byte) /\ Out(conn[e]) /\ Quiet(e, conn[e], status[e])
           /\ Inbound(e, conn[e], wire[Peer(e)], heard[e], delivered[e].data + discarded[e])
           /\ Outbound(e, conn[e], wire[e], sealed[e], status[e])
  <1>1. Peer(e) \in Endpoint /\ Peer(Peer(e)) = e BY Peers
  <1>2. /\ conn[e] \in Connection /\ wire[e] \in Seq(Record) /\ wire[Peer(e)] \in Seq(Record)
        /\ heard[e] \in Seq(Byte) /\ Out(conn[e]) /\ Quiet(e, conn[e], status[e])
    BY <1>1 DEF CInv, TypeInv
  <1>3. Inbound(e, conn[e], wire[Peer(e)], heard[e], delivered[e].data + discarded[e])
    BY <1>1 DEF CInv, Inbound, Reading, Writing
  <1>4. Outbound(e, conn[e], wire[e], sealed[e], status[e])
    BY <1>1 DEF CInv, Outbound, Reading, Writing, Reads
  <1> QED BY <1>2, <1>3, <1>4

(***************************************************************************)
(* A step of e that leaves both of its directions in order keeps CInv.     *)
(***************************************************************************)
Others(e) ==
    LET p == Peer(e)
    IN  /\ cfg' = cfg
        /\ conn'[p] = conn[p] /\ heard'[p] = heard[p] /\ sealed'[p] = sealed[p] /\ status'[p] = status[p]
        /\ delivered'[p] = delivered[p] /\ discarded'[p] = discarded[p]

LEMMA StepOf ==
    ASSUME CInv, NEW e \in Endpoint, TypeInv', Others(e), Out(conn'[e]), Quiet(e, conn'[e], status'[e]),
           Inbound(e, conn'[e], wire'[Peer(e)], heard'[e], delivered'[e].data + discarded'[e]),
           Outbound(e, conn'[e], wire'[e], sealed'[e], status'[e])
    PROVE  CInv'
  <1> DEFINE p == Peer(e)
  <1>1. p \in Endpoint /\ Peer(p) = e /\ \A q \in Endpoint : q = e \/ q = p BY Peers
  <1>2. \A q : (S2n(q)' <=> S2n(q)) BY DEF Others, S2n
  <1>0. \A w, c, h : Reads(w, c, h)' <=> Reads(w, c, h)
    <2>1. cfg' = cfg BY DEF Others
    <2>2. \A a : Ends(a)' <=> Ends(a) BY <2>1 DEF Ends, s2n_handle_as_warning
    <2>3. \A c, h : Aligned(c, h)' <=> Aligned(c, h) BY <2>2 DEF Aligned
    <2> QED BY <2>3 DEF Reads
  <1>3. Reading(p, e)'
    <2>1. Reads(wire'[p], conn'[e], heard'[e]) => Reads(wire[p], conn[e], heard[e])'
      BY <1>0 DEF Reads
    <2> QED BY <2>1 DEF Inbound, Reading
  <1>4. S2n(p) => Writing(p, e)'
    BY DEF Inbound, Writing, Others
  <1>5. Reading(e, p)'
    <2>1. Reads(wire'[e], conn'[p], heard'[p])
      BY <1>1 DEF CInv, Reading, Outbound, Others, Reads
    <2>2. Reads(wire'[e], conn'[p], heard'[p]) => Reads(wire[e], conn[p], heard[p])'
      BY <1>0 DEF Reads
    <2> QED BY <2>1, <2>2 DEF Reading
  <1>6. S2n(e) => Writing(e, p)'
    BY DEF Outbound, Writing, Others
  <1>7. Out(conn[p])' /\ Quiet(p, conn[p], status[p])' BY <1>1 DEF CInv, Others, Quiet
  <1>8. Quiet(e, conn[e], status[e])' BY DEF Quiet, Others
  <1> QED BY <1>1, <1>2, <1>3, <1>4, <1>5, <1>6, <1>7, <1>8 DEF CInv

-----------------------------------------------------------------------------
(* The writer's direction. *)

Passes(c, w, d, v) ==
    /\ d \in Connection /\ v \in Seq(Record) /\ Out(d)
    /\ d.queued = c.queued /\ (d.writerAlert => c.writerAlert)
    /\ Lane(w) => Lane(v)
    /\ Apps(v) + Loaded(d) = Apps(w) + Loaded(c)
    /\ Sealing(c, w) => Sealing(d, v)

LEMMA FlushPasses ==
    ASSUME NEW c, NEW w, NEW d, NEW v, Flushes(c, w, d, v)
    PROVE  Passes(c, w, d, v)
  BY DEF Flushes, Passes

LEMMA SameWriterPasses ==
    ASSUME NEW c, NEW d, NEW w \in Seq(Record), SameWriter(c, d), Out(c)
    PROVE  Passes(c, w, d, w)
  BY DEF SameWriter, Passes, Out, Loaded, Sealing, OutCloses, IsOver

LEMMA PassesTransitive ==
    ASSUME NEW c, NEW w, NEW d, NEW v, NEW f, NEW x, Passes(c, w, d, v), Passes(d, v, f, x)
    PROVE  Passes(c, w, f, x)
  BY DEF Passes

LEMMA LoadedType == \A c : Loaded(c) \in 0..1
  BY DEF Loaded

LEMMA OutboundPasses ==
    ASSUME NEW e, NEW c \in Connection, NEW w \in Seq(Record), NEW d, NEW v, NEW total, NEW st,
           Outbound(e, c, w, total, st), Passes(c, w, d, v)
    PROVE  Outbound(e, d, v, total, st)
  <1>1. Lane(v) BY DEF Outbound, Passes
  <1>2. ASSUME NEW n, NEW in, NEW h, Writes(c, w, total, st, n, in, h)
        PROVE  Writes(d, v, total, st, n, in, h)
    <2>1. /\ n \in Nat /\ in \in Seq(Byte) /\ h \in Seq(Byte)
          /\ total = n + Data(in) + 2 * (Apps(v) + Loaded(d))
      BY <1>2 DEF Writes, Passes
    <2>2. Sealing(d, v) /\ (d.queued => st # "none") BY <1>2 DEF Writes, Passes
    <2>3. ASSUME Closes(h) PROVE IsOver(d) /\ Data(in) = 0 /\ Apps(v) = 0 /\ Loaded(d) = 0
      <3>1. IsOver(c) /\ Data(in) = 0 /\ Apps(w) = 0 /\ Loaded(c) = 0 BY <1>2, <2>3 DEF Writes
      <3>2. IsOver(d) BY <3>1 DEF IsOver, Passes
      <3>3. Apps(v) \in Nat /\ Loaded(d) \in Nat
        <4>1. v \in Seq(Record) BY DEF Passes
        <4> QED BY <4>1, AppsType, LoadedType
      <3>4. Apps(v) + Loaded(d) = 0 BY <3>1 DEF Passes
      <3>5. Apps(v) = 0 /\ Loaded(d) = 0 BY <3>3, <3>4
      <3> QED BY <3>1, <3>2, <3>5
    <2> QED BY <2>1, <2>2, <2>3 DEF Writes
  <1> QED BY <1>1, <1>2 DEF Outbound

\* s2n_send puts two bytes into conn->out: there is no close_notify before s2n_shutdown is called.
LEMMA OutboundLoads ==
    ASSUME NEW e, NEW c \in Connection, NEW w \in Seq(Record), NEW total \in Nat,
           Outbound(e, c, w, total, "none"), c.out = << >>
    PROVE  LET d == [c EXCEPT !.out = <<AppRecord>>]
           IN  d \in Connection /\ Out(d) /\ Outbound(e, d, w, total + 2, "none")
  <1> DEFINE d == [c EXCEPT !.out = <<AppRecord>>]
  <1>1. AppRecord \in Ready /\ AppRecord \in Record BY ReadyRecords DEF Ready
  <1>2. d \in Connection /\ d.out = <<AppRecord>> /\ d.queued = c.queued /\ d.writerAlert = c.writerAlert
    <2>1. <<AppRecord>> \in Seq(Record) BY <1>1
    <2> QED BY <2>1 DEF Connection
  <1> SUFFICES d \in Connection /\ Out(d) /\ Outbound(e, d, w, total + 2, "none") OBVIOUS
  <1> HIDE DEF d
  <1>3. Out(d) BY <1>1, <1>2 DEF Out
  <1>4. Loaded(c) = 0 /\ Loaded(d) = 1 /\ ~OutCloses(c) /\ ~OutCloses(d)
    BY <1>2 DEF Loaded, OutCloses, AppRecord, CloseNotify, AlertRecord
  <1>5. ASSUME NEW n, NEW in, NEW h, Writes(c, w, total, "none", n, in, h)
        PROVE  Writes(d, w, total + 2, "none", n, in, h)
    <2>1. Apps(w) \in Nat BY AppsType
    <2>2. ~c.queued /\ Sealing(c, w) BY <1>5 DEF Writes
    <2>3. ~IsOver(c) /\ ~WireCloses(w) /\ ~Closes(h) BY <1>5, <2>2 DEF IsOver, Sealing, Writes
    <2>4. Sealing(d, w) BY <1>2, <1>4, <2>2, <2>3 DEF Sealing
    <2>5. n \in Nat /\ in \in Seq(Byte) /\ h \in Seq(Byte) /\ total = n + Data(in) + 2 * (Apps(w) + 0)
      BY <1>4, <1>5 DEF Writes
    <2>6. Data(in) \in Nat BY <2>5, DataOf
    <2>7. total + 2 = n + Data(in) + 2 * (Apps(w) + 1)
      <3> DEFINE a == Apps(w)
                 b == Data(in)
      <3>1. a \in Nat /\ b \in Nat /\ n \in Nat /\ total = n + b + 2 * (a + 0) BY <2>1, <2>5, <2>6
      <3> HIDE DEF a, b
      <3>2. total + 2 = n + b + 2 * (a + 1) BY <3>1
      <3> QED BY <3>2 DEF a, b
    <2> QED BY <1>2, <1>4, <2>2, <2>3, <2>4, <2>5, <2>7 DEF Writes
  <1> QED BY <1>2, <1>3, <1>5 DEF Outbound

\* s2n_shutdown queues its close_notify.
LEMMA OutboundQueues ==
    ASSUME NEW e, NEW c \in Connection, NEW w \in Seq(Record), NEW total, NEW st, NEW t, t # "none",
           Outbound(e, c, w, total, st), Out(c)
    PROVE  LET d == s2n_queue_writer_close_alert_warning(c)
           IN  /\ d \in Connection /\ Out(d) /\ Outbound(e, d, w, total, t)
               /\ d.in = c.in /\ d.plain = c.plain /\ d.alertIn = c.alertIn /\ d.alertRead = c.alertRead
               /\ d.received = c.received /\ d.closed = c.closed
  <1> DEFINE x == [c EXCEPT !.writerAlert = TRUE, !.queued = TRUE]
             d == s2n_queue_writer_close_alert_warning(c)
  <1>0. c.writerAlert \in BOOLEAN /\ c.queued \in BOOLEAN BY DEF Connection
  <1>1. CASE c.writerAlert \/ c.queued
    <2>1. d = c BY <1>1 DEF s2n_queue_writer_close_alert_warning
    <2>2. Outbound(e, c, w, total, t) BY DEF Outbound, Writes
    <2> QED BY <2>1, <2>2
  <1>2. CASE ~(c.writerAlert \/ c.queued)
    <2>1. d = x BY <1>2 DEF s2n_queue_writer_close_alert_warning
    <2>2. /\ x \in Connection /\ x.out = c.out /\ x.writerAlert /\ x.queued
          /\ x.in = c.in /\ x.plain = c.plain /\ x.alertIn = c.alertIn /\ x.alertRead = c.alertRead
          /\ x.received = c.received /\ x.closed = c.closed
      BY DEF Connection
    <2> HIDE DEF x
    <2>3. Out(x) BY <2>2 DEF Out
    <2>4. ASSUME NEW n, NEW in, NEW h, Writes(c, w, total, st, n, in, h) PROVE Writes(x, w, total, t, n, in, h)
      <3>1. ~IsOver(c) BY <1>2 DEF IsOver
      <3>2. ~Closes(h) /\ ~WireCloses(w) /\ ~OutCloses(c) /\ Sealing(c, w) BY <2>4, <3>1 DEF Writes, Sealing
      <3>3. Loaded(x) = Loaded(c) /\ ~OutCloses(x) BY <2>2, <3>2 DEF Loaded, OutCloses
      <3>4. Sealing(x, w) BY <2>2, <3>2, <3>3 DEF Sealing
      <3> QED BY <2>4, <3>2, <3>3, <3>4 DEF Writes
    <2>5. Outbound(e, x, w, total, t) BY <2>4 DEF Outbound
    <2> QED BY <2>1, <2>2, <2>3, <2>5
  <1> QED BY <1>1, <1>2

-----------------------------------------------------------------------------
(* The reader's direction. *)

SameReader(c, d) ==
    /\ d.in = c.in /\ d.plain = c.plain /\ d.alertIn = c.alertIn /\ d.alertRead = c.alertRead
    /\ d.received = c.received /\ (c.closed => d.closed)

LEMMA InboundSame ==
    ASSUME NEW e, NEW c, NEW d, NEW w, NEW h, NEW n, Inbound(e, c, w, h, n), SameReader(c, d)
    PROVE  Inbound(e, d, w, h, n)
  <1>1. Reads(w, c, h) => Reads(w, d, h) BY DEF Reads, Aligned, Inner, SameReader
  <1> QED BY <1>1 DEF Inbound, SameReader

LEMMA AppsZero ==
    ASSUME NEW w \in Seq(Record), \A i \in 1..Len(w) : w[i].type # "app"
    PROVE  Apps(w) = 0
  <1>1. {i \in 1..Len(w) : w[i].type = "app"} = {} OBVIOUS
  <1> QED BY <1>1, FS_EmptySet DEF Apps

LEMMA ClosesAppend ==
    ASSUME NEW h \in Seq(Byte), NEW b \in Seq(Byte), Closes(h \o b)
    PROVE  Closes(h) \/ Closes(b)
  <1> DEFINE g == h \o b
  <1>1. /\ Len(h) \in Nat /\ Len(b) \in Nat /\ Len(g) = Len(h) + Len(b)
        /\ \A i \in 1..Len(g) : g[i] = IF i <= Len(h) THEN h[i] ELSE b[i - Len(h)]
    BY ConcatProperties
  <1> HIDE DEF g
  <1>2. PICK i \in 1..Len(g) : g[i] = "close_notify" BY DEF Closes, g
  <1>3. CASE i <= Len(h)
    <2>1. i \in 1..Len(h) /\ h[i] = "close_notify" BY <1>1, <1>2, <1>3
    <2> QED BY <2>1 DEF Closes
  <1>4. CASE ~(i <= Len(h))
    <2>1. i - Len(h) \in 1..Len(b) /\ b[i - Len(h)] = "close_notify" BY <1>1, <1>2, <1>4
    <2> QED BY <2>1 DEF Closes
  <1> QED BY <1>3, <1>4

\* A record r leaves the transport: its data is in conn->in, its alert bytes are heard.
LEMMA WritesTake ==
    ASSUME NEW c, NEW w \in Seq(Record), w # << >>, NEW total, NEW st, NEW n, NEW in, NEW h,
           Writes(c, w, total, st, n, in, h), Data(in) = 0, Shape(Head(w)),
           NEW new \in Seq(Byte), Data(new) = 2 * One(Head(w)), NEW g,
           g = IF Head(w).type = "alert" THEN h \o FrontOf(h, Head(w).bytes) ELSE h
    PROVE  Writes(c, Tail(w), total, st, n, new, g)
  <1> DEFINE r == Head(w)
             v == Tail(w)
  <1>1. /\ Len(w) \in Nat \ {0} /\ Len(v) = Len(w) - 1 /\ r = w[1] /\ r \in Record /\ v \in Seq(Record)
        /\ \A i \in 1..(Len(w) - 1) : v[i] = w[i + 1]
    BY HeadTailProperties, EmptySeq, LenProperties
  <1>2. Apps(w) = Apps(v) + One(r) /\ Apps(w) \in Nat /\ Apps(v) \in Nat BY <1>1, AppsTail, AppsType
  <1>3. h \in Seq(Byte) /\ r.bytes \in Seq(Byte) /\ g \in Seq(Byte)
    <2>1. h \in Seq(Byte) /\ r.bytes \in Seq(Byte) BY <1>1 DEF Writes, Record
    <2>2. FrontOf(h, r.bytes) \in Seq(Byte) BY <2>1, Front
    <2> QED BY <2>1, <2>2
  <1> HIDE DEF r, v
  <1>4. ASSUME NEW i \in 1..Len(v) PROVE i + 1 \in 1..Len(w) /\ v[i] = w[i + 1] BY <1>1
  <1>5. Sealing(c, w) BY DEF Writes
  <1>6. WireCloses(v) => WireCloses(w) BY <1>4 DEF WireCloses
  <1>7. ASSUME NEW i \in 1..Len(v), NEW j \in 1..Len(v), i < j, Closes(v[i].bytes) PROVE v[j].type # "app"
    <2>1. i + 1 \in 1..Len(w) /\ j + 1 \in 1..Len(w) /\ v[i] = w[i + 1] /\ v[j] = w[j + 1] /\ i + 1 < j + 1
      BY <1>4, <1>7, <1>1
    <2> QED BY <2>1, <1>5, <1>7 DEF Sealing
  <1>8. Sealing(c, v) BY <1>5, <1>6, <1>7 DEF Sealing
  <1>9. total = n + Data(new) + 2 * (Apps(v) + Loaded(c))
    <2> DEFINE a == Apps(v)
               b == Loaded(c)
               o == One(r)
               x == Data(new)
    <2>1. a \in Nat /\ b \in Nat /\ o \in Nat /\ n \in Nat /\ x = 2 * o BY <1>2, LoadedType DEF Writes, One, r
    <2>2. total = n + 0 + 2 * ((a + o) + b) BY <1>2 DEF Writes
    <2> HIDE DEF a, b, o, x
    <2>3. total = n + x + 2 * (a + b) BY <2>1, <2>2
    <2> QED BY <2>3 DEF a, b, x
  <1>10. ASSUME Closes(g) PROVE IsOver(c) /\ Data(new) = 0 /\ Apps(v) = 0 /\ Loaded(c) = 0
    <2>1. Closes(h) \/ (r.type = "alert" /\ Closes(r.bytes))
      <3>1. CASE r.type = "alert"
        <4>1. FrontOf(h, r.bytes) \in Seq(Byte) /\ (Closes(FrontOf(h, r.bytes)) => Closes(r.bytes)) BY <1>3, Front
        <4>2. Closes(h) \/ Closes(FrontOf(h, r.bytes)) BY <1>3, <1>10, <3>1, <4>1, ClosesAppend DEF r
        <4> QED BY <3>1, <4>1, <4>2
      <3>2. CASE r.type # "alert" BY <1>10, <3>2 DEF r
      <3> QED BY <3>1, <3>2
    <2>2. CASE Closes(h)
      <3>1. IsOver(c) /\ Apps(w) = 0 /\ Loaded(c) = 0 BY <2>2 DEF Writes
      <3>2. One(r) \in Nat BY DEF One
      <3>3. Apps(v) = 0 /\ One(r) = 0 BY <3>1, <3>2, <1>2
      <3> QED BY <3>1, <3>3 DEF r
    <2>3. CASE r.type = "alert" /\ Closes(r.bytes)
      <3>1. 1 \in 1..Len(w) /\ w[1] = r BY <1>1
      <3>2. WireCloses(w) BY <3>1, <2>3 DEF WireCloses
      <3>3. IsOver(c) /\ Loaded(c) = 0 BY <3>2, <1>5 DEF Sealing
      <3>4. ASSUME NEW j \in 1..Len(v) PROVE v[j].type # "app"
        <4>1. j + 1 \in 1..Len(w) /\ v[j] = w[j + 1] /\ 1 < j + 1 BY <1>4
        <4> QED BY <4>1, <3>1, <2>3, <1>5 DEF Sealing
      <3>5. Apps(v) = 0 BY <1>1, <3>4, AppsZero
      <3>6. Data(new) = 0 BY <2>3 DEF One, r
      <3> QED BY <3>3, <3>5, <3>6
    <2> QED BY <2>1, <2>2, <2>3
  <1>11. n \in Nat /\ (c.queued => st # "none") BY DEF Writes
  <1> QED BY <1>3, <1>8, <1>9, <1>10, <1>11 DEF Writes, v

LEMMA DataSplit ==
    ASSUME NEW b \in Seq(Byte), AllData(b) \/ NoData(b), NEW m \in 0..Len(b)
    PROVE  LET x == SubSeq(b, 1, m)
               y == SubSeq(b, m + 1, Len(b))
           IN  /\ x \in Seq(Byte) /\ y \in Seq(Byte) /\ Data(b) = Data(x) + Data(y)
               /\ AllData(y) \/ NoData(y)
               /\ b = << >> => y = << >>
  <1> DEFINE x == SubSeq(b, 1, m)
             y == SubSeq(b, m + 1, Len(b))
  <1>1. /\ x \in Seq(Byte) /\ y \in Seq(Byte) /\ Len(x) = m /\ Len(y) = Len(b) - m
        /\ (\A i \in 1..m : x[i] = b[i]) /\ (\A i \in 1..(Len(b) - m) : y[i] = b[m + i])
    <2>1. Len(b) \in Nat /\ m \in Nat /\ m <= Len(b) OBVIOUS
    <2>2. x \in Seq(Byte) /\ Len(x) = m /\ \A i \in 1..m : x[i] = b[i]
      <3>1. \A i \in 1..m : i \in 1..Len(b) BY <2>1
      <3> QED BY <2>1, <3>1, SubSeqProperties
    <2>3. y \in Seq(Byte) /\ Len(y) = Len(b) - m /\ \A i \in 1..(Len(b) - m) : y[i] = b[m + i]
      <3>1. \A i \in m + 1 .. Len(b) : i \in 1..Len(b) BY <2>1
      <3> QED BY <2>1, <3>1, SubSeqProperties
    <2> QED BY <2>2, <2>3
  <1>2. Len(b) \in Nat /\ m \in Nat /\ m <= Len(b) OBVIOUS
  <1> SUFFICES /\ x \in Seq(Byte) /\ y \in Seq(Byte) /\ Data(b) = Data(x) + Data(y)
               /\ AllData(y) \/ NoData(y)
               /\ b = << >> => y = << >>
    OBVIOUS
  <1> HIDE DEF x, y
  <1>3. AllData(b) => AllData(x) /\ AllData(y) BY <1>1, <1>2 DEF AllData
  <1>4. NoData(b) => NoData(x) /\ NoData(y) BY <1>1, <1>2 DEF NoData
  <1>5. Data(b) = Data(x) + Data(y)
    <2>1. CASE AllData(b)
      <3>1. Data(b) = Len(b) /\ Data(x) = m /\ Data(y) = Len(b) - m BY <2>1, <1>1, <1>3, DataOf
      <3> QED BY <3>1, <1>2
    <2>2. CASE NoData(b) BY <2>2, <1>1, <1>4, DataOf
    <2> QED BY <2>1, <2>2
  <1>6. b = << >> => y = << >>
    <2>1. b = << >> => Len(y) = 0 BY <1>1, <1>2
    <2> QED BY <2>1, <1>1, EmptySeq
  <1> QED BY <1>1, <1>3, <1>4, <1>5, <1>6

LEMMA EmptyData == Data(<< >>) = 0 /\ NoData(<< >>) /\ << >> \in Seq(Byte)
  <1>1. NoData(<< >>) /\ << >> \in Seq(Byte) BY DEF NoData
  <1> QED BY <1>1, DataOf

\* The record that is read is an alert.
LEMMA InboundAlert ==
    ASSUME NEW e, NEW c \in Connection, NEW w \in Seq(Record), NEW h \in Seq(Byte), NEW n,
           Inbound(e, c, w, h, n), ~c.plain, w # << >>, Head(w).type = "alert"
    PROVE  LET p == s2n_process_alert_fragment(Open(c, Head(w)))
           IN  /\ Inbound(e, p.c, Tail(w), h \o FrontOf(h, Head(w).bytes), n)
               /\ NoData(p.c.in) /\ (p.ok \/ p.c.closed)
  <1> DEFINE r == Head(w)
             p == s2n_process_alert_fragment(Open(c, r))
             g == h \o FrontOf(h, r.bytes)
  <1>1. r \in Record /\ r.bytes \in Seq(Byte) /\ Open(c, r) \in Connection /\ Open(c, r).plain = TRUE
    <2>1. r \in Record BY HeadTailProperties, EmptySeq
    <2> QED BY <2>1, OpenedConnection DEF SameWriter, Record
  <1>2. p.c.plain = TRUE /\ p.c \in Connection BY <1>1, FragmentKeeps DEF SameWriter
  <1>3. g \in Seq(Byte) /\ p.c.in \in Seq(Byte)
    <2>1. FrontOf(h, r.bytes) \in Seq(Byte) BY <1>1, Front
    <2> QED BY <1>2, <2>1 DEF Connection
  <1>4. Reads(Tail(w), p.c, g) /\ NoData(p.c.in) /\ (p.ok \/ p.c.closed) /\ Shape(r) /\ c.in = << >>
    <2>1. Reads(w, c, h) BY DEF Inbound
    <2>2. Lane(w) BY <2>1 DEF Reads
    <2>3. Shape(r) /\ Lane(Tail(w)) BY <2>2, LaneTail
    <2>4. r.bytes # << >> /\ NoData(r.bytes) BY <2>3 DEF Shape
    <2>5. /\ Aligned(p.c, g) /\ NoData(p.c.in) /\ (p.ok \/ p.c.closed)
          /\ p.c.received => \E a \in Pairs(g) : a[2] = "close_notify"
      <3>1. Aligned(c, h) /\ (c.received => \E a \in Pairs(h) : a[2] = "close_notify") BY <2>1 DEF Reads
      <3> QED BY <1>1, <2>4, <3>1, FragmentAligned
    <2>6. Inner(p.c) BY <2>5, <1>2 DEF Inner
    <2>7. c.in = << >> BY <2>1 DEF Reads, Inner
    <2> HIDE DEF p, g, r
    <2> QED BY <2>3, <2>5, <2>6, <2>7 DEF Reads
  <1> SUFFICES Inbound(e, p.c, Tail(w), g, n) /\ NoData(p.c.in) /\ (p.ok \/ p.c.closed)
    OBVIOUS
  <1> HIDE DEF p, g
  <1>5. ASSUME S2n(Peer(e))
        PROVE  Writes(conn[Peer(e)], Tail(w), sealed[Peer(e)], status[Peer(e)], n, p.c.in, g)
    <2>2. NoData(p.c.in) /\ Shape(Head(w)) /\ c.in = << >> BY <1>4
    <2>3. Data(p.c.in) = 2 * One(Head(w)) BY <1>3, <2>2, DataOf DEF One
    <2>4. Data(c.in) = 0 BY <2>2, EmptyData
    <2>5. Writes(conn[Peer(e)], w, sealed[Peer(e)], status[Peer(e)], n, c.in, h) BY <1>5 DEF Inbound
    <2>6. g = IF Head(w).type = "alert" THEN h \o FrontOf(h, Head(w).bytes) ELSE h BY DEF g
    <2> QED BY <1>3, <2>2, <2>3, <2>4, <2>5, <2>6, WritesTake
  <1> QED BY <1>4, <1>5 DEF Inbound

\* It is not: the record is opened into conn->in, or dealt with.
LEMMA InboundOther ==
    ASSUME NEW e, NEW c \in Connection, NEW w \in Seq(Record), NEW h \in Seq(Byte), NEW n,
           Inbound(e, c, w, h, n), ~c.plain, w # << >>, Head(w).type # "alert"
    PROVE  /\ Inbound(e, Open(c, Head(w)), Tail(w), h, n)
           /\ Head(w).type # "app" => Inbound(e, c, Tail(w), h, n)
  <1> DEFINE r == Head(w)
             o == Open(c, r)
             W(in) == Writes(conn[Peer(e)], Tail(w), sealed[Peer(e)], status[Peer(e)], n, in, h)
  <1>1. r \in Record /\ r.bytes \in Seq(Byte)
    <2>1. r \in Record BY HeadTailProperties, EmptySeq
    <2> QED BY <2>1 DEF Record
  <1>2. /\ o \in Connection /\ o.in = r.bytes /\ o.plain = TRUE /\ o.closed = c.closed
        /\ o.received = c.received /\ o.alertIn = c.alertIn /\ o.alertRead = c.alertRead
    BY <1>1, OpenedConnection DEF SameWriter
  <1> HIDE DEF o
  <1>3. /\ Reads(Tail(w), o, h) /\ Reads(Tail(w), c, h)
        /\ c.in = << >> /\ Shape(r) /\ Data(r.bytes) = 2 * One(r)
    <2>1. Reads(w, c, h) BY DEF Inbound
    <2>2. Lane(w) BY <2>1 DEF Reads
    <2>3. Shape(r) /\ Lane(Tail(w)) BY <2>2, LaneTail
    <2>6. (AllData(r.bytes) \/ NoData(r.bytes)) /\ Data(r.bytes) = 2 * One(r)
      <3>1. CASE r.type = "app"
        <4>1. r.bytes = <<"data", "data">> /\ One(r) = 1 BY <2>3, <3>1 DEF Shape, AppRecord, One
        <4> HIDE DEF r
        <4>2. AllData(r.bytes) /\ Len(r.bytes) = 2 BY <4>1 DEF AllData
        <4>3. Data(r.bytes) = 2 BY <1>1, <4>2, DataOf
        <4> QED BY <4>1, <4>2, <4>3
      <3>2. CASE r.type # "app"
        <4>1. NoData(r.bytes) /\ One(r) = 0 BY <2>3, <3>2 DEF Shape, One
        <4>2. Data(r.bytes) = 0 BY <1>1, <4>1, DataOf
        <4> QED BY <4>1, <4>2
      <3> QED BY <3>1, <3>2
    <2>7. Inner(o) /\ Aligned(o, h) /\ Inner(c) BY <1>2, <2>1, <2>6 DEF Reads, Inner, Aligned
    <2>8. c.in = << >> BY <2>1 DEF Reads, Inner
    <2> HIDE DEF r
    <2> QED BY <1>2, <2>1, <2>3, <2>6, <2>7, <2>8 DEF Reads
  <1>4. ASSUME S2n(Peer(e))
        PROVE  W(o.in) /\ (r.type # "app" => W(c.in))
    <2>2. c.in = << >> /\ Shape(Head(w)) /\ Data(r.bytes) = 2 * One(Head(w)) BY <1>3
    <2>3. Data(c.in) = 0 /\ c.in \in Seq(Byte) BY <2>2, EmptyData
    <2>4. Writes(conn[Peer(e)], w, sealed[Peer(e)], status[Peer(e)], n, c.in, h) BY <1>4 DEF Inbound
    <2>5. h = IF Head(w).type = "alert" THEN h \o FrontOf(h, Head(w).bytes) ELSE h OBVIOUS
    <2>6. W(o.in) BY <1>1, <1>2, <2>2, <2>3, <2>4, <2>5, WritesTake
    <2>7. ASSUME r.type # "app" PROVE W(c.in)
      <3>1. Data(c.in) = 2 * One(Head(w)) BY <2>3, <2>7 DEF One
      <3> QED BY <3>1, <2>2, <2>3, <2>4, <2>5, WritesTake
    <2> QED BY <2>6, <2>7
  <1> QED BY <1>3, <1>4 DEF Inbound, o

\* The first m bytes of conn->in are delivered or discarded.
Left(c, rest) == IF rest = << >> THEN Wiped(c) ELSE [c EXCEPT !.in = rest]

LEMMA LeftConnection ==
    ASSUME NEW c \in Connection, NEW rest \in Seq(Byte)
    PROVE  LET d == Left(c, rest)
           IN  /\ SameWriter(c, d) /\ d.in = rest /\ (rest # << >> => d.plain = c.plain)
               /\ d.alertIn = c.alertIn /\ d.alertRead = c.alertRead
               /\ d.received = c.received /\ d.closed = c.closed
  <1>1. CASE rest = << >>
    <2>1. Left(c, rest) = [c EXCEPT !.in = << >>, !.plain = FALSE] BY <1>1 DEF Left, Wiped
    <2> QED BY <1>1, <2>1 DEF SameWriter, Connection
  <1>2. CASE rest # << >>
    <2>1. Left(c, rest) = [c EXCEPT !.in = rest] BY <1>2 DEF Left
    <2> QED BY <1>2, <2>1 DEF SameWriter, Connection
  <1> QED BY <1>1, <1>2

LEMMA InboundTakes ==
    ASSUME NEW e, NEW c \in Connection, NEW w, NEW h, NEW n \in Nat, NEW m \in 0..Len(c.in),
           Inbound(e, c, w, h, n)
    PROVE  Inbound(e, Left(c, SubSeq(c.in, m + 1, Len(c.in))), w, h, n + Data(SubSeq(c.in, 1, m)))
  <1> DEFINE x == SubSeq(c.in, 1, m)
             y == SubSeq(c.in, m + 1, Len(c.in))
             d == Left(c, y)
  <1>1. c.in \in Seq(Byte) BY DEF Connection
  <1>2. y \in Seq(Byte) /\ x \in Seq(Byte)
    <2>1. Len(c.in) \in Nat /\ m \in Nat BY <1>1
    <2> QED BY <1>1, <2>1, SubSeqProperties
  <1>3. /\ d.in = y /\ (y # << >> => d.plain = c.plain) /\ d.alertIn = c.alertIn
        /\ d.alertRead = c.alertRead /\ d.received = c.received /\ d.closed = c.closed
    BY <1>2, LeftConnection
  <1> HIDE DEF d
  <1>4. Reads(w, d, h) /\ Data(c.in) = Data(x) + Data(y)
    <2>1. Reads(w, c, h) BY DEF Inbound
    <2>2. /\ Data(c.in) = Data(x) + Data(y) /\ (AllData(y) \/ NoData(y))
          /\ c.in = << >> => y = << >>
      BY <1>1, <2>1, DataSplit DEF Reads, Inner
    <2> HIDE DEF x, y
    <2>3. Inner(d) BY <1>3, <2>1, <2>2 DEF Reads, Inner
    <2>4. Aligned(d, h) BY <1>3, <2>1 DEF Reads, Aligned
    <2> QED BY <1>3, <2>1, <2>2, <2>3, <2>4 DEF Reads
  <1> HIDE DEF x, y
  <1>5. ASSUME S2n(Peer(e))
        PROVE  Writes(conn[Peer(e)], w, sealed[Peer(e)], status[Peer(e)], n + Data(x), d.in, h)
    <2> DEFINE q == conn[Peer(e)]
               k == Apps(w) + Loaded(q)
    <2>1. Writes(q, w, sealed[Peer(e)], status[Peer(e)], n, c.in, h) BY <1>5 DEF Inbound
    <2>2. Data(c.in) = Data(x) + Data(y) /\ Data(x) \in Nat /\ Data(y) \in Nat
      BY <1>2, <1>4, <1>5, DataOf
    <2>3. n + Data(x) \in Nat BY <2>2
    <2>4. n + Data(c.in) = (n + Data(x)) + Data(y) BY <2>2
    <2>5. sealed[Peer(e)] = (n + Data(x)) + Data(y) + 2 * k BY <2>1, <2>4 DEF Writes
    <2>6. Data(c.in) = 0 => Data(y) = 0 BY <2>2
    <2> QED BY <1>2, <1>3, <2>1, <2>3, <2>5, <2>6 DEF Writes
  <1> QED BY <1>4, <1>5 DEF Inbound, d, x, y

\* conn->in is wiped and there was no data in it.
LEMMA InboundWiped ==
    ASSUME NEW e, NEW c \in Connection, NEW w, NEW h, NEW n,
           Inbound(e, c, w, h, n), NoData(c.in)
    PROVE  Inbound(e, Wiped(c), w, h, n)
  <1> DEFINE d == Wiped(c)
  <1>1. /\ d.in = << >> /\ d.alertIn = c.alertIn
        /\ d.alertRead = c.alertRead /\ d.received = c.received /\ d.closed = c.closed
    BY DEF Wiped, Connection
  <1> HIDE DEF d
  <1>2. Reads(w, c, h) => Reads(w, d, h)
    <2>1. Inner(d) BY <1>1, EmptyData DEF Inner
    <2> QED BY <1>1, <2>1 DEF Reads, Aligned
  <1>3. ASSUME S2n(Peer(e)) PROVE Data(c.in) = 0 /\ Data(d.in) = 0 /\ d.in \in Seq(Byte)
    <2>1. c.in \in Seq(Byte) BY DEF Connection
    <2> QED BY <1>1, <1>3, <2>1, DataOf, EmptyData
  <1> QED BY <1>2, <1>3 DEF Inbound, Writes, d

-----------------------------------------------------------------------------
(* The steps. *)

Call(e, d, v, x, g, st, total, dl, ds) ==
    /\ cfg' = cfg /\ conn' = [conn EXCEPT ![e] = d] /\ wire' = [wire EXCEPT ![e] = v, ![Peer(e)] = x]
    /\ heard' = [heard EXCEPT ![e] = g] /\ status' = [status EXCEPT ![e] = st]
    /\ sealed' = [sealed EXCEPT ![e] = total] /\ delivered' = [delivered EXCEPT ![e] = dl]
    /\ discarded' = [discarded EXCEPT ![e] = ds]
    /\ d \in Connection /\ v \in Seq(Record) /\ x \in Seq(Record) /\ g \in Seq(Byte)
    /\ st \in {"none", "trying", "ok", "failed"} /\ total \in Nat
    /\ dl \in [data : Nat, alert : Int] /\ ds \in Nat

LEMMA CallOf ==
    ASSUME CInv, NEW e \in Endpoint, NEW d, NEW v, NEW x, NEW g, NEW st, NEW total, NEW dl, NEW ds,
           Call(e, d, v, x, g, st, total, dl, ds),
           Out(d), Quiet(e, d, st), Inbound(e, d, x, g, dl.data + ds), Outbound(e, d, v, total, st)
    PROVE  CInv'
  <1>1. Peer(e) \in Endpoint /\ Peer(e) # e BY Peers
  <1>2. TypeInv BY DEF CInv
  <1>3. TypeInv' BY <1>1, <1>2 DEF TypeInv, Call
  <1>4. /\ conn'[e] = d /\ wire'[e] = v /\ wire'[Peer(e)] = x /\ heard'[e] = g /\ status'[e] = st
        /\ sealed'[e] = total /\ delivered'[e] = dl /\ discarded'[e] = ds
    BY <1>1, <1>2 DEF TypeInv, Call
  <1>5. Others(e) BY <1>1, <1>2 DEF TypeInv, Others, Call
  <1> QED BY <1>3, <1>4, <1>5, StepOf

LEMMA AsBefore ==
    ASSUME CInv, NEW e \in Endpoint
    PROVE  /\ conn = [conn EXCEPT ![e] = conn[e]] /\ heard = [heard EXCEPT ![e] = heard[e]]
           /\ wire = [wire EXCEPT ![e] = wire[e], ![Peer(e)] = wire[Peer(e)]]
           /\ \A v : [wire EXCEPT ![e] = v] = [wire EXCEPT ![e] = v, ![Peer(e)] = wire[Peer(e)]]
           /\ \A v : [wire EXCEPT ![Peer(e)] = v] = [wire EXCEPT ![e] = wire[e], ![Peer(e)] = v]
           /\ \A v, x : [[wire EXCEPT ![Peer(e)] = x] EXCEPT ![e] = v] = [wire EXCEPT ![e] = v, ![Peer(e)] = x]
           /\ status = [status EXCEPT ![e] = status[e]] /\ status[e] \in {"none", "trying", "ok", "failed"}
           /\ sealed = [sealed EXCEPT ![e] = sealed[e]] /\ sealed[e] \in Nat
           /\ delivered = [delivered EXCEPT ![e] = delivered[e]] /\ delivered[e] \in [data : Nat, alert : Int]
           /\ discarded = [discarded EXCEPT ![e] = discarded[e]] /\ discarded[e] \in Nat
           /\ delivered[e].data + discarded[e] \in Nat
  <1>1. Peer(e) \in Endpoint /\ Peer(e) # e BY Peers
  <1>2. TypeInv BY DEF CInv
  <1>3. conn = [conn EXCEPT ![e] = conn[e]] /\ heard = [heard EXCEPT ![e] = heard[e]] BY <1>2 DEF TypeInv
  <1>4. wire \in [Endpoint -> Seq(Record)] BY <1>2 DEF TypeInv
  <1>5. wire = [wire EXCEPT ![e] = wire[e], ![Peer(e)] = wire[Peer(e)]] BY <1>1, <1>4
  <1>6. \A v : [wire EXCEPT ![e] = v] = [wire EXCEPT ![e] = v, ![Peer(e)] = wire[Peer(e)]] BY <1>1, <1>4
  <1>7. \A v : [wire EXCEPT ![Peer(e)] = v] = [wire EXCEPT ![e] = wire[e], ![Peer(e)] = v] BY <1>1, <1>4
  <1>8. \A v, x : [[wire EXCEPT ![Peer(e)] = x] EXCEPT ![e] = v] = [wire EXCEPT ![e] = v, ![Peer(e)] = x]
    BY <1>1, <1>4
  <1>9. status = [status EXCEPT ![e] = status[e]] /\ status[e] \in {"none", "trying", "ok", "failed"}
    BY <1>2 DEF TypeInv
  <1>10. sealed = [sealed EXCEPT ![e] = sealed[e]] /\ sealed[e] \in Nat BY <1>2 DEF TypeInv
  <1>11. delivered = [delivered EXCEPT ![e] = delivered[e]] /\ delivered[e] \in [data : Nat, alert : Int]
    BY <1>2 DEF TypeInv
  <1>12. discarded = [discarded EXCEPT ![e] = discarded[e]] /\ discarded[e] \in Nat BY <1>2 DEF TypeInv
  <1>13. delivered[e].data + discarded[e] \in Nat BY <1>11, <1>12
  <1> QED BY <1>3, <1>5, <1>6, <1>7, <1>8, <1>9, <1>10, <1>11, <1>12, <1>13

LEMMA Consuming ==
    ASSUME NEW c \in Connection, NEW w, NEW b \in BOOLEAN, NEW f, f = [c |-> c, w |-> w]
    PROVE  LET g == [f EXCEPT !.c.consumed = b]
           IN  SameWriter(c, g.c) /\ SameReader(c, g.c) /\ g.w = w
  <1> DEFINE d == [c EXCEPT !.consumed = b]
  <1>1. [f EXCEPT !.c.consumed = b] = [c |-> d, w |-> w] OBVIOUS
  <1>2. SameWriter(c, d) /\ SameReader(c, d) BY DEF SameWriter, SameReader, Connection
  <1> HIDE DEF d
  <1> QED BY <1>1, <1>2

LEMMA FlushReader ==
    ASSUME NEW c, NEW w, NEW d, NEW v, Flushes(c, w, d, v)
    PROVE  SameReader(c, d)
  BY DEF Flushes, SameReader

\* A step of e that writes, and reads nothing.
LEMMA WritingStep ==
    ASSUME CInv, NEW e \in Endpoint, NEW f, NEW total \in Nat, NEW st \in {"none", "trying", "ok", "failed"},
           Set(e, f), f.c \in Connection, f.w \in Seq(Record), Out(f.c), st = "none" => status[e] = "none",
           SameReader(conn[e], f.c), Outbound(e, f.c, f.w, total, st),
           sealed' = [sealed EXCEPT ![e] = total], status' = [status EXCEPT ![e] = st],
           UNCHANGED <<cfg, delivered, discarded, heard>>
    PROVE  CInv'
  <1>1. /\ Inbound(e, conn[e], wire[Peer(e)], heard[e], delivered[e].data + discarded[e])
        /\ wire[Peer(e)] \in Seq(Record) /\ heard[e] \in Seq(Byte) /\ Quiet(e, conn[e], status[e])
    BY Directions
  <1>2. Inbound(e, f.c, wire[Peer(e)], heard[e], delivered[e].data + discarded[e]) BY <1>1, InboundSame
  <1>3. /\ conn' = [conn EXCEPT ![e] = f.c] /\ wire' = [wire EXCEPT ![e] = f.w, ![Peer(e)] = wire[Peer(e)]]
        /\ heard' = [heard EXCEPT ![e] = heard[e]]
        /\ delivered' = [delivered EXCEPT ![e] = delivered[e]] /\ delivered[e] \in [data : Nat, alert : Int]
        /\ discarded' = [discarded EXCEPT ![e] = discarded[e]] /\ discarded[e] \in Nat
    BY AsBefore DEF Set
  <1>4. Call(e, f.c, f.w, wire[Peer(e)], heard[e], st, total, delivered[e], discarded[e])
    BY <1>1, <1>3 DEF Call
  <1>5. Quiet(e, f.c, st) BY <1>1 DEF Quiet, SameReader
  <1> QED BY <1>2, <1>4, <1>5, CallOf

LEMMA SendKeeps ==
    ASSUME CInv, NEW e \in Endpoint, s2n_send(e)
    PROVE  CInv'
  <1> DEFINE c == conn[e]
             w == wire[e]
  <1>1. /\ c \in Connection /\ w \in Seq(Record) /\ Out(c)
        /\ Outbound(e, c, w, sealed[e], status[e])
    BY Directions
  <1>2. /\ status[e] = "none" /\ status' = [status EXCEPT ![e] = status[e]]
        /\ UNCHANGED <<cfg, delivered, discarded, heard>>
        /\ sealed[e] \in Nat /\ status[e] \in {"none", "trying", "ok", "failed"}
    BY AsBefore DEF s2n_send
  <1> HIDE DEF c, w
  <1>3. CASE SendBlocks(e)
    <2>1. PICK f \in s2n_flush(c, w).blocked : Set(e, f) BY <1>3 DEF SendBlocks, c, w
    <2>2. Flushes(c, w, f.c, f.w) BY <1>1, FlushResult
    <2>3. f.c \in Connection /\ f.w \in Seq(Record) /\ Out(f.c) BY <2>2 DEF Flushes
    <2>4. Outbound(e, f.c, f.w, sealed[e], status[e]) BY <1>1, <2>2, FlushPasses, OutboundPasses
    <2>5. SameReader(conn[e], f.c) BY <2>2, FlushReader DEF c
    <2>6. sealed' = [sealed EXCEPT ![e] = sealed[e]] BY <1>3, AsBefore DEF SendBlocks
    <2> QED BY <1>2, <2>1, <2>3, <2>4, <2>5, <2>6, WritingStep
  <1>4. CASE SendAcknowledges(e)
    <2>1. PICK f \in s2n_flush(c, w).done : Set(e, [f EXCEPT !.c.consumed = FALSE])
      BY <1>4 DEF SendAcknowledges, c, w
    <2> DEFINE g == [f EXCEPT !.c.consumed = FALSE]
    <2>2. Flushes(c, w, f.c, f.w) /\ f = [c |-> f.c, w |-> f.w] BY <1>1, FlushResult
    <2>3. f.c \in Connection /\ f.w \in Seq(Record) /\ Out(f.c) BY <2>2 DEF Flushes
    <2>4. Outbound(e, f.c, f.w, sealed[e], status[e]) BY <1>1, <2>2, FlushPasses, OutboundPasses
    <2>5. SameWriter(f.c, g.c) /\ SameReader(f.c, g.c) /\ g.w = f.w BY <2>2, <2>3, Consuming
    <2> HIDE DEF g
    <2>6. Passes(f.c, f.w, g.c, g.w) BY <2>3, <2>5, SameWriterPasses
    <2>7. Outbound(e, g.c, g.w, sealed[e], status[e]) BY <2>3, <2>4, <2>6, OutboundPasses
    <2>8. SameReader(conn[e], g.c)
      <3>1. SameReader(c, f.c) BY <2>2, FlushReader
      <3> QED BY <3>1, <2>5 DEF SameReader, c
    <2>9. sealed' = [sealed EXCEPT ![e] = sealed[e]] BY <1>4, AsBefore DEF SendAcknowledges
    <2>10. Set(e, g) /\ g.c \in Connection /\ g.w \in Seq(Record) /\ Out(g.c) BY <2>1, <2>6 DEF g, Passes
    <2> QED BY <1>2, <2>7, <2>8, <2>9, <2>10, WritingStep
  <1>5. CASE SendRecord(e)
    <2>1. PICK f \in s2n_flush(c, w).done :
             LET flush == s2n_flush([f.c EXCEPT !.out = <<AppRecord>>], f.w)
             IN  \/ \E g \in flush.blocked : Set(e, [g EXCEPT !.c.consumed = TRUE])
                 \/ \E g \in flush.done : Set(e, g)
      BY <1>5 DEF SendRecord, c, w
    <2> DEFINE d == [f.c EXCEPT !.out = <<AppRecord>>]
               total == sealed[e] + 2
    <2>2. Flushes(c, w, f.c, f.w) /\ f = [c |-> f.c, w |-> f.w] /\ f.c.out = << >> BY <1>1, FlushResult
    <2>3. f.c \in Connection /\ f.w \in Seq(Record) /\ Out(f.c) BY <2>2 DEF Flushes
    <2>4. Outbound(e, f.c, f.w, sealed[e], "none") BY <1>1, <1>2, <2>2, FlushPasses, OutboundPasses
    <2>5. d \in Connection /\ Out(d) /\ Outbound(e, d, f.w, total, "none")
      BY <1>2, <2>2, <2>3, <2>4, OutboundLoads
    <2>6. SameReader(c, d)
      <3>1. SameReader(c, f.c) BY <2>2, FlushReader
      <3>2. SameReader(f.c, d) BY <2>3 DEF SameReader, Connection
      <3> HIDE DEF d
      <3> QED BY <3>1, <3>2 DEF SameReader
    <2>7. \/ \E g \in s2n_flush(d, f.w).blocked : Set(e, [g EXCEPT !.c.consumed = TRUE])
          \/ \E g \in s2n_flush(d, f.w).done : Set(e, g)
      BY <2>1
    <2>8. sealed' = [sealed EXCEPT ![e] = total] /\ total \in Nat BY <1>2, <1>5 DEF SendRecord
    <2> HIDE DEF d, total
    <2>9. ASSUME NEW g, Flushes(d, f.w, g.c, g.w)
          PROVE  /\ g.c \in Connection /\ g.w \in Seq(Record) /\ Out(g.c)
                 /\ Outbound(e, g.c, g.w, total, "none") /\ SameReader(conn[e], g.c)
      <3>1. g.c \in Connection /\ g.w \in Seq(Record) /\ Out(g.c) BY <2>9 DEF Flushes
      <3>2. Outbound(e, g.c, g.w, total, "none") BY <2>3, <2>5, <2>9, FlushPasses, OutboundPasses
      <3>3. SameReader(d, g.c) BY <2>9, FlushReader
      <3>4. SameReader(conn[e], g.c) BY <2>6, <3>3 DEF SameReader, c
      <3> QED BY <3>1, <3>2, <3>4
    <2>10. CASE \E g \in s2n_flush(d, f.w).done : Set(e, g)
      <3>1. PICK g \in s2n_flush(d, f.w).done : Set(e, g) BY <2>10
      <3>2. Flushes(d, f.w, g.c, g.w) BY <2>3, <2>5, FlushResult
      <3> QED BY <1>2, <2>8, <2>9, <3>1, <3>2, WritingStep
    <2>11. CASE \E g \in s2n_flush(d, f.w).blocked : Set(e, [g EXCEPT !.c.consumed = TRUE])
      <3>1. PICK g \in s2n_flush(d, f.w).blocked : Set(e, [g EXCEPT !.c.consumed = TRUE]) BY <2>11
      <3>2. Flushes(d, f.w, g.c, g.w) /\ g = [c |-> g.c, w |-> g.w] BY <2>3, <2>5, FlushResult
      <3> DEFINE x == [g EXCEPT !.c.consumed = TRUE]
      <3>3. SameWriter(g.c, x.c) /\ SameReader(g.c, x.c) /\ x.w = g.w BY <2>9, <3>2, Consuming
      <3>4. Set(e, x) BY <3>1
      <3> HIDE DEF x
      <3>5. Passes(g.c, g.w, x.c, x.w) BY <2>9, <3>2, <3>3, SameWriterPasses
      <3>6. Outbound(e, x.c, x.w, total, "none") BY <2>9, <3>2, <3>5, OutboundPasses
      <3>7. SameReader(conn[e], x.c) BY <2>9, <3>2, <3>3 DEF SameReader
      <3>8. x.c \in Connection /\ x.w \in Seq(Record) /\ Out(x.c) BY <3>5 DEF Passes
      <3> QED BY <1>2, <2>8, <3>4, <3>6, <3>7, <3>8, WritingStep
    <2> QED BY <2>7, <2>10, <2>11
  <1> QED BY <1>3, <1>4, <1>5 DEF s2n_send

\* A step of e that reads, and may flush.
Read(e, d, v, x, g, dl) ==
    /\ conn' = [conn EXCEPT ![e] = d] /\ wire' = [wire EXCEPT ![e] = v, ![Peer(e)] = x]
    /\ heard' = [heard EXCEPT ![e] = g] /\ delivered' = [delivered EXCEPT ![e] = dl]
    /\ x \in Seq(Record) /\ g \in Seq(Byte) /\ dl \in [data : Nat, alert : Int]

LEMMA ReadingStep ==
    ASSUME CInv, NEW e \in Endpoint, NEW d, NEW v, NEW x, NEW g, NEW dl, Read(e, d, v, x, g, dl),
           Passes(conn[e], wire[e], d, v), Inbound(e, d, x, g, dl.data + discarded[e]),
           cfg.failed /\ ~d.closed => ~d.plain,
           UNCHANGED <<cfg, status, sealed, discarded>>
    PROVE  CInv'
  <1>1. conn[e] \in Connection /\ wire[e] \in Seq(Record) /\ Outbound(e, conn[e], wire[e], sealed[e], status[e])
    BY Directions
  <1>2. Outbound(e, d, v, sealed[e], status[e]) BY <1>1, OutboundPasses
  <1>3. d \in Connection /\ v \in Seq(Record) /\ Out(d) BY DEF Passes
  <1>4. /\ status' = [status EXCEPT ![e] = status[e]] /\ status[e] \in {"none", "trying", "ok", "failed"}
        /\ sealed' = [sealed EXCEPT ![e] = sealed[e]] /\ sealed[e] \in Nat
        /\ discarded' = [discarded EXCEPT ![e] = discarded[e]] /\ discarded[e] \in Nat
    BY AsBefore
  <1>5. Call(e, d, v, x, g, status[e], sealed[e], dl, discarded[e]) BY <1>3, <1>4 DEF Call, Read
  <1>6. Quiet(e, d, status[e]) BY DEF Quiet
  <1> QED BY <1>2, <1>3, <1>5, <1>6, CallOf

LEMMA Taking ==
    ASSUME CInv, NEW e \in Endpoint, HasRecord(e), NextType(e) # "badly_sealed" \/ ~conn[e].broken
    PROVE  LET w == wire[Peer(e)]
           IN  /\ w \in Seq(Record) /\ w # << >> /\ NextType(e) = Head(w).type
               /\ Head(w) \in Record /\ Tail(w) \in Seq(Record) /\ Head(w).bytes \in Seq(Byte)
               /\ Take(e) = [wire EXCEPT ![Peer(e)] = Tail(w)]
               /\ \A c : Opened(e, c) = Open(c, Head(w))
  <1> DEFINE w == wire[Peer(e)]
  <1>1. ~conn[e].broken BY DEF NextType
  <1>2. w \in Seq(Record) /\ w # << >> /\ NextType(e) = Head(w).type BY <1>1, Directions DEF HasRecord, NextType
  <1>3. Head(w) \in Record /\ Tail(w) \in Seq(Record) BY <1>2, HeadTailProperties, EmptySeq
  <1>4. Head(w).bytes \in Seq(Byte) BY <1>3 DEF Record
  <1>5. Take(e) = [wire EXCEPT ![Peer(e)] = Tail(w)] BY <1>1 DEF Take
  <1>6. \A c : Opened(e, c) = Open(c, Head(w)) BY DEF Opened, Open
  <1> QED BY <1>2, <1>3, <1>4, <1>5, <1>6

LEMMA RecvDataKeeps ==
    ASSUME CInv, NEW e \in Endpoint, ~cfg.failed, NEW size \in 1..2, RecvData(e, size),
           UNCHANGED <<cfg, eof, status, sealed, discarded, foreignDone>>
    PROVE  CInv'
  <1> DEFINE w == wire[Peer(e)]
             c == IF conn[e].plain THEN conn[e] ELSE Opened(e, conn[e])
             n == IF Len(c.in) < size THEN Len(c.in) ELSE size
             rest == SubSeq(c.in, n + 1, Len(c.in))
             given == SubSeq(c.in, 1, n)
             x == IF conn[e].plain THEN w ELSE Tail(w)
             N == delivered[e].data + discarded[e]
             dl == Deliver(delivered[e], given)
  <1>1. /\ conn[e] \in Connection /\ w \in Seq(Record) /\ heard[e] \in Seq(Byte) /\ wire[e] \in Seq(Record)
        /\ Inbound(e, conn[e], w, heard[e], N) /\ Out(conn[e])
    BY Directions
  <1>2. /\ conn' = [conn EXCEPT ![e] = Left(c, rest)]
        /\ delivered' = [delivered EXCEPT ![e] = dl]
    BY DEF RecvData, Left
  <1>3. /\ Inbound(e, c, x, heard[e], N) /\ SameWriter(conn[e], c) /\ x \in Seq(Record)
        /\ wire' = [wire EXCEPT ![e] = wire[e], ![Peer(e)] = x]
    <2>1. CASE conn[e].plain
      <3>1. c = conn[e] /\ x = w /\ wire' = wire BY <2>1 DEF RecvData
      <3>2. wire = [wire EXCEPT ![e] = wire[e], ![Peer(e)] = w] BY AsBefore
      <3> QED BY <1>1, <3>1, <3>2 DEF SameWriter
    <2>2. CASE ~conn[e].plain
      <3>1. HasRecord(e) /\ NextType(e) = "app" /\ wire' = Take(e) BY <2>2 DEF RecvData
      <3>2. /\ w # << >> /\ NextType(e) = Head(w).type /\ Head(w) \in Record /\ Tail(w) \in Seq(Record)
            /\ Take(e) = [wire EXCEPT ![Peer(e)] = Tail(w)] /\ Opened(e, conn[e]) = Open(conn[e], Head(w))
        BY <3>1, Taking
      <3>3. c = Open(conn[e], Head(w)) /\ x = Tail(w) BY <2>2, <3>2
      <3>4. Inbound(e, Open(conn[e], Head(w)), Tail(w), heard[e], N) BY <1>1, <2>2, <3>1, <3>2, InboundOther
      <3>5. SameWriter(conn[e], Open(conn[e], Head(w))) BY <1>1, <3>2, OpenedConnection
      <3>6. [wire EXCEPT ![Peer(e)] = Tail(w)] = [wire EXCEPT ![e] = wire[e], ![Peer(e)] = Tail(w)]
        BY AsBefore
      <3> HIDE DEF c, x, N
      <3> QED BY <3>1, <3>2, <3>3, <3>4, <3>5, <3>6
    <2> QED BY <2>1, <2>2
  <1>4. /\ heard' = [heard EXCEPT ![e] = heard[e]] /\ delivered[e] \in [data : Nat, alert : Int]
        /\ discarded[e] \in Nat /\ N \in Nat
    BY AsBefore DEF RecvData
  <1> HIDE DEF c, x
  <1>5. c \in Connection /\ c.in \in Seq(Byte) /\ Len(c.in) \in Nat
    <2>1. c \in Connection BY <1>3 DEF SameWriter
    <2>2. c.in \in Seq(Byte) BY <2>1 DEF Connection
    <2> QED BY <2>1, <2>2
  <1>6. n \in 0..Len(c.in) BY <1>5
  <1> HIDE DEF n
  <1>7. given \in Seq(Byte) /\ rest \in Seq(Byte)
    <2>1. n \in Nat /\ n <= Len(c.in) BY <1>5, <1>6
    <2> QED BY <1>5, <1>6, <2>1, SubSeqProperties
  <1>8. Inbound(e, Left(c, rest), x, heard[e], N + Data(given)) BY <1>3, <1>4, <1>5, <1>6, InboundTakes
  <1>9. dl \in [data : Nat, alert : Int] /\ dl.data + discarded[e] = N + Data(given)
    <2> HIDE DEF given
    <2>1. Data(given) \in Nat /\ Len(given) \in Nat BY <1>7, DataOf
    <2>2. dl = [data |-> delivered[e].data + Data(given), alert |-> delivered[e].alert + Len(given) - Data(given)]
      BY DEF Deliver, Data
    <2>3. delivered[e].data \in Nat /\ delivered[e].alert \in Int BY <1>4
    <2> HIDE DEF dl
    <2> QED BY <1>4, <2>1, <2>2, <2>3
  <1>10. Passes(conn[e], wire[e], Left(c, rest), wire[e])
    <2>1. SameWriter(c, Left(c, rest)) BY <1>5, <1>7, LeftConnection
    <2>2. SameWriter(conn[e], Left(c, rest)) BY <1>3, <2>1 DEF SameWriter
    <2> QED BY <1>1, <2>2, SameWriterPasses
  <1> HIDE DEF dl, rest, given, N
  <1>11. Inbound(e, Left(c, rest), x, heard[e], dl.data + discarded[e]) BY <1>8, <1>9
  <1>12. UNCHANGED <<cfg, status, sealed, discarded>> OBVIOUS
  <1>13. Read(e, Left(c, rest), wire[e], x, heard[e], dl) BY <1>1, <1>2, <1>3, <1>4, <1>9 DEF Read
  <1> QED BY <1>10, <1>11, <1>12, <1>13, ReadingStep

LEMMA WipedConnection ==
    ASSUME NEW c \in Connection
    PROVE  SameWriter(c, Wiped(c))
  <1>1. << >> \in Seq(Byte) OBVIOUS
  <1> QED BY <1>1 DEF SameWriter, Wiped, Connection

\* What an alert record does to a connection c of e that is not plain.
LEMMA AlertRead ==
    ASSUME CInv, NEW e \in Endpoint, HasRecord(e), NextType(e) = "alert",
           NEW c \in Connection, ~c.plain, NEW n, Inbound(e, c, wire[Peer(e)], heard[e], n)
    PROVE  LET w == wire[Peer(e)]
               p == s2n_process_alert_fragment(Opened(e, c))
               g == heard[e] \o FrontOf(heard[e], Head(w).bytes)
           IN  /\ SameWriter(c, p.c) /\ Inbound(e, p.c, Tail(w), g, n)
               /\ NoData(p.c.in) /\ (p.ok \/ p.c.closed)
               /\ g \in Seq(Byte) /\ Tail(w) \in Seq(Record)
               /\ Hear(e) => heard' = [heard EXCEPT ![e] = g]
               /\ Take(e) = [wire EXCEPT ![Peer(e)] = Tail(w)]
  <1> DEFINE w == wire[Peer(e)]
             p == s2n_process_alert_fragment(Opened(e, c))
             g == heard[e] \o FrontOf(heard[e], Head(w).bytes)
  <1>1. heard[e] \in Seq(Byte) BY Directions
  <1>2. /\ w \in Seq(Record) /\ w # << >> /\ Head(w).type = "alert" /\ Head(w) \in Record /\ Tail(w) \in Seq(Record)
        /\ Head(w).bytes \in Seq(Byte)
        /\ Take(e) = [wire EXCEPT ![Peer(e)] = Tail(w)] /\ Opened(e, c) = Open(c, Head(w))
    BY Taking
  <1>3. SameWriter(c, p.c)
    <2>0. SameWriter(c, Open(c, Head(w))) BY <1>2, OpenedConnection
    <2>1. SameWriter(c, Opened(e, c)) BY <1>2, <2>0
    <2>2. Opened(e, c) \in Connection BY <2>1 DEF SameWriter
    <2>3. SameWriter(Opened(e, c), p.c) BY <2>2, FragmentKeeps
    <2> HIDE DEF p
    <2> QED BY <2>1, <2>3 DEF SameWriter
  <1>4. p = s2n_process_alert_fragment(Open(c, Head(w))) BY <1>2
  <1>5. Inbound(e, p.c, Tail(w), g, n) /\ NoData(p.c.in) /\ (p.ok \/ p.c.closed)
    <2> HIDE DEF p
    <2> QED BY <1>1, <1>2, <1>4, InboundAlert
  <1>6. Hear(e) => heard' = [heard EXCEPT ![e] = g] BY DEF Hear, HearBytes, FrontOf
  <1>7. g \in Seq(Byte)
    <2>1. FrontOf(heard[e], Head(w).bytes) \in Seq(Byte) BY <1>1, <1>2, Front
    <2> QED BY <1>1, <2>1
  <1> HIDE DEF p, g
  <1> QED BY <1>2, <1>3, <1>5, <1>6, <1>7 DEF p, g

LEMMA RecvAlertKeeps ==
    ASSUME CInv, NEW e \in Endpoint, ~cfg.failed, RecvAlert(e),
           UNCHANGED <<cfg, eof, status, sealed, discarded, foreignDone>>
    PROVE  CInv'
  <1> DEFINE w == wire[Peer(e)]
             p == s2n_process_alert_fragment(Opened(e, conn[e]))
             g == heard[e] \o FrontOf(heard[e], Head(w).bytes)
             N == delivered[e].data + discarded[e]
             Return(c, v) == conn' = [conn EXCEPT ![e] = c] /\ wire' = [Take(e) EXCEPT ![e] = v]
  <1>1. /\ conn[e] \in Connection /\ wire[e] \in Seq(Record)
        /\ Inbound(e, conn[e], w, heard[e], N) /\ Out(conn[e])
    BY Directions
  <1>2. ~conn[e].plain /\ HasRecord(e) /\ NextType(e) = "alert" /\ Hear(e) BY DEF RecvAlert
  <1>3. /\ SameWriter(conn[e], p.c) /\ Inbound(e, p.c, Tail(w), g, N)
        /\ NoData(p.c.in) /\ (p.ok \/ p.c.closed)
        /\ g \in Seq(Byte) /\ Tail(w) \in Seq(Record) /\ heard' = [heard EXCEPT ![e] = g]
        /\ Take(e) = [wire EXCEPT ![Peer(e)] = Tail(w)]
    BY <1>1, <1>2, AlertRead
  <1>4. \/ Return(p.c, wire[e])
        \/ \E f \in s2n_flush(p.c, wire[e]).blocked : Return(f.c, f.w)
        \/ \E f \in s2n_flush(p.c, wire[e]).done : Return(Wiped(f.c), f.w)
    BY DEF RecvAlert
  <1>5. /\ delivered' = [delivered EXCEPT ![e] = delivered[e]] /\ delivered[e] \in [data : Nat, alert : Int]
        /\ \A v, x : [[wire EXCEPT ![Peer(e)] = x] EXCEPT ![e] = v] = [wire EXCEPT ![e] = v, ![Peer(e)] = x]
    BY AsBefore DEF RecvAlert
  <1>6. UNCHANGED <<cfg, status, sealed, discarded>> OBVIOUS
  <1> HIDE DEF p, g
  <1>7. ASSUME NEW d, NEW v, Return(d, v), Passes(conn[e], wire[e], d, v), Inbound(e, d, Tail(w), g, N)
        PROVE  CInv'
    <2>1. conn' = [conn EXCEPT ![e] = d] /\ wire' = [wire EXCEPT ![e] = v, ![Peer(e)] = Tail(w)]
      BY <1>3, <1>5, <1>7
    <2>2. Read(e, d, v, Tail(w), g, delivered[e]) BY <1>3, <1>5, <2>1 DEF Read
    <2>3. Inbound(e, d, Tail(w), g, delivered[e].data + discarded[e]) BY <1>7
    <2> QED BY <1>6, <1>7, <2>2, <2>3, ReadingStep
  <1>8. p.c \in Connection /\ Out(p.c) /\ Passes(conn[e], wire[e], p.c, wire[e])
    <2>1. Passes(conn[e], wire[e], p.c, wire[e]) BY <1>1, <1>3, SameWriterPasses
    <2> QED BY <2>1 DEF Passes
  <1>9. ASSUME NEW f, Flushes(p.c, wire[e], f.c, f.w)
        PROVE  /\ f.c \in Connection /\ f.w \in Seq(Record) /\ Out(f.c) /\ f.c.in = p.c.in
               /\ Passes(conn[e], wire[e], f.c, f.w) /\ Inbound(e, f.c, Tail(w), g, N)
    <2>1. f.c \in Connection /\ f.w \in Seq(Record) /\ Out(f.c) /\ f.c.in = p.c.in BY <1>9 DEF Flushes
    <2>2. Passes(conn[e], wire[e], f.c, f.w) BY <1>8, <1>9, FlushPasses, PassesTransitive
    <2>3. Inbound(e, f.c, Tail(w), g, N) BY <1>3, <1>9, FlushReader, InboundSame
    <2> QED BY <2>1, <2>2, <2>3
  <1> HIDE DEF Return, N
  <1>10. CASE Return(p.c, wire[e]) BY <1>3, <1>7, <1>8, <1>10
  <1>11. CASE \E f \in s2n_flush(p.c, wire[e]).blocked : Return(f.c, f.w)
    <2>1. PICK f \in s2n_flush(p.c, wire[e]).blocked : Return(f.c, f.w) BY <1>11
    <2>2. Flushes(p.c, wire[e], f.c, f.w) BY <1>1, <1>8, FlushResult
    <2> QED BY <1>7, <1>9, <2>1, <2>2
  <1>12. CASE \E f \in s2n_flush(p.c, wire[e]).done : Return(Wiped(f.c), f.w)
    <2>1. PICK f \in s2n_flush(p.c, wire[e]).done : Return(Wiped(f.c), f.w) BY <1>12
    <2>2. Flushes(p.c, wire[e], f.c, f.w) BY <1>1, <1>8, FlushResult
    <2>3. SameWriter(f.c, Wiped(f.c)) BY <1>9, <2>2, WipedConnection
    <2>4. Passes(f.c, f.w, Wiped(f.c), f.w) BY <1>9, <2>2, <2>3, SameWriterPasses
    <2>5. Passes(conn[e], wire[e], Wiped(f.c), f.w) BY <1>9, <2>2, <2>4, PassesTransitive
    <2>6. NoData(f.c.in) BY <1>3, <1>9, <2>2
    <2>7. Inbound(e, Wiped(f.c), Tail(w), g, N) BY <1>9, <2>2, <2>6, InboundWiped
    <2> QED BY <1>7, <2>1, <2>5, <2>7
  <1> QED BY <1>4, <1>10, <1>11, <1>12

LEMMA NegotiateKeeps ==
    ASSUME CInv, NEW e \in Endpoint, s2n_negotiate(e)
    PROVE  CInv'
  <1> DEFINE w == wire[Peer(e)]
             p == s2n_process_alert_fragment(Opened(e, conn[e]))
             g == heard[e] \o FrontOf(heard[e], Head(w).bytes)
             N == delivered[e].data + discarded[e]
             d == IF p.ok THEN Wiped(p.c) ELSE p.c
  <1>1. /\ conn[e] \in Connection /\ wire[e] \in Seq(Record)
        /\ Inbound(e, conn[e], w, heard[e], N) /\ Out(conn[e]) /\ Quiet(e, conn[e], status[e])
    BY Directions
  <1>2. /\ HasRecord(e) /\ NextType(e) = "alert" /\ Hear(e) /\ wire' = Take(e) /\ e = "client"
        /\ conn' = [conn EXCEPT ![e] = d]
        /\ ~conn[e].plain /\ UNCHANGED <<cfg, status, sealed, delivered, discarded>>
    BY <1>1 DEF s2n_negotiate, Quiet
  <1>3. /\ SameWriter(conn[e], p.c) /\ Inbound(e, p.c, Tail(w), g, N)
        /\ NoData(p.c.in) /\ (p.ok \/ p.c.closed)
        /\ g \in Seq(Byte) /\ Tail(w) \in Seq(Record) /\ heard' = [heard EXCEPT ![e] = g]
        /\ Take(e) = [wire EXCEPT ![Peer(e)] = Tail(w)]
    BY <1>1, <1>2, AlertRead
  <1> HIDE DEF p
  <1>5. p.c \in Connection BY <1>3 DEF SameWriter
  <1>6. SameWriter(conn[e], d) /\ Inbound(e, d, Tail(w), g, N) /\ (~d.closed => ~d.plain)
    <2>1. CASE p.ok
      <3>1. d = Wiped(p.c) BY <2>1
      <3>2. SameWriter(p.c, Wiped(p.c)) BY <1>5, WipedConnection
      <3>3. Inbound(e, Wiped(p.c), Tail(w), g, N) BY <1>3, <1>5, InboundWiped
      <3>4. ~Wiped(p.c).plain BY <1>5 DEF Wiped, Connection
      <3> HIDE DEF d
      <3> QED BY <1>3, <3>1, <3>2, <3>3, <3>4 DEF SameWriter
    <2>2. CASE ~p.ok BY <1>3, <2>2
    <2> QED BY <2>1, <2>2
  <1> HIDE DEF d
  <1>7. Passes(conn[e], wire[e], d, wire[e]) BY <1>1, <1>6, SameWriterPasses
  <1>8. Read(e, d, wire[e], Tail(w), g, delivered[e])
    <2>1. [wire EXCEPT ![Peer(e)] = Tail(w)] = [wire EXCEPT ![e] = wire[e], ![Peer(e)] = Tail(w)] BY AsBefore
    <2>2. wire' = [wire EXCEPT ![e] = wire[e], ![Peer(e)] = Tail(w)] BY <1>2, <1>3, <2>1
    <2>3. delivered' = [delivered EXCEPT ![e] = delivered[e]] /\ delivered[e] \in [data : Nat, alert : Int]
      BY <1>2, AsBefore
    <2> QED BY <1>2, <1>3, <2>2, <2>3 DEF Read
  <1>9. UNCHANGED <<cfg, status, sealed, discarded>> BY <1>2
  <1> QED BY <1>6, <1>7, <1>8, <1>9, ReadingStep

LEMMA Killed ==
    ASSUME NEW c \in Connection
    PROVE  /\ SameWriter(c, s2n_connection_kill(c)) /\ SameReader(c, s2n_connection_kill(c))
           /\ LET d == [s2n_connection_kill(c) EXCEPT !.broken = TRUE]
              IN  SameWriter(c, d) /\ SameReader(c, d)
           /\ LET d == [c EXCEPT !.closed = TRUE] IN SameWriter(c, d) /\ SameReader(c, d)
  BY DEF s2n_connection_kill, SameWriter, SameReader, Connection

LEMMA RecvOtherKeeps ==
    ASSUME CInv, NEW e \in Endpoint, ~cfg.failed, RecvOther(e) \/ RecvEnd(e),
           UNCHANGED <<cfg, eof, status, sealed, discarded, foreignDone>>
    PROVE  CInv'
  <1> DEFINE w == wire[Peer(e)]
             c == conn[e]
             N == delivered[e].data + discarded[e]
  <1>1. /\ c \in Connection /\ w \in Seq(Record) /\ heard[e] \in Seq(Byte) /\ wire[e] \in Seq(Record)
        /\ Inbound(e, c, w, heard[e], N) /\ Out(c)
    BY Directions
  <1>2. /\ delivered' = [delivered EXCEPT ![e] = delivered[e]] /\ delivered[e] \in [data : Nat, alert : Int]
        /\ heard' = [heard EXCEPT ![e] = heard[e]] /\ ~c.plain
    BY AsBefore DEF RecvOther, RecvEnd
  <1>3. UNCHANGED <<cfg, status, sealed, discarded>> OBVIOUS
  <1>4. wire = [wire EXCEPT ![e] = wire[e], ![Peer(e)] = w] BY AsBefore
  <1>5. \A x : [wire EXCEPT ![Peer(e)] = x] = [wire EXCEPT ![e] = wire[e], ![Peer(e)] = x] BY AsBefore
  <1>6. ASSUME NEW d, NEW x \in Seq(Record), conn' = [conn EXCEPT ![e] = d],
               wire' = [wire EXCEPT ![e] = wire[e], ![Peer(e)] = x],
               SameWriter(c, d), Inbound(e, d, x, heard[e], N)
        PROVE  CInv'
    <2>1. Read(e, d, wire[e], x, heard[e], delivered[e]) BY <1>1, <1>2, <1>6 DEF Read
    <2>2. Passes(conn[e], wire[e], d, wire[e]) BY <1>1, <1>6, SameWriterPasses
    <2> QED BY <1>3, <1>6, <2>1, <2>2, ReadingStep
  <1>7. ASSUME HasRecord(e), NextType(e) # "badly_sealed" \/ ~c.broken
        PROVE  /\ w # << >> /\ NextType(e) = Head(w).type /\ Head(w) \in Record /\ Tail(w) \in Seq(Record)
               /\ Take(e) = [wire EXCEPT ![e] = wire[e], ![Peer(e)] = Tail(w)]
               /\ Opened(e, c) = Open(c, Head(w))
    <2>1. /\ w # << >> /\ NextType(e) = Head(w).type /\ Head(w) \in Record /\ Tail(w) \in Seq(Record)
          /\ Take(e) = [wire EXCEPT ![Peer(e)] = Tail(w)] /\ Opened(e, c) = Open(c, Head(w))
      BY <1>7, Taking
    <2> QED BY <1>5, <2>1
  <1> HIDE DEF c, N, w
  <1>8. CASE RecvEnd(e)
    <2> DEFINE d == [c EXCEPT !.closed = TRUE]
    <2>1. conn' = [conn EXCEPT ![e] = d] /\ wire' = wire BY <1>8 DEF RecvEnd, c
    <2>2. SameWriter(c, d) /\ SameReader(c, d) BY <1>1, Killed
    <2> HIDE DEF d
    <2>3. Inbound(e, d, w, heard[e], N) BY <1>1, <2>2, InboundSame
    <2> QED BY <1>1, <1>4, <1>6, <2>1, <2>2, <2>3
  <1>9. CASE RecvOther(e) /\ NextType(e) = "handshake"
    <2>1. HasRecord(e) /\ wire' = Take(e) /\ conn' = [conn EXCEPT ![e] = Wiped(c)] BY <1>9 DEF RecvOther, c
    <2>2. /\ w # << >> /\ NextType(e) = Head(w).type /\ Tail(w) \in Seq(Record)
          /\ Take(e) = [wire EXCEPT ![e] = wire[e], ![Peer(e)] = Tail(w)]
      BY <1>7, <1>9, <2>1
    <2>3. Inbound(e, c, Tail(w), heard[e], N) BY <1>1, <1>2, <1>9, <2>2, InboundOther
    <2>4. NoData(c.in) BY <1>1, <1>2, EmptyData DEF Inbound, Reads, Inner
    <2>5. Inbound(e, Wiped(c), Tail(w), heard[e], N) BY <1>1, <2>3, <2>4, InboundWiped
    <2>6. SameWriter(c, Wiped(c)) BY <1>1, WipedConnection
    <2> QED BY <1>6, <2>1, <2>2, <2>5, <2>6
  <1>10. CASE RecvOther(e) /\ NextType(e) = "bad_handshake"
    <2> DEFINE o == Open(c, Head(w))
    <2>1. HasRecord(e) /\ wire' = Take(e) /\ conn' = [conn EXCEPT ![e] = s2n_connection_kill(Opened(e, c))]
      BY <1>10 DEF RecvOther, c
    <2>2. /\ w # << >> /\ NextType(e) = Head(w).type /\ Tail(w) \in Seq(Record) /\ Head(w) \in Record
          /\ Take(e) = [wire EXCEPT ![e] = wire[e], ![Peer(e)] = Tail(w)]
          /\ Opened(e, c) = o
      BY <1>7, <1>10, <2>1
    <2>3. Inbound(e, o, Tail(w), heard[e], N) BY <1>1, <1>2, <1>10, <2>2, InboundOther
    <2>4. SameWriter(c, o) /\ o \in Connection BY <1>1, <2>2, OpenedConnection DEF SameWriter
    <2> HIDE DEF o
    <2>5. SameWriter(o, s2n_connection_kill(o)) /\ SameReader(o, s2n_connection_kill(o)) BY <2>4, Killed
    <2>6. Inbound(e, s2n_connection_kill(o), Tail(w), heard[e], N) BY <2>3, <2>5, InboundSame
    <2>7. SameWriter(c, s2n_connection_kill(o)) BY <2>4, <2>5 DEF SameWriter
    <2> QED BY <1>6, <2>1, <2>2, <2>6, <2>7
  <1>11. CASE RecvOther(e) /\ NextType(e) = "badly_sealed"
    <2> DEFINE d == [s2n_connection_kill(c) EXCEPT !.broken = TRUE]
    <2>1. HasRecord(e) /\ wire' = Take(e) /\ conn' = [conn EXCEPT ![e] = d]
      BY <1>11 DEF RecvOther, c
    <2>2. SameWriter(c, d) /\ SameReader(c, d) BY <1>1, Killed
    <2> HIDE DEF d
    <2>3. CASE c.broken
      <3>1. wire' = wire BY <2>1, <2>3 DEF Take, c
      <3>2. Inbound(e, d, w, heard[e], N) BY <1>1, <2>2, InboundSame
      <3> QED BY <1>1, <1>4, <1>6, <2>1, <2>2, <3>1, <3>2
    <2>4. CASE ~c.broken
      <3>1. /\ w # << >> /\ NextType(e) = Head(w).type /\ Tail(w) \in Seq(Record)
            /\ Take(e) = [wire EXCEPT ![e] = wire[e], ![Peer(e)] = Tail(w)]
        BY <1>7, <2>1, <2>4
      <3>2. Inbound(e, c, Tail(w), heard[e], N) BY <1>1, <1>2, <1>11, <3>1, InboundOther
      <3>3. Inbound(e, d, Tail(w), heard[e], N) BY <2>2, <3>2, InboundSame
      <3> QED BY <1>6, <2>1, <2>2, <3>1, <3>3
    <2> QED BY <2>3, <2>4
  <1> QED BY <1>8, <1>9, <1>10, <1>11 DEF RecvOther

LEMMA RecvKeeps ==
    ASSUME CInv, NEW e \in Endpoint, s2n_recv(e)
    PROVE  CInv'
  <1>1. ~cfg.failed /\ UNCHANGED <<cfg, eof, status, sealed, discarded, foreignDone>> BY DEF s2n_recv
  <1>2. CASE \E size \in 1..2 : RecvData(e, size) BY <1>1, <1>2, RecvDataKeeps
  <1>3. CASE RecvAlert(e) BY <1>1, <1>3, RecvAlertKeeps
  <1>4. CASE RecvOther(e) \/ RecvEnd(e) BY <1>1, <1>4, RecvOtherKeeps
  <1> QED BY <1>2, <1>3, <1>4 DEF s2n_recv

\* The end of s2n_shutdown: what it makes of a connection c that is flushed and wiped.
Ended(e, d, x, g, st, v, ds) ==
    /\ conn' = [conn EXCEPT ![e] = d] /\ wire' = [wire EXCEPT ![e] = v, ![Peer(e)] = x]
    /\ heard' = [heard EXCEPT ![e] = g] /\ status' = [status EXCEPT ![e] = st]
    /\ discarded' = [discarded EXCEPT ![e] = ds]
    /\ x \in Seq(Record) /\ g \in Seq(Byte) /\ st \in {"trying", "ok", "failed"}

LEMMA EndedKeeps ==
    ASSUME CInv, NEW e \in Endpoint, NEW c \in Connection, NEW v \in Seq(Record), Out(c),
           \A t : t # "none" => Outbound(e, c, v, sealed[e], t),
           NEW d, NEW x, NEW g, NEW st, NEW ds \in Nat, Ended(e, d, x, g, st, v, ds),
           SameWriter(c, d), Inbound(e, d, x, g, delivered[e].data + ds),
           UNCHANGED <<cfg, sealed, delivered>>
    PROVE  CInv'
  <1>1. st # "none" /\ st \in {"none", "trying", "ok", "failed"} BY DEF Ended
  <1>2. Passes(c, v, d, v) BY SameWriterPasses
  <1>3. Outbound(e, d, v, sealed[e], st) /\ Out(d) /\ d \in Connection
    <2>1. Outbound(e, c, v, sealed[e], st) BY <1>1
    <2>2. Outbound(e, d, v, sealed[e], st) BY <1>2, <2>1, OutboundPasses
    <2> QED BY <1>2, <2>2 DEF Passes
  <1>4. /\ sealed' = [sealed EXCEPT ![e] = sealed[e]] /\ sealed[e] \in Nat
        /\ delivered' = [delivered EXCEPT ![e] = delivered[e]] /\ delivered[e] \in [data : Nat, alert : Int]
    BY AsBefore
  <1>5. Call(e, d, v, x, g, st, sealed[e], delivered[e], ds) BY <1>1, <1>3, <1>4 DEF Call, Ended
  <1>6. Quiet(e, d, st) BY <1>1 DEF Quiet
  <1> QED BY <1>3, <1>5, <1>6, CallOf

LEMMA CloseNotifyKeeps ==
    ASSUME CInv, NEW e \in Endpoint, NEW c \in Connection, NEW v \in Seq(Record), Out(c), ~c.plain,
           \A t : t # "none" => Outbound(e, c, v, sealed[e], t),
           NEW ds \in Nat, Inbound(e, c, wire[Peer(e)], heard[e], delivered[e].data + ds),
           s2n_recv_close_notify(e, c, v), discarded' = [discarded EXCEPT ![e] = ds],
           UNCHANGED <<cfg, sealed, delivered>>
    PROVE  CInv'
  <1> DEFINE w == wire[Peer(e)]
             N == delivered[e].data + ds
  <1>1. /\ w \in Seq(Record) /\ heard[e] \in Seq(Byte) /\ Inbound(e, c, w, heard[e], N) BY Directions
  <1>2. heard = [heard EXCEPT ![e] = heard[e]] BY AsBefore
  <1>3. \A y : [wire EXCEPT ![e] = y] = [wire EXCEPT ![e] = y, ![Peer(e)] = w] BY AsBefore
  <1>4. \A y, x : [[wire EXCEPT ![Peer(e)] = x] EXCEPT ![e] = y] = [wire EXCEPT ![e] = y, ![Peer(e)] = x]
    BY AsBefore
  <1>5. CASE ~HasRecord(e)
    <2> DEFINE d == IF EndOfStream(e) THEN [c EXCEPT !.closed = TRUE] ELSE c
               st == IF EndOfStream(e) THEN "failed" ELSE "trying"
    <2>1. /\ conn' = [conn EXCEPT ![e] = d] /\ status' = [status EXCEPT ![e] = st]
          /\ wire' = [wire EXCEPT ![e] = v] /\ heard' = heard
      BY <1>5 DEF s2n_recv_close_notify
    <2>2. SameWriter(c, d) /\ SameReader(c, d) BY Killed DEF SameWriter, SameReader
    <2>3. st \in {"trying", "ok", "failed"} OBVIOUS
    <2> HIDE DEF d, st
    <2>4. Ended(e, d, w, heard[e], st, v, ds) BY <1>1, <1>2, <1>3, <2>1, <2>3 DEF Ended
    <2>5. Inbound(e, d, w, heard[e], N) BY <1>1, <2>2, InboundSame
    <2> QED BY <2>2, <2>4, <2>5, EndedKeeps
  <1>6. ASSUME HasRecord(e)
        PROVE  LET r == CloseNotifyRead(e, c)
               IN  /\ conn' = [conn EXCEPT ![e] = r.c] /\ wire' = [Take(e) EXCEPT ![e] = v]
                   /\ status' = [status EXCEPT ![e] = r.result] /\ Hear(e)
    BY <1>6 DEF s2n_recv_close_notify
  <1>7. ASSUME HasRecord(e), NextType(e) # "badly_sealed" \/ ~conn[e].broken
        PROVE  /\ w # << >> /\ NextType(e) = Head(w).type /\ Head(w) \in Record /\ Tail(w) \in Seq(Record)
               /\ wire' = [wire EXCEPT ![e] = v, ![Peer(e)] = Tail(w)]
               /\ Opened(e, c) = Open(c, Head(w))
    <2>1. /\ w # << >> /\ NextType(e) = Head(w).type /\ Head(w) \in Record /\ Tail(w) \in Seq(Record)
          /\ Take(e) = [wire EXCEPT ![Peer(e)] = Tail(w)] /\ Opened(e, c) = Open(c, Head(w))
      BY <1>7, Taking
    <2>2. wire' = [[wire EXCEPT ![Peer(e)] = Tail(w)] EXCEPT ![e] = v] BY <1>6, <1>7, <2>1
    <2> QED BY <1>4, <2>1, <2>2
  <1>8. CASE HasRecord(e) /\ NextType(e) = "badly_sealed"
    <2> DEFINE d == [s2n_connection_kill(c) EXCEPT !.broken = TRUE]
    <2>1. conn' = [conn EXCEPT ![e] = d] /\ status' = [status EXCEPT ![e] = "failed"]
      <3>1. CloseNotifyRead(e, c) = [c |-> d, result |-> "failed"] BY <1>8 DEF CloseNotifyRead
      <3> HIDE DEF d
      <3> QED BY <1>6, <1>8, <3>1
    <2>2. SameWriter(c, d) /\ SameReader(c, d) BY Killed
    <2>3. heard' = [heard EXCEPT ![e] = heard[e]] BY <1>2, <1>6, <1>8 DEF Hear
    <2> HIDE DEF d
    <2>4. CASE conn[e].broken
      <3>1. wire' = [wire EXCEPT ![e] = v] BY <1>6, <1>8, <2>4 DEF Take
      <3>2. Ended(e, d, w, heard[e], "failed", v, ds) BY <1>1, <1>3, <2>1, <2>3, <3>1 DEF Ended
      <3>3. Inbound(e, d, w, heard[e], N) BY <1>1, <2>2, InboundSame
      <3> QED BY <2>2, <3>2, <3>3, EndedKeeps
    <2>5. CASE ~conn[e].broken
      <3>1. /\ w # << >> /\ NextType(e) = Head(w).type /\ Tail(w) \in Seq(Record)
            /\ wire' = [wire EXCEPT ![e] = v, ![Peer(e)] = Tail(w)]
        BY <1>7, <1>8, <2>5
      <3>2. Inbound(e, c, Tail(w), heard[e], N) BY <1>1, <1>8, <3>1, InboundOther
      <3>3. Inbound(e, d, Tail(w), heard[e], N) BY <2>2, <3>2, InboundSame
      <3>4. Ended(e, d, Tail(w), heard[e], "failed", v, ds) BY <1>1, <2>1, <2>3, <3>1 DEF Ended
      <3> QED BY <2>2, <3>3, <3>4, EndedKeeps
    <2> QED BY <2>4, <2>5
  <1>9. CASE HasRecord(e) /\ NextType(e) = "alert"
    <2> DEFINE p == s2n_process_alert_fragment(Opened(e, c))
               g == heard[e] \o FrontOf(heard[e], Head(w).bytes)
               st == IF p.ok THEN "ok" ELSE "failed"
    <2>1. /\ SameWriter(c, p.c) /\ Inbound(e, p.c, Tail(w), g, N)
          /\ g \in Seq(Byte) /\ Tail(w) \in Seq(Record) /\ heard' = [heard EXCEPT ![e] = g]
      BY <1>6, <1>9, AlertRead
    <2>2. conn' = [conn EXCEPT ![e] = p.c] /\ status' = [status EXCEPT ![e] = st]
      <3>1. CloseNotifyRead(e, c) = [c |-> p.c, result |-> st] BY <1>9 DEF CloseNotifyRead
      <3> HIDE DEF p, st
      <3> QED BY <1>6, <1>9, <3>1
    <2>3. wire' = [wire EXCEPT ![e] = v, ![Peer(e)] = Tail(w)] BY <1>7, <1>9
    <2>4. st \in {"trying", "ok", "failed"} OBVIOUS
    <2> HIDE DEF p, g, st
    <2>5. Ended(e, p.c, Tail(w), g, st, v, ds) BY <2>1, <2>2, <2>3, <2>4 DEF Ended
    <2> QED BY <2>1, <2>5, EndedKeeps
  <1>10. CASE HasRecord(e) /\ NextType(e) \notin {"badly_sealed", "alert"}
    <2> DEFINE o == Open(c, Head(w))
    <2>1. /\ w # << >> /\ NextType(e) = Head(w).type /\ Tail(w) \in Seq(Record) /\ Head(w) \in Record
          /\ wire' = [wire EXCEPT ![e] = v, ![Peer(e)] = Tail(w)] /\ Opened(e, c) = o
      BY <1>7, <1>10
    <2>2. conn' = [conn EXCEPT ![e] = o] /\ status' = [status EXCEPT ![e] = "failed"]
      <3>1. CloseNotifyRead(e, c) = [c |-> o, result |-> "failed"] BY <1>10, <2>1 DEF CloseNotifyRead
      <3> HIDE DEF o
      <3> QED BY <1>6, <1>10, <3>1
    <2>3. heard' = [heard EXCEPT ![e] = heard[e]] BY <1>2, <1>6, <1>10 DEF Hear
    <2>4. Inbound(e, o, Tail(w), heard[e], N) BY <1>1, <1>10, <2>1, InboundOther
    <2>5. SameWriter(c, o) BY <2>1, OpenedConnection
    <2> HIDE DEF o
    <2>6. Ended(e, o, Tail(w), heard[e], "failed", v, ds) BY <1>1, <2>1, <2>2, <2>3 DEF Ended
    <2> QED BY <2>4, <2>5, <2>6, EndedKeeps
  <1> QED BY <1>5, <1>8, <1>9, <1>10

LEMMA ShutdownKeeps ==
    ASSUME CInv, NEW e \in Endpoint, s2n_shutdown(e)
    PROVE  CInv'
  <1> DEFINE w == wire[Peer(e)]
             N == delivered[e].data + discarded[e]
             q == s2n_queue_writer_close_alert_warning(conn[e])
  <1>1. /\ conn[e] \in Connection /\ wire[e] \in Seq(Record) /\ Out(conn[e]) /\ w \in Seq(Record)
        /\ heard[e] \in Seq(Byte)
        /\ Inbound(e, conn[e], w, heard[e], N) /\ Outbound(e, conn[e], wire[e], sealed[e], status[e])
    BY Directions
  <1>2. /\ q \in Connection /\ Out(q) /\ SameReader(conn[e], q)
        /\ \A t : t # "none" => Outbound(e, q, wire[e], sealed[e], t)
    <2>1. ASSUME NEW t, t # "none"
          PROVE  /\ q \in Connection /\ Out(q) /\ Outbound(e, q, wire[e], sealed[e], t)
                 /\ SameReader(conn[e], q)
      <3> DEFINE c == conn[e]
                 v == wire[e]
                 n == sealed[e]
                 st == status[e]
      <3>1. c \in Connection /\ v \in Seq(Record) /\ Out(c) /\ Outbound(e, c, v, n, st) BY <1>1
      <3>2. q = s2n_queue_writer_close_alert_warning(c) OBVIOUS
      <3> HIDE DEF c, v, n, st, q
      <3>3. /\ q \in Connection /\ Out(q) /\ Outbound(e, q, v, n, t)
            /\ q.in = c.in /\ q.plain = c.plain /\ q.alertIn = c.alertIn /\ q.alertRead = c.alertRead
            /\ q.received = c.received /\ q.closed = c.closed
        BY <2>1, <3>1, <3>2, OutboundQueues
      <3>4. SameReader(c, q) BY <3>3 DEF SameReader
      <3> QED BY <3>3, <3>4 DEF c, v, n
    <2>2. "ok" # "none" OBVIOUS
    <2> HIDE DEF q
    <2> QED BY <2>1, <2>2
  <1>3. UNCHANGED <<cfg, sealed, delivered>> BY DEF s2n_shutdown
  <1>4. \/ /\ \E f \in s2n_flush(q, wire[e]).blocked : Set(e, f)
           /\ status' = [status EXCEPT ![e] = "trying"]
           /\ UNCHANGED <<discarded, heard>>
        \/ \E f \in s2n_flush(q, wire[e]).done : ShutdownReads(e, f)
    BY DEF s2n_shutdown
  <1> HIDE DEF q
  <1>5. ASSUME NEW f, Flushes(q, wire[e], f.c, f.w)
        PROVE  /\ f.c \in Connection /\ f.w \in Seq(Record) /\ Out(f.c) /\ SameReader(conn[e], f.c)
               /\ \A t : t # "none" => Outbound(e, f.c, f.w, sealed[e], t)
               /\ Inbound(e, f.c, w, heard[e], N)
    <2>1. f.c \in Connection /\ f.w \in Seq(Record) /\ Out(f.c) BY <1>5 DEF Flushes
    <2>2. SameReader(q, f.c) BY <1>5, FlushReader
    <2>3. SameReader(conn[e], f.c) BY <1>2, <2>2 DEF SameReader
    <2>4. \A t : t # "none" => Outbound(e, f.c, f.w, sealed[e], t)
      BY <1>1, <1>2, <1>5, FlushPasses, OutboundPasses
    <2>5. Inbound(e, f.c, w, heard[e], N) BY <1>1, <2>3, InboundSame
    <2> QED BY <2>1, <2>3, <2>4, <2>5
  <1>6. /\ sealed = [sealed EXCEPT ![e] = sealed[e]] /\ sealed[e] \in Nat /\ discarded[e] \in Nat
        /\ heard = [heard EXCEPT ![e] = heard[e]] /\ N \in Nat /\ delivered[e].data \in Nat
    BY AsBefore
  <1>7. CASE /\ \E f \in s2n_flush(q, wire[e]).blocked : Set(e, f)
             /\ status' = [status EXCEPT ![e] = "trying"]
             /\ UNCHANGED <<discarded, heard>>
    <2>1. PICK f \in s2n_flush(q, wire[e]).blocked : Set(e, f) BY <1>7
    <2>2. Flushes(q, wire[e], f.c, f.w) BY <1>1, <1>2, FlushResult
    <2>3. UNCHANGED <<cfg, delivered, discarded, heard>> /\ sealed' = [sealed EXCEPT ![e] = sealed[e]]
      BY <1>3, <1>6, <1>7
    <2>4. "trying" # "none" /\ "trying" \in {"none", "trying", "ok", "failed"} OBVIOUS
    <2>5. Outbound(e, f.c, f.w, sealed[e], "trying") BY <1>5, <2>2, <2>4
    <2> QED BY <1>5, <1>6, <1>7, <2>1, <2>2, <2>3, <2>4, <2>5, WritingStep
  <1>8. CASE \E f \in s2n_flush(q, wire[e]).done : ShutdownReads(e, f)
    <2>1. PICK f \in s2n_flush(q, wire[e]).done : ShutdownReads(e, f) BY <1>8
    <2>2. Flushes(q, wire[e], f.c, f.w) /\ f = [c |-> f.c, w |-> f.w] BY <1>1, <1>2, FlushResult
    <2> DEFINE c == IF f.c.plain THEN Wiped(f.c) ELSE f.c
               k == Data(f.c.in)
               ds == discarded[e] + k
    <2>3. f.c \in Connection /\ f.w \in Seq(Record) /\ Out(f.c) /\ Inbound(e, f.c, w, heard[e], N)
      BY <1>5, <2>2
    <2>4. f.c.in \in Seq(Byte) /\ k \in Nat /\ ds \in Nat /\ delivered[e].data + ds = N + k
      <3>1. f.c.in \in Seq(Byte) BY <2>3 DEF Connection
      <3>2. k \in Nat BY <3>1, DataOf
      <3> HIDE DEF k
      <3> QED BY <1>6, <3>1, <3>2
    <2>5. discarded' = [discarded EXCEPT ![e] = ds]
      <3>1. Deliver([data |-> 0, alert |-> 0], f.c.in).data = 0 + k BY DEF Deliver, Data
      <3>2. 0 + k = k BY <2>4
      <3>3. discarded' = [discarded EXCEPT ![e] = @ + Deliver([data |-> 0, alert |-> 0], f.c.in).data]
        BY <2>1 DEF ShutdownReads
      <3> HIDE DEF k
      <3> QED BY <3>1, <3>2, <3>3
    <2>6. IF c.received
          THEN /\ Set(e, [f EXCEPT !.c = c])
               /\ status' = [status EXCEPT ![e] = "ok"]
               /\ UNCHANGED heard
          ELSE s2n_recv_close_notify(e, c, f.w)
      BY <2>1 DEF ShutdownReads
    <2>7. SameWriter(f.c, c) /\ ~c.plain /\ Inbound(e, c, w, heard[e], N + k)
      <3>1. CASE f.c.plain
        <4>1. c = Wiped(f.c) BY <3>1
        <4>2. SameWriter(f.c, Wiped(f.c)) /\ ~Wiped(f.c).plain
          <5>1. ~Wiped(f.c).plain BY <2>3 DEF Wiped, Connection
          <5> QED BY <2>3, <5>1, WipedConnection
        <4>3. Len(f.c.in) \in 0..Len(f.c.in) /\ Len(f.c.in) \in Nat BY <2>4
        <4>4. SubSeq(f.c.in, 1, Len(f.c.in)) = f.c.in BY <2>4, SubSeqFull
        <4>5. SubSeq(f.c.in, Len(f.c.in) + 1, Len(f.c.in)) = << >>
          <5>1. Len(f.c.in) < Len(f.c.in) + 1 BY <4>3
          <5> QED BY <4>3, <5>1, SubSeqEmpty
        <4>6. Inbound(e, Left(f.c, SubSeq(f.c.in, Len(f.c.in) + 1, Len(f.c.in))), w, heard[e],
                      N + Data(SubSeq(f.c.in, 1, Len(f.c.in))))
          BY <1>6, <2>3, <4>3, InboundTakes
        <4>7. Left(f.c, << >>) = Wiped(f.c) BY DEF Left
        <4>8. Inbound(e, Wiped(f.c), w, heard[e], N + k) BY <4>4, <4>5, <4>6, <4>7
        <4> HIDE DEF c, k
        <4> QED BY <4>1, <4>2, <4>8
      <3>2. CASE ~f.c.plain
        <4>1. c = f.c BY <3>2
        <4>2. k = 0 BY <2>3, <3>2, EmptyData DEF Inbound, Reads, Inner
        <4>3. k = 0 => N + k = N BY <1>6
        <4>4. Inbound(e, f.c, w, heard[e], N + k) BY <2>3, <4>2, <4>3
        <4>5. SameWriter(f.c, f.c) BY <2>3 DEF SameWriter
        <4> HIDE DEF c, k
        <4> QED BY <3>2, <4>1, <4>4, <4>5
      <3> QED BY <3>1, <3>2
    <2> HIDE DEF c, k, ds, N
    <2>8. c \in Connection /\ Out(c) /\ \A t : t # "none" => Outbound(e, c, f.w, sealed[e], t)
      <3>1. Passes(f.c, f.w, c, f.w) BY <2>3, <2>7, SameWriterPasses
      <3>2. \A t : t # "none" => Outbound(e, f.c, f.w, sealed[e], t) BY <1>5, <2>2
      <3>3. \A t : t # "none" => Outbound(e, c, f.w, sealed[e], t) BY <2>3, <3>1, <3>2, OutboundPasses
      <3> QED BY <3>1, <3>3 DEF Passes
    <2>9. Inbound(e, c, wire[Peer(e)], heard[e], delivered[e].data + ds) BY <2>4, <2>7
    <2>10. CASE c.received
      <3>1. Set(e, [f EXCEPT !.c = c]) /\ status' = [status EXCEPT ![e] = "ok"] /\ heard' = heard
        BY <2>6, <2>10
      <3>2. [f EXCEPT !.c = c] = [c |-> c, w |-> f.w]
        <4> DEFINE a == f.c
                   b == f.w
        <4>1. f = [c |-> a, w |-> b] BY <2>2
        <4> HIDE DEF a, b
        <4>2. [f EXCEPT !.c = c] = [c |-> c, w |-> b] BY <4>1
        <4> QED BY <4>2 DEF b
      <3>3. conn' = [conn EXCEPT ![e] = c] /\ wire' = [wire EXCEPT ![e] = f.w] BY <3>1, <3>2 DEF Set
      <3>4. [wire EXCEPT ![e] = f.w] = [wire EXCEPT ![e] = f.w, ![Peer(e)] = w] BY AsBefore
      <3>5. Ended(e, c, w, heard[e], "ok", f.w, ds) BY <1>1, <1>6, <2>5, <3>1, <3>3, <3>4 DEF Ended
      <3>6. SameWriter(c, c) BY <2>8 DEF SameWriter
      <3> QED BY <1>3, <2>3, <2>4, <2>8, <2>9, <3>5, <3>6, EndedKeeps
    <2>11. CASE ~c.received
      <3>1. s2n_recv_close_notify(e, c, f.w) BY <2>6, <2>11
      <3> QED BY <1>3, <2>3, <2>4, <2>5, <2>7, <2>8, <2>9, <3>1, CloseNotifyKeeps
    <2> QED BY <2>10, <2>11
  <1> QED BY <1>4, <1>7, <1>8

LEMMA OtherKeeps ==
    ASSUME CInv, NEW e \in Endpoint,
           s2n_connection_get_alert(e) \/ DelayExpires(e) \/ CloseTransport(e)
    PROVE  CInv'
  <1> DEFINE c == conn[e]
             w == wire[Peer(e)]
             N == delivered[e].data + discarded[e]
  <1>1. /\ c \in Connection /\ wire[e] \in Seq(Record) /\ w \in Seq(Record) /\ heard[e] \in Seq(Byte)
        /\ Inbound(e, c, w, heard[e], N) /\ Out(c) /\ Quiet(e, c, status[e])
    BY Directions
  <1>2. /\ wire = [wire EXCEPT ![e] = wire[e], ![Peer(e)] = w] /\ conn = [conn EXCEPT ![e] = c]
        /\ heard = [heard EXCEPT ![e] = heard[e]] /\ delivered[e] \in [data : Nat, alert : Int]
        /\ delivered = [delivered EXCEPT ![e] = delivered[e]]
    BY AsBefore
  <1>3. ASSUME NEW d, conn' = [conn EXCEPT ![e] = d], SameWriter(c, d), Inbound(e, d, w, heard[e], N),
               d.plain = c.plain, d.closed = c.closed,
               UNCHANGED <<cfg, wire, status, sealed, delivered, discarded, heard>>
        PROVE  CInv'
    <2>1. Outbound(e, c, wire[e], sealed[e], status[e]) BY Directions
    <2>2. Passes(c, wire[e], d, wire[e]) BY <1>1, <1>3, SameWriterPasses
    <2>3. Outbound(e, d, wire[e], sealed[e], status[e]) BY <1>1, <2>1, <2>2, OutboundPasses
    <2>4. d \in Connection /\ Out(d) BY <2>2 DEF Passes
    <2>5. /\ status = [status EXCEPT ![e] = status[e]] /\ status[e] \in {"none", "trying", "ok", "failed"}
          /\ sealed = [sealed EXCEPT ![e] = sealed[e]] /\ sealed[e] \in Nat
          /\ discarded = [discarded EXCEPT ![e] = discarded[e]] /\ discarded[e] \in Nat
      BY AsBefore
    <2>6. Call(e, d, wire[e], w, heard[e], status[e], sealed[e], delivered[e], discarded[e])
      BY <1>1, <1>2, <1>3, <2>4, <2>5 DEF Call
    <2>7. Quiet(e, d, status[e]) BY <1>1, <1>3 DEF Quiet
    <2> QED BY <1>3, <2>3, <2>4, <2>6, <2>7, CallOf
  <1> HIDE DEF c, w, N
  <1>4. CASE s2n_connection_get_alert(e)
    <2> DEFINE d == [c EXCEPT !.alertRead = TRUE]
    <2>1. /\ conn' = [conn EXCEPT ![e] = d] /\ Available(c) = 2
          /\ UNCHANGED <<cfg, wire, status, sealed, delivered, discarded, heard>>
      BY <1>4 DEF s2n_connection_get_alert, c
    <2>2. /\ SameWriter(c, d) /\ d.plain = c.plain /\ d.closed = c.closed /\ d.in = c.in
          /\ d.alertIn = c.alertIn /\ d.received = c.received
      BY <1>1 DEF SameWriter, Connection
    <2> HIDE DEF d
    <2>3. Len(c.alertIn) = 2 BY <2>1 DEF Available
    <2>4. Reads(w, c, heard[e]) => Reads(w, d, heard[e])
      <3> SUFFICES ASSUME Reads(w, c, heard[e]) PROVE Reads(w, d, heard[e]) OBVIOUS
      <3>1. Len(c.alertIn) = 2 /\ c.closed
        <4>1. CASE Len(c.alertIn) = 2 /\ c.closed BY <4>1
        <4>2. CASE c.alertIn = IF Len(heard[e]) % 2 = 1 THEN <<heard[e][Len(heard[e])]>> ELSE << >>
          <5>1. Len(<<heard[e][Len(heard[e])]>>) = 1 /\ Len(<< >>) = 0 OBVIOUS
          <5> QED BY <2>3, <4>2, <5>1
        <4> QED BY <4>1, <4>2 DEF Reads, Aligned
      <3>2. Aligned(d, heard[e]) BY <2>2, <3>1 DEF Aligned
      <3> QED BY <2>2, <3>2 DEF Reads, Inner
    <2>5. Inbound(e, d, w, heard[e], N) BY <1>1, <2>2, <2>4 DEF Inbound
    <2> QED BY <1>3, <2>1, <2>2, <2>5
  <1>5. CASE DelayExpires(e)
    <2> DEFINE d == [c EXCEPT !.delayed = FALSE]
    <2>1. conn' = [conn EXCEPT ![e] = d] /\ UNCHANGED <<cfg, wire, status, sealed, delivered, discarded, heard>>
      BY <1>5 DEF DelayExpires, c
    <2>2. SameWriter(c, d) /\ SameReader(c, d) /\ d.plain = c.plain /\ d.closed = c.closed
      BY <1>1 DEF SameWriter, SameReader, Connection
    <2> HIDE DEF d
    <2>3. Inbound(e, d, w, heard[e], N) BY <1>1, <2>2, InboundSame
    <2> QED BY <1>3, <2>1, <2>2, <2>3
  <1>6. CASE CloseTransport(e)
    <2>1. conn' = [conn EXCEPT ![e] = c] /\ UNCHANGED <<cfg, wire, status, sealed, delivered, discarded, heard>>
      BY <1>2, <1>6 DEF CloseTransport
    <2>2. SameWriter(c, c) BY <1>1 DEF SameWriter
    <2> QED BY <1>1, <1>3, <2>1, <2>2
  <1> QED BY <1>4, <1>5, <1>6

LEMMA AlertBytes ==
    ASSUME NEW a \in Alerts
    PROVE  /\ a \in Seq(Byte) /\ Len(a) = 2 /\ NoData(a)
           /\ a[1] \in Byte \ {"data"} /\ a[2] \in Byte \ {"data"}
  <1>1. a \in {"warning", "fatal"} \X {"close_notify", "user_canceled", "other"} BY AlertAssumption
  <1>2. /\ a[1] \in {"warning", "fatal"} /\ a[2] \in {"close_notify", "user_canceled", "other"}
        /\ a = <<a[1], a[2]>>
    BY <1>1
  <1>3. a[1] \in Byte \ {"data"} /\ a[2] \in Byte \ {"data"} BY <1>2 DEF Byte
  <1> DEFINE k == a[1]
             m == a[2]
  <1>4. <<k, m>> \in Seq(Byte) /\ Len(<<k, m>>) = 2 /\ NoData(<<k, m>>) BY <1>3 DEF NoData
  <1>5. a = <<k, m>> BY <1>2
  <1> HIDE DEF k, m
  <1>6. a \in Seq(Byte) /\ Len(a) = 2 /\ NoData(a) BY <1>4, <1>5
  <1> QED BY <1>3, <1>6

\* A record of a foreign client.
LEMMA ForeignShape ==
    ASSUME NEW t \in RecordType \ {"app"}, NEW b \in Seq(Byte), b # << >>, NoData(b)
    PROVE  LET r == [type |-> t, bytes |-> b] IN r \in Record /\ Shape(r)
  BY DEF Record, Shape

LEMMA ForeignLane ==
    ASSUME NEW records \in ForeignRecords, NEW w \in Seq(Record)
    PROVE  w \o records \in Seq(Record) /\ (Lane(w) => Lane(w \o records))
  <1>1. ASSUME NEW b \in Seq(Byte), b # << >>, NoData(b)
        PROVE  AlertRecord(b) \in Record /\ Shape(AlertRecord(b))
    <2>1. "alert" \in RecordType \ {"app"} BY DEF RecordType
    <2> QED BY <1>1, <2>1, ForeignShape DEF AlertRecord
  <1>2. ASSUME NEW r \in Record, Shape(r), records = <<r>>
        PROVE  w \o records \in Seq(Record) /\ (Lane(w) => Lane(w \o records))
    BY <1>2, LaneAppend
  <1>3. CASE \E a \in Alerts : records = <<AlertRecord(a)>>
    <2>1. PICK a \in Alerts : records = <<AlertRecord(a)>> BY <1>3
    <2>2. a \in Seq(Byte) /\ Len(a) = 2 /\ NoData(a) BY AlertBytes
    <2>3. a # << >> BY <2>2
    <2>4. AlertRecord(a) \in Record /\ Shape(AlertRecord(a)) BY <1>1, <2>2, <2>3
    <2> QED BY <1>2, <2>1, <2>4
  <1>4. CASE \E a \in Alerts : records = <<AlertRecord(<<a[1]>>), AlertRecord(<<a[2]>>)>>
    <2>1. PICK a \in Alerts : records = <<AlertRecord(<<a[1]>>), AlertRecord(<<a[2]>>)>> BY <1>4
    <2>2. a[1] \in Byte \ {"data"} /\ a[2] \in Byte \ {"data"} BY AlertBytes
    <2>3. ASSUME NEW y \in Byte \ {"data"} PROVE AlertRecord(<<y>>) \in Record /\ Shape(AlertRecord(<<y>>))
      <3>1. <<y>> \in Seq(Byte) /\ <<y>> # << >> /\ NoData(<<y>>) BY DEF NoData
      <3> QED BY <1>1, <3>1
    <2> DEFINE f == AlertRecord(<<a[1]>>)
               g == AlertRecord(<<a[2]>>)
    <2>4. f \in Record /\ Shape(f) /\ g \in Record /\ Shape(g) BY <2>2, <2>3
    <2>5. records = <<f, g>> BY <2>1
    <2> HIDE DEF f, g
    <2>6. w \o <<f>> \in Seq(Record) /\ (Lane(w) => Lane(w \o <<f>>)) BY <2>4, LaneAppend
    <2>7. (w \o <<f>>) \o <<g>> \in Seq(Record) /\ (Lane(w) => Lane((w \o <<f>>) \o <<g>>))
      <3> DEFINE m == w \o <<f>>
      <3>1. m \in Seq(Record) /\ (Lane(w) => Lane(m)) BY <2>6
      <3> HIDE DEF m
      <3>2. m \o <<g>> \in Seq(Record) BY <2>4, <3>1
      <3>3. Lane(m) => Lane(m \o <<g>>) BY <2>4, <3>1, LaneAppend
      <3> QED BY <3>1, <3>2, <3>3 DEF m
    <2>8. w \o records = (w \o <<f>>) \o <<g>>
      <3> DEFINE u == w \o records
                 v == (w \o <<f>>) \o <<g>>
      <3>1. Len(w) \in Nat OBVIOUS
      <3>2. /\ u \in Seq(Record) /\ Len(u) = Len(w) + 2 /\ u[Len(w) + 1] = f /\ u[Len(w) + 2] = g
            /\ \A i \in 1..Len(w) : u[i] = w[i]
        BY <2>4, <2>5
      <3>3. /\ v \in Seq(Record) /\ Len(v) = Len(w) + 2 /\ v[Len(w) + 1] = f /\ v[Len(w) + 2] = g
            /\ \A i \in 1..Len(w) : v[i] = w[i]
        BY <2>4
      <3> HIDE DEF u, v
      <3>4. \A i \in 1..Len(u) : u[i] = v[i]
        <4>1. \A i \in 1..Len(u) : i \in 1..Len(w) \/ i = Len(w) + 1 \/ i = Len(w) + 2 BY <3>1, <3>2
        <4> QED BY <3>2, <3>3, <4>1
      <3>5. u = v BY <3>2, <3>3, <3>4, SeqEqual
      <3> QED BY <3>5 DEF u, v
    <2> QED BY <2>7, <2>8
  <1>5. CASE \E a, b \in Alerts : records = <<AlertRecord(a \o b)>>
    <2>1. PICK a \in Alerts, b \in Alerts : records = <<AlertRecord(a \o b)>> BY <1>5
    <2>2. /\ a \in Seq(Byte) /\ Len(a) = 2 /\ NoData(a)
          /\ b \in Seq(Byte) /\ Len(b) = 2 /\ NoData(b)
      BY AlertBytes
    <2> DEFINE y == a \o b
    <2>3. y \in Seq(Byte) /\ Len(y) = 4 /\ \A i \in 1..4 : y[i] = IF i <= 2 THEN a[i] ELSE b[i - 2]
      <3>1. /\ y \in Seq(Byte) /\ Len(y) = Len(a) + Len(b)
            /\ \A i \in 1..(Len(a) + Len(b)) : y[i] = IF i <= Len(a) THEN a[i] ELSE b[i - Len(a)]
        BY <2>2, ConcatProperties
      <3> HIDE DEF y
      <3>2. Len(a) + Len(b) = 4 BY <2>2
      <3> QED BY <2>2, <3>1, <3>2
    <2>4. NoData(y) /\ y # << >>
      <3> HIDE DEF y
      <3>1. ASSUME NEW i \in 1..4 PROVE y[i] # "data"
        <4>1. CASE i <= 2 BY <2>2, <2>3, <4>1 DEF NoData
        <4>2. CASE ~(i <= 2)
          <5>1. i - 2 \in 1..2 BY <4>2
          <5> QED BY <2>2, <2>3, <4>2, <5>1 DEF NoData
        <4> QED BY <4>1, <4>2
      <3>2. Len(y) = 4 /\ Len(<< >>) = 0 BY <2>3
      <3>3. y # << >> BY <3>2
      <3> QED BY <3>1, <3>2, <3>3 DEF NoData
    <2> HIDE DEF y
    <2>5. AlertRecord(y) \in Record /\ Shape(AlertRecord(y)) BY <1>1, <2>3, <2>4
    <2> QED BY <1>2, <2>1, <2>5 DEF y
  <1>6. CASE \E t \in {"handshake", "bad_handshake", "badly_sealed"} : records = <<[type |-> t, bytes |-> <<"other">>]>>
    <2>1. PICK t \in {"handshake", "bad_handshake", "badly_sealed"} : records = <<[type |-> t, bytes |-> <<"other">>]>>
      BY <1>6
    <2> DEFINE b == <<"other">>
    <2>2. b \in Seq(Byte) /\ b # << >> /\ NoData(b) BY DEF Byte, NoData
    <2>3. t \in RecordType \ {"app"} BY DEF RecordType
    <2>4. records = <<[type |-> t, bytes |-> b]>> BY <2>1
    <2> HIDE DEF b
    <2>5. [type |-> t, bytes |-> b] \in Record /\ Shape([type |-> t, bytes |-> b]) BY <2>2, <2>3, ForeignShape
    <2> QED BY <1>2, <2>4, <2>5
  <1>7. \/ \E p \in Packings : records \in PackedAlert(p)
        \/ \E t \in {"handshake", "bad_handshake", "badly_sealed"} : records = <<[type |-> t, bytes |-> <<"other">>]>>
    BY DEF ForeignRecords
  <1>8. ASSUME NEW p \in Packings, records \in PackedAlert(p)
        PROVE  \/ \E a \in Alerts : records = <<AlertRecord(a)>>
               \/ \E a \in Alerts : records = <<AlertRecord(<<a[1]>>), AlertRecord(<<a[2]>>)>>
               \/ \E a, b \in Alerts : records = <<AlertRecord(a \o b)>>
    <2>1. p = "whole" \/ p = "split" \/ p = "coalesced" BY AlertAssumption
    <2>2. CASE p = "whole" BY <1>8, <2>2 DEF PackedAlert
    <2>3. CASE p = "split"
      <3>1. PackedAlert("split") = {<<AlertRecord(<<a[1]>>), AlertRecord(<<a[2]>>)>> : a \in Alerts}
        BY DEF PackedAlert
      <3> QED BY <1>8, <2>3, <3>1, Zenon
    <2>4. CASE p = "coalesced" BY <1>8, <2>4 DEF PackedAlert
    <2> QED BY <2>1, <2>2, <2>3, <2>4
  <1> QED BY <1>3, <1>4, <1>5, <1>6, <1>7, <1>8

LEMMA ForeignKeeps ==
    ASSUME CInv, ForeignSend
    PROVE  CInv'
  <1> DEFINE e == "client"
             N == delivered[e].data + discarded[e]
  <1>0. e \in Endpoint BY DEF Endpoint
  <1>1. PICK records \in ForeignRecords : wire' = [wire EXCEPT ![e] = wire[e] \o records] BY DEF ForeignSend
  <1>2. cfg.foreign /\ UNCHANGED <<cfg, conn, status, sealed, delivered, discarded, heard>> BY DEF ForeignSend
  <1> DEFINE v == wire[e] \o records
  <1> HIDE DEF e
  <1>3. /\ conn[e] \in Connection /\ wire[e] \in Seq(Record) /\ wire[Peer(e)] \in Seq(Record)
        /\ heard[e] \in Seq(Byte) /\ Out(conn[e]) /\ Quiet(e, conn[e], status[e])
        /\ Inbound(e, conn[e], wire[Peer(e)], heard[e], N)
        /\ Outbound(e, conn[e], wire[e], sealed[e], status[e])
    BY <1>0, Directions
  <1>4. v \in Seq(Record) /\ (Lane(wire[e]) => Lane(v)) BY <1>3, ForeignLane
  <1>5. wire' = [wire EXCEPT ![e] = v] BY <1>1
  <1> HIDE DEF v
  <1>6. Outbound(e, conn[e], v, sealed[e], status[e])
    <2>1. ~S2n(e) BY <1>2 DEF S2n, e
    <2> QED BY <1>3, <1>4, <2>1 DEF Outbound
  <1>7. /\ conn = [conn EXCEPT ![e] = conn[e]] /\ heard = [heard EXCEPT ![e] = heard[e]]
        /\ [wire EXCEPT ![e] = v] = [wire EXCEPT ![e] = v, ![Peer(e)] = wire[Peer(e)]]
        /\ status = [status EXCEPT ![e] = status[e]] /\ status[e] \in {"none", "trying", "ok", "failed"}
        /\ sealed = [sealed EXCEPT ![e] = sealed[e]] /\ sealed[e] \in Nat
        /\ delivered = [delivered EXCEPT ![e] = delivered[e]] /\ delivered[e] \in [data : Nat, alert : Int]
        /\ discarded = [discarded EXCEPT ![e] = discarded[e]] /\ discarded[e] \in Nat
    BY <1>0, AsBefore
  <1>8. Call(e, conn[e], v, wire[Peer(e)], heard[e], status[e], sealed[e], delivered[e], discarded[e])
    BY <1>2, <1>3, <1>4, <1>5, <1>7 DEF Call
  <1> QED BY <1>0, <1>3, <1>6, <1>8, CallOf

-----------------------------------------------------------------------------
(* The theorems. *)

LEMMA InitCInv == Init => CInv
  <1> SUFFICES ASSUME Init PROVE CInv OBVIOUS
  <1>0. cfg \in Config /\ cfg.failed \in BOOLEAN
    <2>1. cfg \in Config BY ConfigAssumption DEF Init
    <2> QED BY <2>1 DEF Config
  <1>1. PICK f \in BOOLEAN, d \in BOOLEAN :
           conn = [client |-> NewConnection(FALSE, FALSE), server |-> NewConnection(f, d)]
    <2>1. PICK d \in IF cfg.failed THEN BOOLEAN ELSE {FALSE} :
             conn = [client |-> NewConnection(FALSE, FALSE), server |-> NewConnection(cfg.failed, d)]
      BY DEF Init
    <2>2. d \in BOOLEAN BY <1>0
    <2> QED BY <1>0, <2>1, <2>2
  <1>2. << >> \in Seq(Record) /\ << >> \in Seq(Byte) OBVIOUS
  <1>3. ASSUME NEW x \in BOOLEAN, NEW y \in BOOLEAN
        PROVE  LET c == NewConnection(x, y)
               IN  /\ c \in Connection /\ c.out = << >> /\ ~c.queued /\ ~c.writerAlert /\ ~c.received
                   /\ ~c.plain /\ c.in = << >> /\ c.alertIn = << >> /\ ~c.alertRead
    BY <1>2 DEF NewConnection, Connection
  <1>4. \A e \in Endpoint :
           LET c == conn[e]
           IN  /\ c \in Connection /\ c.out = << >> /\ ~c.queued /\ ~c.writerAlert /\ ~c.received
               /\ ~c.plain /\ c.in = << >> /\ c.alertIn = << >> /\ ~c.alertRead
    <2>1. conn["client"] = NewConnection(FALSE, FALSE) /\ conn["server"] = NewConnection(f, d) BY <1>1
    <2>2. \A e \in Endpoint : e = "client" \/ e = "server" BY DEF Endpoint
    <2> TAKE e \in Endpoint
    <2>3. CASE e = "client"
      <3>1. FALSE \in BOOLEAN OBVIOUS
      <3> QED BY <1>3, <2>1, <2>3, <3>1
    <2>4. CASE e = "server" BY <1>3, <2>1, <2>4
    <2> QED BY <2>2, <2>3, <2>4
  <1>5. conn \in [Endpoint -> Connection]
    <2>1. conn = [e \in Endpoint |-> conn[e]] BY <1>1 DEF Endpoint
    <2> QED BY <1>4, <2>1
  <1>6. TypeInv
    <2>1. wire \in [Endpoint -> Seq(Record)] /\ heard \in [Endpoint -> Seq(Byte)] BY <1>2 DEF Init
    <2>2. status \in [Endpoint -> {"none", "trying", "ok", "failed"}] /\ sealed \in [Endpoint -> Nat]
      BY DEF Init
    <2>3. delivered \in [Endpoint -> [data : Nat, alert : Int]] /\ discarded \in [Endpoint -> Nat]
      BY DEF Init
    <2>4. cfg \in Configs BY DEF Init
    <2> QED BY <1>5, <2>1, <2>2, <2>3, <2>4 DEF TypeInv
  <1>7. ASSUME NEW p \in Endpoint
        PROVE  /\ Out(conn[p]) /\ Quiet(p, conn[p], status[p])
               /\ Reading(p, Peer(p)) /\ Writing(p, Peer(p))
    <2> DEFINE c == conn[p]
               q == conn[Peer(p)]
    <2>1. Peer(p) \in Endpoint BY Peers
    <2>2. /\ c \in Connection /\ c.out = << >> /\ ~c.queued /\ ~c.writerAlert /\ ~c.plain
          /\ ~q.received /\ q.in = << >> /\ q.alertIn = << >> /\ ~q.alertRead
      BY <1>4, <2>1
    <2>3. /\ wire[p] = << >> /\ heard[Peer(p)] = << >> /\ sealed[p] = 0 /\ status[p] = "none"
          /\ delivered[Peer(p)].data + discarded[Peer(p)] = 0
      BY <2>1 DEF Init
    <2> HIDE DEF c, q
    <2>4. Out(c) /\ Quiet(p, c, status[p]) BY <2>2 DEF Out, Quiet
    <2>5. Pairs(<< >>) = {} /\ Len(<< >>) % 2 # 1 BY DEF Pairs
    <2>6. Reads(<< >>, q, << >>)
      <3>1. Inner(q) BY <2>2, EmptyData DEF Inner
      <3>2. Aligned(q, << >>) BY <2>2, <2>5 DEF Aligned
      <3>3. Lane(<< >>) BY DEF Lane
      <3> QED BY <2>2, <3>1, <3>2, <3>3 DEF Reads
    <2>7. Writes(c, << >>, 0, "none", 0, << >>, << >>)
      <3>1. Loaded(c) = 0 /\ ~OutCloses(c) BY <2>2 DEF Loaded, OutCloses
      <3>2. Apps(<< >>) = 0
        <4>1. \A i \in 1..Len(<< >>) : << >>[i].type # "app" OBVIOUS
        <4>2. << >> \in Seq(Record) BY <1>2
        <4> QED BY <4>1, <4>2, AppsZero
      <3>3. ~WireCloses(<< >>) /\ ~Closes(<< >>) BY DEF WireCloses, Closes
      <3>4. Sealing(c, << >>) BY <2>2, <3>1, <3>3 DEF Sealing
      <3> QED BY <1>2, <2>2, <3>1, <3>2, <3>3, <3>4, EmptyData DEF Writes
    <2>8. Reading(p, Peer(p)) BY <2>3, <2>6 DEF Reading, q
    <2>9. Writing(p, Peer(p)) BY <2>2, <2>3, <2>7 DEF Writing, c, q
    <2> QED BY <2>4, <2>8, <2>9 DEF c
  <1> QED BY <1>6, <1>7 DEF CInv

LEMMA NextCInv == CInv /\ [Next]_vars => CInv'
  <1> SUFFICES ASSUME CInv, [Next]_vars PROVE CInv' OBVIOUS
  <1>1. CASE UNCHANGED vars
    <2>1. /\ cfg' = cfg /\ conn' = conn /\ wire' = wire /\ status' = status /\ sealed' = sealed
          /\ delivered' = delivered /\ discarded' = discarded /\ heard' = heard
      BY <1>1 DEF vars
    <2>2. "client" \in Endpoint BY DEF Endpoint
    <2> DEFINE e == "client"
    <2>3. /\ Out(conn[e]) /\ Quiet(e, conn[e], status[e])
          /\ Inbound(e, conn[e], wire[Peer(e)], heard[e], delivered[e].data + discarded[e])
          /\ Outbound(e, conn[e], wire[e], sealed[e], status[e])
      BY <2>2, Directions
    <2>4. TypeInv' BY <2>1 DEF CInv, TypeInv
    <2>5. Others(e) BY <2>1 DEF Others
    <2> QED BY <2>1, <2>2, <2>3, <2>4, <2>5, StepOf
  <1>2. ASSUME NEW e \in Endpoint, s2n_send(e) PROVE CInv' BY <1>2, SendKeeps
  <1>3. ASSUME NEW e \in Endpoint, s2n_recv(e) PROVE CInv' BY <1>3, RecvKeeps
  <1>4. ASSUME NEW e \in Endpoint, s2n_negotiate(e) PROVE CInv' BY <1>4, NegotiateKeeps
  <1>5. ASSUME NEW e \in Endpoint, s2n_shutdown(e) PROVE CInv' BY <1>5, ShutdownKeeps
  <1>6. ASSUME NEW e \in Endpoint, s2n_connection_get_alert(e) \/ DelayExpires(e) \/ CloseTransport(e)
        PROVE  CInv'
    BY <1>6, OtherKeeps
  <1>7. CASE ForeignSend BY <1>7, ForeignKeeps
  <1> QED BY <1>1, <1>2, <1>3, <1>4, <1>5, <1>6, <1>7 DEF Next

\* A close_notify among the alerts of h is a byte of h.
LEMMA PairCloses ==
    ASSUME NEW h \in Seq(Byte), NEW a \in Pairs(h), a[2] = "close_notify"
    PROVE  Closes(h)
  <1>1. PICK i \in 1..(Len(h) \div 2) : a = <<h[2 * i - 1], h[2 * i]>> BY DEF Pairs
  <1>2. h[2 * i] = "close_notify" BY <1>1
  <1>3. 2 * i \in 1..Len(h) BY <1>1
  <1> QED BY <1>2, <1>3 DEF Closes

(***************************************************************************)
(* close_notify is the end of the data: when s2n_process_alert_fragment    *)
(* sets close_notify_received, every byte that s2n_send put into a record  *)
(* has been delivered by s2n_recv, or was thrown away by the receiver's    *)
(* own s2n_shutdown.  For every capacity of the transports, amount of data *)
(* and way a foreign client packs its alerts.                              *)
(***************************************************************************)
THEOREM CloseNotifyEndsTheData == Spec => []NoTruncation
  <1>1. CInv => NoTruncation
    <2> SUFFICES ASSUME CInv, NEW e \in Endpoint, conn[e].received, S2n(Peer(e))
                 PROVE  delivered[e].data + discarded[e] = sealed[Peer(e)]
      BY DEF NoTruncation
    <2> DEFINE n == delivered[e].data + discarded[e]
               h == heard[e]
               p == Peer(e)
    <2>1. /\ Inbound(e, conn[e], wire[p], h, n) /\ conn[e] \in Connection /\ h \in Seq(Byte)
      BY Directions
    <2>2. Reads(wire[p], conn[e], h) /\ Writes(conn[p], wire[p], sealed[p], status[p], n, conn[e].in, h)
      BY <2>1 DEF Inbound
    <2>3. PICK a \in Pairs(h) : a[2] = "close_notify" BY <2>2 DEF Reads
    <2>4. Closes(h) BY <2>1, <2>3, PairCloses
    <2>5. Data(conn[e].in) = 0 /\ Apps(wire[p]) = 0 /\ Loaded(conn[p]) = 0 /\ n \in Nat
          /\ sealed[p] = n + Data(conn[e].in) + 2 * (Apps(wire[p]) + Loaded(conn[p]))
      BY <2>2, <2>4 DEF Writes
    <2> HIDE DEF n
    <2>6. sealed[p] = n + 0 + 2 * (0 + 0) BY <2>5
    <2>7. sealed[p] = n BY <2>5, <2>6
    <2> QED BY <2>7 DEF n
  <1> QED BY InitCInv, NextCInv, <1>1, PTL DEF Spec

(***************************************************************************)
(* What came behind an alert came behind one that was heard.               *)
(***************************************************************************)
Fronted == \A e \in Endpoint : \A b \in behind[e] : b.front \in Pairs(heard[e])

\* An odd number.
LEMMA Halved == ASSUME NEW u \in Nat, u % 2 = 1 PROVE \E v \in Nat : u = 2 * v + 1
  <1>1. u = 2 * (u \div 2) + 1 /\ u \div 2 \in Nat OBVIOUS
  <1> QED BY <1>1

LEMMA HearBytesFronted ==
    ASSUME Fronted, DOMAIN behind = Endpoint, heard \in [Endpoint -> Seq(Byte)],
           NEW e \in Endpoint, NEW bytes \in Seq(Byte), HearBytes(e, bytes)
    PROVE  Fronted' /\ DOMAIN behind' = Endpoint
  <1> DEFINE h == heard[e]
             n == FrontLength(h, bytes)
             x == SubSeq(bytes, 1, n)
             all == h \o x
             front == SubSeq(all, Len(all) - 1, Len(all))
             rest == SubSeq(bytes, n + 1, Len(bytes))
             new == {[front |-> front, alert |-> a] : a \in Pairs(rest)}
  <1>1. heard' = [heard EXCEPT ![e] = all] /\ behind' = [behind EXCEPT ![e] = behind[e] \cup new]
    BY DEF HearBytes
  <1>2. h \in Seq(Byte) /\ Len(h) \in Nat OBVIOUS
  <1>3. /\ x \in Seq(Byte) /\ Len(x) = n /\ n \in 0..Len(bytes) /\ Len(bytes) \in Nat
        /\ n = IF Len(h) % 2 = 1 THEN (IF Len(bytes) < 1 THEN Len(bytes) ELSE 1)
               ELSE (IF Len(bytes) < 2 THEN Len(bytes) ELSE 2)
    BY <1>2, Front DEF FrontOf
  <1>4. all \in Seq(Byte) /\ Len(all) = Len(h) + n
    <2> HIDE DEF n, x, h
    <2>1. h \o x \in Seq(Byte) /\ Len(h \o x) = Len(h) + Len(x) BY <1>2, <1>3, ConcatProperties
    <2> QED BY <1>3, <2>1
  <1>5. Pairs(h) \subseteq Pairs(all) BY <1>2, <1>3, PairsGrow
  <1>6. ASSUME NEW a \in Pairs(rest) PROVE front \in Pairs(all)
    <2>1. Len(rest) = Len(bytes) - n
      <3>1. n \in Nat /\ n <= Len(bytes) BY <1>3
      <3> HIDE DEF n
      <3> DEFINE m == n + 1
                 b == Len(bytes)
      <3>2. m \in Int /\ b \in Int /\ m - 1 = n /\ m - 1 <= b /\ \A i \in m..b : i \in 1..b BY <1>3, <3>1
      <3>3. \A i \in m..b : bytes[i] \in Byte BY <3>2
      <3> HIDE DEF m, b
      <3>4. Len(SubSeq(bytes, m, b)) = IF m <= b THEN b - m + 1 ELSE 0 BY <3>2, <3>3, SubSeqProperties
      <3>5. (IF m <= b THEN b - m + 1 ELSE 0) = b - (m - 1) BY <3>2
      <3>6. Len(SubSeq(bytes, m, b)) = b - n BY <3>2, <3>4, <3>5
      <3> QED BY <3>6 DEF m, b
    <2>2. Len(rest) >= 2
      <3>1. PICK i \in 1..(Len(rest) \div 2) : TRUE BY DEF Pairs
      <3>2. Len(rest) \in Int BY <1>3, <2>1
      <3> HIDE DEF rest
      <3> QED BY <3>1, <3>2
    <2> DEFINE L == Len(all)
               k == L \div 2
    <2> HIDE DEF n, rest
    <2>3. L \in Nat /\ L % 2 = 0 /\ L >= 2
      <3>1. n = IF Len(h) % 2 = 1 THEN 1 ELSE 2 BY <1>3, <2>1, <2>2
      <3> DEFINE u == Len(h)
      <3>2. u \in Nat /\ Len(all) = u + n /\ n = IF u % 2 = 1 THEN 1 ELSE 2 BY <1>2, <1>4, <3>1
      <3> HIDE DEF u, all
      <3>3. (u % 2 = 1 \/ u % 2 = 0) /\ u + n \in Nat BY <3>2
      <3>4. CASE u % 2 = 1
        <4>1. n = 1 BY <3>2, <3>4
        <4>2. (u + 1) \in Nat /\ (u + 1) % 2 = 0 /\ u + 1 >= 2
          <5>1. u # 0 BY <3>4
          <5>2. u >= 1 BY <3>2, <5>1
          <5>3. PICK v \in Nat : u = 2 * v + 1 BY <3>2, <3>4, Halved
          <5>4. u + 1 = 2 * (v + 1) BY <5>3
          <5>5. (2 * (v + 1)) % 2 = 0 BY <5>3
          <5>6. (u + 1) % 2 = 0 BY ONLY <5>4, <5>5, Zenon
          <5>7. u + 1 \in Nat /\ u + 1 >= 2 BY <3>2, <5>2
          <5> QED BY <5>6, <5>7
        <4> QED BY <3>2, <4>1, <4>2
      <3>5. CASE u % 2 = 0
        <4>1. n = 2 BY <3>2, <3>5
        <4>2. (u + 2) \in Nat /\ (u + 2) % 2 = 0 /\ u + 2 >= 2 BY <3>2, <3>5
        <4> QED BY <3>2, <4>1, <4>2
      <3> QED BY <3>3, <3>4, <3>5
    <2> HIDE DEF all
    <2>4. k \in 1..(L \div 2) /\ 2 * k = L /\ 2 * k - 1 = L - 1 /\ L - 1 \in 1..L /\ L \in 1..L BY <2>3
    <2>5. front = <<all[L - 1], all[L]>>
      <3>1. front \in Seq(Byte) /\ Len(front) = 2 /\ front[1] = all[L - 1] /\ front[2] = all[L]
        <4>1. \A i \in (L - 1)..L : i \in 1..L
          <5> HIDE DEF L
          <5> QED BY <2>3
        <4>2. front \in Seq(Byte) /\ Len(front) = L - (L - 1) + 1
              /\ \A i \in 1..(L - (L - 1) + 1) : front[i] = all[(L - 1) + i - 1]
          BY <1>4, <2>3, <4>1, SubSeqProperties
        <4>3. L - (L - 1) + 1 = 2 /\ (L - 1) + 1 - 1 = L - 1 /\ (L - 1) + 2 - 1 = L BY <2>3
        <4> HIDE DEF front
        <4>4. front \in Seq(Byte) /\ Len(front) = 2 /\ \A i \in 1..2 : front[i] = all[(L - 1) + i - 1] BY <4>2, <4>3
        <4>5. front[1] = all[(L - 1) + 1 - 1] /\ front[2] = all[(L - 1) + 2 - 1] BY <4>4
        <4> QED BY <4>3, <4>4, <4>5
      <3> HIDE DEF front
      <3>2. front = <<front[1], front[2]>> BY <3>1, ShortSequences
      <3> QED BY <3>1, <3>2
    <2> HIDE DEF front, L, k
    <2>6. front = <<all[2 * k - 1], all[2 * k]>> BY <2>4, <2>5
    <2> QED BY <2>4, <2>6 DEF Pairs, L
  <1> HIDE DEF all, front, rest
  <1>7. DOMAIN behind' = Endpoint BY <1>1
  <1>8. ASSUME NEW q \in Endpoint, NEW b \in behind'[q] PROVE b.front \in Pairs(heard'[q])
    <2>1. CASE q # e
      <3>1. b \in behind[q] /\ heard'[q] = heard[q] BY <1>1, <1>8, <2>1
      <3> QED BY <3>1 DEF Fronted
    <2>2. CASE q = e
      <3>1. (b \in behind[e] \/ b \in new) /\ heard'[q] = all BY <1>1, <1>8, <2>2
      <3>2. CASE b \in behind[e]
        <4>1. b.front \in Pairs(heard[e]) BY <3>2 DEF Fronted
        <4> QED BY <1>5, <3>1, <4>1
      <3>3. CASE b \in new
        <4>1. PICK a \in Pairs(rest) : b = [front |-> front, alert |-> a] BY <3>3
        <4>2. b.front = front BY <4>1
        <4> QED BY <1>6, <3>1, <4>1, <4>2
      <3> QED BY <3>1, <3>2, <3>3
    <2> QED BY <2>1, <2>2
  <1> QED BY <1>7, <1>8 DEF Fronted

\* A step reads an alert record, or neither of the two histories changes.
LEMMA HearingStep ==
    ASSUME CInv, [Next]_vars
    PROVE  UNCHANGED <<heard, behind>> \/ \E e \in Endpoint : HasRecord(e) /\ Hear(e)
  <1>1. CASE UNCHANGED vars BY <1>1 DEF vars
  <1>2. ASSUME NEW e \in Endpoint, s2n_send(e) PROVE UNCHANGED <<heard, behind>> BY <1>2 DEF s2n_send
  <1>3. ASSUME NEW e \in Endpoint, s2n_recv(e)
        PROVE  UNCHANGED <<heard, behind>> \/ (HasRecord(e) /\ Hear(e))
    BY <1>3 DEF s2n_recv, RecvData, RecvAlert, RecvOther, RecvEnd
  <1>4. ASSUME NEW e \in Endpoint, s2n_negotiate(e) PROVE HasRecord(e) /\ Hear(e) BY <1>4 DEF s2n_negotiate
  <1>5. ASSUME NEW e \in Endpoint, s2n_shutdown(e)
        PROVE  UNCHANGED <<heard, behind>> \/ (HasRecord(e) /\ Hear(e))
    <2>1. CASE UNCHANGED <<discarded, heard, behind>> BY <2>1
    <2>2. ASSUME NEW f, ShutdownReads(e, f)
          PROVE  UNCHANGED <<heard, behind>> \/ (HasRecord(e) /\ Hear(e))
      BY <2>2 DEF ShutdownReads, s2n_recv_close_notify
    <2> QED BY <1>5, <2>1, <2>2 DEF s2n_shutdown
  <1>6. ASSUME NEW e \in Endpoint, s2n_connection_get_alert(e) \/ DelayExpires(e) \/ CloseTransport(e)
        PROVE  UNCHANGED <<heard, behind>>
    BY <1>6 DEF s2n_connection_get_alert, DelayExpires, CloseTransport
  <1>7. CASE ForeignSend BY <1>7 DEF ForeignSend
  <1> QED BY <1>1, <1>2, <1>3, <1>4, <1>5, <1>6, <1>7 DEF Next

(***************************************************************************)
(* However a peer puts its alerts into records, whole, a byte each or two  *)
(* in one, the first alert that a record completes takes effect: it closes *)
(* the connection unless s2n_handle_as_warning has it ignored, and         *)
(* close_notify_received is only set by a close_notify.  An alert behind   *)
(* it in the record, which s2n_process_alert_fragment never looks at, is   *)
(* lost to an open connection only behind a warning to ignore.             *)
(***************************************************************************)
THEOREM AlertsTakeEffect == Spec => []AlertsHeeded
  <1> DEFINE BInv == CInv /\ Fronted /\ DOMAIN behind = Endpoint
  <1>1. BInv => AlertsHeeded
    <2> SUFFICES ASSUME BInv, NEW e \in Endpoint
                 PROVE  /\ (\E a \in Heard(e) : Ends(a)) => conn[e].closed
                        /\ \A b \in behind[e] :
                             Ends(b.alert) => conn[e].closed \/ s2n_handle_as_warning(b.front[1], b.front[2])
                        /\ conn[e].received => \E a \in Heard(e) : a[2] = "close_notify"
      BY DEF AlertsHeeded
    <2>1. Heard(e) = Pairs(heard[e]) BY DEF Heard
    <2>2. Reads(wire[Peer(e)], conn[e], heard[e]) BY Directions DEF Inbound
    <2>3. /\ (\E a \in Heard(e) : Ends(a)) => conn[e].closed
          /\ conn[e].received => \E a \in Heard(e) : a[2] = "close_notify"
      BY <2>1, <2>2 DEF Reads, Aligned
    <2>4. ASSUME NEW b \in behind[e], ~conn[e].closed PROVE s2n_handle_as_warning(b.front[1], b.front[2])
      <3>1. b.front \in Heard(e) BY <2>1 DEF Fronted
      <3>2. ~Ends(b.front) BY <2>3, <2>4, <3>1
      <3> QED BY <3>2 DEF Ends
    <2> QED BY <2>3, <2>4
  <1>2. Init => BInv
    <2> SUFFICES ASSUME Init PROVE BInv OBVIOUS
    <2>1. CInv BY InitCInv
    <2>2. Fronted /\ DOMAIN behind = Endpoint BY DEF Init, Fronted
    <2> QED BY <2>1, <2>2
  <1>3. BInv /\ [Next]_vars => BInv'
    <2> SUFFICES ASSUME BInv, [Next]_vars PROVE BInv' OBVIOUS
    <2>1. CInv' BY NextCInv
    <2>2. CASE UNCHANGED <<heard, behind>> BY <2>1, <2>2 DEF Fronted
    <2>3. ASSUME NEW e \in Endpoint, HasRecord(e), Hear(e), NextType(e) = "alert"
          PROVE  Fronted' /\ DOMAIN behind' = Endpoint
      <3>1. Head(wire[Peer(e)]).bytes \in Seq(Byte) BY <2>3, Taking
      <3>2. HearBytes(e, Head(wire[Peer(e)]).bytes) BY <2>3 DEF Hear
      <3>3. heard \in [Endpoint -> Seq(Byte)] BY DEF CInv, TypeInv
      <3> QED BY <3>1, <3>2, <3>3, HearBytesFronted
    <2>4. ASSUME NEW e \in Endpoint, Hear(e), NextType(e) # "alert" PROVE UNCHANGED <<heard, behind>> BY <2>4 DEF Hear
    <2> QED BY <2>1, <2>2, <2>3, <2>4, HearingStep
  <1> HIDE DEF BInv
  <1> QED BY <1>1, <1>2, <1>3, PTL DEF Spec
=============================================================================
