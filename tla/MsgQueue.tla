------------------------------- MODULE MsgQueue -------------------------------
(***************************************************************************)
(* The outgoing message queue: the ring buffer of mqtt/ringbuf.c, the       *)
(* framing of mqtt/proto.c on top of it, and QUEUE_Puts and QUEUE_Gets of   *)
(* mqtt/queue.c with the snapshots and roll backs of QUEUE_Puts and         *)
(* MQTT_Task.  One step is one RINGBUF_Put or RINGBUF_Get of a loop.        *)
(***************************************************************************)
EXTENDS Integers, Sequences, SequencesExt

CONSTANTS
  Size,        \* QUEUE_BUFFER_SIZE
  OutMax,      \* MQTT_BUF_SIZE, the size of the buffer QUEUE_Gets fills
  Byte,        \* values of a byte
  Packets      \* the packets that are queued

ASSUME SizeAssumption == Size \in Nat /\ Size >= 2
\* A packet is built in out_buffer, of MQTT_BUF_SIZE bytes too (mqtt.c:1321).
ASSUME PacketAssumption ==
  /\ Byte \subseteq 0..255 /\ {0, 93, 94, 95, 125, 126, 127} \subseteq Byte
  /\ Packets \subseteq Seq(Byte)
  /\ OutMax \in Nat /\ \A pkt \in Packets : Len(pkt) <= OutMax

VARIABLES
  p_r, p_w,    \* read and write pointers, relative to p_o
  fill_cnt,    \* number of filled slots
  buf,         \* the bytes of the buffer
  op,          \* the call in progress
  todo, rest,  \* PROTO_AddRb: bytes to be put, bytes of the packet after them
  snap,        \* the snapshot of p_r, p_w and fill_cnt
  parser,      \* PROTO_PARSER: isEsc, isBegin, and out = buf[0..dataLen-1]
  cur,         \* the packet being put
  queued       \* history: the packets accepted and not removed, oldest first

ring  == <<p_r, p_w, fill_cnt, buf>>
call  == <<op, todo, rest, snap, parser, cur>>
vars  == <<ring, call, queued>>

Esc   == 125     \* 0x7D
Begin == 126     \* 0x7E
End   == 127     \* 0x7F

\* value ^ 0x20
Xor20(v) == IF (v \div 32) % 2 = 1 THEN v - 32 ELSE v + 32

\* What PROTO_AddRb puts for one byte of the packet.
Encode(v) == IF v \in {Esc, Begin, End} THEN <<Esc, Xor20(v)>> ELSE <<v>>

\* p++, back to p_o at the physical boundary.
Next1(p) == IF p + 1 >= Size THEN 0 ELSE p + 1

\* The slot i places after p.
Slot(p, i) == IF p + i >= Size THEN p + i - Size ELSE p + i

\* The n bytes from p on.
Bytes(p, n) == [i \in 1..n |-> buf[Slot(p, i - 1)]]

Snapshot == [p_r |-> p_r, p_w |-> p_w, fill_cnt |-> fill_cnt]

NewParser(b) == [isEsc |-> FALSE, isBegin |-> b, out |-> <<>>]

-----------------------------------------------------------------------------
\* QUEUE_Puts: the snapshot, and PROTO_AddRb begins a frame.
PutsBegin(pkt) ==
  /\ op = "idle" /\ op' = "puts"
  /\ cur' = pkt /\ todo' = <<Begin>> /\ rest' = pkt /\ snap' = Snapshot
  /\ UNCHANGED <<ring, parser, queued>>

\* RINGBUF_Put of the next byte.
PutByte ==
  /\ op \in {"puts", "mark"} /\ todo # <<>> /\ fill_cnt < Size
  /\ fill_cnt' = fill_cnt + 1
  /\ buf' = [buf EXCEPT ![p_w] = Head(todo)] /\ p_w' = Next1(p_w)
  /\ todo' = Tail(todo)
  /\ UNCHANGED <<p_r, op, rest, snap, parser, cur, queued>>

\* One more byte of the packet, or the end of the frame.
PutNext ==
  /\ op = "puts" /\ todo = <<>>
  /\ IF rest = <<>> THEN op' = "mark" /\ todo' = <<End>> /\ UNCHANGED rest
                    ELSE todo' = Encode(Head(rest)) /\ rest' = Tail(rest) /\ UNCHANGED op
  /\ UNCHANGED <<ring, snap, parser, cur, queued>>

\* A mutation of PutsFail: the write pointer is not rolled back.
PutsFailNoWritePointer ==
  /\ op \in {"puts", "mark"} /\ todo # <<>> /\ fill_cnt >= Size
  /\ fill_cnt' = snap.fill_cnt /\ op' = "idle"
  /\ UNCHANGED <<p_r, p_w, buf, todo, rest, snap, parser, cur, queued>>

\* RINGBUF_Put fails: QUEUE_Puts rolls the ring buffer back and returns -1.
PutsFail ==
  /\ op \in {"puts", "mark"} /\ todo # <<>> /\ fill_cnt >= Size
  /\ p_r' = snap.p_r /\ p_w' = snap.p_w /\ fill_cnt' = snap.fill_cnt
  /\ op' = "idle"
  /\ UNCHANGED <<buf, todo, rest, snap, parser, cur, queued>>

\* The whole frame is in the buffer.
PutsEnd ==
  /\ op = "mark" /\ todo = <<>> /\ op' = "idle"
  /\ queued' = Append(queued, cur)
  /\ UNCHANGED <<ring, todo, rest, snap, parser, cur>>

-----------------------------------------------------------------------------
\* QUEUE_Gets: MQTT_Task takes a snapshot first.  PROTO_Init does not set
\* isBegin, a local variable of PROTO_ParseRb.
GetsBegin ==
  /\ op = "idle" /\ op' = "gets" /\ snap' = Snapshot
  /\ \E b \in BOOLEAN : parser' = NewParser(b)
  /\ UNCHANGED <<ring, todo, rest, cur, queued>>

\* PROTO_ParseByte
ParseByte(q, v) ==
  IF v = Esc THEN [q EXCEPT !.isEsc = TRUE]
  ELSE IF v = Begin THEN NewParser(TRUE)
  ELSE IF v = End THEN [q EXCEPT !.isBegin = FALSE]
  ELSE IF ~q.isBegin THEN q
  ELSE [isEsc |-> FALSE, isBegin |-> TRUE,
        out |-> IF Len(q.out) >= OutMax THEN q.out
                ELSE Append(q.out, IF q.isEsc THEN Xor20(v) ELSE v)]

\* RINGBUF_Get of the next byte, and PROTO_ParseByte of it.
GetByte ==
  /\ op = "gets" /\ fill_cnt > 0
  /\ fill_cnt' = fill_cnt - 1 /\ p_r' = Next1(p_r)
  /\ parser' = ParseByte(parser, buf[p_r])
  /\ op' = IF buf[p_r] = End THEN "got" ELSE "gets"
  /\ UNCHANGED <<p_w, buf, todo, rest, snap, cur, queued>>

\* RINGBUF_Get finds the ring buffer empty: QUEUE_Gets returns -1.
GetsFail ==
  /\ op = "gets" /\ fill_cnt <= 0 /\ op' = "idle"
  /\ UNCHANGED <<ring, todo, rest, snap, parser, cur, queued>>

\* The packet is done with: it was acknowledged, or it needs no acknowledgement
\* and was sent.
GetsEnd ==
  /\ op = "got" /\ op' = "idle"
  /\ queued' = Tail(queued)
  /\ UNCHANGED <<ring, todo, rest, snap, parser, cur>>

\* A mutation of RollBack: the fill count is forgotten.
RollBackPointer ==
  /\ op = "got" /\ op' = "idle" /\ p_r' = snap.p_r
  /\ UNCHANGED <<p_w, fill_cnt, buf, todo, rest, snap, parser, cur, queued>>

\* MQTT_Task keeps the packet in the queue: it awaits an acknowledgement or
\* could not be sent.
RollBack ==
  /\ op = "got" /\ op' = "idle" /\ p_r' = snap.p_r /\ fill_cnt' = snap.fill_cnt
  /\ UNCHANGED <<p_w, buf, todo, rest, snap, parser, cur, queued>>

-----------------------------------------------------------------------------
\* QUEUE_Init: the buffer is zeroed.
Init ==
  /\ p_r = 0 /\ p_w = 0 /\ fill_cnt = 0 /\ buf = [i \in 0..Size - 1 |-> 0]
  /\ op = "idle" /\ todo = <<>> /\ rest = <<>> /\ cur = <<>> /\ parser = NewParser(FALSE)
  /\ snap = [p_r |-> 0, p_w |-> 0, fill_cnt |-> 0]
  /\ queued = <<>>

Next ==
  \/ \E pkt \in Packets : PutsBegin(pkt)
  \/ PutByte \/ PutNext \/ PutsFail \/ PutsEnd
  \/ GetsBegin \/ GetByte \/ GetsFail \/ GetsEnd \/ RollBack

Spec == Init /\ [][Next]_vars

-----------------------------------------------------------------------------
(* Properties *)

Pointer == 0..Size - 1

TypeOK ==
  /\ p_r \in Pointer /\ p_w \in Pointer /\ fill_cnt \in 0..Size
  /\ buf \in [Pointer -> Byte]
  /\ op \in {"idle", "puts", "mark", "gets", "got"}
  /\ todo \in Seq(Byte) /\ rest \in Seq(Byte)
  /\ snap \in [p_r : Pointer, p_w : Pointer, fill_cnt : 0..Size]
  /\ parser \in [isEsc : BOOLEAN, isBegin : BOOLEAN, out : Seq(Int)]
  /\ cur \in Seq(Byte)

\* The write pointer is fill_cnt slots after the read pointer, also for the
\* snapshot, and a call in progress moves only its own pointer: what makes a
\* roll back of two fields out of three enough.
RingOK ==
  /\ p_w = Slot(p_r, fill_cnt)
  /\ snap.p_w = Slot(snap.p_r, snap.fill_cnt)
  /\ op \in {"puts", "mark"} => p_r = snap.p_r /\ fill_cnt >= snap.fill_cnt
  /\ op \in {"gets", "got"} =>
       /\ p_w = snap.p_w /\ fill_cnt <= snap.fill_cnt
       /\ p_r = Slot(snap.p_r, snap.fill_cnt - fill_cnt)

\* The bytes PROTO_AddRb puts for a packet.
Frame(pkt) == FlattenSeq(<<<<Begin>>>> \o [i \in 1..Len(pkt) |-> Encode(pkt[i])]
                         \o <<<<End>>>>)

\* Between calls the buffer holds the frames of the packets accepted and not
\* removed, in order: a QUEUE_Puts that fails half way leaves nothing behind.  And
\* QUEUE_Gets returns the oldest packet, byte for byte, whatever bytes it has and
\* whatever isBegin happens to be.
KeepsPackets ==
  /\ op = "idle" => Bytes(p_r, fill_cnt)
                    = FlattenSeq([i \in 1..Len(queued) |-> Frame(queued[i])])
  /\ op = "got" => queued # <<>> /\ parser.out = Head(queued)

Abstract == INSTANCE ByteFifo WITH
  contents <- Bytes(p_r, fill_cnt),
  marked   <- IF op = "idle" THEN Bytes(p_r, fill_cnt)
                             ELSE Bytes(snap.p_r, snap.fill_cnt)

\* The ring buffer with its roll backs implements the bounded byte queue.
ImplementsFifo == Abstract!Spec
=============================================================================
