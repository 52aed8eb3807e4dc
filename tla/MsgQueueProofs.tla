---------------------------- MODULE MsgQueueProofs ----------------------------
(* The ring buffer is a bounded byte queue, and the message queue keeps its   *)
(* packets whole and in order, for every size of the buffer and every set of  *)
(* packets.  What FlattenSeq computes is proved by the least length for which *)
(* it would fail: the library's induction theorems cannot be instantiated.    *)
(* The stuffing of KmpRequest rests on the same lemmas: the last section is    *)
(* about that meter.                                                          *)
EXTENDS MsgQueue, SequenceTheorems, WellFoundedInduction, TLAPS

\* One place further is one slot further, over the boundary too.
LEMMA SlotNext ==
  ASSUME NEW p \in Pointer, NEW i \in 0..Size - 1
  PROVE  Next1(Slot(p, i)) = Slot(p, i + 1)
  BY SizeAssumption DEF Pointer, Next1, Slot

\* Slots stay inside the buffer.
LEMMA SlotInBuffer ==
  ASSUME NEW p \in Pointer, NEW i \in 0..Size
  PROVE  Slot(p, i) \in Pointer
  BY SizeAssumption DEF Pointer, Slot

\* A pointer that moves on stays inside the buffer.
LEMMA NextInBuffer == \A p \in Pointer : Next1(p) \in Pointer
  BY SizeAssumption DEF Pointer, Next1

\* What PROTO_AddRb puts for a byte are bytes.
LEMMA EncodeBytes == \A v \in Byte : Encode(v) \in Seq(Byte)
  <1>1. 125 - 32 = 93 /\ 126 - 32 = 94 /\ 127 - 32 = 95
    OBVIOUS
  <1>2. Xor20(125) = 93 /\ Xor20(126) = 94 /\ Xor20(127) = 95
    BY DEF Xor20
  <1> QED
    BY <1>2, PacketAssumption DEF Encode, Esc, Begin, End

\* PROTO_ParseByte keeps the parser a parser.
LEMMA ParseByteType ==
  ASSUME NEW q \in [isEsc : BOOLEAN, isBegin : BOOLEAN, out : Seq(Int)],
         NEW v \in Byte
  PROVE  ParseByte(q, v) \in [isEsc : BOOLEAN, isBegin : BOOLEAN, out : Seq(Int)]
  <1> DEFINE Parser == [isEsc : BOOLEAN, isBegin : BOOLEAN, out : Seq(Int)]
  <1>1. v \in Int /\ Xor20(v) \in Int
    BY PacketAssumption DEF Xor20
  <1>2. CASE v \in {Esc, Begin, End} \/ ~q.isBegin
    <2>1. CASE v = Esc
      BY <2>1 DEF ParseByte
    <2>2. CASE v # Esc /\ v = Begin
      <3>1. <<>> \in Seq(Int)
        OBVIOUS
      <3> QED
        BY <2>2, <3>1 DEF ParseByte, NewParser
    <2>3. CASE v # Esc /\ v # Begin /\ v = End
      BY <2>3 DEF ParseByte
    <2>4. CASE v \notin {Esc, Begin, End} /\ ~q.isBegin
      BY <2>4 DEF ParseByte
    <2> QED
      BY <1>2, <2>1, <2>2, <2>3, <2>4
  <1>3. CASE v \notin {Esc, Begin, End} /\ q.isBegin
    <2> DEFINE o == IF Len(q.out) >= OutMax THEN q.out
                    ELSE Append(q.out, IF q.isEsc THEN Xor20(v) ELSE v)
    <2>1. q.out \in Seq(Int) /\ (IF q.isEsc THEN Xor20(v) ELSE v) \in Int
      BY <1>1
    <2>2. o \in Seq(Int)
      BY <2>1
    <2>3. ParseByte(q, v) = [isEsc |-> FALSE, isBegin |-> TRUE, out |-> o]
      BY <1>3 DEF ParseByte
    <2> QED
      BY <2>2, <2>3
  <1> QED
    BY <1>2, <1>3

-----------------------------------------------------------------------------
\* Every pointer stays inside the buffer and the fill count within its size,
\* whatever is put, taken or rolled back.
THEOREM TypeCorrect == Spec => []TypeOK
  <1>1. Init => TypeOK
    BY SizeAssumption, PacketAssumption DEF Init, TypeOK, Pointer, NewParser
  <1>2. TypeOK /\ [Next]_vars => TypeOK'
    <2> SUFFICES ASSUME TypeOK, [Next]_vars PROVE TypeOK'
      OBVIOUS
    <2> USE DEF TypeOK
    <2>1. ASSUME NEW pkt \in Packets, PutsBegin(pkt) PROVE TypeOK'
      <3>1. pkt \in Seq(Byte) /\ <<Begin>> \in Seq(Byte)
        BY PacketAssumption DEF Begin
      <3> QED
        BY <2>1, <3>1 DEF PutsBegin, Snapshot, ring
    <2>2. CASE PutByte
      <3>1. Head(todo) \in Byte /\ Tail(todo) \in Seq(Byte)
        BY <2>2 DEF PutByte
      <3>2. Next1(p_w) \in Pointer /\ fill_cnt + 1 \in 0..Size
        BY <2>2, NextInBuffer, SizeAssumption DEF PutByte
      <3> QED
        BY <2>2, <3>1, <3>2 DEF PutByte
    <2>3. CASE PutNext
      <3>1. <<End>> \in Seq(Byte)
        BY PacketAssumption DEF End
      <3>2. rest # <<>> => Encode(Head(rest)) \in Seq(Byte) /\ Tail(rest) \in Seq(Byte)
        BY EncodeBytes
      <3> QED
        BY <2>3, <3>1, <3>2 DEF PutNext, ring
    <2>4. CASE PutsFail
      BY <2>4 DEF PutsFail
    <2>5. CASE PutsEnd
      BY <2>5 DEF PutsEnd, ring
    <2>6. CASE GetsBegin
      BY <2>6 DEF GetsBegin, Snapshot, NewParser, ring
    <2>7. CASE GetByte
      <3>1. Next1(p_r) \in Pointer /\ fill_cnt - 1 \in 0..Size
        BY <2>7, NextInBuffer, SizeAssumption DEF GetByte
      <3>2. ParseByte(parser, buf[p_r]) \in [isEsc : BOOLEAN, isBegin : BOOLEAN, out : Seq(Int)]
        BY ParseByteType
      <3> QED
        BY <2>7, <3>1, <3>2 DEF GetByte
    <2>8. CASE GetsFail
      BY <2>8 DEF GetsFail, ring
    <2>9. CASE GetsEnd
      BY <2>9 DEF GetsEnd, ring
    <2>10. CASE RollBack
      BY <2>10 DEF RollBack
    <2>11. CASE UNCHANGED vars
      BY <2>11 DEF vars, ring, call
    <2> QED
      BY <2>1, <2>2, <2>3, <2>4, <2>5, <2>6, <2>7, <2>8, <2>9, <2>10, <2>11 DEF Next
  <1> QED
    BY <1>1, <1>2, PTL DEF Spec

-----------------------------------------------------------------------------
\* The write pointer follows the read pointer by the fill count in every state,
\* so that the roll back of QUEUE_Puts (three fields) and that of MQTT_Task
\* (two fields) both restore a consistent ring buffer.
THEOREM RingCorrect == Spec => []RingOK
  <1>1. Init => RingOK
    BY SizeAssumption DEF Init, RingOK, Slot
  <1>2. TypeOK /\ RingOK /\ [Next]_vars => RingOK'
    <2> SUFFICES ASSUME TypeOK, RingOK, [Next]_vars PROVE RingOK'
      OBVIOUS
    <2> USE SizeAssumption DEF RingOK
    <2>1. ASSUME NEW pkt \in Packets, PutsBegin(pkt) PROVE RingOK'
      BY <2>1 DEF PutsBegin, Snapshot, ring, TypeOK
    <2>2. CASE PutByte
      <3>1. p_w' = Slot(p_r, fill_cnt + 1)
        BY <2>2, SlotNext DEF PutByte, TypeOK
      <3> QED
        BY <2>2, <3>1 DEF PutByte, TypeOK
    <2>3. CASE PutNext
      BY <2>3 DEF PutNext, ring
    <2>4. CASE PutsFail
      BY <2>4 DEF PutsFail, TypeOK
    <2>5. CASE PutsEnd
      BY <2>5 DEF PutsEnd, ring
    <2>6. CASE GetsBegin
      <3>1. Slot(p_r, 0) = p_r
        BY DEF TypeOK, Pointer, Slot
      <3> QED
        BY <2>6, <3>1 DEF GetsBegin, Snapshot, ring, TypeOK
    <2>7. CASE GetByte
      <3>1. Next1(p_r) = Slot(snap.p_r, snap.fill_cnt - (fill_cnt - 1))
        BY <2>7, SlotNext DEF GetByte, TypeOK
      <3>2. p_w = Slot(Next1(p_r), fill_cnt - 1)
        BY <2>7 DEF GetByte, TypeOK, Pointer, Next1, Slot
      <3> QED
        BY <2>7, <3>1, <3>2 DEF GetByte, TypeOK
    <2>8. CASE GetsFail
      BY <2>8 DEF GetsFail, ring
    <2>9. CASE GetsEnd
      BY <2>9 DEF GetsEnd, ring
    <2>10. CASE RollBack
      BY <2>10 DEF RollBack
    <2>11. CASE UNCHANGED vars
      BY <2>11 DEF vars, ring, call
    <2> QED
      BY <2>1, <2>2, <2>3, <2>4, <2>5, <2>6, <2>7, <2>8, <2>9, <2>10, <2>11 DEF Next
  <1> QED
    BY <1>1, <1>2, TypeCorrect, PTL DEF Spec

-----------------------------------------------------------------------------
(* Refinement *)

Contents == Bytes(p_r, fill_cnt)
Marked   == IF op = "idle" THEN Contents ELSE Bytes(snap.p_r, snap.fill_cnt)

\* The bytes in the buffer are a sequence as long as the fill count.
LEMMA BytesSeq ==
  ASSUME TypeOK, NEW p \in Pointer, NEW n \in 0..Size
  PROVE  Bytes(p, n) \in Seq(Byte) /\ Len(Bytes(p, n)) = n
  <1>1. \A i \in 1..n : buf[Slot(p, i - 1)] \in Byte
    BY SlotInBuffer, SizeAssumption DEF TypeOK
  <1> QED
    BY <1>1 DEF Bytes

\* RINGBUF_Put writes outside the filled slots.
LEMMA PutElsewhere ==
  ASSUME NEW p \in Pointer, NEW n \in 0..Size - 1, NEW i \in 1..n
  PROVE  Slot(p, i - 1) # Slot(p, n)
  BY SizeAssumption DEF Pointer, Slot

\* The filled slots are slots of the buffer.
LEMMA SlotBelow ==
  ASSUME NEW p \in Pointer, NEW n \in 0..Size, NEW i \in 1..n
  PROVE  Slot(p, i - 1) \in Pointer
  BY SizeAssumption DEF Pointer, Slot

\* RINGBUF_Put appends a byte to the contents.
LEMMA PutAppends ==
  ASSUME TypeOK, RingOK, PutByte
  PROVE  Contents' = Append(Contents, Head(todo))
  <1>1. fill_cnt \in 0..Size - 1 /\ fill_cnt' = fill_cnt + 1 /\ p_r' = p_r
    BY SizeAssumption DEF PutByte, TypeOK
  <1>2. Contents \in Seq(Byte) /\ Len(Contents) = fill_cnt
    BY BytesSeq DEF Contents, TypeOK
  <1>3. \A i \in 1..fill_cnt : buf'[Slot(p_r, i - 1)] = buf[Slot(p_r, i - 1)]
    <2> TAKE i \in 1..fill_cnt
    <2>1. Slot(p_r, i - 1) \in Pointer /\ Slot(p_r, i - 1) # p_w
      BY <1>1, PutElsewhere, SlotBelow DEF TypeOK, RingOK
    <2> QED
      BY <2>1 DEF PutByte, TypeOK
  <1>4. buf'[Slot(p_r, fill_cnt)] = Head(todo)
    BY DEF PutByte, TypeOK, RingOK
  <1>5. Contents' = [i \in 1..fill_cnt + 1 |-> buf'[Slot(p_r, i - 1)]]
    BY <1>1 DEF Contents, Bytes, Slot
  <1>6. Append(Contents, Head(todo))
        = [i \in 1..fill_cnt + 1 |-> IF i <= fill_cnt THEN Contents[i] ELSE Head(todo)]
    <2>1. /\ Append(Contents, Head(todo)) \in Seq(Byte)
          /\ Len(Append(Contents, Head(todo))) = fill_cnt + 1
      BY <1>1, <1>2 DEF PutByte, TypeOK
    <2>2. \A i \in 1..fill_cnt + 1 : Append(Contents, Head(todo))[i]
                                   = IF i <= fill_cnt THEN Contents[i] ELSE Head(todo)
      BY <1>1, <1>2
    <2>3. Append(Contents, Head(todo)) \in [1..fill_cnt + 1 -> Byte]
      BY <2>1, LenProperties
    <2> QED
      BY <2>2, <2>3
  <1>7. \A i \in 1..fill_cnt + 1 :
          buf'[Slot(p_r, i - 1)] = IF i <= fill_cnt THEN Contents[i] ELSE Head(todo)
    <2> TAKE i \in 1..fill_cnt + 1
    <2>1. CASE i <= fill_cnt
      BY <2>1, <1>1, <1>3 DEF Contents, Bytes
    <2>2. CASE i = fill_cnt + 1
      BY <2>2, <1>1, <1>4
    <2> QED
      BY <2>1, <2>2, <1>1
  <1> QED
    BY <1>5, <1>6, <1>7

\* A call that is putting bytes leaves those it started from alone.
LEMMA PutKeepsMarked ==
  ASSUME TypeOK, RingOK, PutByte
  PROVE  Marked' = Marked
  <1>1. /\ snap.fill_cnt \in 0..fill_cnt /\ fill_cnt \in 0..Size - 1
        /\ snap.p_r = p_r /\ snap' = snap /\ op' = op /\ op # "idle"
    BY SizeAssumption DEF PutByte, TypeOK, RingOK
  <1>2. \A i \in 1..snap.fill_cnt :
          Slot(p_r, i - 1) \in Pointer /\ Slot(p_r, i - 1) # p_w
    <2> TAKE i \in 1..snap.fill_cnt
    <2> QED
      BY <1>1, PutElsewhere, SlotBelow DEF TypeOK, RingOK
  <1>3. \A i \in 1..snap.fill_cnt : buf'[Slot(p_r, i - 1)] = buf[Slot(p_r, i - 1)]
    BY <1>2 DEF PutByte, TypeOK
  <1> QED
    BY <1>1, <1>3 DEF Marked, Bytes, Slot

\* RINGBUF_Get removes the oldest byte.
LEMMA GetTakesOldest ==
  ASSUME TypeOK, GetByte
  PROVE  Contents # <<>> /\ Contents' = Tail(Contents)
  <1>1. fill_cnt \in 1..Size /\ fill_cnt' = fill_cnt - 1 /\ p_r' = Next1(p_r) /\ buf' = buf
    BY SizeAssumption DEF GetByte, TypeOK
  <1>2. Contents \in Seq(Byte) /\ Len(Contents) = fill_cnt
    BY BytesSeq DEF Contents, TypeOK
  <1>3. Tail(Contents) = [i \in 1..fill_cnt - 1 |-> Contents[i + 1]]
    <2>1. /\ Contents # <<>> /\ Tail(Contents) \in Seq(Byte)
          /\ Len(Tail(Contents)) = fill_cnt - 1
          /\ \A i \in 1..fill_cnt - 1 : Tail(Contents)[i] = Contents[i + 1]
      BY <1>1, <1>2, HeadTailProperties
    <2>2. Tail(Contents) \in [1..fill_cnt - 1 -> Byte]
      BY <2>1, LenProperties
    <2> QED
      BY <2>1, <2>2
  <1>4. Contents' = [i \in 1..fill_cnt - 1 |-> buf[Slot(Next1(p_r), i - 1)]]
    BY <1>1 DEF Contents, Bytes, Slot
  <1>5. \A i \in 1..fill_cnt - 1 : Slot(Next1(p_r), i - 1) = Slot(p_r, i)
    BY <1>1, SizeAssumption DEF TypeOK, Pointer, Slot, Next1
  <1>6. \A i \in 1..fill_cnt - 1 : Contents[i + 1] = buf[Slot(p_r, i)]
    BY <1>1 DEF Contents, Bytes
  <1> QED
    BY <1>1, <1>2, <1>3, <1>4, <1>5, <1>6

\* The ring buffer with its snapshots and roll backs implements the bounded
\* byte queue: bytes come out in the order they went in, none is overwritten
\* before it is read, and a call that is rolled back has had no effect.
THEOREM Refinement == Spec => ImplementsFifo
  <1>1. Init => Abstract!Init
    BY DEF Init, Abstract!Init, Bytes
  <1>2. TypeOK /\ RingOK /\ RingOK' /\ [Next]_vars => [Abstract!Next]_(Abstract!vars)
    <2> SUFFICES ASSUME TypeOK, RingOK, RingOK', [Next]_vars
                 PROVE  \/ Abstract!Next
                        \/ Contents' = Contents /\ Marked' = Marked
      BY DEF Abstract!vars, Contents, Marked
    <2> USE DEF Abstract!Next, Abstract!Put, Abstract!Get, Abstract!Keep, Abstract!Undo
    <2>1. ASSUME NEW pkt \in Packets, PutsBegin(pkt)
          PROVE  Contents' = Contents /\ Marked' = Marked
      BY <2>1 DEF PutsBegin, Snapshot, ring, Contents, Marked, Bytes
    <2>2. CASE PutByte
      <3>1. Len(Contents) < Size /\ Head(todo) \in Byte
        BY <2>2, BytesSeq DEF PutByte, TypeOK, Contents
      <3> QED
        BY <2>2, <3>1, PutAppends, PutKeepsMarked DEF Contents, Marked
    <2>3. CASE PutNext
      BY <2>3 DEF PutNext, ring, Contents, Marked, Bytes
    <2>4. CASE PutsFail
      BY <2>4 DEF PutsFail, Contents, Marked, Bytes
    <2>5. CASE PutsEnd
      BY <2>5 DEF PutsEnd, ring, Contents, Marked, Bytes
    <2>6. CASE GetsBegin
      BY <2>6 DEF GetsBegin, Snapshot, ring, Contents, Marked, Bytes
    <2>7. CASE GetByte
      <3>1. Marked' = Marked
        BY <2>7 DEF GetByte, Marked, Bytes
      <3> QED
        BY <2>7, <3>1, GetTakesOldest DEF Contents, Marked
    <2>8. CASE GetsFail
      BY <2>8 DEF GetsFail, ring, Contents, Marked, Bytes
    <2>9. CASE GetsEnd
      BY <2>9 DEF GetsEnd, ring, Contents, Marked, Bytes
    <2>10. CASE RollBack
      BY <2>10 DEF RollBack, Contents, Marked, Bytes
    <2>11. CASE UNCHANGED vars
      BY <2>11 DEF vars, ring, call, Contents, Marked, Bytes
    <2> QED
      BY <2>1, <2>2, <2>3, <2>4, <2>5, <2>6, <2>7, <2>8, <2>9, <2>10, <2>11 DEF Next
  <1> QED
    BY <1>1, <1>2, TypeCorrect, RingCorrect, PTL DEF Spec, ImplementsFifo, Abstract!Spec

-----------------------------------------------------------------------------
(* Concatenation *)

\* A set of numbers that is not empty has a least one: what the inductions below use.
LEMMA LeastNat ==
  ASSUME NEW T \in SUBSET Nat, T # {}
  PROVE  \E n \in T : \A m \in T : n <= m
<1>1. \E n \in T : \A m \in T : ~(<<m, n>> \in OpToRel(<, Nat))
  BY WFMin, NatLessThanWellFounded
<1>2. \A n, m \in Nat : m < n => <<m, n>> \in OpToRel(<, Nat)
  BY DEF OpToRel
<1>3. \E n \in T : \A m \in T : ~(m < n)
  BY <1>1, <1>2, Zenon
<1> QED
  BY <1>3

\* What is not true of every number up to n is first not true of one that is 0 or
\* follows a number of which it is.
LEMMA FirstFailure ==
  ASSUME NEW n \in Nat, NEW T \in SUBSET (0 .. n), T # 0 .. n
  PROVE  \E i \in 0 .. n : i \notin T /\ (i = 0 \/ i - 1 \in T)
<1> DEFINE U == (0 .. n) \ T
<1>1. U \in SUBSET Nat /\ U # {}
  <2>1. U = {} => T = 0 .. n
    OBVIOUS
  <2> QED
    BY <2>1
<1>2. PICK i \in U : \A j \in U : i <= j
  BY <1>1, LeastNat
<1> QED
  BY <1>2

\* f[i] is the concatenation of the first i elements of ss, up to n.
IsPrefixes(f, ss, n) ==
  f[0] = <<>> /\ \A i \in 1 .. n : f[i] = f[i - 1] \o ss[i]

\* They are sequences.
LEMMA PrefixesType ==
  ASSUME NEW S, NEW ss \in Seq(Seq(S)), NEW f, NEW n \in 0 .. Len(ss),
         IsPrefixes(f, ss, n)
  PROVE  \A i \in 0 .. n : f[i] \in Seq(S)
<1> DEFINE T == {i \in 0 .. n : f[i] \in Seq(S)}
<1>1. ASSUME NEW i \in 0 .. n, i \notin T, i = 0 \/ i - 1 \in T
      PROVE  FALSE
  <2>1. f[0] \in Seq(S)
    BY DEF IsPrefixes
  <2>2. CASE i # 0
    <3>1. i \in 1 .. n /\ i \in 1 .. Len(ss) /\ f[i - 1] \in Seq(S)
      BY <1>1, <2>2
    <3>2. f[i] = f[i - 1] \o ss[i] /\ ss[i] \in Seq(S)
      BY <3>1, ElementOfSeq DEF IsPrefixes
    <3>3. f[i - 1] \o ss[i] \in Seq(S)
      BY <3>1, <3>2, ConcatProperties
    <3> QED
      BY <1>1, <3>2, <3>3
  <2> QED
    BY <1>1, <2>1, <2>2
<1>2. n \in Nat
  OBVIOUS
<1>3. T = 0 .. n
  BY <1>1, <1>2, FirstFailure
<1> QED
  BY <1>3

\* They are determined by ss.
LEMMA PrefixesUnique ==
  ASSUME NEW ss, NEW f, NEW g, NEW n \in Nat,
         IsPrefixes(f, ss, n), IsPrefixes(g, ss, n)
  PROVE  \A i \in 0 .. n : f[i] = g[i]
<1> DEFINE T == {i \in 0 .. n : f[i] = g[i]}
<1>1. ASSUME NEW i \in 0 .. n, i \notin T, i = 0 \/ i - 1 \in T
      PROVE  FALSE
  <2>1. CASE i # 0
    <3>1. i \in 1 .. n /\ f[i - 1] = g[i - 1]
      BY <1>1, <2>1
    <3>2. f[i] = f[i - 1] \o ss[i] /\ g[i] = g[i - 1] \o ss[i]
      BY <3>1 DEF IsPrefixes
    <3>3. f[i] = g[i]
      BY <3>1, <3>2
    <3> QED
      BY <1>1, <3>3
  <2> QED
    BY <1>1, <2>1 DEF IsPrefixes
<1>2. T = 0 .. n
  BY <1>1, FirstFailure
<1> QED
  BY <1>2

\* They exist.
LEMMA PrefixesExist ==
  ASSUME NEW ss, NEW n \in Nat
  PROVE  \E f : IsPrefixes(f, ss, n)
<1> DEFINE T == {k \in 0 .. n : \E f : IsPrefixes(f, ss, k)}
<1>1. ASSUME NEW k \in 0 .. n, k \notin T, k = 0 \/ k - 1 \in T
      PROVE  FALSE
  <2>1. CASE k = 0
    <3>1. IsPrefixes([i \in 0 .. 0 |-> <<>>], ss, 0)
      BY DEF IsPrefixes
    <3> QED
      BY <1>1, <2>1, <3>1
  <2>2. CASE k # 0
    <3>1. PICK f : IsPrefixes(f, ss, k - 1)
      BY <1>1, <2>2
    <3> DEFINE g == [i \in 0 .. k |-> IF i = k THEN f[k - 1] \o ss[k] ELSE f[i]]
    <3>2. g[0] = <<>>
      BY <2>2, <3>1 DEF IsPrefixes
    <3>3. ASSUME NEW i \in 1 .. k PROVE g[i] = g[i - 1] \o ss[i]
      <4>1. g[i - 1] = f[i - 1] /\ g[i] = IF i = k THEN f[k - 1] \o ss[k] ELSE f[i]
        BY <2>2, <3>3
      <4> HIDE DEF g
      <4>2. CASE i = k
        BY <4>1, <4>2
      <4>3. CASE i # k
        <5>1. i \in 1 .. k - 1
          BY <4>3
        <5>2. f[i] = f[i - 1] \o ss[i]
          BY <3>1, <5>1 DEF IsPrefixes
        <5> QED
          BY <4>1, <4>3, <5>2
      <4> QED
        BY <4>2, <4>3
    <3> HIDE DEF g
    <3>4. IsPrefixes(g, ss, k)
      BY <3>2, <3>3 DEF IsPrefixes
    <3> QED
      BY <1>1, <3>4
  <2> QED
    BY <2>1, <2>2
<1>2. T = 0 .. n
  BY <1>1, FirstFailure
<1>3. n \in 0 .. n
  OBVIOUS
<1> HIDE DEF T
<1>4. n \in T
  BY <1>2, <1>3
<1> QED
  BY <1>4 DEF T

\* FlattenSeq is the last of them.
LEMMA FlattenIs ==
  ASSUME NEW S, NEW ss \in Seq(Seq(S)), NEW f, IsPrefixes(f, ss, Len(ss))
  PROVE  FlattenSeq(ss) = f[Len(ss)]
<1>1. CASE Len(ss) = 0
  <2>1. ss = <<>>
    BY <1>1
  <2> QED
    BY <1>1, <2>1 DEF FlattenSeq, IsPrefixes
<1>2. CASE Len(ss) # 0
  <2> DEFINE n == Len(ss)
             Rule(g) == g = [i \in 1 .. n |-> IF i = 1 THEN ss[i] ELSE g[i - 1] \o ss[i]]
             chosen == CHOOSE g : Rule(g)
             h == [i \in 1 .. n |-> f[i]]
             c == [i \in 0 .. n |-> IF i = 0 THEN <<>> ELSE chosen[i]]
  <2>1. n \in Nat /\ n >= 1 /\ 1 \in 1 .. n
    BY <1>2
  <2>2. <<>> \o ss[1] = ss[1]
    <3>1. ss[1] \in Seq(S)
      BY <2>1, ElementOfSeq
    <3> QED
      BY <3>1, ConcatEmptySeq
  <2>3. f[1] = ss[1]
    <3>1. f[1] = f[1 - 1] \o ss[1] /\ f[0] = <<>>
      BY <2>1 DEF IsPrefixes
    <3>2. 1 - 1 = 0
      OBVIOUS
    <3> QED
      BY <2>2, <3>1, <3>2
  <2>4. \A i \in 1 .. n : h[i] = IF i = 1 THEN ss[i] ELSE h[i - 1] \o ss[i]
    <3> SUFFICES ASSUME NEW i \in 1 .. n, i # 1 PROVE h[i] = h[i - 1] \o ss[i]
      BY <2>1, <2>3
    <3>1. f[i] = f[i - 1] \o ss[i]
      BY DEF IsPrefixes
    <3>2. h[i] = f[i] /\ h[i - 1] = f[i - 1]
      BY <2>1
    <3> QED
      BY <3>1, <3>2
  <2>5. Rule(h)
    BY <2>4
  <2>6. Rule(chosen)
    BY <2>5
  <2>7. \A i \in 1 .. n : chosen[i] = IF i = 1 THEN ss[i] ELSE chosen[i - 1] \o ss[i]
    BY <2>6
  <2> HIDE DEF chosen
  <2>8. ASSUME NEW i \in 1 .. n PROVE c[i] = c[i - 1] \o ss[i]
    <3>1. CASE i = 1
      <4>1. chosen[1] = ss[1] /\ c[1] = chosen[1] /\ c[0] = <<>>
        BY <2>1, <2>7
      <4> QED
        BY <2>2, <3>1, <4>1
    <3>2. CASE i # 1
      <4>1. chosen[i] = chosen[i - 1] \o ss[i]
        BY <2>7, <3>2
      <4>2. c[i] = chosen[i] /\ c[i - 1] = chosen[i - 1]
        BY <2>1, <3>2
      <4> QED
        BY <4>1, <4>2
    <3> QED
      BY <3>1, <3>2
  <2>9. c[0] = <<>> /\ c[n] = chosen[n]
    BY <2>1
  <2> HIDE DEF c
  <2>10. IsPrefixes(c, ss, n)
    BY <2>8, <2>9 DEF IsPrefixes
  <2>11. f[n] = c[n]
    <3>1. n \in 0 .. n
      BY <2>1
    <3> QED
      BY <2>1, <2>10, <3>1, PrefixesUnique
  <2>12. FlattenSeq(ss) = chosen[n]
    BY <1>2 DEF FlattenSeq, chosen
  <2> QED
    BY <2>9, <2>11, <2>12
<1> QED
  BY <1>1, <1>2

\* Concatenation is associative.
LEMMA Associative == \A S : \A s, t, u \in Seq(S) : (s \o t) \o u = s \o (t \o u)
  BY ConcatAssociative

\* The concatenation of sequences is a sequence.
LEMMA FlattenType ==
  ASSUME NEW S, NEW ss \in Seq(Seq(S))
  PROVE  FlattenSeq(ss) \in Seq(S)
<1> DEFINE n == Len(ss)
<1>1. n \in Nat /\ n \in 0 .. Len(ss) /\ n \in 0 .. n
  OBVIOUS
<1>2. PICK f : IsPrefixes(f, ss, n)
  BY <1>1, PrefixesExist
<1>3. f[n] \in Seq(S)
  BY <1>1, <1>2, PrefixesType
<1> QED
  BY <1>2, <1>3, FlattenIs

\* Nothing concatenated is nothing.
LEMMA FlattenEmpty == FlattenSeq(<<>>) = <<>>
  BY DEF FlattenSeq

\* One more sequence at the end.
LEMMA FlattenAppend ==
  ASSUME NEW S, NEW ss \in Seq(Seq(S)), NEW s \in Seq(S)
  PROVE  FlattenSeq(Append(ss, s)) = FlattenSeq(ss) \o s
<1> DEFINE n == Len(ss)
           tt == Append(ss, s)
<1>1. n \in Nat /\ n + 1 \in Nat /\ tt \in Seq(Seq(S)) /\ Len(tt) = n + 1
  OBVIOUS
<1>2. \A i \in 1 .. n : tt[i] = ss[i]
  OBVIOUS
<1>3. tt[n + 1] = s
  OBVIOUS
<1> HIDE DEF n, tt
<1>4. PICK f : IsPrefixes(f, tt, n + 1)
  BY <1>1, PrefixesExist
<1>5. IsPrefixes(f, ss, n)
  <2>1. f[0] = <<>>
    BY <1>4 DEF IsPrefixes
  <2>2. ASSUME NEW i \in 1 .. n PROVE f[i] = f[i - 1] \o ss[i]
    <3>1. i \in 1 .. n + 1
      BY <1>1
    <3>2. f[i] = f[i - 1] \o tt[i]
      BY <1>4, <3>1 DEF IsPrefixes
    <3> QED
      BY <1>2, <3>2
  <2> QED
    BY <2>1, <2>2 DEF IsPrefixes
<1>6. FlattenSeq(tt) = f[n + 1] /\ FlattenSeq(ss) = f[n]
  BY <1>1, <1>4, <1>5, FlattenIs DEF n
<1>7. f[n + 1] = f[n] \o s
  <2>1. n + 1 \in 1 .. n + 1 /\ (n + 1) - 1 = n
    BY <1>1
  <2>2. f[n + 1] = f[(n + 1) - 1] \o tt[n + 1]
    BY <1>4, <2>1 DEF IsPrefixes
  <2> QED
    BY <1>3, <2>1, <2>2
<1> QED
  BY <1>6, <1>7 DEF tt

\* The first sequence taken off.
LEMMA FlattenCons ==
  ASSUME NEW S, NEW ss \in Seq(Seq(S)), ss # <<>>
  PROVE  FlattenSeq(ss) = Head(ss) \o FlattenSeq(Tail(ss))
<1> DEFINE n == Len(ss) - 1
           tt == Tail(ss)
<1>1. /\ n \in Nat /\ n + 1 \in Nat /\ n + 1 = Len(ss) /\ Head(ss) = ss[1] /\ ss[1] \in Seq(S)
      /\ tt \in Seq(Seq(S)) /\ Len(tt) = n
      /\ \A i \in 1 .. n : tt[i] = ss[i + 1]
  BY HeadTailProperties
<1> HIDE DEF n, tt
<1>2. PICK f : IsPrefixes(f, ss, n + 1)
  BY <1>1, PrefixesExist
<1>3. PICK g : IsPrefixes(g, tt, n)
  BY <1>1, PrefixesExist
<1>4. \A i \in 0 .. n : g[i] \in Seq(S)
  <2>1. n \in 0 .. Len(tt)
    BY <1>1
  <2> QED
    BY <1>1, <1>3, <2>1, PrefixesType
<1> DEFINE T == {i \in 0 .. n : f[i + 1] = ss[1] \o g[i]}
<1>5. ASSUME NEW i \in 0 .. n, i \notin T, i = 0 \/ i - 1 \in T
      PROVE  FALSE
  <2>1. i + 1 \in 1 .. n + 1 /\ (i + 1) - 1 = i
    BY <1>1
  <2>2. f[i + 1] = f[i] \o ss[i + 1]
    <3>1. f[i + 1] = f[(i + 1) - 1] \o ss[i + 1]
      BY <1>2, <2>1 DEF IsPrefixes
    <3> QED
      BY <2>1, <3>1
  <2>3. CASE i = 0
    <3>0. f[0] = <<>> /\ 0 + 1 = 1
      BY <1>2 DEF IsPrefixes
    <3>1. f[1] = <<>> \o ss[1]
      BY <2>2, <2>3, <3>0
    <3>2. g[0] = <<>>
      BY <1>3 DEF IsPrefixes
    <3>3. <<>> \o ss[1] = ss[1] \o <<>>
      BY <1>1, ConcatEmptySeq
    <3>4. f[i + 1] = ss[1] \o g[i]
      BY <2>3, <3>1, <3>2, <3>3
    <3> QED
      BY <1>5, <3>4
  <2>4. CASE i # 0
    <3>1. i \in 1 .. n /\ i - 1 \in 0 .. n /\ (i - 1) + 1 = i
      BY <1>1, <1>5, <2>4
    <3>2. f[i] = ss[1] \o g[i - 1]
      <4>1. f[(i - 1) + 1] = ss[1] \o g[i - 1]
        BY <1>5, <2>4
      <4> QED
        BY <3>1, <4>1
    <3>3. g[i] = g[i - 1] \o ss[i + 1]
      BY <1>1, <1>3, <3>1 DEF IsPrefixes
    <3>4. g[i - 1] \in Seq(S)
      BY <1>4, <3>1
    <3>5. ss[i + 1] \in Seq(S)
      <4>1. i + 1 \in 1 .. Len(ss)
        BY <1>1, <2>1
      <4> QED
        BY <4>1, ElementOfSeq
    <3>6. PICK a, b, c : a = ss[1] /\ b = g[i - 1] /\ c = ss[i + 1]
      OBVIOUS
    <3>8. a \in Seq(S) /\ b \in Seq(S) /\ c \in Seq(S)
      BY <1>1, <3>4, <3>5, <3>6
    <3>9. (a \o b) \o c = a \o (b \o c)
      <4> HIDE DEF T
      <4> QED
        BY <3>8, Associative, SMTT(30)
    <3>7. f[i + 1] = ss[1] \o g[i]
      BY <2>2, <3>2, <3>3, <3>6, <3>9
    <3> QED
      BY <1>5, <3>7
  <2> QED
    BY <2>3, <2>4
<1>6. T = 0 .. n
  BY <1>1, <1>5, FirstFailure
<1>7. f[n + 1] = ss[1] \o g[n]
  <2>1. n \in 0 .. n
    BY <1>1
  <2> QED
    BY <1>6, <2>1
<1>8. FlattenSeq(ss) = f[n + 1] /\ FlattenSeq(tt) = g[n]
  BY <1>1, <1>2, <1>3, FlattenIs
<1> QED
  BY <1>1, <1>7, <1>8 DEF tt

-----------------------------------------------------------------------------
(* Frames *)

\* The bytes between the marks of the frame of s, and the frames of the packets q.
Encoded(s) == FlattenSeq([i \in 1 .. Len(s) |-> Encode(s[i])])
Stored(q)  == FlattenSeq([i \in 1 .. Len(q) |-> Frame(q[i])])

\* A byte in front of a sequence.
LEMMA ConsProperties ==
  \A S : \A a \in S : \A s \in Seq(S) :
    /\ <<a>> \o s \in Seq(S) /\ <<a>> \o s # <<>>
    /\ Head(<<a>> \o s) = a /\ Tail(<<a>> \o s) = s
<1> SUFFICES ASSUME NEW S, NEW a \in S, NEW s \in Seq(S)
             PROVE  /\ <<a>> \o s \in Seq(S) /\ <<a>> \o s # <<>>
                    /\ Head(<<a>> \o s) = a /\ Tail(<<a>> \o s) = s
  OBVIOUS
<1>1. <<a>> \in Seq(S) /\ Len(<<a>>) = 1
  OBVIOUS
<1>2. /\ <<a>> \o s \in Seq(S) /\ Len(<<a>> \o s) = Len(s) + 1
      /\ \A i \in 1 .. Len(s) + 1 : (<<a>> \o s)[i] = IF i = 1 THEN a ELSE s[i - 1]
  BY <1>1, ConcatProperties
<1>3. <<a>> \o s # <<>> /\ Head(<<a>> \o s) = a
  BY <1>2
<1>4. /\ Tail(<<a>> \o s) \in Seq(S) /\ Len(Tail(<<a>> \o s)) = Len(s)
      /\ \A i \in 1 .. Len(s) : Tail(<<a>> \o s)[i] = s[i]
  BY <1>2, <1>3, HeadTailProperties
<1>5. Tail(<<a>> \o s) = s
  BY <1>4, SeqEqual
<1> QED
  BY <1>2, <1>3, <1>5

\* A sequence is its head in front of its tail.
LEMMA HeadAndTail ==
  \A S : \A s \in Seq(S) : s # <<>> =>
    Head(s) \in S /\ Tail(s) \in Seq(S) /\ s = <<Head(s)>> \o Tail(s)
<1> SUFFICES ASSUME NEW S, NEW s \in Seq(S), s # <<>>
             PROVE  Head(s) \in S /\ Tail(s) \in Seq(S) /\ s = <<Head(s)>> \o Tail(s)
  OBVIOUS
<1>1. /\ Head(s) \in S /\ Tail(s) \in Seq(S) /\ Len(Tail(s)) = Len(s) - 1
      /\ \A i \in 1 .. Len(Tail(s)) : Tail(s)[i] = s[i + 1]
  BY HeadTailProperties
<1>2. <<Head(s)>> \in Seq(S) /\ Len(<<Head(s)>>) = 1 /\ <<Head(s)>>[1] = s[1]
  BY <1>1
<1>3. /\ <<Head(s)>> \o Tail(s) \in Seq(S) /\ Len(<<Head(s)>> \o Tail(s)) = Len(s)
      /\ \A i \in 1 .. Len(s) : (<<Head(s)>> \o Tail(s))[i] = s[i]
  BY <1>1, <1>2, ConcatProperties
<1> QED
  BY <1>1, <1>3, SeqEqual

\* The encoded bytes of a packet, one by one, are sequences of bytes.
LEMMA EncodedParts ==
  ASSUME NEW s \in Seq(Byte)
  PROVE  [i \in 1 .. Len(s) |-> Encode(s[i])] \in Seq(Seq(Byte))
<1>1. \A i \in 1 .. Len(s) : Encode(s[i]) \in Seq(Byte)
  BY ElementOfSeq, EncodeBytes
<1> QED
  BY <1>1

\* What a packet is encoded to are bytes.
LEMMA EncodedType ==
  ASSUME NEW s \in Seq(Byte)
  PROVE  Encoded(s) \in Seq(Byte)
  BY EncodedParts, FlattenType DEF Encoded

\* Nothing is put for the empty packet.
LEMMA EncodedEmpty == Encoded(<<>>) = <<>>
<1>1. [i \in 1 .. Len(<<>>) |-> Encode(<<>>[i])] = <<>>
  OBVIOUS
<1> QED
  BY <1>1, FlattenEmpty DEF Encoded

\* A packet is encoded byte by byte.
LEMMA EncodedCons ==
  ASSUME NEW s \in Seq(Byte), s # <<>>
  PROVE  Encoded(s) = Encode(Head(s)) \o Encoded(Tail(s))
<1> DEFINE m == [i \in 1 .. Len(s) |-> Encode(s[i])]
           t == Tail(s)
<1>1. /\ t \in Seq(Byte) /\ Len(t) = Len(s) - 1 /\ Len(s) \in Nat /\ Len(s) >= 1
      /\ \A i \in 1 .. Len(t) : t[i] = s[i + 1]
  BY HeadTailProperties
<1>2. m \in Seq(Seq(Byte)) /\ Len(m) = Len(s) /\ m # <<>>
  BY <1>1, EncodedParts
<1>3. Head(m) = Encode(Head(s))
  BY <1>1, <1>2
<1>4. Tail(m) = [i \in 1 .. Len(t) |-> Encode(t[i])]
  <2>1. /\ Tail(m) \in Seq(Seq(Byte)) /\ Len(Tail(m)) = Len(t)
        /\ \A i \in 1 .. Len(t) : Tail(m)[i] = m[i + 1]
    BY <1>1, <1>2, HeadTailProperties
  <2>2. \A i \in 1 .. Len(t) : m[i + 1] = Encode(t[i])
    BY <1>1
  <2>3. [i \in 1 .. Len(t) |-> Encode(t[i])] \in Seq(Seq(Byte))
    BY <1>1, EncodedParts
  <2> QED
    BY <2>1, <2>2, <2>3, SeqEqual
<1>5. FlattenSeq(m) = Head(m) \o FlattenSeq(Tail(m))
  BY <1>2, FlattenCons
<1> QED
  BY <1>3, <1>4, <1>5 DEF Encoded

\* A frame is the encoded packet between two marks.
LEMMA FrameIs ==
  ASSUME NEW s \in Seq(Byte)
  PROVE  /\ Frame(s) = <<Begin>> \o (Encoded(s) \o <<End>>)
         /\ Frame(s) \in Seq(Byte) /\ Encoded(s) \o <<End>> \in Seq(Byte)
<1> DEFINE m == [i \in 1 .. Len(s) |-> Encode(s[i])]
           b == <<<<Begin>>>>
<1>1. <<Begin>> \in Seq(Byte) /\ <<End>> \in Seq(Byte)
  BY PacketAssumption DEF Begin, End
<1>2. m \in Seq(Seq(Byte)) /\ b \in Seq(Seq(Byte))
  BY <1>1, EncodedParts
<1>3. /\ b \o m \in Seq(Seq(Byte)) /\ b \o m # <<>>
      /\ Head(b \o m) = <<Begin>> /\ Tail(b \o m) = m
  BY <1>1, <1>2, ConsProperties
<1>4. b \o m \o <<<<End>>>> = Append(b \o m, <<End>>)
  BY <1>1, <1>3
<1>5. FlattenSeq(Append(b \o m, <<End>>)) = FlattenSeq(b \o m) \o <<End>>
  BY <1>1, <1>3, FlattenAppend
<1>6. FlattenSeq(b \o m) = <<Begin>> \o FlattenSeq(m)
  BY <1>3, FlattenCons
<1>7. FlattenSeq(m) = Encoded(s) /\ Encoded(s) \in Seq(Byte)
  BY EncodedType DEF Encoded
<1>8. Frame(s) = (<<Begin>> \o Encoded(s)) \o <<End>>
  BY <1>4, <1>5, <1>6, <1>7 DEF Frame
<1>9. (<<Begin>> \o Encoded(s)) \o <<End>> = <<Begin>> \o (Encoded(s) \o <<End>>)
  BY <1>1, <1>7, Associative
<1>10. /\ Encoded(s) \o <<End>> \in Seq(Byte)
       /\ <<Begin>> \o (Encoded(s) \o <<End>>) \in Seq(Byte)
  BY <1>1, <1>7
<1> QED
  BY <1>8, <1>9, <1>10

\* The frames of a queue of packets.
LEMMA StoredParts ==
  ASSUME NEW q \in Seq(Packets)
  PROVE  [i \in 1 .. Len(q) |-> Frame(q[i])] \in Seq(Seq(Byte))
<1>1. \A i \in 1 .. Len(q) : Frame(q[i]) \in Seq(Byte)
  <2> SUFFICES ASSUME NEW i \in 1 .. Len(q) PROVE Frame(q[i]) \in Seq(Byte)
    OBVIOUS
  <2>1. q[i] \in Packets
    BY ElementOfSeq
  <2>2. q[i] \in Seq(Byte)
    BY <2>1, PacketAssumption
  <2> QED
    BY <2>2, FrameIs
<1> QED
  BY <1>1

\* The frames of queued packets are bytes.
LEMMA StoredType ==
  ASSUME NEW q \in Seq(Packets)
  PROVE  Stored(q) \in Seq(Byte)
  BY StoredParts, FlattenType DEF Stored

\* An empty queue has no frames.
LEMMA StoredEmpty == Stored(<<>>) = <<>>
<1>1. [i \in 1 .. Len(<<>>) |-> Frame(<<>>[i])] = <<>>
  OBVIOUS
<1> QED
  BY <1>1, FlattenEmpty DEF Stored

\* A packet queued is a frame at the end.
LEMMA StoredAppend ==
  ASSUME NEW q \in Seq(Packets), NEW s \in Packets
  PROVE  Stored(Append(q, s)) = Stored(q) \o Frame(s)
<1> DEFINE m == [i \in 1 .. Len(q) |-> Frame(q[i])]
           r == Append(q, s)
<1>1. m \in Seq(Seq(Byte)) /\ Len(m) = Len(q) /\ Len(q) \in Nat
  BY StoredParts
<1>2. Frame(s) \in Seq(Byte)
  BY FrameIs, PacketAssumption
<1>3. r \in Seq(Packets) /\ Len(r) = Len(q) + 1 /\ r[Len(q) + 1] = s
      /\ \A i \in 1 .. Len(q) : r[i] = q[i]
  OBVIOUS
<1>4. [i \in 1 .. Len(r) |-> Frame(r[i])] = Append(m, Frame(s))
  <2> DEFINE x == [i \in 1 .. Len(r) |-> Frame(r[i])]
             y == Append(m, Frame(s))
  <2>1. x \in Seq(Seq(Byte)) /\ Len(x) = Len(q) + 1
    <3>1. x \in Seq(Seq(Byte))
      <4> HIDE DEF r
      <4> QED
        BY <1>3, StoredParts
    <3>2. Len(x) = Len(r)
      <4>1. Len(r) \in Nat
        BY <1>1, <1>3
      <4> HIDE DEF r
      <4> QED
        BY <4>1
    <3> QED
      BY <1>3, <3>1, <3>2
  <2>2. y \in Seq(Seq(Byte)) /\ Len(y) = Len(q) + 1
    BY <1>1, <1>2
  <2>3. \A i \in 1 .. Len(q) + 1 : y[i] = IF i <= Len(q) THEN m[i] ELSE Frame(s)
    BY <1>1, <1>2
  <2>4. \A i \in 1 .. Len(q) + 1 : x[i] = IF i <= Len(q) THEN m[i] ELSE Frame(s)
    <3> SUFFICES ASSUME NEW i \in 1 .. Len(q) + 1
                 PROVE  x[i] = IF i <= Len(q) THEN m[i] ELSE Frame(s)
      OBVIOUS
    <3>1. x[i] = Frame(r[i])
      BY <1>3
    <3>2. CASE i <= Len(q)
      BY <1>1, <1>3, <3>1, <3>2
    <3>3. CASE i = Len(q) + 1
      BY <1>1, <1>3, <3>1, <3>3
    <3> QED
      BY <1>1, <3>2, <3>3
  <2> HIDE DEF x, y
  <2>5. x = y
    BY <2>1, <2>2, <2>3, <2>4, SeqEqual
  <2> QED
    BY <2>5 DEF x, y
<1> HIDE DEF m, r
<1>5. FlattenSeq(Append(m, Frame(s))) = FlattenSeq(m) \o Frame(s)
  BY <1>1, <1>2, FlattenAppend
<1>6. Stored(r) = FlattenSeq(Append(m, Frame(s))) /\ Stored(q) = FlattenSeq(m)
  BY <1>4 DEF Stored, m
<1> QED
  BY <1>5, <1>6 DEF r

\* The oldest packet is the frame in front.
LEMMA StoredCons ==
  ASSUME NEW q \in Seq(Packets), q # <<>>
  PROVE  Stored(q) = Frame(Head(q)) \o Stored(Tail(q))
<1> DEFINE m == [i \in 1 .. Len(q) |-> Frame(q[i])]
           t == Tail(q)
<1>1. /\ t \in Seq(Packets) /\ Len(t) = Len(q) - 1 /\ Len(q) \in Nat /\ Len(q) >= 1
      /\ \A i \in 1 .. Len(t) : t[i] = q[i + 1]
  BY HeadTailProperties
<1>2. m \in Seq(Seq(Byte)) /\ Len(m) = Len(q) /\ m # <<>>
  BY <1>1, StoredParts
<1>3. Head(m) = Frame(Head(q))
  BY <1>1, <1>2
<1>4. Tail(m) = [i \in 1 .. Len(t) |-> Frame(t[i])]
  <2>1. /\ Tail(m) \in Seq(Seq(Byte)) /\ Len(Tail(m)) = Len(t)
        /\ \A i \in 1 .. Len(t) : Tail(m)[i] = m[i + 1]
    BY <1>1, <1>2, HeadTailProperties
  <2>2. \A i \in 1 .. Len(t) : m[i + 1] = Frame(t[i])
    BY <1>1
  <2>3. [i \in 1 .. Len(t) |-> Frame(t[i])] \in Seq(Seq(Byte))
    BY <1>1, StoredParts
  <2> QED
    BY <2>1, <2>2, <2>3, SeqEqual
<1>5. FlattenSeq(m) = Head(m) \o FlattenSeq(Tail(m))
  BY <1>2, FlattenCons
<1> QED
  BY <1>3, <1>4, <1>5 DEF Stored

\* What is in front of the bytes of the buffer when a packet is the oldest.
LEMMA StoredHead ==
  ASSUME NEW q \in Seq(Packets), q # <<>>
  PROVE  /\ Stored(q) = <<Begin>> \o (Encoded(Head(q)) \o (<<End>> \o Stored(Tail(q))))
         /\ Head(q) \in Seq(Byte) /\ Tail(q) \in Seq(Packets)
         /\ Encoded(Head(q)) \in Seq(Byte)
         /\ <<End>> \o Stored(Tail(q)) \in Seq(Byte)
         /\ Encoded(Head(q)) \o (<<End>> \o Stored(Tail(q))) \in Seq(Byte)
<1> DEFINE e == Encoded(Head(q))
           t == Stored(Tail(q))
<1>1. Head(q) \in Packets /\ Head(q) \in Seq(Byte) /\ Tail(q) \in Seq(Packets)
  BY HeadAndTail, PacketAssumption
<1>2. e \in Seq(Byte) /\ t \in Seq(Byte) /\ <<Begin>> \in Seq(Byte) /\ <<End>> \in Seq(Byte)
  <2>1. e \in Seq(Byte)
    BY <1>1, EncodedType
  <2>2. t \in Seq(Byte)
    BY <1>1, StoredType
  <2>3. Begin \in Byte /\ End \in Byte
    BY PacketAssumption DEF Begin, End
  <2> QED
    BY <2>1, <2>2, <2>3
<1>3. Stored(q) = Frame(Head(q)) \o t
  BY StoredCons
<1>4. Frame(Head(q)) = <<Begin>> \o (e \o <<End>>)
  BY <1>1, FrameIs
<1> HIDE DEF e, t
<1>5. e \o <<End>> \in Seq(Byte) /\ <<End>> \o t \in Seq(Byte)
      /\ e \o (<<End>> \o t) \in Seq(Byte)
  <2>1. \A x, y \in Seq(Byte) : x \o y \in Seq(Byte)
    BY ConcatProperties
  <2> QED
    BY <1>2, <2>1
<1>6. (<<Begin>> \o (e \o <<End>>)) \o t = <<Begin>> \o ((e \o <<End>>) \o t)
  BY <1>2, <1>5, Associative
<1>7. (e \o <<End>>) \o t = e \o (<<End>> \o t)
  BY <1>2, Associative
<1> QED
  BY <1>1, <1>2, <1>3, <1>4, <1>5, <1>6, <1>7 DEF e, t

-----------------------------------------------------------------------------
(* Packets *)

\* What follows the oldest packet in the buffer: the end of its frame, and the others.
Following == <<End>> \o Stored(Tail(queued))

\* QUEUE_Puts: what is in the buffer and what is still to come make up the frames
\* of the packets queued before and of the one that is being queued.
PutOK ==
  /\ op \in {"puts", "mark"} => cur \in Packets
  /\ op = "puts" => Contents \o (todo \o (Encoded(rest) \o <<End>>))
                    = Stored(queued) \o Frame(cur)
  /\ op = "mark" => Contents \o todo = Stored(queued) \o Frame(cur)

\* QUEUE_Gets: the parser has nothing yet, or it has the oldest packet but for u,
\* and what is left in the buffer begins with u.
ParserOK ==
  op = "gets" =>
    \/ Contents = Stored(queued) /\ ~parser.isEsc /\ parser.out = <<>>
    \/ /\ queued # <<>> /\ parser.isBegin /\ parser.out \in Seq(Byte)
       /\ \E u \in Seq(Byte) :
            /\ Head(queued) = parser.out \o u
            /\ \/ ~parser.isEsc /\ Contents = Encoded(u) \o Following
               \/ /\ parser.isEsc /\ u # <<>> /\ Head(u) \in {Esc, Begin, End}
                  /\ Contents = <<Xor20(Head(u))>> \o (Encoded(Tail(u)) \o Following)

\* It has the oldest packet, and the others are left.
GotOK ==
  op = "got" => /\ queued # <<>> /\ parser.out = Head(queued)
                /\ Contents = Stored(Tail(queued))

PacketInv ==
  /\ queued \in Seq(Packets) /\ Marked = Stored(queued)
  /\ PutOK /\ ParserOK /\ GotOK

\* The marks are bytes, and no byte is a mark once it is escaped.
LEMMA Marks ==
  /\ Begin \in Byte /\ End \in Byte /\ Esc \in Byte
  /\ <<Begin>> \in Seq(Byte) /\ <<End>> \in Seq(Byte) /\ <<>> \in Seq(Byte)
  /\ Esc # Begin /\ Esc # End /\ Begin # End
  /\ \A v \in {Esc, Begin, End} :
       Xor20(v) \in Byte \ {Esc, Begin, End} /\ Xor20(Xor20(v)) = v
<1>1. /\ (125 \div 32) % 2 = 1 /\ (126 \div 32) % 2 = 1 /\ (127 \div 32) % 2 = 1
      /\ (93 \div 32) % 2 = 0 /\ (94 \div 32) % 2 = 0 /\ (95 \div 32) % 2 = 0
  OBVIOUS
<1>2. /\ Xor20(125) = 93 /\ Xor20(126) = 94 /\ Xor20(127) = 95
      /\ Xor20(93) = 125 /\ Xor20(94) = 126 /\ Xor20(95) = 127
  BY <1>1 DEF Xor20
<1> QED
  BY <1>2, PacketAssumption DEF Esc, Begin, End

\* Sequences of bytes concatenated are one.
LEMMA ConcatType == \A s, t \in Seq(Byte) : s \o t \in Seq(Byte)
  BY ConcatProperties

\* It is empty only if both are.
LEMMA ConcatNotEmpty == \A s, t \in Seq(Byte) : t # <<>> => s \o t # <<>>
  BY ConcatProperties

\* The bytes the states of the queue are made of.
LEMMA Types ==
  ASSUME TypeOK
  PROVE  Contents \in Seq(Byte) /\ Len(Contents) = fill_cnt
  BY BytesSeq DEF TypeOK, Contents

\* A packet is a sequence of bytes.
LEMMA PacketsAreBytes == Packets \subseteq Seq(Byte)
  BY PacketAssumption

\* The two inner ones of four sequences joined.
LEMMA Regroup ==
  \A c, h, r, z \in Seq(Byte) : (c \o h) \o (r \o z) = c \o ((h \o r) \o z)
<1> SUFFICES ASSUME NEW c \in Seq(Byte), NEW h \in Seq(Byte),
                    NEW r \in Seq(Byte), NEW z \in Seq(Byte)
             PROVE  (c \o h) \o (r \o z) = c \o ((h \o r) \o z)
  OBVIOUS
<1>1. PICK y : y = r \o z
  OBVIOUS
<1>2. y \in Seq(Byte)
  BY <1>1, ConcatType
<1>3. (c \o h) \o y = c \o (h \o y)
  BY <1>2, Associative
<1>4. (h \o r) \o z = h \o (r \o z)
  BY Associative
<1> QED
  BY <1>1, <1>3, <1>4

\* A byte moved from what is to come to what is there.
LEMMA MoveByte ==
  ASSUME NEW c \in Seq(Byte), NEW t \in Seq(Byte), t # <<>>
  PROVE  /\ Append(c, Head(t)) \o Tail(t) = c \o t
         /\ \A z \in Seq(Byte) : Append(c, Head(t)) \o (Tail(t) \o z) = c \o (t \o z)
<1>1. Head(t) \in Byte /\ Tail(t) \in Seq(Byte) /\ t = <<Head(t)>> \o Tail(t)
  BY HeadAndTail
<1> DEFINE h == <<Head(t)>>
           r == Tail(t)
<1>2. h \in Seq(Byte) /\ r \in Seq(Byte) /\ Append(c, Head(t)) = c \o h /\ t = h \o r
  BY <1>1
<1> HIDE DEF h, r
<1>3. (c \o h) \o r = c \o (h \o r)
  BY <1>2, Associative
<1>4. \A z \in Seq(Byte) : (c \o h) \o (r \o z) = c \o ((h \o r) \o z)
  <2>1. c \in Seq(Byte) /\ h \in Seq(Byte) /\ r \in Seq(Byte)
    BY <1>2
  <2> QED
    BY <2>1, Regroup, ZenonT(30)
<1> QED
  BY <1>2, <1>3, <1>4 DEF r

-----------------------------------------------------------------------------

\* QUEUE_Init: no packet is queued.
LEMMA InitPackets == Init => PacketInv
<1> SUFFICES ASSUME Init PROVE PacketInv
  OBVIOUS
<1>1. queued = <<>> /\ op = "idle" /\ fill_cnt = 0
  BY DEF Init
<1>2. Contents = <<>>
  BY <1>1 DEF Contents, Bytes
<1>3. Marked = Stored(queued)
  BY <1>1, <1>2, StoredEmpty DEF Marked
<1>4. queued \in Seq(Packets)
  BY <1>1
<1> QED
  BY <1>1, <1>3, <1>4 DEF PacketInv, PutOK, ParserOK, GotOK

\* QUEUE_Puts begins a frame: all of it is still to come.
LEMMA PutsBeginPackets ==
  ASSUME NEW pkt \in Packets
  PROVE  TypeOK /\ PacketInv /\ PutsBegin(pkt) => PacketInv'
<1> SUFFICES ASSUME TypeOK, PacketInv, PutsBegin(pkt) PROVE PacketInv'
  OBVIOUS
<1>1. /\ op = "idle" /\ op' = "puts" /\ cur' = pkt /\ todo' = <<Begin>> /\ rest' = pkt
      /\ snap' = Snapshot /\ UNCHANGED <<p_r, fill_cnt, buf, queued>>
  BY DEF PutsBegin, ring
<1>2. Contents' = Contents
  BY <1>1 DEF Contents, Bytes, Slot
<1>3. Marked' = Contents
  BY <1>1, <1>2 DEF Marked, Snapshot, Contents, Bytes, Slot
<1>4. Contents = Stored(queued)
  BY <1>1 DEF PacketInv, Marked
<1>5. Frame(pkt) = <<Begin>> \o (Encoded(pkt) \o <<End>>)
  BY PacketsAreBytes, FrameIs
<1>6. Contents' \o (todo' \o (Encoded(rest') \o <<End>>)) = Stored(queued') \o Frame(cur')
  BY <1>1, <1>2, <1>4, <1>5
<1>7. queued' \in Seq(Packets) /\ Marked' = Stored(queued')
  BY <1>1, <1>3, <1>4 DEF PacketInv
<1> QED
  BY <1>1, <1>6, <1>7 DEF PacketInv, PutOK, ParserOK, GotOK

\* A byte that was to come is there.
LEMMA PutBytePackets == TypeOK /\ RingOK /\ PacketInv /\ PutByte => PacketInv'
<1> SUFFICES ASSUME TypeOK, RingOK, PacketInv, PutByte PROVE PacketInv'
  OBVIOUS
<1>1. /\ op \in {"puts", "mark"} /\ op' = op /\ todo # <<>> /\ todo' = Tail(todo)
      /\ UNCHANGED <<rest, cur, queued>>
  BY DEF PutByte
<1>2. Contents' = Append(Contents, Head(todo)) /\ Marked' = Marked
  BY PutAppends, PutKeepsMarked
<1>3. Contents \in Seq(Byte) /\ todo \in Seq(Byte) /\ rest \in Seq(Byte)
  BY Types DEF TypeOK
<1>4. ASSUME op = "mark"
      PROVE  Contents' \o todo' = Stored(queued') \o Frame(cur')
  <2>1. Contents \o todo = Stored(queued) \o Frame(cur)
    BY <1>4 DEF PacketInv, PutOK
  <2>2. Append(Contents, Head(todo)) \o Tail(todo) = Contents \o todo
    BY <1>1, <1>3, MoveByte
  <2> QED
    BY <1>1, <1>2, <2>1, <2>2
<1>5. ASSUME op = "puts"
      PROVE  Contents' \o (todo' \o (Encoded(rest') \o <<End>>))
             = Stored(queued') \o Frame(cur')
  <2> DEFINE z == Encoded(rest) \o <<End>>
  <2>1. z \in Seq(Byte)
    BY <1>3, EncodedType, ConcatType, Marks
  <2>2. Contents \o (todo \o z) = Stored(queued) \o Frame(cur)
    BY <1>5 DEF PacketInv, PutOK
  <2> HIDE DEF z
  <2>3. Append(Contents, Head(todo)) \o (Tail(todo) \o z) = Contents \o (todo \o z)
    BY <1>1, <1>3, <2>1, MoveByte
  <2>4. Contents' \o (todo' \o z) = Stored(queued') \o Frame(cur')
    BY <1>1, <1>2, <2>2, <2>3
  <2> QED
    BY <1>1, <2>4 DEF z
<1>6. /\ queued' \in Seq(Packets) /\ Marked' = Stored(queued')
      /\ cur' \in Packets
  BY <1>1, <1>2 DEF PacketInv, PutOK
<1> QED
  BY <1>1, <1>4, <1>5, <1>6 DEF PacketInv, PutOK, ParserOK, GotOK

\* The next byte of the packet is encoded, or the frame is ended.
LEMMA PutNextPackets == TypeOK /\ PacketInv /\ PutNext => PacketInv'
<1> SUFFICES ASSUME TypeOK, PacketInv, PutNext PROVE PacketInv'
  OBVIOUS
<1>1. /\ op = "puts" /\ todo = <<>> /\ op' \in {"puts", "mark"}
      /\ UNCHANGED <<p_r, fill_cnt, buf, snap, cur, queued>>
  BY DEF PutNext, ring
<1>2. Contents' = Contents /\ Marked' = Marked
  BY <1>1 DEF Marked, Contents, Bytes, Slot
<1>3. Contents \in Seq(Byte) /\ rest \in Seq(Byte)
  BY Types DEF TypeOK
<1>4. Contents \o (Encoded(rest) \o <<End>>) = Stored(queued) \o Frame(cur)
  <2>1. Contents \o (<<>> \o (Encoded(rest) \o <<End>>)) = Stored(queued) \o Frame(cur)
    BY <1>1 DEF PacketInv, PutOK
  <2>2. Encoded(rest) \o <<End>> \in Seq(Byte)
    BY <1>3, EncodedType, ConcatType, Marks
  <2>3. <<>> \o (Encoded(rest) \o <<End>>) = Encoded(rest) \o <<End>>
    BY <2>2, ConcatEmptySeq
  <2> QED
    BY <2>1, <2>3
<1>5. CASE rest = <<>>
  <2>1. op' = "mark" /\ todo' = <<End>>
    BY <1>5 DEF PutNext
  <2>2. Encoded(rest) \o <<End>> = <<End>>
    BY <1>5, EncodedEmpty, Marks, ConcatEmptySeq
  <2>3. Contents' \o todo' = Stored(queued') \o Frame(cur')
    BY <1>1, <1>2, <1>4, <2>1, <2>2
  <2> QED
    BY <1>1, <1>2, <2>1, <2>3 DEF PacketInv, PutOK, ParserOK, GotOK
<1>6. CASE rest # <<>>
  <2>1. op' = "puts" /\ todo' = Encode(Head(rest)) /\ rest' = Tail(rest)
    BY <1>1, <1>6 DEF PutNext
  <2>2. Head(rest) \in Byte /\ Tail(rest) \in Seq(Byte)
    BY <1>3, <1>6, HeadAndTail
  <2> DEFINE x == Encode(Head(rest))
             y == Encoded(Tail(rest))
  <2>3. x \in Seq(Byte) /\ y \in Seq(Byte) /\ Encoded(rest) = x \o y
    BY <1>3, <1>6, <2>2, EncodeBytes, EncodedType, EncodedCons
  <2> HIDE DEF x, y
  <2>4. (x \o y) \o <<End>> = x \o (y \o <<End>>)
    BY <2>3, Marks, Associative
  <2>5. Contents' \o (x \o (y \o <<End>>)) = Stored(queued') \o Frame(cur')
    BY <1>1, <1>2, <1>4, <2>3, <2>4
  <2>6. Contents' \o (todo' \o (Encoded(rest') \o <<End>>)) = Stored(queued') \o Frame(cur')
    BY <2>1, <2>5 DEF x, y
  <2> QED
    BY <1>1, <1>2, <2>1, <2>6 DEF PacketInv, PutOK, ParserOK, GotOK
<1> QED
  BY <1>5, <1>6

\* A call that is rolled back leaves what it began with.
LEMMA RolledBack ==
  PacketInv /\ (PutsFail \/ RollBack) => PacketInv'
<1> SUFFICES ASSUME PacketInv, PutsFail \/ RollBack PROVE PacketInv'
  OBVIOUS
<1>1. /\ op # "idle" /\ op' = "idle" /\ p_r' = snap.p_r /\ fill_cnt' = snap.fill_cnt
      /\ UNCHANGED <<buf, queued>>
  BY DEF PutsFail, RollBack
<1>2. Contents' = Bytes(snap.p_r, snap.fill_cnt)
  BY <1>1 DEF Contents, Bytes, Slot
<1>3. Marked = Bytes(snap.p_r, snap.fill_cnt) /\ Marked' = Contents'
  BY <1>1 DEF Marked
<1> QED
  BY <1>1, <1>2, <1>3 DEF PacketInv, PutOK, ParserOK, GotOK

\* The frame is complete: the packet is the newest of the queue.
LEMMA PutsEndPackets == TypeOK /\ PacketInv /\ PutsEnd => PacketInv'
<1> SUFFICES ASSUME TypeOK, PacketInv, PutsEnd PROVE PacketInv'
  OBVIOUS
<1>1. /\ op = "mark" /\ todo = <<>> /\ op' = "idle" /\ queued' = Append(queued, cur)
      /\ UNCHANGED <<p_r, fill_cnt, buf>>
  BY DEF PutsEnd, ring
<1>2. Marked' = Contents
  BY <1>1 DEF Marked, Contents, Bytes, Slot
<1>3. Contents = Stored(queued) \o Frame(cur)
  <2>1. Contents \o <<>> = Stored(queued) \o Frame(cur)
    BY <1>1 DEF PacketInv, PutOK
  <2>2. Contents \in Seq(Byte)
    BY Types
  <2>3. Contents \o <<>> = Contents
    BY <2>2, ConcatEmptySeq
  <2> QED
    BY <2>1, <2>3
<1>4. cur \in Packets /\ queued \in Seq(Packets)
  BY <1>1 DEF PacketInv, PutOK
<1>5. Stored(queued') = Stored(queued) \o Frame(cur)
  BY <1>1, <1>4, StoredAppend
<1>6. queued' \in Seq(Packets)
  BY <1>1, <1>4
<1> QED
  BY <1>1, <1>2, <1>3, <1>5, <1>6 DEF PacketInv, PutOK, ParserOK, GotOK

\* QUEUE_Gets begins with the oldest packet.
LEMMA GetsBeginPackets == PacketInv /\ GetsBegin => PacketInv'
<1> SUFFICES ASSUME PacketInv, GetsBegin PROVE PacketInv'
  OBVIOUS
<1>1. /\ op = "idle" /\ op' = "gets" /\ snap' = Snapshot
      /\ UNCHANGED <<p_r, fill_cnt, buf, queued>>
  BY DEF GetsBegin, ring
<1>2. Contents' = Contents /\ Contents = Stored(queued)
  BY <1>1 DEF PacketInv, Marked, Contents, Bytes, Slot
<1>3. Marked' = Contents
  BY <1>1 DEF Marked, Snapshot, Contents, Bytes, Slot
<1>4. ~parser'.isEsc /\ parser'.out = <<>>
  BY DEF GetsBegin, NewParser
<1> QED
  BY <1>1, <1>2, <1>3, <1>4 DEF PacketInv, PutOK, ParserOK, GotOK

\* The oldest packet is removed, and the others are left.
LEMMA GetsEndPackets == PacketInv /\ GetsEnd => PacketInv'
<1> SUFFICES ASSUME PacketInv, GetsEnd PROVE PacketInv'
  OBVIOUS
<1>1. /\ op = "got" /\ op' = "idle" /\ queued' = Tail(queued)
      /\ UNCHANGED <<p_r, fill_cnt, buf>>
  BY DEF GetsEnd, ring
<1>2. queued # <<>> /\ Contents = Stored(Tail(queued)) /\ queued \in Seq(Packets)
  BY <1>1 DEF PacketInv, GotOK
<1>3. Marked' = Contents
  BY <1>1 DEF Marked, Contents, Bytes, Slot
<1>4. queued' \in Seq(Packets)
  BY <1>1, <1>2, HeadAndTail
<1> QED
  BY <1>1, <1>2, <1>3, <1>4 DEF PacketInv, PutOK, ParserOK, GotOK

\* The bytes after the oldest packet are some.
LEMMA FollowingBytes ==
  ASSUME PacketInv, queued # <<>>
  PROVE  /\ Following \in Seq(Byte) /\ Stored(Tail(queued)) \in Seq(Byte)
         /\ Following # <<>>
<1>1. Tail(queued) \in Seq(Packets)
  BY HeadAndTail DEF PacketInv
<1>2. Stored(Tail(queued)) \in Seq(Byte)
  BY <1>1, StoredType
<1> QED
  BY <1>2, Marks, ConsProperties DEF Following

\* QUEUE_Gets fails only if no packet is queued.
LEMMA GetsFailPackets == TypeOK /\ PacketInv /\ GetsFail => PacketInv'
<1> SUFFICES ASSUME TypeOK, PacketInv, GetsFail PROVE PacketInv'
  OBVIOUS
<1>1. /\ op = "gets" /\ op' = "idle" /\ fill_cnt <= 0
      /\ UNCHANGED <<p_r, fill_cnt, buf, queued>>
  BY DEF GetsFail, ring
<1>2. Contents = <<>>
  <2>1. Contents \in Seq(Byte) /\ Len(Contents) = 0
    BY <1>1, Types DEF TypeOK
  <2> QED
    BY <2>1
<1>3. Contents = Stored(queued)
  <2> SUFFICES ASSUME queued # <<>>,
                      NEW u \in Seq(Byte),
                      \/ Contents = Encoded(u) \o Following
                      \/ /\ u # <<>> /\ Head(u) \in {Esc, Begin, End}
                         /\ Contents = <<Xor20(Head(u))>> \o (Encoded(Tail(u)) \o Following)
               PROVE  FALSE
    BY <1>1 DEF PacketInv, ParserOK
  <2>1. Following \in Seq(Byte) /\ Following # <<>>
    BY FollowingBytes
  <2>2. CASE Contents = Encoded(u) \o Following
    BY <1>2, <2>1, <2>2, EncodedType, ConcatNotEmpty
  <2>3. CASE /\ u # <<>> /\ Head(u) \in {Esc, Begin, End}
             /\ Contents = <<Xor20(Head(u))>> \o (Encoded(Tail(u)) \o Following)
    <3>1. Xor20(Head(u)) \in Byte
      BY <2>3, Marks
    <3>2. Tail(u) \in Seq(Byte)
      BY <2>3, HeadAndTail
    <3>3. Encoded(Tail(u)) \o Following \in Seq(Byte)
      BY <2>1, <3>2, EncodedType, ConcatType
    <3> QED
      BY <1>2, <2>3, <3>1, <3>3, ConsProperties
  <2> QED
    BY <2>2, <2>3
<1>4. Marked' = Contents
  BY <1>1 DEF Marked, Contents, Bytes, Slot
<1> QED
  BY <1>1, <1>3, <1>4 DEF PacketInv, PutOK, ParserOK, GotOK

\* RINGBUF_Get gives the first byte of the contents.
LEMMA GetIsHead ==
  ASSUME TypeOK, GetByte
  PROVE  /\ Contents # <<>> /\ buf[p_r] = Head(Contents) /\ Contents' = Tail(Contents)
         /\ Marked' = Marked
<1>1. Contents # <<>> /\ Contents' = Tail(Contents)
  BY GetTakesOldest
<1>2. fill_cnt \in 1 .. Size /\ p_r \in Pointer /\ op = "gets"
  BY SizeAssumption DEF GetByte, TypeOK
<1>3. Contents[1] = buf[Slot(p_r, 0)]
  BY <1>2 DEF Contents, Bytes
<1>4. Slot(p_r, 0) = p_r
  BY <1>2, SizeAssumption DEF Slot, Pointer
<1>5. Head(Contents) = Contents[1]
  BY <1>1, Types
<1>6. Marked' = Marked
  BY <1>2 DEF GetByte, Marked, Bytes, Slot
<1> QED
  BY <1>1, <1>3, <1>4, <1>5, <1>6

\* The state of the parser after a byte of the oldest packet.
Reading(u) ==
  /\ parser.isBegin /\ parser.out \in Seq(Byte) /\ Head(queued) = parser.out \o u
  /\ ~parser.isEsc /\ Contents = Encoded(u) \o Following

\* The first byte is the mark of the oldest packet.
LEMMA GetFirst ==
  ASSUME TypeOK, PacketInv, GetByte, Contents = Stored(queued)
  PROVE  PacketInv'
<1>1. /\ op = "gets" /\ queued' = queued
      /\ parser' = ParseByte(parser, buf[p_r])
      /\ op' = IF buf[p_r] = End THEN "got" ELSE "gets"
  BY DEF GetByte
<1>2. queued \in Seq(Packets) /\ Marked = Stored(queued)
  BY DEF PacketInv
<1>3. queued # <<>>
  BY GetIsHead, StoredEmpty
<1> DEFINE h == Head(queued)
           s == Encoded(h) \o Following
<1>4. Contents = <<Begin>> \o s /\ h \in Seq(Byte) /\ s \in Seq(Byte)
  BY <1>2, <1>3, StoredHead DEF Following
<1> HIDE DEF s
<1>5. buf[p_r] = Begin /\ Contents' = s
  BY <1>4, GetIsHead, ConsProperties, Marks
<1>6. op' = "gets" /\ parser' = NewParser(TRUE)
  BY <1>1, <1>5, Marks DEF ParseByte
<1>7. parser'.isBegin /\ ~parser'.isEsc /\ parser'.out = <<>>
  BY <1>6 DEF NewParser
<1>8. h = <<>> \o h
  BY <1>4, ConcatEmptySeq
<1>9. Following' = Following
  BY <1>1 DEF Following
<1>10. ParserOK'
  <2>1. Contents' = Encoded(h) \o Following'
    BY <1>5, <1>9 DEF s
  <2>2. Head(queued') = parser'.out \o h
    BY <1>1, <1>7, <1>8
  <2> HIDE DEF h
  <2> QED
    BY <1>1, <1>3, <1>4, <1>7, <2>1, <2>2, Marks DEF ParserOK
<1>11. Marked' = Stored(queued')
  BY <1>1, <1>2, GetIsHead
<1> QED
  BY <1>1, <1>2, <1>6, <1>10, <1>11 DEF PacketInv, PutOK, GotOK

\* A byte of the packet that is not a mark: it is added.
LEMMA ByteAdded ==
  ASSUME TypeOK, PacketInv, queued # <<>>,
         parser.isBegin, parser.out \in Seq(Byte),
         NEW u \in Seq(Byte), u # <<>>, Head(queued) = parser.out \o u,
         NEW v \in Byte \ {Esc, Begin, End},
         (IF parser.isEsc THEN Xor20(v) ELSE v) = Head(u)
  PROVE  /\ ParseByte(parser, v) = [isEsc |-> FALSE, isBegin |-> TRUE,
                                    out |-> Append(parser.out, Head(u))]
         /\ Append(parser.out, Head(u)) \in Seq(Byte)
         /\ Head(queued) = Append(parser.out, Head(u)) \o Tail(u)
<1>1. Head(queued) \in Packets
  BY HeadAndTail DEF PacketInv
<1>2. Len(Head(queued)) <= OutMax /\ OutMax \in Nat
  BY <1>1, PacketAssumption
<1>3. Len(Head(queued)) = Len(parser.out) + Len(u) /\ Len(u) > 0
      /\ Len(parser.out) \in Nat /\ Len(u) \in Nat
  <2>1. Len(parser.out \o u) = Len(parser.out) + Len(u)
    BY ConcatProperties
  <2> QED
    BY <2>1
<1>4. ~(Len(parser.out) >= OutMax)
  BY <1>2, <1>3
<1>5. Head(u) \in Byte
  BY HeadAndTail
<1>6. Append(parser.out, Head(u)) \o Tail(u) = parser.out \o u
  BY MoveByte
<1>7. ParseByte(parser, v) = [isEsc |-> FALSE, isBegin |-> TRUE,
                              out |-> Append(parser.out, Head(u))]
  BY <1>4 DEF ParseByte
<1> QED
  BY <1>5, <1>6, <1>7

\* The next byte when no escape is pending: the end, an escape, or one that is added.
LEMMA GetNext ==
  ASSUME TypeOK, PacketInv, GetByte, queued # <<>>,
         NEW u \in Seq(Byte), Reading(u)
  PROVE  PacketInv'
<1>1. /\ op = "gets" /\ queued' = queued
      /\ parser' = ParseByte(parser, buf[p_r])
      /\ op' = IF buf[p_r] = End THEN "got" ELSE "gets"
  BY DEF GetByte
<1>2. /\ queued \in Seq(Packets) /\ Marked' = Stored(queued')
      /\ Following' = Following
  BY <1>1, GetIsHead DEF PacketInv, Following
<1>3. Following \in Seq(Byte) /\ Stored(Tail(queued)) \in Seq(Byte)
  BY FollowingBytes
<1>4. /\ parser.isBegin /\ parser.out \in Seq(Byte) /\ Head(queued) = parser.out \o u
      /\ ~parser.isEsc /\ Contents = Encoded(u) \o Following
  BY DEF Reading
<1>5. CASE u = <<>>
  <2>1. Contents = Following
    BY <1>3, <1>4, <1>5, EncodedEmpty, ConcatEmptySeq
  <2>2. buf[p_r] = End /\ Contents' = Stored(Tail(queued))
    BY <1>3, <2>1, GetIsHead, ConsProperties, Marks DEF Following
  <2>3. op' = "got" /\ parser'.out = parser.out
    BY <1>1, <2>2, Marks DEF ParseByte, TypeOK
  <2>4. parser.out = Head(queued)
    BY <1>4, <1>5, ConcatEmptySeq
  <2> QED
    BY <1>1, <1>2, <2>2, <2>3, <2>4 DEF PacketInv, PutOK, ParserOK, GotOK
<1>6. CASE u # <<>>
  <2> DEFINE s == Encoded(Tail(u)) \o Following
  <2>1. Head(u) \in Byte /\ Tail(u) \in Seq(Byte)
    BY <1>6, HeadAndTail
  <2>2. s \in Seq(Byte) /\ Encoded(Tail(u)) \in Seq(Byte)
    BY <1>3, <2>1, EncodedType, ConcatType
  <2>3. Contents = Encode(Head(u)) \o s
    <3>1. Encode(Head(u)) \in Seq(Byte)
      BY <2>1, EncodeBytes
    <3>2. Encoded(u) = Encode(Head(u)) \o Encoded(Tail(u))
      BY <1>6, EncodedCons
    <3>3. Following \in Seq(Byte) /\ Encoded(Tail(u)) \in Seq(Byte)
      BY <1>3, <2>2
    <3>4. (Encode(Head(u)) \o Encoded(Tail(u))) \o Following = Encode(Head(u)) \o s
      <4>1. PICK a \in Seq(Byte), b \in Seq(Byte), c \in Seq(Byte) :
              a = Encode(Head(u)) /\ b = Encoded(Tail(u)) /\ c = Following
        BY <3>1, <3>3
      <4>2. (a \o b) \o c = a \o (b \o c)
        BY Associative
      <4> QED
        BY <4>1, <4>2
    <3> QED
      BY <1>4, <3>2, <3>4
  <2> HIDE DEF s
  <2>4. CASE Head(u) \in {Esc, Begin, End}
    <3> DEFINE x == Xor20(Head(u))
    <3>1. x \in Byte
      BY <2>4, Marks
    <3>2. Encode(Head(u)) = <<Esc, x>>
      BY <2>4 DEF Encode
    <3> HIDE DEF x
    <3>3. <<x>> \o s \in Seq(Byte)
      BY <2>2, <3>1, ConsProperties
    <3>4. Contents = <<Esc>> \o (<<x>> \o s)
      <4>1. <<Esc, x>> = <<Esc>> \o <<x>>
        OBVIOUS
      <4>2. <<Esc>> \in Seq(Byte) /\ <<x>> \in Seq(Byte)
        BY <3>1, Marks
      <4>3. (<<Esc>> \o <<x>>) \o s = <<Esc>> \o (<<x>> \o s)
        BY <2>2, <4>2, Associative
      <4> QED
        BY <2>3, <3>2, <4>1, <4>3
    <3>5. buf[p_r] = Esc /\ Contents' = <<x>> \o s
      <4>1. Esc \in Byte
        BY Marks
      <4>2. /\ Head(<<Esc>> \o (<<x>> \o s)) = Esc
            /\ Tail(<<Esc>> \o (<<x>> \o s)) = <<x>> \o s
        BY <3>3, <4>1, ConsProperties, ZenonT(30)
      <4> QED
        BY <3>4, <4>2, GetIsHead
    <3>6. /\ op' = "gets" /\ parser'.isEsc /\ parser'.isBegin = parser.isBegin
          /\ parser'.out = parser.out
      BY <1>1, <3>5, Marks DEF ParseByte, TypeOK
    <3>7. Contents' = <<Xor20(Head(u))>> \o (Encoded(Tail(u)) \o Following')
      BY <1>2, <3>5 DEF s, x
    <3>8. ParserOK'
      BY <1>1, <1>4, <1>6, <2>4, <3>6, <3>7 DEF ParserOK
    <3> QED
      BY <1>1, <1>2, <3>6, <3>8 DEF PacketInv, PutOK, GotOK
  <2>5. CASE Head(u) \notin {Esc, Begin, End}
    <3>1. Contents = <<Head(u)>> \o s
      BY <2>3, <2>5 DEF Encode
    <3>2. buf[p_r] = Head(u) /\ Contents' = s
      BY <2>1, <2>2, <3>1, GetIsHead, ConsProperties
    <3> DEFINE out == Append(parser.out, Head(u))
    <3>3. /\ ParseByte(parser, Head(u)) = [isEsc |-> FALSE, isBegin |-> TRUE, out |-> out]
          /\ out \in Seq(Byte) /\ Head(queued) = out \o Tail(u)
      BY <1>4, <1>6, <2>1, <2>5, ByteAdded
    <3> HIDE DEF out
    <3>4. op' = "gets" /\ ~parser'.isEsc /\ parser'.isBegin /\ parser'.out = out
      BY <1>1, <2>5, <3>2, <3>3
    <3>5. Contents' = Encoded(Tail(u)) \o Following'
      BY <1>2, <3>2 DEF s
    <3>6. ParserOK'
      BY <1>1, <2>1, <3>3, <3>4, <3>5 DEF ParserOK
    <3> QED
      BY <1>1, <1>2, <3>4, <3>6 DEF PacketInv, PutOK, GotOK
  <2> QED
    BY <2>4, <2>5
<1> QED
  BY <1>5, <1>6

\* The byte after an escape is added as it was.
LEMMA GetEscaped ==
  ASSUME TypeOK, PacketInv, GetByte, queued # <<>>,
         parser.isBegin, parser.isEsc, parser.out \in Seq(Byte),
         NEW u \in Seq(Byte), u # <<>>, Head(u) \in {Esc, Begin, End},
         Head(queued) = parser.out \o u,
         Contents = <<Xor20(Head(u))>> \o (Encoded(Tail(u)) \o Following)
  PROVE  PacketInv'
<1>1. /\ op = "gets" /\ queued' = queued
      /\ parser' = ParseByte(parser, buf[p_r])
      /\ op' = IF buf[p_r] = End THEN "got" ELSE "gets"
  BY DEF GetByte
<1>2. /\ queued \in Seq(Packets) /\ Marked' = Stored(queued')
      /\ Following' = Following
  BY <1>1, GetIsHead DEF PacketInv, Following
<1>3. Tail(u) \in Seq(Byte)
  BY HeadAndTail
<1> DEFINE v == Xor20(Head(u))
           s == Encoded(Tail(u)) \o Following
           out == Append(parser.out, Head(u))
<1>4. v \in Byte \ {Esc, Begin, End} /\ Xor20(v) = Head(u)
  BY Marks
<1>5. s \in Seq(Byte)
  BY <1>3, FollowingBytes, EncodedType, ConcatType
<1> HIDE DEF v, s
<1>6. buf[p_r] = v /\ Contents' = s
  <2>1. Contents = <<v>> \o s
    BY DEF v, s
  <2> QED
    <3>1. v \in Byte
      BY <1>4
    <3>2. Head(<<v>> \o s) = v /\ Tail(<<v>> \o s) = s
      BY <1>5, <3>1, ConsProperties, ZenonT(30)
    <3> QED
      BY <2>1, <3>2, GetIsHead
<1>7. /\ ParseByte(parser, v) = [isEsc |-> FALSE, isBegin |-> TRUE, out |-> out]
      /\ out \in Seq(Byte) /\ Head(queued) = out \o Tail(u)
  BY <1>4, ByteAdded
<1> HIDE DEF out
<1>8. op' = "gets" /\ ~parser'.isEsc /\ parser'.isBegin /\ parser'.out = out
  BY <1>1, <1>4, <1>6, <1>7
<1>9. Contents' = Encoded(Tail(u)) \o Following'
  BY <1>2, <1>6 DEF s
<1>10. ParserOK'
  BY <1>1, <1>3, <1>7, <1>8, <1>9 DEF ParserOK
<1> QED
  BY <1>1, <1>2, <1>8, <1>10 DEF PacketInv, PutOK, GotOK

\* RINGBUF_Get and PROTO_ParseByte take one byte of the oldest frame.
LEMMA GetBytePackets == TypeOK /\ PacketInv /\ GetByte => PacketInv'
<1> SUFFICES ASSUME TypeOK, PacketInv, GetByte PROVE PacketInv'
  OBVIOUS
<1>1. op = "gets"
  BY DEF GetByte
<1>2. CASE Contents = Stored(queued)
  BY <1>2, GetFirst
<1>3. CASE /\ queued # <<>> /\ parser.isBegin /\ parser.out \in Seq(Byte)
           /\ \E u \in Seq(Byte) :
                /\ Head(queued) = parser.out \o u
                /\ \/ ~parser.isEsc /\ Contents = Encoded(u) \o Following
                   \/ /\ parser.isEsc /\ u # <<>> /\ Head(u) \in {Esc, Begin, End}
                      /\ Contents = <<Xor20(Head(u))>> \o (Encoded(Tail(u)) \o Following)
  <2>1. PICK u \in Seq(Byte) :
          /\ Head(queued) = parser.out \o u
          /\ \/ ~parser.isEsc /\ Contents = Encoded(u) \o Following
             \/ /\ parser.isEsc /\ u # <<>> /\ Head(u) \in {Esc, Begin, End}
                /\ Contents = <<Xor20(Head(u))>> \o (Encoded(Tail(u)) \o Following)
    BY <1>3
  <2>2. CASE ~parser.isEsc
    <3>1. Reading(u)
      BY <1>3, <2>1, <2>2 DEF Reading
    <3> QED
      BY <1>3, <3>1, GetNext
  <2>3. CASE parser.isEsc
    BY <1>3, <2>1, <2>3, GetEscaped
  <2> QED
    BY <2>2, <2>3
<1> QED
  BY <1>1, <1>2, <1>3 DEF PacketInv, ParserOK

\* Every step of the queue keeps the invariant.
LEMMA PacketStep == TypeOK /\ RingOK /\ PacketInv /\ [Next]_vars => PacketInv'
<1> SUFFICES ASSUME TypeOK, RingOK, PacketInv, [Next]_vars PROVE PacketInv'
  OBVIOUS
<1>1. ASSUME NEW pkt \in Packets, PutsBegin(pkt) PROVE PacketInv'
  BY <1>1, PutsBeginPackets
<1>2. CASE PutByte
  BY <1>2, PutBytePackets
<1>3. CASE PutNext
  BY <1>3, PutNextPackets
<1>4. CASE PutsFail \/ RollBack
  BY <1>4, RolledBack
<1>5. CASE PutsEnd
  BY <1>5, PutsEndPackets
<1>6. CASE GetsBegin
  BY <1>6, GetsBeginPackets
<1>7. CASE GetByte
  BY <1>7, GetBytePackets
<1>8. CASE GetsFail
  BY <1>8, GetsFailPackets
<1>9. CASE GetsEnd
  BY <1>9, GetsEndPackets
<1>10. CASE UNCHANGED vars
  BY <1>10 DEF vars, ring, call, PacketInv, PutOK, ParserOK, GotOK, Following,
               Marked, Contents, Bytes, Slot
<1> QED
  BY <1>1, <1>2, <1>3, <1>4, <1>5, <1>6, <1>7, <1>8, <1>9, <1>10 DEF Next

\* Between calls the buffer holds the frames of the packets accepted and not removed,
\* oldest first, and QUEUE_Gets returns the oldest of them byte for byte, whatever
\* bytes it has and whatever isBegin happens to be: for every size of the buffer and
\* all packets that fit the one they are read into (QUEUE_Puts, QUEUE_Gets).
THEOREM KeepsPacketsCorrect == Spec => []KeepsPackets
<1>1. PacketInv => KeepsPackets
  BY DEF PacketInv, GotOK, KeepsPackets, Marked, Contents, Stored
<1> QED
  BY <1>1, TypeCorrect, RingCorrect, InitPackets, PacketStep, PTL DEF Spec

-----------------------------------------------------------------------------
(* The meter of KmpRequest, whose stuffing rests on FlattenSeq too *)

CONSTANTS QueueSize, Serial, FirstEnergy, RpcSteps, MaxEnergy, MaxFaults

VARIABLES
  fifo, posts, kmp_serial, e1_kwh, meter_is_ready_cb_called, kmp_requests_sent,
  armed, sampling, fast_boot, config_mode, started, first_mqtt_connect_after_boot,
  rpc_state, connected, subscribed, ota_in_progress, meter, plugged, cmds, wire,
  faults

Kmp == INSTANCE KmpRequest

\* The two modules concatenate alike.
LEMMA SameFlatten == \A ss : Kmp!FlattenSeq(ss) = FlattenSeq(ss)
  BY DEF Kmp!FlattenSeq, FlattenSeq

\* The checksum of an answer.
LEMMA CrcPositive ==
  ASSUME NEW bytes \in Seq(Nat), Len(bytes) = 3
  PROVE  Kmp!Crc(bytes) \in Nat /\ Kmp!Crc(bytes) > 0
<1>0. \A i \in 1 .. 3 : bytes[i] \in Nat
  BY ElementOfSeq
<1> DEFINE Step(x, i) == ((x * 256) + bytes[i]) % 65521
           Rule(g) == g = [i \in 0 .. Len(bytes) |->
                             IF i = 0 THEN 0 ELSE ((g[i - 1] * 256) + bytes[i]) % 65521]
           chosen == CHOOSE g : Rule(g)
           h == [i \in 0 .. 3 |-> IF i = 0 THEN 0
                                  ELSE IF i = 1 THEN Step(0, 1)
                                  ELSE IF i = 2 THEN Step(Step(0, 1), 2)
                                  ELSE Step(Step(Step(0, 1), 2), 3)]
<1>1. \A i \in 0 .. 3 : h[i] = IF i = 0 THEN 0 ELSE ((h[i - 1] * 256) + bytes[i]) % 65521
  <2>1. h[0] = 0 /\ h[1] = Step(h[0], 1) /\ h[2] = Step(h[1], 2) /\ h[3] = Step(h[2], 3)
    OBVIOUS
  <2>2. 1 - 1 = 0 /\ 2 - 1 = 1 /\ 3 - 1 = 2
    OBVIOUS
  <2> HIDE DEF h
  <2> QED
    BY <2>1, <2>2
<1>2. Rule(h)
  BY <1>1
<1>3. Rule(chosen)
  BY <1>2
<1>4. chosen[3] = ((chosen[2] * 256) + bytes[3]) % 65521 /\ chosen[0] = 0
      /\ chosen[1] = ((chosen[0] * 256) + bytes[1]) % 65521
      /\ chosen[2] = ((chosen[1] * 256) + bytes[2]) % 65521
  <2> HIDE DEF chosen
  <2> QED
    BY <1>3
<1>5. Kmp!Crc(bytes) = 256 + chosen[Len(bytes)]
  BY DEF Kmp!Crc
<1> HIDE DEF chosen
<1>7. \A x \in Nat : x % 65521 \in Nat
  <2>1. \A x, m \in Nat : m > 0 => x % m \in Nat
    OBVIOUS
  <2> QED
    BY <2>1
<1>8. \A x \in Nat, i \in 1 .. 3 : ((x * 256) + bytes[i]) % 65521 \in Nat
  <2> TAKE x \in Nat, i \in 1 .. 3
  <2>1. (x * 256) + bytes[i] \in Nat
    BY <1>0
  <2> QED
    BY <1>7, <2>1
<1>9. chosen[1] \in Nat
  BY <1>4, <1>8
<1>10. chosen[2] \in Nat
  BY <1>4, <1>8, <1>9
<1>11. chosen[3] \in Nat
  BY <1>4, <1>8, <1>10
<1> QED
  BY <1>5, <1>11

\* Which bytes are escapes, as far as n.
IsEscape(e, bytes, n) ==
  e = [i \in 0 .. n |-> IF i = 0 THEN FALSE ELSE bytes[i] = 27 /\ ~e[i - 1]]

\* There is one way to say so.
LEMMA EscapeExists ==
  ASSUME NEW bytes, NEW n \in Nat
  PROVE  \E e : IsEscape(e, bytes, n)
<1> DEFINE T == {k \in 0 .. n : \E e : IsEscape(e, bytes, k)}
<1>1. ASSUME NEW k \in 0 .. n, k \notin T, k = 0 \/ k - 1 \in T
      PROVE  FALSE
  <2>1. CASE k = 0
    <3>1. IsEscape([i \in 0 .. 0 |-> FALSE], bytes, 0)
      BY DEF IsEscape
    <3> QED
      BY <1>1, <2>1, <3>1
  <2>2. CASE k # 0
    <3>1. PICK e : IsEscape(e, bytes, k - 1)
      BY <1>1, <2>2
    <3> DEFINE g == [i \in 0 .. k |-> IF i = 0 THEN FALSE ELSE bytes[i] = 27 /\ ~e[i - 1]]
    <3>2. \A i \in 0 .. k - 1 : g[i] = e[i]
      <4> TAKE i \in 0 .. k - 1
      <4>1. e[i] = IF i = 0 THEN FALSE ELSE bytes[i] = 27 /\ ~e[i - 1]
        BY <3>1 DEF IsEscape
      <4>2. i \in 0 .. k
        BY <2>2
      <4>3. g[i] = IF i = 0 THEN FALSE ELSE bytes[i] = 27 /\ ~e[i - 1]
        BY <4>2
      <4> HIDE DEF g
      <4> QED
        BY <4>1, <4>3
    <3>3. \A i \in 0 .. k : i # 0 => g[i - 1] = e[i - 1]
      <4> HIDE DEF g
      <4>1. \A i \in 0 .. k : i # 0 => i - 1 \in 0 .. k - 1
        BY <2>2
      <4> QED
        BY <3>2, <4>1
    <3>4. g = [i \in 0 .. k |-> IF i = 0 THEN FALSE ELSE bytes[i] = 27 /\ ~g[i - 1]]
      <4>1. \A i \in 0 .. k :
              g[i] = IF i = 0 THEN FALSE ELSE bytes[i] = 27 /\ ~g[i - 1]
        <5> TAKE i \in 0 .. k
        <5>1. g[i] = IF i = 0 THEN FALSE ELSE bytes[i] = 27 /\ ~e[i - 1]
          OBVIOUS
        <5> HIDE DEF g
        <5> QED
          BY <3>3, <5>1
      <4> QED
        BY <4>1
    <3> HIDE DEF g
    <3>5. IsEscape(g, bytes, k)
      BY <3>4 DEF IsEscape
    <3> QED
      BY <1>1, <3>5
  <2> QED
    BY <2>1, <2>2
<1>2. T = 0 .. n
  BY <1>1, FirstFailure
<1>3. n \in 0 .. n
  OBVIOUS
<1> HIDE DEF T
<1>4. n \in T
  BY <1>2, <1>3
<1> QED
  BY <1>4 DEF T

Pieces(e, bytes) ==
  [i \in DOMAIN bytes |->
     IF e[i] THEN <<>> ELSE IF e[i - 1] THEN <<255 - bytes[i]>> ELSE <<bytes[i]>>]

\* Unstuff goes by them.
LEMMA UnstuffIs ==
  ASSUME NEW bytes \in Seq(Nat)
  PROVE  \E e : /\ IsEscape(e, bytes, Len(bytes))
                /\ Kmp!Unstuff(bytes) = FlattenSeq(Pieces(e, bytes))
<1> DEFINE n == Len(bytes)
           e == CHOOSE f : f = [i \in 0 .. n |->
                                  IF i = 0 THEN FALSE ELSE bytes[i] = 27 /\ ~f[i - 1]]
<1>1. n \in Nat
  OBVIOUS
<1>2. IsEscape(e, bytes, n)
  <2>1. \E f : IsEscape(f, bytes, n)
    BY <1>1, EscapeExists
  <2>2. \E f : f = [i \in 0 .. n |-> IF i = 0 THEN FALSE ELSE bytes[i] = 27 /\ ~f[i - 1]]
    BY <2>1 DEF IsEscape
  <2> QED
    BY <2>2, Zenon DEF IsEscape
<1>3. Kmp!Unstuff(bytes) = Kmp!FlattenSeq(Pieces(e, bytes))
  BY DEF Kmp!Unstuff, Pieces
<1> QED
  BY <1>2, <1>3, SameFlatten

\* No byte is 0, and no byte that is turned over is 255, and so none becomes 0.
Clean(bytes) ==
  \A i \in 1 .. Len(bytes) :
    /\ bytes[i] # 0
    /\ i > 1 /\ bytes[i - 1] = 27 => bytes[i] # 255

LEMMA UnstuffClean ==
  ASSUME NEW bytes \in Seq(Nat), Clean(bytes)
  PROVE  Kmp!Unstuff(bytes) \in Seq(Int \ {0})
<1>1. PICK e : /\ IsEscape(e, bytes, Len(bytes))
               /\ Kmp!Unstuff(bytes) = FlattenSeq(Pieces(e, bytes))
  BY UnstuffIs
<1>2. \A i \in 0 .. Len(bytes) :
        e[i] = IF i = 0 THEN FALSE ELSE bytes[i] = 27 /\ ~e[i - 1]
  BY <1>1 DEF IsEscape
<1> DEFINE Turned == Int \ {0}
<1>3. ASSUME NEW i \in DOMAIN bytes PROVE Pieces(e, bytes)[i] \in Seq(Turned)
  <2>1. i \in 1 .. Len(bytes) /\ bytes[i] \in Nat /\ bytes[i] # 0
    BY DEF Clean
  <2>2. CASE e[i]
    BY <2>2 DEF Pieces
  <2>3. CASE ~e[i] /\ e[i - 1]
    <3>1. i - 1 \in 0 .. Len(bytes)
      BY <2>1
    <3>2. i - 1 # 0 /\ bytes[i - 1] = 27
      BY <1>2, <2>3, <3>1
    <3>3. bytes[i] # 255
      BY <2>1, <3>2 DEF Clean
    <3>4. Pieces(e, bytes)[i] = <<255 - bytes[i]>>
      BY <2>3 DEF Pieces
    <3>5. 255 - bytes[i] \in Turned
      BY <2>1, <3>3
    <3> HIDE DEF Turned
    <3> QED
      BY <3>4, <3>5
  <2>4. CASE ~e[i] /\ ~e[i - 1]
    <3>1. Pieces(e, bytes)[i] = <<bytes[i]>>
      BY <2>4 DEF Pieces
    <3>2. bytes[i] \in Turned
      BY <2>1
    <3> HIDE DEF Turned
    <3> QED
      BY <3>1, <3>2
  <2> QED
    BY <2>2, <2>3, <2>4
<1> HIDE DEF Turned
<1>4. Pieces(e, bytes) \in Seq(Seq(Turned))
  <2>1. DOMAIN Pieces(e, bytes) = 1 .. Len(bytes) /\ DOMAIN bytes = 1 .. Len(bytes)
        /\ Len(bytes) \in Nat
    BY DEF Pieces
  <2>2. Pieces(e, bytes) = [i \in 1 .. Len(bytes) |-> Pieces(e, bytes)[i]]
    BY <2>1 DEF Pieces
  <2> QED
    BY <1>3, <2>1, <2>2, IsASeq
<1>5. FlattenSeq(Pieces(e, bytes)) \in Seq(Turned)
  BY <1>4, FlattenType
<1> QED
  BY <1>1, <1>5 DEF Turned

\* So no frame that is decoded says 0.
LEMMA DecodesNonzero ==
  ASSUME NEW frame \in Seq(Nat), Clean(frame), Kmp!Decodes(frame)
  PROVE  Kmp!Body(frame)[3] # 0
<1> DEFINE U == Kmp!Unstuff(Tail(frame))
           P == Kmp!Plain(frame)
<1>1. Len(frame) \in Nat /\ Len(frame) >= 6 /\ frame # <<>> /\ Len(P) >= 6
  BY DEF Kmp!Decodes
<1>2. /\ Tail(frame) \in Seq(Nat) /\ Len(Tail(frame)) = Len(frame) - 1
      /\ \A i \in 1 .. Len(Tail(frame)) : Tail(frame)[i] = frame[i + 1]
  BY <1>1, HeadTailProperties
<1>3. Clean(Tail(frame))
  <2> SUFFICES ASSUME NEW i \in 1 .. Len(Tail(frame))
               PROVE  /\ Tail(frame)[i] # 0
                      /\ i > 1 /\ Tail(frame)[i - 1] = 27 => Tail(frame)[i] # 255
    BY DEF Clean
  <2>1. i + 1 \in 1 .. Len(frame) /\ i \in 1 .. Len(frame) /\ (i + 1) - 1 = i /\ (i - 1) + 1 = i
    BY <1>1, <1>2
  <2>2. frame[i + 1] # 0 /\ (frame[i] = 27 => frame[i + 1] # 255)
    BY <2>1 DEF Clean
  <2>3. i > 1 => Tail(frame)[i - 1] = frame[i]
    <3>1. i > 1 => i - 1 \in 1 .. Len(Tail(frame))
      BY <1>1, <1>2
    <3> QED
      BY <1>2, <2>1, <3>1
  <2> QED
    BY <1>2, <2>2, <2>3
<1>4. U \in Seq(Int \ {0})
  BY <1>2, <1>3, UnstuffClean
<1>5. P = <<frame[1]>> \o U /\ frame[1] \in Nat
  BY <1>1, ElementOfSeq DEF Kmp!Plain
<1>6. Kmp!Body(frame) = SubSeq(P, 2, Len(P) - 2)
  BY DEF Kmp!Body
<1> HIDE DEF U, P
<1>7. P \in Seq(Int) /\ Len(P) = 1 + Len(U) /\ Len(U) \in Nat /\ U \in Seq(Int)
      /\ \A i \in 1 .. Len(U) : P[i + 1] = U[i] /\ U[i] # 0
  BY <1>4, <1>5
<1>8. Len(P) \in Nat /\ Len(U) >= 5 /\ P[4] = U[3] /\ U[3] # 0
  <2>1. Len(P) \in Nat /\ Len(U) >= 5 /\ 3 \in 1 .. Len(U) /\ 3 + 1 = 4
    BY <1>1, <1>7 DEF P
  <2> QED
    BY <1>7, <2>1
<1>9. SubSeq(P, 2, Len(P) - 2)[3] = P[4]
  BY <1>7, <1>8
<1> QED
  BY <1>6, <1>8, <1>9

\* What is clean and ends with no escape can be followed by anything clean.
Closed(bytes) ==
  /\ bytes \in Seq(Nat) /\ Clean(bytes)
  /\ Len(bytes) > 0 => bytes[Len(bytes)] # 27

LEMMA ClosedConcat ==
  ASSUME NEW s, NEW t, Closed(s), Closed(t)
  PROVE  Closed(s \o t)
<1> DEFINE u == s \o t
<1>1. s \in Seq(Nat) /\ t \in Seq(Nat) /\ Len(s) \in Nat /\ Len(t) \in Nat
  BY DEF Closed
<1>2. /\ u \in Seq(Nat) /\ Len(u) = Len(s) + Len(t)
      /\ \A i \in 1 .. Len(s) : u[i] = s[i]
      /\ \A i \in 1 .. Len(t) : u[Len(s) + i] = t[i]
  BY <1>1
<1> HIDE DEF u
<1>3. ASSUME NEW i \in 1 .. Len(u) PROVE u[i] # 0 /\ (i > 1 /\ u[i - 1] = 27 => u[i] # 255)
  <2>1. CASE i <= Len(s)
    <3>1. i \in 1 .. Len(s) /\ u[i] = s[i]
      BY <1>1, <1>2, <2>1
    <3>2. i > 1 => u[i - 1] = s[i - 1]
      <4>1. i > 1 => i - 1 \in 1 .. Len(s)
        BY <1>1, <3>1
      <4> QED
        BY <1>2, <4>1
    <3> QED
      BY <3>1, <3>2 DEF Closed, Clean
  <2>2. CASE i > Len(s)
    <3> DEFINE j == i - Len(s)
    <3>1. j \in 1 .. Len(t) /\ Len(s) + j = i
      BY <1>1, <1>2, <2>2
    <3>2. u[i] = t[j]
      <4>1. u[Len(s) + j] = t[j]
        BY <1>2, <3>1
      <4> QED
        BY <3>1, <4>1
    <3>3. CASE j = 1
      <4>1. i > 1 => i - 1 = Len(s) /\ Len(s) > 0 /\ Len(s) \in 1 .. Len(s)
        BY <1>1, <3>1, <3>3
      <4>2. i > 1 => u[i - 1] = s[Len(s)]
        BY <1>2, <4>1
      <4>3. i > 1 => u[i - 1] # 27
        BY <4>1, <4>2 DEF Closed
      <4> QED
        BY <3>1, <3>2, <4>3 DEF Closed, Clean
    <3>4. CASE j # 1
      <4>1. j - 1 \in 1 .. Len(t) /\ Len(s) + (j - 1) = i - 1 /\ j > 1
        BY <1>1, <3>1, <3>4
      <4>2. u[i - 1] = t[j - 1]
        <5>1. u[Len(s) + (j - 1)] = t[j - 1]
          BY <1>2, <4>1
        <5> QED
          BY <4>1, <5>1
      <4> HIDE DEF j
      <4> QED
        BY <3>1, <3>2, <4>1, <4>2 DEF Closed, Clean
    <3> QED
      BY <3>3, <3>4
  <2> QED
    BY <1>1, <1>2, <2>1, <2>2
<1>4. Len(u) > 0 => u[Len(u)] # 27
  <2>1. CASE Len(t) > 0
    <3>1. Len(t) \in 1 .. Len(t)
      BY <1>1, <2>1
    <3>2. u[Len(s) + Len(t)] = t[Len(t)]
      BY <1>2, <3>1
    <3> QED
      BY <1>2, <2>1, <3>2 DEF Closed
  <2>2. CASE Len(t) = 0 /\ Len(s) > 0
    <3>1. Len(u) = Len(s) /\ Len(s) \in 1 .. Len(s)
      BY <1>1, <1>2, <2>2
    <3>2. u[Len(u)] = s[Len(s)]
      BY <1>2, <3>1
    <3> QED
      BY <2>2, <3>2 DEF Closed
  <2> QED
    BY <1>1, <1>2, <2>1, <2>2
<1> QED
  BY <1>2, <1>3, <1>4 DEF Closed, Clean, u

\* So the concatenation of closed pieces is closed.
LEMMA FlattenClosed ==
  ASSUME NEW ss \in Seq(Seq(Nat)), \A i \in 1 .. Len(ss) : Closed(ss[i])
  PROVE  Closed(FlattenSeq(ss))
<1> DEFINE n == Len(ss)
<1>1. n \in Nat /\ n \in 0 .. n
  OBVIOUS
<1>2. PICK f : IsPrefixes(f, ss, n)
  BY <1>1, PrefixesExist
<1> HIDE DEF n
<1> DEFINE T == {i \in 0 .. n : Closed(f[i])}
<1>3. Closed(<<>>)
  BY DEF Closed, Clean
<1>4. ASSUME NEW i \in 0 .. n, i \notin T, i = 0 \/ i - 1 \in T
      PROVE  FALSE
  <2>1. CASE i = 0
    BY <1>2, <1>3, <1>4, <2>1 DEF IsPrefixes
  <2>2. CASE i # 0
    <3>1. i \in 1 .. n /\ Closed(f[i - 1])
      BY <1>1, <1>4, <2>2
    <3>2. f[i] = f[i - 1] \o ss[i] /\ Closed(ss[i])
      BY <1>2, <3>1 DEF IsPrefixes, n
    <3>3. Closed(f[i])
      BY <3>1, <3>2, ClosedConcat
    <3> QED
      BY <1>4, <3>3
  <2> QED
    BY <2>1, <2>2
<1>5. T = 0 .. n
  BY <1>1, <1>4, FirstFailure
<1>6. Closed(f[n])
  <2>1. n \in T
    BY <1>1, <1>5
  <2> QED
    BY <2>1
<1>7. FlattenSeq(ss) = f[n]
  BY <1>2, FlattenIs DEF n
<1> QED
  BY <1>6, <1>7

\* A byte by itself, and one that is stuffed.
LEMMA ByteClosed == \A b \in Nat : b # 0 /\ b # 27 => Closed(<<b>>)
<1> TAKE b \in Nat
<1> HAVE b # 0 /\ b # 27
<1>1. <<b>> \in Seq(Nat) /\ Len(<<b>>) = 1 /\ <<b>>[1] = b
  OBVIOUS
<1> QED
  BY <1>1 DEF Closed, Clean

LEMMA EscapedClosed == \A b \in Kmp!Special : Closed(<<27, 255 - b>>)
<1> TAKE b \in Kmp!Special
<1> DEFINE c == 255 - b
           s == <<27, c>>
<1>1. c \in Nat /\ c # 0 /\ c # 27 /\ c # 255
  BY DEF Kmp!Special
<1> HIDE DEF c
<1>2. s \in Seq(Nat) /\ Len(s) = 2 /\ s[1] = 27 /\ s[2] = c
  BY <1>1
<1> HIDE DEF s
<1>3. Closed(s)
  BY <1>1, <1>2 DEF Closed, Clean
<1> QED
  BY <1>3 DEF s, c

LEMMA StuffClosed ==
  ASSUME NEW bytes \in Seq(Nat), \A i \in 1 .. Len(bytes) : bytes[i] # 0
  PROVE  Closed(Kmp!Stuff(bytes))
<1> DEFINE ss == [i \in DOMAIN bytes |->
                    IF bytes[i] \in Kmp!Special THEN <<27, 255 - bytes[i]>>
                                                ELSE <<bytes[i]>>]
<1>1. Kmp!Stuff(bytes) = FlattenSeq(ss)
  BY SameFlatten DEF Kmp!Stuff
<1>2. DOMAIN bytes = 1 .. Len(bytes) /\ Len(bytes) \in Nat
  OBVIOUS
<1>3. ASSUME NEW i \in 1 .. Len(bytes) PROVE Closed(ss[i])
  <2>1. bytes[i] \in Nat /\ bytes[i] # 0
    OBVIOUS
  <2>2. CASE bytes[i] \in Kmp!Special
    <3>1. ss[i] = <<27, 255 - bytes[i]>>
      BY <1>2, <2>2
    <3> HIDE DEF ss
    <3> QED
      BY <2>2, <3>1, EscapedClosed
  <2>3. CASE bytes[i] \notin Kmp!Special
    <3>1. ss[i] = <<bytes[i]>>
      BY <1>2, <2>3
    <3>2. bytes[i] # 27
      BY <2>3 DEF Kmp!Special
    <3> HIDE DEF ss
    <3> QED
      BY <2>1, <3>1, <3>2, ByteClosed
  <2> QED
    BY <2>2, <2>3
<1>4. ss = [i \in 1 .. Len(bytes) |-> ss[i]]
  BY <1>2
<1>5. DOMAIN ss = 1 .. Len(bytes)
  BY <1>2
<1> HIDE DEF ss
<1>6. \A i \in 1 .. Len(bytes) : ss[i] \in Seq(Nat)
  BY <1>3 DEF Closed
<1>7. ss \in Seq(Seq(Nat))
  BY <1>2, <1>4, <1>6, IsASeq
<1>8. Len(ss) = Len(bytes)
  BY <1>2, <1>5, <1>7
<1> QED
  BY <1>1, <1>3, <1>7, <1>8, FlattenClosed

LEMMA AppendNonzero ==
  ASSUME NEW bytes \in Seq(Nat), \A i \in 1 .. Len(bytes) : bytes[i] # 0,
         NEW b \in Nat, b # 0
  PROVE  /\ Append(bytes, b) \in Seq(Nat)
         /\ \A i \in 1 .. Len(Append(bytes, b)) : Append(bytes, b)[i] # 0
<1> DEFINE n == Len(bytes)
<1>1. n \in Nat /\ Append(bytes, b) \in Seq(Nat) /\ Len(Append(bytes, b)) = n + 1
  OBVIOUS
<1>2. \A i \in 1 .. n : Append(bytes, b)[i] = bytes[i]
  OBVIOUS
<1>3. Append(bytes, b)[n + 1] = b
  OBVIOUS
<1>4. \A i \in 1 .. n + 1 : i \in 1 .. n \/ i = n + 1
  BY <1>1
<1>5. \A i \in 1 .. n : bytes[i] # 0
  OBVIOUS
<1> HIDE DEF n
<1> QED
  BY <1>1, <1>2, <1>3, <1>4, <1>5

\* So an answer is clean, also with a byte that is wrong.
LEMMA AnswerClosed ==
  ASSUME NEW cid \in {2, 16}, NEW value \in Nat, value # 0
  PROVE  /\ Closed(Kmp!Answer(cid, value)) /\ Kmp!Answer(cid, value)[1] = 64
         /\ Len(Kmp!Answer(cid, value)) > 0
<1> DEFINE body == <<63, cid, value>>
           all == Append(body, Kmp!Crc(body))
<1>1. body \in Seq(Nat) /\ Len(body) = 3 /\ \A i \in 1 .. 3 : body[i] # 0
  OBVIOUS
<1> HIDE DEF body
<1>2. Kmp!Crc(body) \in Nat /\ Kmp!Crc(body) # 0
  BY <1>1, CrcPositive
<1>3. all \in Seq(Nat) /\ \A i \in 1 .. Len(all) : all[i] # 0
  <2>1. \A i \in 1 .. Len(body) : body[i] # 0
    BY <1>1
  <2> QED
    BY <1>1, <1>2, <2>1, AppendNonzero
<1> HIDE DEF all
<1> DEFINE s == Kmp!Stuff(all)
<1>4. Closed(s)
  BY <1>3, StuffClosed
<1>5. Kmp!Answer(cid, value) = (<<64>> \o s) \o <<13>>
  BY DEF Kmp!Answer, all, body
<1> HIDE DEF s
<1>6. Closed(<<64>>) /\ Closed(<<13>>)
  BY ByteClosed
<1>7. Closed((<<64>> \o s) \o <<13>>)
  BY <1>4, <1>6, ClosedConcat
<1>8. ((<<64>> \o s) \o <<13>>)[1] = 64 /\ Len((<<64>> \o s) \o <<13>>) > 0
  BY <1>4 DEF Closed
<1> QED
  BY <1>5, <1>7, <1>8

LEMMA GarbledClean ==
  ASSUME NEW frame \in Seq(Nat), Clean(frame), NEW i \in DOMAIN frame
  PROVE  /\ [frame EXCEPT ![i] = 127] \in Seq(Nat)
         /\ Clean([frame EXCEPT ![i] = 127])
<1> DEFINE g == [frame EXCEPT ![i] = 127]
<1>1. /\ g \in Seq(Nat) /\ Len(g) = Len(frame) /\ Len(frame) \in Nat
      /\ \A k \in 1 .. Len(frame) : g[k] = IF k = i THEN 127 ELSE frame[k]
  OBVIOUS
<1> HIDE DEF g
<1>2. Clean(g)
  <2> SUFFICES ASSUME NEW k \in 1 .. Len(g)
               PROVE  g[k] # 0 /\ (k > 1 /\ g[k - 1] = 27 => g[k] # 255)
    BY DEF Clean
  <2>1. frame[k] # 0 /\ (k > 1 /\ frame[k - 1] = 27 => frame[k] # 255)
    BY <1>1 DEF Clean
  <2>2. g[k] \in {127, frame[k]}
    BY <1>1
  <2>3. k > 1 => g[k - 1] \in {127, frame[k - 1]}
    <3>1. k > 1 => k - 1 \in 1 .. Len(frame)
      BY <1>1
    <3> QED
      BY <1>1, <3>1
  <2> QED
    BY <2>1, <2>2, <2>3
<1> QED
  BY <1>1, <1>2 DEF g

\* What is on the line and in the FIFO is clean, and stays clean when more of the
\* line comes into the FIFO; a FIFO that is full has lost something.
LineOK ==
  /\ fifo \in Seq(Nat) /\ wire \in Seq(Nat) /\ cmds \in Seq({2, 16})
  /\ meter \in Nat /\ meter # 0 /\ Len(fifo) <= QueueSize
  /\ Clean(fifo) /\ Clean(wire)
  /\ 0 < Len(fifo) /\ Len(fifo) < QueueSize /\ 0 < Len(wire)
       /\ fifo[Len(fifo)] = 27 => wire[1] # 255

\* The device subscribes only after it has a serial number, which it keeps.
NamedOK == ("rpc" \in armed => kmp_serial # 0) /\ 0 \notin subscribed

\* The part of KmpAssumption that is needed.
MeterGiven ==
  QueueSize \in Nat /\ Serial \in Nat /\ Serial # 0 /\ FirstEnergy \in Nat /\ FirstEnergy # 0

\* Bytes taken from a clean line.
Fits(f, w, m) == 0 < Len(f) /\ 0 < m /\ f[Len(f)] = 27 => w[1] # 255

LEMMA ClippedClean ==
  ASSUME NEW f \in Seq(Nat), NEW w \in Seq(Nat), NEW m \in 0 .. Len(w),
         Clean(f), Clean(w), Fits(f, w, m)
  PROVE  /\ f \o SubSeq(w, 1, m) \in Seq(Nat) /\ Clean(f \o SubSeq(w, 1, m))
         /\ Len(f \o SubSeq(w, 1, m)) = Len(f) + m
         /\ 0 < m => (f \o SubSeq(w, 1, m))[Len(f) + m] = w[m]
<1> DEFINE g == f \o SubSeq(w, 1, m)
<1>1. Len(f) \in Nat /\ Len(w) \in Nat /\ m \in Nat /\ m <= Len(w)
  OBVIOUS
<1>2. /\ SubSeq(w, 1, m) \in Seq(Nat) /\ Len(SubSeq(w, 1, m)) = m
      /\ \A i \in 1 .. m : SubSeq(w, 1, m)[i] = w[i]
  BY <1>1
<1>3. /\ g \in Seq(Nat) /\ Len(g) = Len(f) + m
      /\ \A i \in 1 .. Len(f) : g[i] = f[i]
      /\ \A i \in 1 .. m : g[Len(f) + i] = w[i]
  BY <1>1, <1>2
<1> HIDE DEF g
<1>4. ASSUME NEW i \in 1 .. Len(g) PROVE g[i] # 0 /\ (i > 1 /\ g[i - 1] = 27 => g[i] # 255)
  <2>0. i \in Nat /\ 1 <= i /\ i <= Len(f) + m
    BY <1>1, <1>3
  <2>1. CASE i <= Len(f)
    <3>0. i \in 1 .. Len(f)
      BY <1>1, <2>0, <2>1
    <3>1. i \in 1 .. Len(f) /\ g[i] = f[i]
      BY <1>3, <3>0
    <3>2. i > 1 => g[i - 1] = f[i - 1]
      <4>1. i > 1 => i - 1 \in 1 .. Len(f)
        BY <1>1, <3>1
      <4> QED
        BY <1>3, <4>1
    <3> QED
      BY <3>1, <3>2 DEF Clean
  <2>2. CASE i > Len(f)
    <3> DEFINE j == i - Len(f)
    <3>1. j \in 1 .. m /\ j \in 1 .. Len(w) /\ Len(f) + j = i
      BY <1>1, <2>0, <2>2
    <3>2. g[i] = w[j]
      <4>1. g[Len(f) + j] = w[j]
        BY <1>3, <3>1
      <4> QED
        BY <3>1, <4>1
    <3>3. CASE j = 1
      <4>1. i > 1 => i - 1 = Len(f) /\ 0 < Len(f) /\ Len(f) \in 1 .. Len(f)
        BY <1>1, <3>1, <3>3
      <4>2. i > 1 => g[i - 1] = f[Len(f)]
        BY <1>3, <4>1
      <4>3. 0 < m /\ w[j] = w[1]
        BY <1>1, <3>1, <3>3
      <4>4. w[j] # 0
        BY <3>1 DEF Clean
      <4> HIDE DEF j
      <4> QED
        BY <3>2, <4>1, <4>2, <4>3, <4>4 DEF Fits
    <3>4. CASE j # 1
      <4>0. j \in Nat /\ j >= 1 /\ j <= m /\ i = Len(f) + j
        BY <1>1, <2>0, <3>1
      <4>1. j - 1 \in 1 .. m /\ Len(f) + (j - 1) = i - 1 /\ j > 1
        <5> HIDE DEF j
        <5> QED
          BY <1>1, <3>4, <4>0
      <4>2. g[i - 1] = w[j - 1]
        <5>1. g[Len(f) + (j - 1)] = w[j - 1]
          BY <1>3, <4>1
        <5> QED
          BY <4>1, <5>1
      <4> HIDE DEF j
      <4> QED
        BY <3>1, <3>2, <4>1, <4>2 DEF Clean
    <3> QED
      BY <3>3, <3>4
  <2> QED
    BY <1>1, <1>3, <2>1, <2>2
<1>5. 0 < m => g[Len(f) + m] = w[m]
  BY <1>1, <1>3
<1> QED
  BY <1>3, <1>4, <1>5 DEF Clean, g

\* What is left of it behind n bytes.
Remains(w, n, r) ==
  r \in Seq(Nat) /\ Clean(r) /\ (0 < Len(r) /\ w[n] = 27 => r[1] # 255)

LEMMA RestClean ==
  ASSUME NEW w \in Seq(Nat), Clean(w), NEW n \in 1 .. Len(w)
  PROVE  Remains(w, n, SubSeq(w, n + 1, Len(w)))
<1> DEFINE r == SubSeq(w, n + 1, Len(w))
<1>1. n \in Nat /\ Len(w) \in Nat /\ n >= 1 /\ n <= Len(w)
  OBVIOUS
<1>2. /\ r \in Seq(Nat) /\ Len(r) = Len(w) - n
      /\ \A i \in 1 .. Len(w) - n : r[i] = w[i + n]
  BY <1>1
<1> HIDE DEF r
<1>3. ASSUME NEW i \in 1 .. Len(r)
      PROVE  r[i] # 0 /\ (w[(i + n) - 1] = 27 => r[i] # 255)
  <2>1. i + n \in 1 .. Len(w) /\ i + n > 1 /\ i \in 1 .. Len(w) - n
    BY <1>1, <1>2
  <2>2. r[i] = w[i + n]
    BY <1>2, <2>1
  <2> QED
    BY <2>1, <2>2 DEF Clean
<1>4. ASSUME NEW i \in 1 .. Len(r), i > 1 PROVE r[i - 1] = w[(i + n) - 1]
  <2>1. i - 1 \in 1 .. Len(w) - n /\ (i - 1) + n = (i + n) - 1
    BY <1>1, <1>2, <1>4
  <2>2. r[i - 1] = w[(i - 1) + n]
    BY <1>2, <2>1
  <2> QED
    BY <2>1, <2>2
<1>5. Clean(r)
  BY <1>3, <1>4 DEF Clean
<1>6. 0 < Len(r) /\ w[n] = 27 => r[1] # 255
  <2>1. 0 < Len(r) => 1 \in 1 .. Len(r)
    BY <1>1, <1>2
  <2>2. (1 + n) - 1 = n
    BY <1>1
  <2> QED
    BY <1>3, <2>1, <2>2
<1> QED
  BY <1>2, <1>5, <1>6 DEF Remains, r

\* The interrupt handler.
LEMMA ReceiveLine ==
  ASSUME LineOK, QueueSize \in Nat, Kmp!Receive
  PROVE  LineOK'
<1>1. PICK n \in DOMAIN wire :
        /\ wire' = SubSeq(wire, n + 1, Len(wire))
        /\ fifo' = fifo \o SubSeq(wire, 1, IF n < Kmp!Room THEN n ELSE Kmp!Room)
        /\ UNCHANGED <<meter, cmds>>
  BY DEF Kmp!Receive
<1> DEFINE m == IF n < Kmp!Room THEN n ELSE Kmp!Room
<1>2. /\ wire \in Seq(Nat) /\ fifo \in Seq(Nat) /\ Clean(wire) /\ Clean(fifo)
      /\ Len(wire) \in Nat /\ Len(fifo) \in Nat /\ Len(fifo) <= QueueSize
      /\ n \in 1 .. Len(wire) /\ n \in Nat /\ 0 < Len(wire)
  BY DEF LineOK
<1>3. /\ Kmp!Room = QueueSize - Len(fifo) /\ m \in 0 .. Len(wire) /\ m <= n
      /\ Len(fifo) + m <= QueueSize /\ (Len(fifo) + m < QueueSize => m = n)
      /\ 0 < m => Len(fifo) < QueueSize
  BY <1>2 DEF Kmp!Room
<1>4. fifo' = fifo \o SubSeq(wire, 1, m)
  BY <1>1
<1> HIDE DEF m
<1>5. Fits(fifo, wire, m)
  BY <1>2, <1>3 DEF LineOK, Fits
<1>6. /\ fifo' \in Seq(Nat) /\ Clean(fifo') /\ Len(fifo') = Len(fifo) + m
      /\ 0 < m => fifo'[Len(fifo) + m] = wire[m]
  <2>1. PICK f, w : f = fifo /\ w = wire
    OBVIOUS
  <2>2. /\ f \in Seq(Nat) /\ w \in Seq(Nat) /\ m \in 0 .. Len(w)
        /\ Clean(f) /\ Clean(w) /\ Fits(f, w, m)
    BY <1>2, <1>3, <1>5, <2>1
  <2> QED
    BY <1>4, <2>1, <2>2, ClippedClean
<1>7. /\ wire' \in Seq(Nat) /\ Clean(wire')
      /\ 0 < Len(wire') /\ wire[n] = 27 => wire'[1] # 255
  <2>1. Remains(wire, n, SubSeq(wire, n + 1, Len(wire)))
    BY <1>2, RestClean
  <2> QED
    BY <1>1, <2>1 DEF Remains
<1>8. Len(fifo') < QueueSize /\ 0 < Len(wire') /\ fifo'[Len(fifo')] = 27 => wire'[1] # 255
  <2>1. Len(fifo') < QueueSize => m = n /\ fifo'[Len(fifo')] = wire[n]
    BY <1>2, <1>3, <1>6
  <2> QED
    BY <1>7, <2>1
<1>9. Clean(fifo)' /\ Clean(wire)'
  BY <1>6, <1>7 DEF Clean
<1> QED
  BY <1>1, <1>2, <1>3, <1>6, <1>7, <1>8, <1>9 DEF LineOK

\* The meter's answers.
LEMMA AnswersLine ==
  ASSUME LineOK, MeterGiven, Kmp!MeterAnswers
  PROVE  LineOK'
<1> DEFINE cid == Head(cmds)
           value == IF Head(cmds) = 2 THEN Serial ELSE meter
           frame == Kmp!Answer(cid, value)
<1>1. /\ cmds # <<>> /\ cmds' = Tail(cmds) /\ UNCHANGED <<fifo, meter>>
      /\ wire' = frame \/ wire' = <<>>
           \/ \E i \in DOMAIN frame : wire' = [frame EXCEPT ![i] = 127]
  BY DEF Kmp!MeterAnswers, Kmp!Firmware, Kmp!input
<1>2. cid \in {2, 16} /\ cmds' \in Seq({2, 16})
  BY <1>1 DEF LineOK
<1>3. value \in Nat /\ value # 0
  BY DEF MeterGiven, LineOK
<1> HIDE DEF cid, value
<1>4. Closed(frame) /\ frame[1] = 64 /\ Len(frame) > 0
  BY <1>2, <1>3, AnswerClosed
<1> HIDE DEF frame
<1>5. frame \in Seq(Nat) /\ Clean(frame)
  BY <1>4 DEF Closed
<1>6. wire' \in Seq(Nat) /\ Clean(wire') /\ (Len(wire') > 0 => wire'[1] # 255)
  <2>1. CASE wire' = frame
    BY <1>4, <1>5, <2>1
  <2>2. CASE wire' = <<>>
    BY <2>2 DEF Clean
  <2>3. ASSUME NEW i \in DOMAIN frame, wire' = [frame EXCEPT ![i] = 127]
        PROVE  wire' \in Seq(Nat) /\ Clean(wire') /\ wire'[1] # 255
    <3>1. wire' \in Seq(Nat) /\ Clean(wire')
      BY <1>5, <2>3, GarbledClean
    <3>2. wire'[1] \in {127, 64}
      <4>1. 1 \in DOMAIN frame
        BY <1>4, <1>5
      <4> QED
        BY <1>4, <2>3, <4>1
    <3> QED
      BY <3>1, <3>2
  <2> QED
    BY <1>1, <2>1, <2>2, <2>3
<1>7. Clean(fifo)' /\ Clean(wire)'
  BY <1>1, <1>6 DEF LineOK, Clean
<1> QED
  BY <1>1, <1>2, <1>6, <1>7 DEF LineOK

\* The line is not touched by the application, and the FIFO by the task only.
LEMMA SameLine ==
  ASSUME LineOK, UNCHANGED <<wire, meter>>, cmds' \in Seq({2, 16}),
         UNCHANGED fifo \/ fifo' = <<>>, QueueSize \in Nat
  PROVE  LineOK'
<1>1. CASE UNCHANGED fifo
  <2>1. Clean(fifo)' /\ Clean(wire)'
    BY <1>1 DEF LineOK, Clean
  <2> QED
    BY <1>1, <2>1 DEF LineOK
<1>2. CASE fifo' = <<>>
  <2>1. Clean(fifo)' /\ Clean(wire)'
    BY <1>2 DEF LineOK, Clean
  <2> QED
    BY <1>2, <2>1 DEF LineOK
<1> QED
  BY <1>1, <1>2

LEMMA TransmitCommands ==
  ASSUME LineOK, NEW cid \in {2, 16}, Kmp!Transmit(cid)
  PROVE  cmds' \in Seq({2, 16})
<1>1. cmds \in Seq({2, 16}) /\ Append(cmds, cid) \in Seq({2, 16})
  BY DEF LineOK
<1> QED
  BY <1>1 DEF Kmp!Transmit

\* No step but the interrupt handler and the meter brings bytes.
LEMMA StepLine ==
  LineOK /\ MeterGiven /\ [Kmp!Next]_(Kmp!vars) => LineOK'
<1> SUFFICES ASSUME LineOK, MeterGiven, [Kmp!Next]_(Kmp!vars) PROVE LineOK'
  OBVIOUS
<1> USE DEF Kmp!input, Kmp!line, Kmp!vars, Kmp!Application, Kmp!Firmware
<1>0. QueueSize \in Nat /\ cmds \in Seq({2, 16})
  BY DEF MeterGiven, LineOK
<1>1. CASE UNCHANGED <<fifo, wire, meter, cmds>>
  BY <1>0, <1>1, SameLine
<1>2. CASE Kmp!RequestTimer \/ Kmp!TimeoutTimer \/ Kmp!ConfigMode \/ Kmp!SampleMode
  BY <1>1, <1>2 DEF Kmp!RequestTimer, Kmp!TimeoutTimer, Kmp!ConfigMode, Kmp!SampleMode
<1>3. CASE Kmp!Connect \/ Kmp!Disconnect \/ Kmp!DeferTimer \/ Kmp!RpcTimer
  BY <1>1, <1>3 DEF Kmp!Connect, Kmp!Disconnect, Kmp!DeferTimer, Kmp!RpcTimer
<1>4. CASE Kmp!SampleFirst \/ Kmp!SampleTimer \/ Kmp!OtaBegins \/ Kmp!OtaEnds
           \/ UNCHANGED Kmp!vars
  BY <1>1, <1>4 DEF Kmp!SampleFirst, Kmp!SampleTimer, Kmp!OtaBegins, Kmp!OtaEnds
<1>5. CASE Kmp!SerialTimer
  <2>1. cmds' \in Seq({2, 16})
    BY <1>5, TransmitCommands DEF Kmp!SerialTimer
  <2> QED
    BY <1>0, <1>5, <2>1, SameLine DEF Kmp!SerialTimer
<1>6. CASE Kmp!RegisterTimer
  <2>1. cmds' \in Seq({2, 16})
    BY <1>6, TransmitCommands DEF Kmp!RegisterTimer
  <2> QED
    BY <1>0, <1>6, <2>1, SameLine DEF Kmp!RegisterTimer
<1>7. CASE Kmp!Receive
  BY <1>0, <1>7, ReceiveLine
<1>8. CASE Kmp!Task
  BY <1>0, <1>8, SameLine DEF Kmp!Task
<1>9. CASE Kmp!MeterCounts
  <2>1. meter' \in Nat /\ meter' # 0 /\ UNCHANGED <<fifo, wire, cmds>>
    BY <1>9 DEF Kmp!MeterCounts, LineOK
  <2> QED
    BY <2>1 DEF LineOK, Clean
<1>10. CASE Kmp!MeterAnswers
  BY <1>10, AnswersLine
<1>11. CASE Kmp!Plug
  <2>1. UNCHANGED <<fifo, meter>> /\ cmds' = <<>> /\ wire' = <<>>
    BY <1>11 DEF Kmp!Plug
  <2> QED
    BY <2>1 DEF LineOK, Clean
<1> QED
  BY <1>2, <1>3, <1>4, <1>5, <1>6, <1>7, <1>8, <1>9, <1>10, <1>11 DEF Kmp!Next

\* A request arms no announcement, and mqtt_connected_cb only with a serial number.
LEMMA RequestNamed ==
  ASSUME NEW timers, Kmp!RequestSend(timers)
  PROVE  "rpc" \in armed' => "rpc" \in timers
  BY DEF Kmp!RequestSend

LEMMA ConnectedNamed ==
  ASSUME NEW timers, Kmp!MqttConnected(timers)
  PROVE  "rpc" \in armed' => "rpc" \in timers \/ kmp_serial # 0
<1>1. CASE Kmp!NeedsSerial
  <2>1. Kmp!RequestSend(timers \cup Kmp!Deferred)
    BY <1>1 DEF Kmp!MqttConnected
  <2>2. "rpc" \in armed' => "rpc" \in timers \cup Kmp!Deferred
    BY <2>1, RequestNamed
  <2> QED
    BY <2>2 DEF Kmp!Deferred
<1>2. CASE ~Kmp!NeedsSerial
  BY <1>2 DEF Kmp!NeedsSerial
<1> QED
  BY <1>1, <1>2

LEMMA StepNamed ==
  LineOK /\ NamedOK /\ [Kmp!Next]_(Kmp!vars) => NamedOK'
<1> SUFFICES ASSUME LineOK, NamedOK, [Kmp!Next]_(Kmp!vars) PROVE NamedOK'
  OBVIOUS
<1> USE DEF Kmp!values, Kmp!mqtt, Kmp!vars, Kmp!Application, Kmp!Firmware
<1>1. CASE UNCHANGED <<kmp_serial, subscribed>> /\ ("rpc" \in armed' => "rpc" \in armed)
  BY <1>1 DEF NamedOK
<1>2. CASE Kmp!RequestTimer
  <2>1. "rpc" \in armed' => "rpc" \in armed \ {"request"}
    BY <1>2, RequestNamed DEF Kmp!RequestTimer
  <2> QED
    BY <1>1, <1>2, <2>1 DEF Kmp!RequestTimer
<1>3. CASE Kmp!SerialTimer \/ Kmp!RegisterTimer \/ Kmp!Receive
  BY <1>1, <1>3 DEF Kmp!SerialTimer, Kmp!RegisterTimer, Kmp!Receive
<1>4. CASE Kmp!TimeoutTimer
  <2>1. "rpc" \in armed' => "rpc" \in armed \ {"timeout"}
    BY <1>4, RequestNamed DEF Kmp!TimeoutTimer
  <2> QED
    BY <1>1, <1>4, <2>1 DEF Kmp!TimeoutTimer
<1>5. CASE Kmp!Task
  <2>1. UNCHANGED subscribed /\ (kmp_serial' = kmp_serial \/ kmp_serial' # 0)
    <3>1. CASE ~Kmp!Decodes(fifo)
      BY <1>5, <3>1 DEF Kmp!Task
    <3>2. CASE Kmp!Decodes(fifo)
      <4>1. Kmp!Body(fifo)[3] # 0
        BY <3>2, DecodesNonzero DEF LineOK
      <4>2. UNCHANGED kmp_serial \/ kmp_serial' = Kmp!Body(fifo)[3]
        BY <1>5, <3>2 DEF Kmp!Task
      <4>3. UNCHANGED subscribed
        BY <1>5 DEF Kmp!Task
      <4> QED
        BY <4>1, <4>2, <4>3
    <3> QED
      BY <3>1, <3>2
  <2>2. "rpc" \in armed' => "rpc" \in armed
    BY <1>5 DEF Kmp!Task, Kmp!MeterIsReady
  <2> QED
    BY <2>1, <2>2 DEF NamedOK
<1>6. CASE Kmp!ConfigMode \/ Kmp!SampleMode \/ Kmp!Disconnect
  BY <1>1, <1>6 DEF Kmp!ConfigMode, Kmp!SampleMode, Kmp!Disconnect
<1>7. CASE Kmp!Connect
  <2>1. "rpc" \in armed' => "rpc" \in armed \/ kmp_serial # 0
    BY <1>7, ConnectedNamed DEF Kmp!Connect
  <2>2. UNCHANGED <<kmp_serial, subscribed>>
    BY <1>7 DEF Kmp!Connect
  <2> QED
    BY <2>1, <2>2 DEF NamedOK
<1>8. CASE Kmp!DeferTimer
  <2>1. "rpc" \in armed' => "rpc" \in armed \ {"defer"} \/ kmp_serial # 0
    BY <1>8, ConnectedNamed DEF Kmp!DeferTimer
  <2>2. UNCHANGED <<kmp_serial, subscribed>>
    BY <1>8 DEF Kmp!DeferTimer
  <2> QED
    BY <2>1, <2>2 DEF NamedOK
<1>9. CASE Kmp!RpcTimer
  <2>1. "rpc" \in armed /\ UNCHANGED kmp_serial /\ subscribed' \subseteq subscribed \cup {kmp_serial}
    BY <1>9 DEF Kmp!RpcTimer
  <2> QED
    BY <2>1 DEF NamedOK
<1>10. CASE Kmp!SampleFirst
  <2>1. "rpc" \in armed' => "rpc" \in armed \ {"sample_first"}
    BY <1>10, RequestNamed DEF Kmp!SampleFirst
  <2> QED
    BY <1>1, <1>10, <2>1 DEF Kmp!SampleFirst
<1>11. CASE Kmp!SampleTimer
  <2>1. "rpc" \in armed' => "rpc" \in armed
    BY <1>11, RequestNamed DEF Kmp!SampleTimer
  <2> QED
    BY <1>1, <1>11, <2>1 DEF Kmp!SampleTimer
<1>12. CASE Kmp!MeterCounts \/ Kmp!MeterAnswers \/ Kmp!Plug \/ Kmp!OtaBegins
            \/ Kmp!OtaEnds \/ UNCHANGED Kmp!vars
  BY <1>1, <1>12 DEF Kmp!MeterCounts, Kmp!MeterAnswers, Kmp!Plug, Kmp!OtaBegins,
                     Kmp!OtaEnds
<1> QED
  BY <1>2, <1>3, <1>4, <1>5, <1>6, <1>7, <1>8, <1>9, <1>10, <1>11, <1>12 DEF Kmp!Next

\* No device takes commands in the name of meter 0 (mqtt_connected_cb, user_main.c
\* "so we don't subscribe to /config/v2/0000000/#"): it announces itself only with a
\* serial number, and no frame that is decoded, however its bytes are lost, cut,
\* joined or garbled, puts 0 in its place (kmp_byte_unstuff, uart0_rx_intr_handler).
THEOREM SubscribesCorrect ==
  ASSUME MeterGiven
  PROVE  Kmp!Spec => []Kmp!SubscribesAsItself
<1>1. Kmp!Init => LineOK /\ NamedOK
  <2> SUFFICES ASSUME Kmp!Init PROVE LineOK /\ NamedOK
    OBVIOUS
  <2>1. /\ fifo = <<>> /\ wire = <<>> /\ cmds = <<>> /\ meter = FirstEnergy
        /\ armed = {"request"} /\ subscribed = {}
    BY DEF Kmp!Init
  <2>2. <<>> \in Seq(Nat) /\ <<>> \in Seq({2, 16}) /\ Len(<<>>) = 0
    OBVIOUS
  <2>3. LineOK
    BY <2>1, <2>2 DEF LineOK, Clean, MeterGiven
  <2> QED
    BY <2>1, <2>3 DEF NamedOK
<1>2. LineOK /\ NamedOK /\ [Kmp!Next]_(Kmp!vars) => LineOK' /\ NamedOK'
  BY StepLine, StepNamed
<1>3. NamedOK => Kmp!SubscribesAsItself
  BY DEF NamedOK, Kmp!SubscribesAsItself
<1> QED
  BY <1>1, <1>2, <1>3, PTL DEF Kmp!Spec
=============================================================================
