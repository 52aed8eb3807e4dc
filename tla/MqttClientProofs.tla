--------------------------- MODULE MqttClientProofs ---------------------------
(* Theorems about the MQTT client for every value of its constants: any       *)
(* number of queued packets, calls, faults and restarts.                      *)
EXTENDS MqttClient, SequenceTheorems, TLAPS

-----------------------------------------------------------------------------
(* Helpers *)

\* The assumption on the constants, one constant at a time.
LEMMA ConstantsType ==
  /\ SendTimeout \in Nat \ {0} /\ ReconnectTimeout \in Nat \ {0}
  /\ ConnectTimeout \in Nat \ {0} /\ KeepAlive \in Nat \ {0}
  /\ TaskQueueSize \in Nat \ {0} /\ QueueMax \in Nat \ {0} /\ InBufMax \in Nat \ {0}
  /\ IdMax \in Nat \ {0} /\ DnsMax \in Nat \ {0}
  /\ MaxCalls \in Nat /\ MaxDown \in Nat /\ MaxFaults \in Nat /\ MaxRestarts \in Nat
  BY ConstantsAssumption DEF ConstantsAssumption

\* system_os_post never holds more than TaskQueueSize events.
LEMMA PostedType ==
  ASSUME NEW p \in 0..TaskQueueSize, NEW n \in Nat
  PROVE  Posted(p, n) \in 0..TaskQueueSize
  BY ConstantsType DEF Posted

\* append_message_id stays within the identifiers, and skips 0.
LEMMA NextIdType ==
  ASSUME NEW i \in 0..IdMax
  PROVE  NextId(i) \in 0..IdMax /\ NextId(i) \in Nat
  BY ConstantsType DEF NextId

\* A counted failure keeps the counter within its bound.
LEMMA FaultType ==
  ASSUME TypeBounds, NEW b \in BOOLEAN, Fault(b)
  PROVE  faults' \in 0..MaxFaults
  BY ConstantsType DEF TypeBounds, Fault

\* Dropping the link drops what is on it.
LEMMA DropLinkType ==
  ASSUME NEW l \in {"down", "syn", "closing"}, DropLink(l)
  PROVE  /\ link' \in {"down", "syn", "up", "session", "closing"}
         /\ c2s' \in Seq(Packet) /\ s2c' \in Seq(Packet) /\ unsent' \in Nat
  BY DEF DropLink

\* espconn_disconnect, whatever the state of the connection.
LEMMA EspconnDisconnectType ==
  ASSUME TypeNetwork, EspconnDisconnect
  PROVE  /\ link' \in {"down", "syn", "up", "session", "closing"}
         /\ c2s' \in Seq(Packet) /\ s2c' \in Seq(Packet) /\ unsent' \in Nat
  <1>1. CASE UNCHANGED tcp
    BY <1>1 DEF TypeNetwork, tcp
  <1>2. CASE DropLink("closing") \/ DropLink("down")
    BY <1>2, DropLinkType
  <1> QED
    BY <1>1, <1>2 DEF EspconnDisconnect

\* espconn_send, whether it succeeds or fails.
LEMMA EspconnSendType ==
  ASSUME TypeNetwork, TypeBounds, NEW ok \in BOOLEAN, NEW m \in Packet, EspconnSend(ok, m)
  PROVE  c2s' \in Seq(Packet) /\ unsent' \in Nat /\ faults' \in 0..MaxFaults
  BY ConstantsType DEF EspconnSend, Fault, TypeNetwork, TypeBounds

\* Clearing the exchange leaves nothing awaited and nothing buffered.
LEMMA ClearExchangeType == ClearExchange => TypeExchange' /\ inBuf' = <<>>
  <1>1. NoAck \in [wait : BOOLEAN, type : AckTypes, id : Nat]
    BY DEF NoAck, AckTypes
  <1>2. 0 \in 0..SendTimeout
    BY ConstantsType
  <1>3. NoPing \in [wait : BOOLEAN, tmo : 0..SendTimeout]
    BY <1>2 DEF NoPing
  <1> QED
    BY <1>1, <1>2, <1>3 DEF ClearExchange, TypeExchange

\* A control packet is a packet of the wire.
LEMMA CtlType ==
  ASSUME NEW t \in PacketTypes, NEW i \in Nat
  PROVE  Ctl(t, i) \in Packet
  BY DEF Ctl, Packet

\* What is queued is a packet of the wire.
LEMMA QueuedIsPacket == Queued \subseteq Packet
  BY DEF Queued, Packet, PacketTypes

\* The queue stays within its size whatever is put.
LEMMA QueuePutsType ==
  ASSUME TypeClient, NEW m \in Queued
  PROVE  QueuePuts(msgQueue, m) \in Seq(Queued) /\ Len(QueuePuts(msgQueue, m)) <= QueueMax
  BY ConstantsType DEF QueuePuts, Room, TypeClient

\* Removing the oldest element keeps a sequence a sequence, and no longer.
LEMMA PopType ==
  ASSUME TypeClient
  PROVE  Pop(msgQueue) \in Seq(Queued) /\ Len(Pop(msgQueue)) <= QueueMax
  <1>1. CASE msgQueue = <<>>
    BY <1>1 DEF Pop, TypeClient
  <1>2. CASE msgQueue # <<>>
    <2>1. /\ Tail(msgQueue) \in Seq(Queued) /\ Len(Tail(msgQueue)) = Len(msgQueue) - 1
      BY <1>2, HeadTailProperties DEF TypeClient
    <2> QED
      BY <1>2, <2>1, LenProperties, ConstantsType DEF Pop, TypeClient
  <1> QED
    BY <1>1, <1>2

\* A call of the API, whether it is accepted or rejected.
LEMMA EnqueueType ==
  ASSUME TypeClient, TypeBounds,
         NEW t \in {"PUBLISH", "SUBSCRIBE", "UNSUBSCRIBE", "PINGREQ"}, NEW q \in 0..2,
         Enqueue(t, q)
  PROVE  /\ message_id' \in 0..IdMax
         /\ msgQueue' \in Seq(Queued) /\ Len(msgQueue') <= QueueMax
         /\ accepted' \in Seq(Nat) /\ calls' \in 0..MaxCalls
  <1> DEFINE id == IF CarriesId(t, q) THEN NextId(message_id) ELSE 0
             m  == [type |-> t, qos |-> q, id |-> id, pay |-> calls + 1]
  <1>1. id \in 0..IdMax /\ id \in Nat
    <2>1. NextId(message_id) \in 0..IdMax /\ NextId(message_id) \in Nat
      BY NextIdType DEF TypeClient
    <2>2. 0 \in 0..IdMax
      BY ConstantsType
    <2> QED
      BY <2>1, <2>2
  <1>2. calls + 1 \in 0..MaxCalls /\ calls + 1 \in Nat
    BY ConstantsType DEF Enqueue, TypeBounds
  <1>3. m \in Queued
    BY <1>1, <1>2 DEF Queued
  <1>4. /\ calls' = calls + 1
        /\ message_id' = IF CarriesId(t, q) THEN id ELSE message_id
        /\ msgQueue' = QueuePuts(msgQueue, m)
        /\ accepted' \in {accepted, Append(accepted, calls + 1)}
    BY DEF Enqueue
  <1>5. QueuePuts(msgQueue, m) \in Seq(Queued) /\ Len(QueuePuts(msgQueue, m)) <= QueueMax
    BY <1>3, QueuePutsType
  <1>6. message_id' \in {message_id, id}
    BY <1>4
  <1>7. accepted' \in Seq(Nat)
    <2>1. accepted \in Seq(Nat) /\ Append(accepted, calls + 1) \in Seq(Nat)
      BY <1>2 DEF TypeBounds
    <2> QED
      BY <1>4, <2>1
  <1> HIDE DEF id, m
  <1> QED
    BY <1>1, <1>2, <1>4, <1>5, <1>6, <1>7 DEF TypeClient

-----------------------------------------------------------------------------
(* Receiving *)

\* The end of mqtt_tcpclient_recv.
LEMMA ConsumedType ==
  ASSUME NEW buf \in Seq(Packet), buf # <<>>, Len(buf) <= InBufMax,
         NEW p \in 0..TaskQueueSize, NEW s \in ConnStates, Consumed(buf, p, s)
  PROVE  /\ connState' \in ConnStates /\ posts' \in 0..TaskQueueSize
         /\ inBuf' \in Seq(Packet) /\ Len(inBuf') <= InBufMax
  <1>1. Tail(buf) \in Seq(Packet) /\ Len(Tail(buf)) = Len(buf) - 1
    BY HeadTailProperties
  <1>2. Len(buf) \in Nat /\ Len(<<>>) = 0 /\ <<>> \in Seq(Packet)
    OBVIOUS
  <1>3. Posted(p, 1) \in 0..TaskQueueSize
    BY PostedType
  <1>4. Len(Tail(buf)) <= InBufMax /\ Len(<<>>) <= InBufMax
    BY <1>1, <1>2, ConstantsType
  <1>5. inBuf' \in {<<>>, Tail(buf)} /\ posts' \in {p, Posted(p, 1)} /\ connState' = s
    BY DEF Consumed
  <1> QED
    BY <1>1, <1>2, <1>3, <1>4, <1>5

\* deliver_publish, with all the application may do in mqtt_data_cb.
LEMMA DeliverType ==
  ASSUME TypeOK, NEW buf \in Seq(Packet), buf # <<>>, Len(buf) <= InBufMax,
         NEW p \in 0..TaskQueueSize, NEW s \in ConnStates, Deliver(buf, p, s),
         UNCHANGED <<alive, pCon, tick>>, UNCHANGED bounds, faults' \in 0..MaxFaults
  PROVE  TypeClient' /\ TypeBounds'
  <1> USE DEF TypeOK
  <1>1. /\ connState' \in ConnStates /\ posts' \in 0..TaskQueueSize
        /\ inBuf' \in Seq(Packet) /\ Len(inBuf') <= InBufMax
    <2>1. Posted(p, 1) \in 0..TaskQueueSize /\ Posted(p, B(Room)) \in 0..TaskQueueSize
      BY PostedType DEF B
    <2>2. "TCP_DISCONNECTING" \in ConnStates
      BY DEF ConnStates
    <2> QED
      BY <2>1, <2>2, ConsumedType DEF Deliver
  <1>2. /\ message_id' \in 0..IdMax
        /\ msgQueue' \in Seq(Queued) /\ Len(msgQueue') <= QueueMax
        /\ accepted' \in Seq(Nat) /\ calls' \in 0..MaxCalls
    <2>1. CASE Enqueue("PUBLISH", 2)
      BY <2>1, EnqueueType
    <2>2. CASE UNCHANGED <<message_id, msgQueue, app>>
      BY <2>2 DEF app, TypeClient, TypeBounds
    <2> QED
      BY <2>1, <2>2 DEF Deliver
  <1>3. timerArmed' \in BOOLEAN
    BY DEF Deliver, TypeClient
  <1> QED
    BY <1>1, <1>2, <1>3 DEF TypeClient, TypeBounds, bounds

\* mqtt_send_direct, and the end of the handler.
LEMMA SendDirectType ==
  ASSUME TypeOK, NEW buf \in Seq(Packet), buf # <<>>, Len(buf) <= InBufMax,
         NEW p \in 0..TaskQueueSize, NEW rest \in Seq(Packet), NEW m \in Packet,
         SendDirect(m, buf, p, rest)
  PROVE  /\ connState' \in ConnStates /\ posts' \in 0..TaskQueueSize
         /\ inBuf' \in Seq(Packet) /\ Len(inBuf') <= InBufMax
         /\ c2s' \in Seq(Packet) /\ s2c' = rest /\ unsent' \in Nat /\ link' = link
         /\ faults' \in 0..MaxFaults
  <1>1. PICK ok \in BOOLEAN :
          /\ EspconnSend(ok, m) /\ s2c' = rest /\ link' = link
          /\ IF ok THEN Consumed(buf, p, connState)
             ELSE Consumed(buf, Posted(p, 1), "TCP_RECONNECT_DISCONNECTING")
    BY DEF SendDirect
  <1>2. c2s' \in Seq(Packet) /\ unsent' \in Nat /\ faults' \in 0..MaxFaults
    BY <1>1, EspconnSendType DEF TypeOK
  <1>3. "TCP_RECONNECT_DISCONNECTING" \in ConnStates /\ connState \in ConnStates
    BY DEF ConnStates, TypeOK, TypeClient
  <1>4. Posted(p, 1) \in 0..TaskQueueSize
    BY PostedType
  <1> QED
    BY <1>1, <1>2, <1>3, <1>4, ConsumedType

\* mqtt_tcpclient_recv on one packet.
LEMMA ProcessType ==
  ASSUME TypeOK, NEW buf \in Seq(Packet), buf # <<>>, Len(buf) <= InBufMax,
         NEW p \in 0..TaskQueueSize, NEW rest \in Seq(Packet), Process(buf, p, rest)
  PROVE  TypeOK'
  <1> USE DEF TypeOK
  <1> DEFINE m == Head(buf)
  <1>0. /\ UNCHANGED <<alive, pCon, dnsPending, wifiUp>> /\ UNCHANGED broker
        /\ UNCHANGED bounds
        /\ connState \in ConnStates /\ m \in Packet /\ m.id \in Nat
        /\ NoAck \in [wait : BOOLEAN, type : AckTypes, id : Nat]
        /\ 0 \in 0..SendTimeout /\ SendTimeout \in 0..SendTimeout
        /\ NoPing \in [wait : BOOLEAN, tmo : 0..SendTimeout]
        /\ [tick EXCEPT !.keep = 0] \in [keep : 0..KeepAlive + 1,
              recon : 0..ReconnectTimeout, conn : 0..ConnectTimeout]
    <2>1. UNCHANGED <<alive, pCon, dnsPending, wifiUp>> /\ UNCHANGED broker /\ UNCHANGED bounds
      BY DEF Process
    <2>2. m \in Packet
      BY HeadTailProperties
    <2>3. m.id \in Nat
      BY <2>2 DEF Packet
    <2>4. NoAck \in [wait : BOOLEAN, type : AckTypes, id : Nat]
      BY DEF NoAck, AckTypes
    <2>5. 0 \in 0..SendTimeout /\ SendTimeout \in 0..SendTimeout /\ 0 \in 0..KeepAlive + 1
      BY ConstantsType
    <2>6. NoPing \in [wait : BOOLEAN, tmo : 0..SendTimeout]
      BY <2>5 DEF NoPing
    <2> QED
      BY <2>1, <2>2, <2>3, <2>4, <2>5, <2>6 DEF TypeClient
  <1> HIDE DEF m
  <1>1. CASE Ignored(buf, p, rest)
    <2>1. TypeClient'
      BY <1>0, <1>1, ConsumedType DEF Ignored, TypeClient
    <2>2. TypeExchange' /\ TypeNetwork' /\ TypeBounds'
      BY <1>0, <1>1 DEF Ignored, TypeExchange, TypeNetwork, TypeBounds, exchange, app,
                        broker, bounds
    <2> QED
      BY <2>1, <2>2
  <1>2. CASE ReceiveConnack(buf, p, rest)
    <2>1. TypeClient'
      <3>1. "MQTT_DATA" \in ConnStates
        BY DEF ConnStates
      <3>2. Consumed(buf, p, "MQTT_DATA") \/ Consumed(buf, p, connState)
        BY <1>2 DEF ReceiveConnack
      <3> QED
        BY <1>0, <1>2, <3>1, <3>2, ConsumedType DEF ReceiveConnack, TypeClient
    <2>2. TypeExchange'
      BY <1>0, <1>2 DEF ReceiveConnack, TypeExchange
    <2>3. TypeNetwork'
      BY <1>0, <1>2, EspconnDisconnectType DEF ReceiveConnack, TypeNetwork, broker
    <2>4. TypeBounds'
      BY <1>0, <1>2 DEF ReceiveConnack, TypeBounds, app, bounds
    <2> QED
      BY <2>1, <2>2, <2>3, <2>4
  <1>3. CASE ReceivePublish(buf, p, rest)
    <2>1. UNCHANGED exchange /\ UNCHANGED tick /\ s2c' = rest /\ link' = link
      BY <1>3 DEF ReceivePublish
    <2>2. /\ c2s' \in Seq(Packet) /\ unsent' \in Nat /\ faults' \in 0..MaxFaults
          /\ TypeClient' /\ TypeBounds'
      <3>1. CASE Deliver(buf, p, connState) /\ UNCHANGED <<c2s, unsent, faults>>
        BY <1>0, <2>1, <3>1, DeliverType DEF TypeNetwork, TypeBounds
      <3>2. ASSUME NEW ok \in BOOLEAN, NEW t \in {"PUBACK", "PUBREC"},
                   EspconnSend(ok, Ctl(t, m.id)),
                   IF ok THEN Deliver(buf, p, connState)
                   ELSE Deliver(buf, Posted(p, 1), "TCP_RECONNECT_DISCONNECTING")
            PROVE  /\ c2s' \in Seq(Packet) /\ unsent' \in Nat /\ faults' \in 0..MaxFaults
                   /\ TypeClient' /\ TypeBounds'
        <4>1. Ctl(t, m.id) \in Packet
          BY <1>0, CtlType DEF PacketTypes
        <4>2. c2s' \in Seq(Packet) /\ unsent' \in Nat /\ faults' \in 0..MaxFaults
          BY <3>2, <4>1, EspconnSendType
        <4>3. "TCP_RECONNECT_DISCONNECTING" \in ConnStates /\ Posted(p, 1) \in 0..TaskQueueSize
          BY PostedType DEF ConnStates
        <4>4. CASE ok
          BY <1>0, <2>1, <3>2, <4>2, <4>4, DeliverType
        <4>5. CASE ~ok
          BY <1>0, <2>1, <3>2, <4>2, <4>3, <4>5, DeliverType
        <4> QED
          BY <4>2, <4>4, <4>5
      <3> QED
        BY <1>3, <3>1, <3>2 DEF ReceivePublish, m
    <2>3. TypeExchange' /\ TypeNetwork'
      BY <1>0, <2>1, <2>2 DEF TypeExchange, TypeNetwork, exchange, broker
    <2> QED
      BY <2>2, <2>3
  <1>4. CASE ReceivePubrec(buf, p, rest)
    <2>1. Ctl("PUBREL", m.id) \in Packet
      BY <1>0, CtlType DEF PacketTypes
    <2>2. SendDirect(Ctl("PUBREL", m.id), buf, p, rest)
      BY <1>4 DEF ReceivePubrec, m
    <2>3. [ack EXCEPT !.type = "PUBREL"] \in [wait : BOOLEAN, type : AckTypes, id : Nat]
      BY DEF TypeExchange, AckTypes, PacketTypes
    <2>4. TypeExchange'
      BY <1>0, <1>4, <2>3 DEF ReceivePubrec, TypeExchange
    <2>5. TypeClient'
      BY <1>0, <1>4, <2>1, <2>2, SendDirectType DEF ReceivePubrec, TypeClient
    <2>6. TypeNetwork' /\ TypeBounds'
      BY <1>0, <1>4, <2>1, <2>2, SendDirectType
      DEF ReceivePubrec, TypeNetwork, TypeBounds, broker, app, bounds
    <2> QED
      BY <2>4, <2>5, <2>6
  <1>5. CASE ReceivePubrel(buf, p, rest)
    <2>1. Ctl("PUBCOMP", m.id) \in Packet
      BY <1>0, CtlType DEF PacketTypes
    <2>2. SendDirect(Ctl("PUBCOMP", m.id), buf, p, rest)
      BY <1>5 DEF ReceivePubrel, m
    <2>3. TypeExchange'
      BY <1>5 DEF ReceivePubrel, TypeExchange, exchange
    <2>4. TypeClient'
      BY <1>0, <1>5, <2>1, <2>2, SendDirectType DEF ReceivePubrel, TypeClient
    <2>5. TypeNetwork' /\ TypeBounds'
      BY <1>0, <1>5, <2>1, <2>2, SendDirectType
      DEF ReceivePubrel, TypeNetwork, TypeBounds, broker, app, bounds
    <2> QED
      BY <2>3, <2>4, <2>5
  <1>6. CASE ReceiveAck(buf, p, rest)
    <2>1. TypeClient'
      BY <1>0, <1>6, ConsumedType, PopType DEF ReceiveAck, TypeClient
    <2>2. TypeExchange' /\ TypeNetwork' /\ TypeBounds'
      BY <1>0, <1>6 DEF ReceiveAck, TypeExchange, TypeNetwork, TypeBounds, app, broker, bounds
    <2> QED
      BY <2>1, <2>2
  <1>7. CASE ReceivePingresp(buf, p, rest)
    <2>1. TypeClient'
      <3>1. msgQueue' \in {msgQueue, Pop(msgQueue)}
        BY <1>7 DEF ReceivePingresp
      <3>2. msgQueue' \in Seq(Queued) /\ Len(msgQueue') <= QueueMax
        BY <3>1, PopType DEF TypeClient
      <3> QED
        BY <1>0, <1>7, <3>2, ConsumedType DEF ReceivePingresp, TypeClient
    <2>2. TypeExchange'
      BY <1>0, <1>7 DEF ReceivePingresp, TypeExchange
    <2>3. TypeNetwork' /\ TypeBounds'
      BY <1>0, <1>7 DEF ReceivePingresp, TypeNetwork, TypeBounds, app, broker, bounds
    <2> QED
      BY <2>1, <2>2, <2>3
  <1> QED
    BY <1>1, <1>2, <1>3, <1>4, <1>5, <1>6, <1>7 DEF Process

\* mqtt_tcpclient_recv
LEMMA RecvType == TypeOK /\ Recv => TypeOK'
  <1> SUFFICES ASSUME TypeOK, Recv PROVE TypeOK'
    OBVIOUS
  <1> USE DEF TypeOK
  <1>1. PICK n \in 1..Len(s2c) :
          LET buf == inBuf \o SubSeq(s2c, 1, n) IN
          IF Len(buf) > InBufMax
          THEN /\ inBuf' = <<>> /\ EspconnDisconnect
               /\ UNCHANGED <<connState, alive, pCon, timerArmed, posts, exchange,
                              tick, message_id, msgQueue, dnsPending, wifiUp,
                              broker, app, bounds, faults>>
          ELSE Process(buf, posts, SubSeq(s2c, n + 1, Len(s2c)))
    BY DEF Recv
  <1> DEFINE buf  == inBuf \o SubSeq(s2c, 1, n)
             rest == SubSeq(s2c, n + 1, Len(s2c))
  <1>2. s2c \in Seq(Packet) /\ inBuf \in Seq(Packet) /\ Len(s2c) \in Nat /\ n \in Nat
    BY LenProperties DEF TypeNetwork, TypeClient
  <1>3. \A i \in 1..Len(s2c) : s2c[i] \in Packet
    BY <1>2, ElementOfSeq
  <1>4. /\ SubSeq(s2c, 1, n) \in Seq(Packet) /\ Len(SubSeq(s2c, 1, n)) = n
        /\ rest \in Seq(Packet)
    BY <1>2, <1>3, SubSeqProperties
  <1>5. buf \in Seq(Packet) /\ Len(buf) = Len(inBuf) + n
    BY <1>2, <1>4, ConcatProperties
  <1>6. buf # <<>> /\ Len(buf) \in Nat
    BY <1>2, <1>5, LenProperties
  <1>7. CASE Len(buf) > InBufMax
    <2>1. /\ UNCHANGED <<connState, alive, pCon, timerArmed, posts, exchange,
                         tick, message_id, msgQueue, dnsPending, wifiUp,
                         broker, app, bounds, faults>>
          /\ inBuf' = <<>> /\ EspconnDisconnect
      BY <1>1, <1>7
    <2>2. TypeClient'
      BY <2>1, ConstantsType DEF TypeClient
    <2>3. TypeExchange' /\ TypeBounds'
      BY <2>1 DEF TypeExchange, TypeBounds, exchange, app, bounds
    <2>4. TypeNetwork'
      BY <2>1, EspconnDisconnectType DEF TypeNetwork, broker
    <2> QED
      BY <2>2, <2>3, <2>4
  <1>8. CASE ~(Len(buf) > InBufMax)
    <2>1. Process(buf, posts, rest)
      BY <1>1, <1>8
    <2>2. Len(buf) <= InBufMax /\ posts \in 0..TaskQueueSize
      BY <1>6, <1>8, ConstantsType DEF TypeClient
    <2> HIDE DEF buf, rest
    <2> QED
      BY <1>4, <1>5, <1>6, <2>1, <2>2, ProcessType
  <1> QED
    BY <1>7, <1>8

-----------------------------------------------------------------------------
(* The task *)

\* MQTT_Connect, from whichever handler calls it.
LEMMA MqttConnectType ==
  ASSUME TypeOK, NEW p \in 0..TaskQueueSize, NEW s \in ConnStates, MqttConnect(p, s),
         UNCHANGED <<broker, app, bounds>>, wifiUp' \in BOOLEAN
  PROVE  TypeOK'
  <1> USE DEF TypeOK
  <1>1. TypeExchange' /\ inBuf' = <<>>
    BY ClearExchangeType DEF MqttConnect
  <1>2. NoTicks \in [keep : 0..KeepAlive + 1, recon : 0..ReconnectTimeout,
                      conn : 0..ConnectTimeout]
    <2>1. 0 \in 0..KeepAlive + 1 /\ 0 \in 0..ReconnectTimeout /\ 0 \in 0..ConnectTimeout
      BY ConstantsType
    <2> QED
      BY <2>1 DEF NoTicks
  <1>3. connState' \in {"TCP_CONNECTING", s} /\ posts' \in {p, Posted(p, 1)}
    BY DEF MqttConnect
  <1>4. connState' \in ConnStates /\ posts' \in 0..TaskQueueSize
    BY <1>3, PostedType DEF ConnStates
  <1>5. TypeClient'
    BY <1>1, <1>2, <1>4, ConstantsType DEF MqttConnect, TypeClient
  <1>6. DropLink("syn") \/ DropLink("down")
    BY DEF MqttConnect
  <1>7. dnsPending' \in 0..DnsMax
    BY ConstantsType DEF MqttConnect, TypeNetwork
  <1>8. TypeNetwork'
    BY <1>6, <1>7, DropLinkType DEF TypeNetwork, broker
  <1>9. faults' \in 0..MaxFaults
    BY ConstantsType DEF MqttConnect, Fault, TypeBounds, TypeNetwork
  <1>10. TypeBounds'
    BY <1>9 DEF TypeBounds, app, bounds
  <1> QED
    BY <1>1, <1>5, <1>8, <1>10

\* case TCP_DISCONNECTING and TCP_RECONNECT_DISCONNECTING of MQTT_Task.
LEMMA CloseConnectionType ==
  ASSUME TypeOK, NEW p \in 0..TaskQueueSize, CloseConnection(p)
  PROVE  TypeOK'
  <1> USE DEF TypeOK
  <1>1. TypeClient' /\ TypeExchange' /\ TypeBounds'
    BY DEF CloseConnection, TypeClient, TypeExchange, TypeBounds, exchange, app, bounds
  <1>2. EspconnDisconnect \/ UNCHANGED tcp
    BY DEF CloseConnection, TypeClient
  <1>3. TypeNetwork'
    BY <1>2, EspconnDisconnectType DEF CloseConnection, TypeNetwork, tcp, broker
  <1> QED
    BY <1>1, <1>3

\* mqtt_client_delete.
LEMMA DeleteClientType ==
  ASSUME TypeOK, NEW p \in 0..TaskQueueSize, DeleteClient(p)
  PROVE  TypeOK'
  <1> USE DEF TypeOK
  <1>1. TypeExchange' /\ inBuf' = <<>>
    BY ClearExchangeType DEF DeleteClient
  <1>2. TypeClient'
    <2>1. /\ connState' \in ConnStates
          /\ alive' \in BOOLEAN /\ pCon' \in BOOLEAN /\ timerArmed' \in BOOLEAN
      BY DEF DeleteClient, ConnStates
    <2>2. msgQueue' \in Seq(Queued) /\ Len(msgQueue') <= QueueMax /\ Len(inBuf') <= InBufMax
      BY <1>1, ConstantsType DEF DeleteClient
    <2>3. posts' \in 0..TaskQueueSize /\ UNCHANGED <<tick, message_id>>
      BY DEF DeleteClient
    <2> QED
      BY <1>1, <2>1, <2>2, <2>3, EmptySeq DEF TypeClient
  <1>3. TypeNetwork'
    BY DropLinkType DEF DeleteClient, TypeNetwork, broker
  <1>4. TypeBounds'
    BY DEF DeleteClient, TypeBounds, app, bounds
  <1> QED
    BY <1>1, <1>2, <1>3, <1>4

\* MQTT_Task in a connection state it does nothing for.
LEMMA IdleType ==
  ASSUME TypeOK, NEW p \in 0..TaskQueueSize, Idle(p)
  PROVE  TypeOK'
  BY DEF Idle, TypeOK, TypeClient, TypeExchange, TypeNetwork, TypeBounds, exchange, tcp,
         broker, app, bounds

\* mqtt_send_keepalive
LEMMA SendKeepaliveType ==
  ASSUME TypeOK, NEW p \in 0..TaskQueueSize, SendKeepalive(p)
  PROVE  TypeOK'
  <1> USE DEF TypeOK
  <1>1. posts' \in 0..TaskQueueSize
    BY PostedType DEF SendKeepalive
  <1>2. connState' \in {connState, "MQTT_DATA", "TCP_RECONNECT_DISCONNECTING"}
    BY DEF SendKeepalive
  <1>3. [tick EXCEPT !.keep = 0] \in [keep : 0..KeepAlive + 1, recon : 0..ReconnectTimeout,
                                     conn : 0..ConnectTimeout]
    <2>1. 0 \in 0..KeepAlive + 1
      BY ConstantsType
    <2> QED
      BY <2>1 DEF TypeClient
  <1>4. tick' \in {tick, [tick EXCEPT !.keep = 0]}
    BY DEF SendKeepalive
  <1>5. TypeClient'
    BY <1>1, <1>2, <1>3, <1>4 DEF SendKeepalive, TypeClient, ConnStates
  <1>6. ping' \in {ping, NoPing, [wait |-> TRUE, tmo |-> SendTimeout]}
    BY DEF SendKeepalive
  <1>7. TypeExchange'
    <2>1. 0 \in 0..SendTimeout /\ SendTimeout \in 0..SendTimeout
      BY ConstantsType
    <2>2. ping' \in [wait : BOOLEAN, tmo : 0..SendTimeout]
      <3>1. NoPing \in [wait : BOOLEAN, tmo : 0..SendTimeout]
        BY <2>1 DEF NoPing
      <3>2. [wait |-> TRUE, tmo |-> SendTimeout] \in [wait : BOOLEAN, tmo : 0..SendTimeout]
        BY <2>1
      <3> QED
        BY <1>6, <3>1, <3>2 DEF TypeExchange
    <2> QED
      BY <2>2 DEF SendKeepalive, TypeExchange
  <1>8. Ctl("PINGREQ", 0) \in Packet
    BY CtlType DEF PacketTypes
  <1>9. /\ c2s' \in Seq(Packet) /\ unsent' \in Nat /\ faults' \in 0..MaxFaults
        /\ UNCHANGED <<link, s2c>>
    <2>1. CASE UNCHANGED tcp /\ UNCHANGED faults
      BY <2>1 DEF tcp, TypeNetwork, TypeBounds
    <2>2. CASE /\ \E ok \in BOOLEAN : EspconnSend(ok, Ctl("PINGREQ", 0))
               /\ UNCHANGED <<link, s2c>>
      BY <2>2, <1>8, EspconnSendType
    <2> QED
      BY <2>1, <2>2 DEF SendKeepalive
  <1>10. TypeNetwork' /\ TypeBounds'
    BY <1>9 DEF SendKeepalive, TypeNetwork, TypeBounds, broker, app, bounds
  <1> QED
    BY <1>5, <1>7, <1>10

\* case MQTT_DATA
LEMMA SendHeadType ==
  ASSUME TypeOK, NEW p \in 0..TaskQueueSize, msgQueue # <<>>, SendHead(p)
  PROVE  TypeOK'
  <1> USE DEF TypeOK
  <1> DEFINE m == Head(msgQueue)
  <1>1. m \in Queued /\ m \in Packet
    BY HeadTailProperties, QueuedIsPacket DEF TypeClient
  <1>2. PICK ok \in BOOLEAN :
       /\ EspconnSend(ok, m) /\ UNCHANGED <<link, s2c>>
       /\ ack' = IF ok THEN [wait |-> NeedsAck(m), type |-> m.type, id |-> GetId(m)]
                       ELSE NoAck
       /\ sendTimeout' = IF ok THEN SendTimeout ELSE 0
       /\ pubCbPending' = (ok /\ m.type = "PUBLISH")
       /\ msgQueue' = AfterSend(ok, msgQueue)
       /\ connState' = IF ok THEN connState ELSE "TCP_RECONNECT_DISCONNECTING"
       /\ posts' = IF ok THEN p ELSE Posted(p, 1)
    BY DEF SendHead
  <1>3. c2s' \in Seq(Packet) /\ unsent' \in Nat /\ faults' \in 0..MaxFaults
    BY <1>1, <1>2, EspconnSendType
  <1>4. NeedsAck(m) \in BOOLEAN /\ m.type \in AckTypes /\ GetId(m) \in Nat
    BY <1>1 DEF NeedsAck, GetId, Queued, AckTypes, PacketTypes
  <1>5. ack' \in [wait : BOOLEAN, type : AckTypes, id : Nat]
    BY <1>2, <1>4 DEF NoAck, AckTypes
  <1>6. sendTimeout' \in 0..SendTimeout
    BY <1>2, ConstantsType
  <1>7. pubCbPending' \in BOOLEAN
    BY <1>2
  <1>8. TypeExchange'
    BY <1>5, <1>6, <1>7 DEF SendHead, TypeExchange
  <1>9. msgQueue' \in Seq(Queued) /\ Len(msgQueue') <= QueueMax
    <2>1. Tail(msgQueue) \in Seq(Queued) /\ Len(Tail(msgQueue)) = Len(msgQueue) - 1
      BY HeadTailProperties DEF TypeClient
    <2>2. msgQueue' \in {msgQueue, Tail(msgQueue)}
      BY <1>2 DEF AfterSend
    <2>3. Len(msgQueue) \in Nat /\ QueueMax \in Nat
      BY LenProperties, ConstantsType DEF TypeClient
    <2>4. Len(Tail(msgQueue)) <= QueueMax
      BY <2>1, <2>3 DEF TypeClient
    <2> QED
      BY <2>1, <2>2, <2>4 DEF TypeClient
  <1>10. connState' \in ConnStates /\ posts' \in 0..TaskQueueSize
    BY <1>2, PostedType DEF ConnStates, TypeClient
  <1>11. TypeClient'
    BY <1>9, <1>10 DEF SendHead, TypeClient
  <1>12. TypeNetwork' /\ TypeBounds'
    BY <1>2, <1>3 DEF SendHead, TypeNetwork, TypeBounds, broker, app, bounds
  <1> QED
    BY <1>8, <1>11, <1>12

\* MQTT_Task, from one posted event.
LEMMA TaskType == TypeOK /\ Task => TypeOK'
  <1> SUFFICES ASSUME TypeOK, Task PROVE TypeOK'
    OBVIOUS
  <1> DEFINE p == posts - 1
  <1>1. p \in 0..TaskQueueSize
    <2>1. posts \in 0..TaskQueueSize /\ posts > 0
      BY DEF Task, TypeOK, TypeClient
    <2> QED
      BY <2>1, ConstantsType
  <1>2. s2c \in Seq(Packet) /\ inBuf \in Seq(Packet) /\ Len(inBuf) <= InBufMax
    BY DEF TypeOK, TypeClient, TypeNetwork
  <1>3. \/ Idle(p) \/ (HasPacket /\ Process(inBuf, p, s2c)) \/ Reconnect(p)
        \/ CloseConnection(p) \/ DeleteClient(p) \/ SendKeepalive(p)
        \/ (MaySend /\ SendHead(p))
    BY DEF Task
  <1> HIDE DEF p
  <1>4. CASE HasPacket /\ Process(inBuf, p, s2c)
    BY <1>1, <1>2, <1>4, ProcessType DEF HasPacket
  <1>5. CASE Reconnect(p)
    <2>1. "TCP_CONNECTING" \in ConnStates
      BY DEF ConnStates
    <2>2. wifiUp' \in BOOLEAN
      BY <1>5 DEF Reconnect, TypeOK, TypeNetwork
    <2> QED
      BY <1>1, <1>5, <2>1, <2>2, MqttConnectType DEF Reconnect
  <1>6. CASE MaySend /\ SendHead(p)
    BY <1>1, <1>6, SendHeadType DEF MaySend
  <1> QED
    BY <1>1, <1>3, <1>4, <1>5, <1>6, IdleType, CloseConnectionType, DeleteClientType,
       SendKeepaliveType

-----------------------------------------------------------------------------
(* The callbacks, the timer and the environment *)

\* mqtt_dns_found, for a current or an abandoned lookup.
LEMMA DnsFoundType == TypeOK /\ DnsFound => TypeOK'
  <1> SUFFICES ASSUME TypeOK, DnsFound PROVE TypeOK'
    OBVIOUS
  <1> USE DEF TypeOK
  <1>1. connState' \in ConnStates /\ posts' \in 0..TaskQueueSize
    BY PostedType DEF DnsFound, TypeClient, ConnStates
  <1>2. TypeClient' /\ TypeExchange'
    BY <1>1 DEF DnsFound, TypeClient, TypeExchange, exchange
  <1>3. UNCHANGED tcp \/ DropLink("syn")
    BY DEF DnsFound
  <1>4. dnsPending' \in 0..DnsMax
    BY ConstantsType DEF DnsFound, TypeNetwork
  <1>5. TypeNetwork'
    BY <1>3, <1>4, DropLinkType DEF DnsFound, TypeNetwork, tcp, broker
  <1>6. faults' \in 0..MaxFaults
    BY FaultType DEF DnsFound, TypeBounds, TypeNetwork
  <1>7. TypeBounds'
    BY <1>6 DEF DnsFound, TypeBounds, app, bounds
  <1> QED
    BY <1>2, <1>5, <1>7

\* mqtt_tcpclient_connect_cb, whether CONNECT is sent or not.
LEMMA NetUpType == TypeOK /\ NetUp => TypeOK'
  <1> SUFFICES ASSUME TypeOK, NetUp PROVE TypeOK'
    OBVIOUS
  <1> USE DEF TypeOK
  <1>1. PICK ok \in BOOLEAN :
       /\ link' = "up" /\ s2c' = <<>> /\ Fault(~ok)
       /\ ack' = [wait |-> IF ok THEN TRUE ELSE ack.wait, type |-> "CONNECT", id |-> 0]
       /\ sendTimeout' = IF ok THEN SendTimeout ELSE 0
       /\ connState' = IF ok THEN "MQTT_CONNECT_SENDING"
                             ELSE "TCP_RECONNECT_DISCONNECTING"
       /\ c2s' = IF ok THEN <<Ctl("CONNECT", 0)>> ELSE <<>>
       /\ unsent' = B(ok)
    BY DEF NetUp
  <1>2. ack' \in [wait : BOOLEAN, type : AckTypes, id : Nat]
    <2>1. (IF ok THEN TRUE ELSE ack.wait) \in BOOLEAN /\ "CONNECT" \in AckTypes
      BY DEF TypeExchange, AckTypes, PacketTypes
    <2> QED
      BY <1>1, <2>1
  <1>3. TypeExchange'
    <2>1. sendTimeout' \in 0..SendTimeout
      BY <1>1, ConstantsType
    <2> QED
      BY <1>2, <2>1 DEF NetUp, TypeExchange
  <1>4. connState' \in ConnStates /\ posts' \in 0..TaskQueueSize /\ message_id' \in 0..IdMax
    BY <1>1, PostedType, ConstantsType DEF NetUp, ConnStates, TypeClient
  <1>5. TypeClient'
    BY <1>4 DEF NetUp, TypeClient
  <1>6. Ctl("CONNECT", 0) \in Packet
    BY CtlType DEF PacketTypes
  <1>7. c2s' \in Seq(Packet) /\ s2c' \in Seq(Packet) /\ unsent' \in Nat
    BY <1>1, <1>6 DEF B
  <1>8. faults' \in 0..MaxFaults
    BY <1>1, FaultType
  <1>9. TypeNetwork' /\ TypeBounds'
    BY <1>1, <1>7, <1>8 DEF NetUp, TypeNetwork, TypeBounds, broker, app, bounds
  <1> QED
    BY <1>3, <1>5, <1>9

\* mqtt_tcpclient_recon_cb.
LEMMA NetErrorType == TypeOK /\ NetError => TypeOK'
  <1> SUFFICES ASSUME TypeOK, NetError PROVE TypeOK'
    OBVIOUS
  <1> USE DEF TypeOK
  <1>1. TypeClient' /\ TypeExchange'
    BY PostedType DEF NetError, TypeClient, TypeExchange, exchange, ConnStates
  <1>2. TypeNetwork'
    BY DropLinkType DEF NetError, TypeNetwork, broker
  <1>3. TypeBounds'
    BY FaultType DEF NetError, TypeNetwork, TypeBounds, app, bounds
  <1> QED
    BY <1>1, <1>2, <1>3

\* The broker closes the connection.
LEMMA RemoteCloseType == TypeOK /\ RemoteClose => TypeOK'
  <1> SUFFICES ASSUME TypeOK, RemoteClose PROVE TypeOK'
    OBVIOUS
  <1> USE DEF TypeOK
  <1>1. TypeClient' /\ TypeExchange'
    BY DEF RemoteClose, clientVars, TypeClient, TypeExchange
  <1>2. TypeNetwork'
    BY DropLinkType DEF RemoteClose, TypeNetwork, broker
  <1>3. TypeBounds'
    BY FaultType DEF RemoteClose, TypeBounds, app, bounds
  <1> QED
    BY <1>1, <1>2, <1>3

\* mqtt_tcpclient_discon_cb and the MQTT_Connect it leads to.
LEMMA NetClosedType == TypeOK /\ NetClosed => TypeOK'
  <1> SUFFICES ASSUME TypeOK, NetClosed PROVE TypeOK'
    OBVIOUS
  <1>1. "TCP_RECONNECT_REQ" \in ConnStates /\ Posted(posts, 1) \in 0..TaskQueueSize
    BY PostedType DEF ConnStates, TypeOK, TypeClient
  <1> QED
    BY <1>1, MqttConnectType DEF NetClosed, TypeOK, TypeNetwork

\* wifi_changed_cb(STATION_GOT_IP) and the MQTT_Connect it leads to.
LEMMA WifiGotIpType == TypeOK /\ WifiGotIp => TypeOK'
  <1> SUFFICES ASSUME TypeOK, WifiGotIp PROVE TypeOK'
    OBVIOUS
  <1>1. "TCP_RECONNECT_REQ" \in ConnStates /\ posts \in 0..TaskQueueSize
    BY DEF ConnStates, TypeOK, TypeClient
  <1> QED
    BY <1>1, MqttConnectType DEF WifiGotIp

\* A call of the application.
LEMMA AppCallType == TypeOK /\ AppCall => TypeOK'
  <1> SUFFICES ASSUME TypeOK, AppCall PROVE TypeOK'
    OBVIOUS
  <1> USE DEF TypeOK
  <1>1. PICK c \in AppCalls : Enqueue(c[1], c[2])
    BY DEF AppCall
  <1>2. /\ c[1] \in {"PUBLISH", "SUBSCRIBE", "UNSUBSCRIBE", "PINGREQ"}
        /\ c[2] \in 0..2
    BY ConstantsAssumption DEF ConstantsAssumption
  <1>3. /\ message_id' \in 0..IdMax /\ msgQueue' \in Seq(Queued)
        /\ Len(msgQueue') <= QueueMax /\ accepted' \in Seq(Nat) /\ calls' \in 0..MaxCalls
    BY <1>1, <1>2, EnqueueType
  <1>4. posts' \in 0..TaskQueueSize
    BY PostedType DEF AppCall, B, TypeClient
  <1>5. TypeClient' /\ TypeExchange'
    BY <1>3, <1>4 DEF AppCall, TypeClient, TypeExchange, exchange
  <1>6. TypeNetwork' /\ TypeBounds'
    BY <1>3 DEF AppCall, TypeNetwork, TypeBounds, tcp, broker, bounds
  <1> QED
    BY <1>5, <1>6

\* mqtt_restart_ack_timer_func.
LEMMA RestartRequestedType == TypeOK /\ RestartRequested => TypeOK'
  <1> SUFFICES ASSUME TypeOK, RestartRequested PROVE TypeOK'
    OBVIOUS
  <1> USE DEF TypeOK
  <1>1. TypeClient' /\ TypeExchange'
    BY PostedType DEF RestartRequested, TypeClient, TypeExchange, exchange, ConnStates
  <1>2. TypeNetwork'
    BY DEF RestartRequested, TypeNetwork, tcp, broker
  <1>3. TypeBounds'
    BY FaultType DEF RestartRequested, TypeBounds, app, bounds
  <1> QED
    BY <1>1, <1>2, <1>3

\* mqtt_tcpclient_sent_cb.
LEMMA SentCbType == TypeOK /\ SentCb => TypeOK'
  <1> SUFFICES ASSUME TypeOK, SentCb PROVE TypeOK'
    OBVIOUS
  <1> USE DEF TypeOK
  <1>1. 0 \in 0..KeepAlive + 1 /\ 0 \in 0..SendTimeout
    BY ConstantsType
  <1>2. tick' \in [keep : 0..KeepAlive + 1, recon : 0..ReconnectTimeout,
                  conn : 0..ConnectTimeout]
    BY <1>1 DEF SentCb, TypeClient
  <1>3. TypeClient'
    BY <1>2, PostedType DEF SentCb, TypeClient
  <1>4. TypeExchange'
    BY <1>1 DEF SentCb, TimeoutAfterSent, TypeExchange
  <1>5. TypeNetwork' /\ TypeBounds'
    BY DEF SentCb, TypeNetwork, TypeBounds, broker, app, bounds
  <1> QED
    BY <1>3, <1>4, <1>5

\* mqtt_timer: no tick counter passes its limit, no timeout wraps below zero.
LEMMA TickType == TypeOK /\ Tick => TypeOK'
  <1> SUFFICES ASSUME TypeOK, Tick PROVE TypeOK'
    OBVIOUS
  <1> USE DEF TypeOK
  <1>1. /\ tick.keep \in 0..KeepAlive + 1 /\ tick.recon \in 0..ReconnectTimeout
        /\ tick.conn \in 0..ConnectTimeout
    BY DEF TypeClient
  <1>2. (IF connState = "MQTT_DATA" /\ tick.keep <= KeepAlive
         THEN tick.keep + 1 ELSE tick.keep) \in 0..KeepAlive + 1
    BY <1>1, ConstantsType
  <1>3. (IF ReconDue THEN 0 ELSE tick.recon + B(connState = "TCP_RECONNECT_REQ"))
          \in 0..ReconnectTimeout
    BY <1>1, ConstantsType DEF ReconDue, B
  <1>4. (IF ConnDue THEN 0 ELSE tick.conn + B(connState = "TCP_CONNECTING"))
          \in 0..ConnectTimeout
    BY <1>1, ConstantsType DEF ConnDue, B
  <1>5. tick' \in [keep : 0..KeepAlive + 1, recon : 0..ReconnectTimeout,
                  conn : 0..ConnectTimeout]
    BY <1>2, <1>3, <1>4 DEF Tick
  <1>6. sendTimeout' \in 0..SendTimeout
    BY ConstantsType DEF Tick, Countdown, TypeExchange
  <1>7. ping' \in [wait : BOOLEAN, tmo : 0..SendTimeout]
    <2>1. NoPing \in [wait : BOOLEAN, tmo : 0..SendTimeout]
      <3>1. 0 \in 0..SendTimeout
        BY ConstantsType
      <3> QED
        BY <3>1 DEF NoPing
    <2>2. (IF ping.wait THEN Countdown(ping.tmo) ELSE ping.tmo) \in 0..SendTimeout
      BY ConstantsType DEF Countdown, TypeExchange
    <2>3. [ping EXCEPT !.tmo = IF ping.wait THEN Countdown(ping.tmo) ELSE ping.tmo]
            \in [wait : BOOLEAN, tmo : 0..SendTimeout]
      BY <2>2 DEF TypeExchange
    <2> QED
      BY <2>1, <2>3 DEF Tick
  <1>8. TypeExchange'
    BY <1>6, <1>7 DEF Tick, TypeExchange
  <1>9. connState' \in ConnStates
    BY DEF Tick, TypeClient, ConnStates
  <1>10. posts' \in 0..TaskQueueSize
    <2>1. B(KeepDue \/ ReconDue \/ ConnDue) + B(PingDue) + B(SendDue) \in Nat
      BY DEF B
    <2> QED
      BY <2>1, PostedType DEF Tick, TypeClient
  <1>11. TypeClient'
    BY <1>5, <1>9, <1>10 DEF Tick, TypeClient
  <1>12. TypeNetwork'
    BY DEF Tick, TypeNetwork, tcp, broker
  <1>13. TypeBounds'
    <2>1. faults' \in 0..MaxFaults
      <3>1. (~Quiet) \in BOOLEAN
        BY DEF Quiet
      <3> QED
        BY <3>1, FaultType DEF Tick
    <2> QED
      BY <2>1 DEF Tick, TypeBounds, app, bounds
  <1> QED
    BY <1>8, <1>11, <1>12, <1>13

\* wifi_changed_cb(STATION_IDLE), from the station or the watchdog.
LEMMA StationIdleType ==
  ASSUME TypeOK, StationIdle, faults' \in 0..MaxFaults
  PROVE  TypeOK'
  <1> USE DEF TypeOK
  <1>1. TypeClient' /\ TypeExchange'
    BY PostedType DEF StationIdle, TypeClient, TypeExchange, exchange, ConnStates
  <1>2. TypeNetwork' /\ TypeBounds'
    BY DEF StationIdle, TypeNetwork, TypeBounds, tcp, broker, app, bounds
  <1> QED
    BY <1>1, <1>2

\* A restart of the device.
LEMMA RebootType == TypeOK /\ Reboot => TypeOK'
  <1> SUFFICES ASSUME TypeOK, Reboot PROVE TypeOK'
    OBVIOUS
  <1> USE DEF TypeOK
  <1>1. TypeExchange' /\ inBuf' = <<>>
    BY ClearExchangeType DEF Reboot
  <1>2. /\ connState' \in ConnStates /\ posts' \in 0..TaskQueueSize
        /\ message_id' \in 0..IdMax /\ Len(msgQueue') <= QueueMax /\ Len(inBuf') <= InBufMax
    BY <1>1, ConstantsType DEF Reboot, ConnStates
  <1>3. tick' \in [keep : 0..KeepAlive + 1, recon : 0..ReconnectTimeout,
                  conn : 0..ConnectTimeout]
    <2>1. 0 \in 0..KeepAlive + 1 /\ 0 \in 0..ReconnectTimeout /\ 0 \in 0..ConnectTimeout
      BY ConstantsType
    <2> QED
      BY <2>1 DEF Reboot, NoTicks
  <1>4. TypeClient'
    BY <1>1, <1>2, <1>3, EmptySeq DEF Reboot, TypeClient
  <1>5. TypeNetwork'
    <2>1. /\ link' \in {"down", "syn", "up", "session", "closing"}
          /\ c2s' \in Seq(Packet) /\ s2c' \in Seq(Packet) /\ unsent' \in Nat
      BY DropLinkType DEF Reboot
    <2>2. dnsPending' \in 0..DnsMax
      BY ConstantsType DEF Reboot
    <2>3. wifiUp' \in BOOLEAN
      BY DEF Reboot
    <2> QED
      BY <2>1, <2>2, <2>3 DEF Reboot, TypeNetwork, broker
  <1>6. TypeBounds'
    BY ConstantsType DEF Reboot, TypeBounds
  <1> QED
    BY <1>1, <1>4, <1>5, <1>6

\* The broker takes a packet and answers it.
LEMMA BrokerReceivesType == TypeOK /\ BrokerReceives => TypeOK'
  <1> SUFFICES ASSUME TypeOK, BrokerReceives PROVE TypeOK'
    OBVIOUS
  <1> USE DEF TypeOK
  <1> DEFINE m == Head(c2s)
  <1>1. m \in Packet /\ Tail(c2s) \in Seq(Packet)
    BY HeadTailProperties DEF BrokerReceives, TypeNetwork
  <1>2. m.id \in Nat /\ m.pay \in Nat
    BY <1>1 DEF Packet
  <1>3. TypeClient' /\ TypeExchange'
    BY DEF BrokerReceives, clientVars, TypeClient, TypeExchange
  <1>4. Reply(m) \in Seq(Packet)
    BY <1>2, CtlType DEF Reply, PacketTypes
  <1>5. CASE m.type = "CONNECT"
    <2>1. PICK refused \in BOOLEAN :
            /\ s2c' = Append(s2c, Ctl("CONNACK", B(refused))) /\ Fault(refused)
            /\ link' = IF refused THEN link ELSE "session"
      BY <1>5 DEF BrokerReceives
    <2>2. Ctl("CONNACK", B(refused)) \in Packet
      BY CtlType DEF PacketTypes, B
    <2>3. s2c' \in Seq(Packet)
      BY <2>1, <2>2 DEF TypeNetwork
    <2>4. link' \in {"down", "syn", "up", "session", "closing"}
      BY <2>1 DEF TypeNetwork
    <2>5. TypeNetwork'
      BY <1>1, <1>5, <2>3, <2>4 DEF BrokerReceives, TypeNetwork, broker
    <2>6. TypeBounds'
      BY <2>1, FaultType DEF BrokerReceives, TypeBounds, app, bounds
    <2> QED
      BY <1>3, <2>5, <2>6
  <1>6. CASE m.type # "CONNECT"
    <2>1. s2c' \in Seq(Packet)
      <3>1. s2c' = s2c \o Reply(m)
        BY <1>6 DEF BrokerReceives
      <3> HIDE DEF m
      <3> QED
        BY <1>4, <3>1, ConcatProperties DEF TypeNetwork
    <2>2. delivered' \in {delivered, Append(delivered, m.pay)}
      BY <1>6 DEF BrokerReceives
    <2>3. delivered' \in Seq(Nat)
      <3>1. delivered \in Seq(Nat) /\ Append(delivered, m.pay) \in Seq(Nat)
        BY <1>2 DEF TypeNetwork
      <3> QED
        BY <2>2, <3>1
    <2>4. bRecv' \subseteq Nat
      BY <1>2, <1>6 DEF BrokerReceives, TypeNetwork
    <2>5. TypeNetwork'
      BY <1>1, <1>6, <2>1, <2>3, <2>4 DEF BrokerReceives, TypeNetwork
    <2>6. TypeBounds'
      BY <1>6 DEF BrokerReceives, TypeBounds, app, bounds
    <2> QED
      BY <1>3, <2>5, <2>6
  <1> QED
    BY <1>5, <1>6

\* The broker sends a message of a subscription.
LEMMA BrokerPublishesType == TypeOK /\ BrokerPublishes => TypeOK'
  <1> SUFFICES ASSUME TypeOK, BrokerPublishes PROVE TypeOK'
    OBVIOUS
  <1> USE DEF TypeOK
  <1>1. TypeClient' /\ TypeExchange'
    BY DEF BrokerPublishes, clientVars, TypeClient, TypeExchange
  <1>2. PICK q \in DownQoS :
          s2c' = Append(s2c, [type |-> "PUBLISH", qos |-> q,
                              id |-> IF q = 0 THEN 0 ELSE downs + 1, pay |-> 0])
    BY DEF BrokerPublishes
  <1>3. q \in 0..2 /\ (IF q = 0 THEN 0 ELSE downs + 1) \in Nat
    BY ConstantsAssumption DEF ConstantsAssumption, TypeBounds
  <1>4. [type |-> "PUBLISH", qos |-> q, id |-> IF q = 0 THEN 0 ELSE downs + 1, pay |-> 0]
          \in Packet
    BY <1>3 DEF Packet, PacketTypes
  <1>5. s2c' \in Seq(Packet)
    BY <1>2, <1>4 DEF TypeNetwork
  <1>6. TypeNetwork'
    BY <1>5 DEF BrokerPublishes, TypeNetwork, broker
  <1>7. downs' \in 0..MaxDown
    BY ConstantsType DEF BrokerPublishes, TypeBounds
  <1>8. TypeBounds'
    BY <1>7 DEF BrokerPublishes, TypeBounds, app
  <1> QED
    BY <1>1, <1>6, <1>8

-----------------------------------------------------------------------------
(* Theorems *)

\* What MQTT_InitConnection and MQTT_InitClient leave is well typed.
LEMMA InitType == Init => TypeOK
  <1> SUFFICES ASSUME Init PROVE TypeOK
    OBVIOUS
  <1> USE DEF Init
  <1>1. NoAck \in [wait : BOOLEAN, type : AckTypes, id : Nat]
    BY DEF NoAck, AckTypes
  <1>2. /\ 0 \in 0..SendTimeout /\ 0 \in 0..KeepAlive + 1 /\ 0 \in 0..ReconnectTimeout
        /\ 0 \in 0..ConnectTimeout /\ 0 \in 0..IdMax /\ 0 \in 0..DnsMax
        /\ 1 \in 0..TaskQueueSize /\ 0 <= QueueMax /\ 0 <= InBufMax
        /\ 0 \in 0..MaxCalls /\ 0 \in 0..MaxDown /\ 0 \in 0..MaxFaults
        /\ 0 \in 0..MaxRestarts
    BY ConstantsType
  <1>3. TypeExchange
    <2>1. NoPing \in [wait : BOOLEAN, tmo : 0..SendTimeout]
      BY <1>2 DEF NoPing
    <2> QED
      BY <1>1, <1>2, <2>1 DEF TypeExchange
  <1>4. TypeClient
    <2>1. NoTicks \in [keep : 0..KeepAlive + 1, recon : 0..ReconnectTimeout,
                      conn : 0..ConnectTimeout]
      BY <1>2 DEF NoTicks
    <2> QED
      BY <1>2, <2>1, EmptySeq DEF TypeClient, ConnStates
  <1>5. TypeNetwork /\ TypeBounds
    <2>1. /\ c2s \in Seq(Packet) /\ s2c \in Seq(Packet) /\ delivered \in Seq(Nat)
          /\ accepted \in Seq(Nat) /\ bRecv \subseteq Nat /\ unsent \in Nat
      OBVIOUS
    <2>2. wifiUp \in BOOLEAN /\ link \in {"down", "syn", "up", "session", "closing"}
      OBVIOUS
    <2> QED
      BY <1>2, <2>1, <2>2 DEF TypeNetwork, TypeBounds
  <1> QED
    BY <1>3, <1>4, <1>5 DEF TypeOK

\* Every variable keeps its type: no counter leaves its range and no timeout
\* counts below zero, for every size of the queues and every timeout.
THEOREM TypeCorrect == Spec => []TypeOK
  <1>1. TypeOK /\ [Next]_vars => TypeOK'
    <2> SUFFICES ASSUME TypeOK, [Next]_vars PROVE TypeOK'
      OBVIOUS
    <2>1. CASE WifiDrop
      <3>1. faults' \in 0..MaxFaults
        BY <2>1, FaultType DEF WifiDrop, TypeOK
      <3> QED
        BY <2>1, <3>1, StationIdleType DEF WifiDrop
    <2>2. CASE Watchdog
      <3>1. faults' \in 0..MaxFaults
        BY <2>2 DEF Watchdog, TypeOK, TypeBounds
      <3> QED
        BY <2>2, <3>1, StationIdleType DEF Watchdog
    <2>3. CASE UNCHANGED vars
      BY <2>3 DEF vars, clientVars, tcp, broker, app, bounds, TypeOK, TypeExchange,
                  TypeClient, TypeNetwork, TypeBounds
    <2> QED
      BY <2>1, <2>2, <2>3, TaskType, DnsFoundType, NetUpType, NetErrorType, NetClosedType,
         RecvType, SentCbType, TickType, AppCallType, RemoteCloseType, WifiGotIpType,
         BrokerReceivesType, BrokerPublishesType, RestartRequestedType, RebootType
      DEF Next, Client, Environment
  <1> QED
    BY <1>1, InitType, PTL DEF Spec

-----------------------------------------------------------------------------
(* The packet in flight is the head of the queue *)

\* Handlers that leave the exchange and the queue alone.
LEMMA InFlightKept ==
  ASSUME InFlightIsHead, UNCHANGED <<ack, msgQueue>>
  PROVE  InFlightIsHead'
  BY DEF InFlightIsHead, AwaitsHead

\* Handlers that end the exchange.
LEMMA InFlightEnded ==
  ASSUME ack' = NoAck
  PROVE  InFlightIsHead'
  BY DEF InFlightIsHead, NoAck

\* A packet is queued behind the one in flight.
LEMMA InFlightEnqueue ==
  ASSUME TypeOK, InFlightIsHead, ack' = ack,
         NEW t \in {"PUBLISH", "SUBSCRIBE", "UNSUBSCRIBE", "PINGREQ"}, NEW q \in 0..2,
         Enqueue(t, q)
  PROVE  InFlightIsHead'
  <1>1. PICK m : msgQueue' = QueuePuts(msgQueue, m)
    BY DEF Enqueue
  <1>2. CASE msgQueue = <<>>
    BY <1>2 DEF InFlightIsHead
  <1>3. CASE msgQueue # <<>>
    <2>1. CASE msgQueue' = msgQueue
      BY <2>1, InFlightKept
    <2>2. CASE msgQueue' = Append(msgQueue, m)
      <3>1. msgQueue' # <<>> /\ Head(msgQueue') = Head(msgQueue)
        BY <1>3, <2>2 DEF TypeOK, TypeClient
      <3> QED
        BY <3>1 DEF InFlightIsHead, AwaitsHead
    <2> QED
      BY <1>1, <2>1, <2>2 DEF QueuePuts
  <1> QED
    BY <1>2, <1>3

\* A received packet that completes the exchange removes the packet it was for.
LEMMA InFlightProcess ==
  ASSUME TypeOK, InFlightIsHead, NEW buf, NEW p, NEW rest, Process(buf, p, rest)
  PROVE  InFlightIsHead'
  <1>1. CASE Ignored(buf, p, rest)
    BY <1>1, InFlightKept DEF Ignored, exchange
  <1>2. CASE ReceiveConnack(buf, p, rest)
    BY <1>2, InFlightKept, InFlightEnded DEF ReceiveConnack
  <1>3. CASE ReceivePublish(buf, p, rest)
    <2>1. ack' = ack
      BY <1>3 DEF ReceivePublish, exchange
    <2>2. Enqueue("PUBLISH", 2) \/ UNCHANGED msgQueue
      BY <1>3 DEF ReceivePublish, Deliver
    <2> QED
      BY <2>1, <2>2, InFlightEnqueue, InFlightKept
  <1>4. CASE AwaitsPubrec(Head(buf)) /\ ReceivePubrec(buf, p, rest)
    <2>1. /\ ack' = [ack EXCEPT !.type = "PUBREL"] /\ msgQueue' = msgQueue
          /\ ack.wait /\ ack.type \in {"PUBLISH", "PUBREL"}
      BY <1>4 DEF ReceivePubrec, AwaitsPubrec
    <2>2. ack'.id = ack.id /\ ack'.type = "PUBREL"
      BY <2>1 DEF TypeOK, TypeExchange
    <2>3. msgQueue # <<>> /\ AwaitsHead(ack, Head(msgQueue))
      BY <2>1 DEF InFlightIsHead
    <2> QED
      BY <2>1, <2>2, <2>3 DEF InFlightIsHead, AwaitsHead
  <1>5. CASE ReceivePubrel(buf, p, rest)
    BY <1>5, InFlightKept DEF ReceivePubrel, exchange
  <1>6. CASE ReceiveAck(buf, p, rest)
    BY <1>6, InFlightEnded DEF ReceiveAck
  <1>7. CASE ReceivePingresp(buf, p, rest)
    BY <1>7, InFlightKept, InFlightEnded DEF ReceivePingresp
  <1> QED
    BY <1>1, <1>2, <1>3, <1>4, <1>5, <1>6, <1>7 DEF Process

\* What MQTT_Task starts to await is the acknowledgement of the head it sent.
LEMMA InFlightSend ==
  ASSUME TypeOK, NEW p, msgQueue # <<>>, SendHead(p)
  PROVE  InFlightIsHead'
  <1> DEFINE m == Head(msgQueue)
  <1>1. m \in Queued
    BY HeadTailProperties DEF TypeOK, TypeClient
  <1>2. PICK ok \in BOOLEAN :
       /\ ack' = IF ok THEN [wait |-> NeedsAck(m), type |-> m.type, id |-> GetId(m)]
                       ELSE NoAck
       /\ msgQueue' = AfterSend(ok, msgQueue)
    BY DEF SendHead
  <1>3. CASE ok /\ NeedsAck(m)
    <2>1. msgQueue' = msgQueue /\ ack' = [wait |-> TRUE, type |-> m.type, id |-> GetId(m)]
      BY <1>2, <1>3 DEF AfterSend
    <2>2. AwaitsHead(ack', m)
      BY <1>1, <1>3, <2>1 DEF AwaitsHead, NeedsAck, GetId, Queued
    <2> QED
      BY <2>1, <2>2 DEF InFlightIsHead, AwaitsHead
  <1>4. CASE ok /\ ~NeedsAck(m)
    BY <1>2, <1>4 DEF InFlightIsHead
  <1>5. CASE ~ok
    BY <1>2, <1>5, InFlightEnded
  <1> QED
    BY <1>3, <1>4, <1>5

\* The acknowledgement MQTT_Task waits for is always that of the packet at the
\* head of the queue, so mqtt_tcpclient_recv, which removes the head without
\* comparing it, removes the packet that was acknowledged.
THEOREM InFlightCorrect == Spec => []InFlightIsHead
  <1>1. Init => InFlightIsHead
    BY DEF Init, InFlightIsHead, NoAck
  <1>2. TypeOK /\ InFlightIsHead /\ [Next]_vars => InFlightIsHead'
    <2> SUFFICES ASSUME TypeOK, InFlightIsHead, [Next]_vars PROVE InFlightIsHead'
      OBVIOUS
    <2>1. CASE Task
      <3> DEFINE p == posts - 1
      <3>1. \/ Idle(p) \/ (HasPacket /\ Process(inBuf, p, s2c)) \/ Reconnect(p)
            \/ CloseConnection(p) \/ DeleteClient(p) \/ SendKeepalive(p)
            \/ (MaySend /\ SendHead(p))
        BY <2>1 DEF Task
      <3> HIDE DEF p
      <3>2. CASE Idle(p) \/ CloseConnection(p) \/ SendKeepalive(p)
        BY <3>2, InFlightKept DEF Idle, CloseConnection, SendKeepalive, exchange
      <3>3. CASE Reconnect(p) \/ DeleteClient(p)
        BY <3>3, InFlightEnded DEF Reconnect, MqttConnect, DeleteClient, ClearExchange
      <3>4. CASE HasPacket /\ Process(inBuf, p, s2c)
        BY <3>4, InFlightProcess
      <3>5. CASE MaySend /\ SendHead(p)
        BY <3>5, InFlightSend DEF MaySend
      <3> QED
        BY <3>1, <3>2, <3>3, <3>4, <3>5
    <2>2. CASE Recv
      <3>1. PICK n \in 1..Len(s2c) :
              \/ UNCHANGED <<exchange, msgQueue>>
              \/ Process(inBuf \o SubSeq(s2c, 1, n), posts, SubSeq(s2c, n + 1, Len(s2c)))
        BY <2>2 DEF Recv
      <3> QED
        BY <3>1, InFlightKept, InFlightProcess DEF exchange
    <2>3. CASE NetUp
      <3>1. ack'.type = "CONNECT"
        BY <2>3 DEF NetUp
      <3> QED
        BY <3>1 DEF InFlightIsHead
    <2>4. CASE AppCall
      <3>1. PICK c \in AppCalls : Enqueue(c[1], c[2])
        BY <2>4 DEF AppCall
      <3>2. /\ c[1] \in {"PUBLISH", "SUBSCRIBE", "UNSUBSCRIBE", "PINGREQ"}
            /\ c[2] \in 0..2
        BY ConstantsAssumption DEF ConstantsAssumption
      <3>3. ack' = ack
        BY <2>4 DEF AppCall, exchange
      <3> QED
        BY <3>1, <3>2, <3>3, InFlightEnqueue
    <2>5. CASE NetClosed \/ WifiGotIp \/ Reboot
      BY <2>5, InFlightEnded DEF NetClosed, WifiGotIp, MqttConnect, Reboot, ClearExchange
    <2>6. CASE DnsFound \/ NetError \/ RestartRequested \/ WifiDrop \/ Watchdog
      BY <2>6, InFlightKept
      DEF DnsFound, NetError, RestartRequested, WifiDrop, Watchdog, StationIdle, exchange
    <2>7. CASE SentCb \/ Tick
      BY <2>7, InFlightKept DEF SentCb, Tick
    <2>8. CASE RemoteClose \/ BrokerReceives \/ BrokerPublishes \/ UNCHANGED vars
      BY <2>8, InFlightKept
      DEF RemoteClose, BrokerReceives, BrokerPublishes, vars, clientVars
    <2> QED
      BY <2>1, <2>2, <2>3, <2>4, <2>5, <2>6, <2>7, <2>8 DEF Next, Client, Environment
  <1> QED
    BY <1>1, <1>2, TypeCorrect, PTL DEF Spec

-----------------------------------------------------------------------------
(* Whatever is awaited has a timeout *)

InUse == {"MQTT_CONNECT_SENDING", "MQTT_DATA", "MQTT_KEEPALIVE_SEND"}

\* Handlers that leave the exchange alone and do not take the connection into use.
LEMMA WaitKept ==
  ASSUME WaitHasTimeout, UNCHANGED <<ack, sendTimeout, ping>>,
         connState' \in InUse => connState \in InUse
  PROVE  WaitHasTimeout'
  BY DEF WaitHasTimeout, InUse

\* Handlers that clear the exchange await nothing.
LEMMA WaitCleared ==
  ASSUME ClearExchange
  PROVE  WaitHasTimeout'
  BY DEF ClearExchange, WaitHasTimeout, NoAck, NoPing

\* A received packet: what is awaited next gets a timeout of its own.
LEMMA WaitProcess ==
  ASSUME TypeOK, WaitHasTimeout, NEW buf, NEW p, NEW rest, Process(buf, p, rest)
  PROVE  WaitHasTimeout'
  <1>1. CASE Ignored(buf, p, rest)
    BY <1>1, WaitKept DEF Ignored, Consumed, exchange
  <1>2. CASE connState = "MQTT_CONNECT_SENDING" /\ ReceiveConnack(buf, p, rest)
    <2>1. UNCHANGED <<ack, sendTimeout, ping>> \/ (ack' = NoAck /\ ping' = ping)
      BY <1>2 DEF ReceiveConnack
    <2>2. ping.wait => ping.tmo > 0
      BY DEF WaitHasTimeout
    <2>3. CASE ack' = NoAck /\ ping' = ping
      BY <2>2, <2>3 DEF WaitHasTimeout, NoAck
    <2>4. CASE UNCHANGED <<ack, sendTimeout, ping>>
      BY <1>2, <2>4, WaitKept DEF InUse
    <2> QED
      BY <2>1, <2>3, <2>4
  <1>3. CASE Exchanging /\ ReceivePublish(buf, p, rest)
    BY <1>3, WaitKept DEF ReceivePublish, Exchanging, InUse, exchange
  <1>4. CASE ReceivePubrec(buf, p, rest)
    <2>1. sendTimeout' = SendTimeout /\ SendTimeout > 0 /\ ping' = ping
      BY <1>4, ConstantsType DEF ReceivePubrec
    <2> QED
      BY <2>1 DEF WaitHasTimeout
  <1>5. CASE Exchanging /\ ReceivePubrel(buf, p, rest)
    BY <1>5, WaitKept DEF ReceivePubrel, Exchanging, InUse, exchange
  <1>6. CASE ReceiveAck(buf, p, rest)
    BY <1>6 DEF ReceiveAck, WaitHasTimeout, NoAck
  <1>7. CASE Exchanging /\ ReceivePingresp(buf, p, rest)
    <2>1. UNCHANGED <<ack, sendTimeout>> \/ ack' = NoAck
      BY <1>7 DEF ReceivePingresp
    <2>2. ping' \in {ping, NoPing}
      BY <1>7 DEF ReceivePingresp
    <2>3. connState \in InUse
      BY <1>7 DEF Exchanging, InUse
    <2> QED
      BY <2>1, <2>2, <2>3 DEF WaitHasTimeout, InUse, NoAck, NoPing
  <1> QED
    BY <1>1, <1>2, <1>3, <1>4, <1>5, <1>6, <1>7 DEF Process

\* mqtt_timer: a timeout that runs out takes the connection out of use.
LEMMA WaitTick ==
  ASSUME TypeOK, WaitHasTimeout, Tick
  PROVE  WaitHasTimeout'
  <1>1. ping'.wait => ping'.tmo > 0
    <2>1. CASE PingDue
      BY <2>1 DEF Tick, NoPing
    <2>2. CASE ~PingDue /\ ping.wait
      <3>1. ping.tmo \in 0..SendTimeout /\ ping.tmo > 0 /\ ping.tmo # 1
        BY <2>2 DEF PingDue, WaitHasTimeout, TypeOK, TypeExchange
      <3>2. ping' = [ping EXCEPT !.tmo = ping.tmo - 1]
        BY <2>2, <3>1, ConstantsType DEF Tick, Countdown
      <3> QED
        BY <3>1, <3>2, ConstantsType DEF TypeOK, TypeExchange
    <2>3. CASE ~PingDue /\ ~ping.wait
      BY <2>3 DEF Tick, TypeOK, TypeExchange
    <2> QED
      BY <2>1, <2>2, <2>3
  <1>2. connState' \in InUse => connState \in InUse /\ ~SendDue
    BY DEF Tick, InUse, KeepDue
  <1>3. sendTimeout \in 0..SendTimeout /\ ack' = ack
    BY DEF Tick, TypeOK, TypeExchange
  <1>4. sendTimeout > 0 /\ ~SendDue => sendTimeout' > 0
    BY <1>3, ConstantsType DEF Tick, SendDue, Countdown
  <1> QED
    BY <1>1, <1>2, <1>3, <1>4 DEF WaitHasTimeout, InUse

\* MQTT_Task: each packet sent starts the timeout of what it awaits.
LEMMA WaitTask ==
  ASSUME TypeOK, WaitHasTimeout, Task
  PROVE  WaitHasTimeout'
  <1> DEFINE p == posts - 1
  <1>1. \/ Idle(p) \/ Process(inBuf, p, s2c) \/ Reconnect(p) \/ CloseConnection(p)
        \/ DeleteClient(p) \/ (connState = "MQTT_KEEPALIVE_SEND" /\ SendKeepalive(p))
        \/ SendHead(p)
    BY DEF Task
  <1> HIDE DEF p
  <1>2. CASE Idle(p) \/ CloseConnection(p)
    BY <1>2, WaitKept DEF Idle, CloseConnection, exchange
  <1>3. CASE Reconnect(p) \/ DeleteClient(p)
    BY <1>3, WaitCleared DEF Reconnect, MqttConnect, DeleteClient
  <1>4. CASE Process(inBuf, p, s2c)
    BY <1>4, WaitProcess
  <1>5. CASE connState = "MQTT_KEEPALIVE_SEND" /\ SendKeepalive(p)
    <2>1. /\ UNCHANGED <<ack, sendTimeout>>
          /\ ping' \in {ping, NoPing, [wait |-> TRUE, tmo |-> SendTimeout]}
      BY <1>5 DEF SendKeepalive
    <2> QED
      BY <1>5, <2>1, ConstantsType DEF WaitHasTimeout, NoPing
  <1>6. CASE SendHead(p)
    <2>1. ack' = NoAck \/ sendTimeout' = SendTimeout
      BY <1>6 DEF SendHead
    <2>2. ping' = ping /\ SendTimeout > 0
      BY <1>6, ConstantsType DEF SendHead
    <2> QED
      BY <2>1, <2>2 DEF WaitHasTimeout, NoAck
  <1> QED
    BY <1>1, <1>2, <1>3, <1>4, <1>5, <1>6

\* On a connection in use an acknowledgement is never awaited without a running
\* timeout, nor a PINGRESP at any time: no lost packet leaves the client waiting.
THEOREM WaitCorrect == Spec => []WaitHasTimeout
  <1>1. Init => WaitHasTimeout
    BY DEF Init, WaitHasTimeout, NoPing
  <1>2. TypeOK /\ WaitHasTimeout /\ [Next]_vars => WaitHasTimeout'
    <2> SUFFICES ASSUME TypeOK, WaitHasTimeout, [Next]_vars PROVE WaitHasTimeout'
      OBVIOUS
    <2>1. CASE Recv
      <3>1. PICK n \in 1..Len(s2c) :
              \/ UNCHANGED <<exchange, connState>>
              \/ Process(inBuf \o SubSeq(s2c, 1, n), posts, SubSeq(s2c, n + 1, Len(s2c)))
        BY <2>1 DEF Recv
      <3> QED
        BY <3>1, WaitKept, WaitProcess DEF exchange
    <2>2. CASE NetUp
      <3>1. /\ sendTimeout' = SendTimeout \/ connState' = "TCP_RECONNECT_DISCONNECTING"
            /\ ping' = ping /\ SendTimeout > 0
        BY <2>2, ConstantsType DEF NetUp
      <3> QED
        BY <3>1 DEF WaitHasTimeout
    <2>3. CASE SentCb
      <3>1. ack.wait => sendTimeout' = sendTimeout
        BY <2>3 DEF SentCb, TimeoutAfterSent
      <3>2. UNCHANGED <<connState, ack, ping>>
        BY <2>3 DEF SentCb
      <3> QED
        BY <3>1, <3>2 DEF WaitHasTimeout
    <2>4. CASE NetClosed \/ WifiGotIp \/ Reboot
      BY <2>4, WaitCleared DEF NetClosed, WifiGotIp, MqttConnect, Reboot
    <2>5. CASE DnsFound \/ NetError \/ RestartRequested \/ WifiDrop \/ Watchdog
      BY <2>5, WaitKept
      DEF DnsFound, NetError, RestartRequested, WifiDrop, Watchdog, StationIdle, exchange,
          InUse
    <2>6. CASE AppCall \/ RemoteClose \/ BrokerReceives \/ BrokerPublishes \/ UNCHANGED vars
      BY <2>6, WaitKept
      DEF AppCall, RemoteClose, BrokerReceives, BrokerPublishes, vars, clientVars, exchange
    <2> QED
      BY <2>1, <2>2, <2>3, <2>4, <2>5, <2>6, WaitTask, WaitTick DEF Next, Client, Environment
  <1> QED
    BY <1>1, <1>2, TypeCorrect, PTL DEF Spec

-----------------------------------------------------------------------------
(* One exchange at a time, and no message lost before a restart: the invariant *)

\* The packets of a sequence, in any order.
In(q) == {q[i] : i \in 1..Len(q)}

Kept(m) == m.type = "PUBLISH" /\ m.qos > 0

\* The client and the broker's session began together: after a restart, or once
\* the client is deleted, the session is about packets the client forgot.
Fresh == alive /\ restarts = 0

\* The packet at the head of the queue is a message the broker has.
HeadDelivered(qos) ==
  /\ msgQueue # <<>> /\ Head(msgQueue).type = "PUBLISH" /\ Head(msgQueue).qos = qos
  /\ Fresh => Head(msgQueue).pay \in In(delivered)

\* An answer of the broker in an exchange, and what it says of the packet at the
\* head of the queue.
Fits(m) ==
  /\ ack.wait
  /\ m.type = "SUBACK"   => ack.type = "SUBSCRIBE"
  /\ m.type = "UNSUBACK" => ack.type = "UNSUBSCRIBE"
  /\ m.type = "PUBACK"   => ack.type = "PUBLISH" /\ HeadDelivered(1)
  /\ m.type = "PUBREC"   => /\ ack.type = "PUBLISH" /\ HeadDelivered(2)
                            /\ m.id = Head(msgQueue).id
  /\ m.type = "PUBCOMP"  => /\ ack.type = "PUBREL" /\ HeadDelivered(2)
                            /\ Fresh => bRecv = {}

\* A step of the client that the broker has yet to answer.
FitsUp(m) ==
  /\ ack.wait
  /\ IF m.type = "PUBREL"
     THEN ack.type = "PUBREL" /\ HeadDelivered(2) /\ m.id = Head(msgQueue).id
     ELSE ack.type = m.type /\ msgQueue # <<>> /\ m = Head(msgQueue)

\* What is not connected carries nothing.
LinkOK == link \in {"down", "syn", "closing"} => c2s = <<>> /\ s2c = <<>>

\* The queue is in the order of the calls, and what awaits an answer with an
\* identifier has one.
QueueOK ==
  /\ \A i \in 1..Len(msgQueue) :
       /\ msgQueue[i].pay \in 1..calls
       /\ CarriesId(msgQueue[i].type, msgQueue[i].qos) => msgQueue[i].id > 0
  /\ \A i, j \in 1..Len(msgQueue) : i < j => msgQueue[i].pay < msgQueue[j].pay
  /\ \A n \in In(delivered) : n <= calls

\* The exchange on the wire is the one that is awaited; packets of an earlier
\* connection that are still in in_buffer do not pass for it.
WireOK ==
  /\ \A m \in In(c2s) : Asks(m) => FitsUp(m)
  /\ \A m \in In(s2c) : Answers(m) => Fits(m) /\ m.id > 0
  /\ \A m \in In(inBuf) : Answers(m) =>
       m.id > 0 /\ (ack.wait /\ ack.type # "CONNECT" => Fits(m))

AckOK ==
  /\ ~ack.wait => /\ ack.type \in {"none", "CONNECT", "PUBLISH"}
                  /\ ack.type = "PUBLISH" => ack.id = 0
  /\ ack.wait /\ ack.type = "PUBREL" => HeadDelivered(2)

\* Nothing is asked before the broker has accepted the connection.
ConnectOK ==
  connState = "MQTT_CONNECT_SENDING" =>
    /\ \A m \in In(c2s) : ~Asks(m) /\ m.type # "PINGREQ"
    /\ \A m \in In(s2c) : ~Answers(m) /\ m.type # "PINGRESP"

PingOK ==
  connState \in InUse /\ ~ping.wait /\ ~(ack.wait /\ ack.type = "PINGREQ") =>
    /\ \A m \in In(c2s) : m.type # "PINGREQ"
    /\ \A m \in In(s2c) : m.type # "PINGRESP"

\* The broker holds the identifier of the packet at the head of the queue, or none.
SessionOK == Fresh => \A id \in bRecv : HeadDelivered(2) /\ id = Head(msgQueue).id

\* A message that was accepted is in the queue as what it is, or delivered.
KeptOrDelivered == Fresh =>
  \A n \in In(accepted) : n \in In(delivered) \/ \E m \in In(msgQueue) : Kept(m) /\ m.pay = n

\* The parts of the invariant: the exchange on the wire, and the messages.
ExchangeOK == WireOK /\ AckOK /\ ConnectOK /\ PingOK /\ SessionOK
MessagesOK == QueueOK /\ KeptOrDelivered

DeliveryInv == LinkOK /\ ExchangeOK /\ OneExchange /\ MessagesOK

-----------------------------------------------------------------------------
(* Lemmas about sequences of packets *)

\* Append adds one packet.
LEMMA InAppend ==
  ASSUME NEW S, NEW q \in Seq(S), NEW m \in S
  PROVE  In(Append(q, m)) = In(q) \cup {m}
  <1>1. /\ Len(Append(q, m)) = Len(q) + 1 /\ Append(q, m)[Len(q) + 1] = m
        /\ \A i \in 1..Len(q) : Append(q, m)[i] = q[i]
        /\ Len(q) \in Nat
    BY AppendProperties, LenProperties
  <1>2. 1..Len(q) + 1 = (1..Len(q)) \cup {Len(q) + 1}
    BY <1>1
  <1> QED
    BY <1>1, <1>2 DEF In

\* A concatenation has the packets of both.
LEMMA InConcat ==
  ASSUME NEW S, NEW q \in Seq(S), NEW r \in Seq(S)
  PROVE  In(q \o r) = In(q) \cup In(r)
  <1>1. /\ Len(q) \in Nat /\ Len(r) \in Nat /\ Len(q \o r) = Len(q) + Len(r)
        /\ \A i \in 1..Len(q) + Len(r) :
             (q \o r)[i] = IF i <= Len(q) THEN q[i] ELSE r[i - Len(q)]
    BY ConcatProperties, LenProperties
  <1>2. \A i \in 1..Len(q) : i \in 1..Len(q) + Len(r) /\ (q \o r)[i] = q[i]
    BY <1>1
  <1>3. \A i \in 1..Len(r) : /\ Len(q) + i \in 1..Len(q) + Len(r)
                             /\ (q \o r)[Len(q) + i] = r[i]
    BY <1>1
  <1>4. \A i \in 1..Len(q) + Len(r) :
          \/ i \in 1..Len(q) /\ (q \o r)[i] = q[i]
          \/ i - Len(q) \in 1..Len(r) /\ (q \o r)[i] = r[i - Len(q)]
    BY <1>1
  <1>5. In(q \o r) \subseteq In(q) \cup In(r)
    BY <1>1, <1>4 DEF In
  <1>6. In(q) \subseteq In(q \o r)
    BY <1>1, <1>2 DEF In
  <1>7. In(r) \subseteq In(q \o r)
    <2> SUFFICES ASSUME NEW i \in 1..Len(r) PROVE r[i] \in In(q \o r)
      BY DEF In
    <2> QED
      BY <1>1, <1>3 DEF In
  <1> QED
    BY <1>5, <1>6, <1>7

\* The head of a sequence and the packets of its tail are its packets.
LEMMA InTail ==
  ASSUME NEW S, NEW q \in Seq(S), q # <<>>
  PROVE  /\ Head(q) = q[1] /\ Head(q) \in In(q) /\ In(Tail(q)) \subseteq In(q)
         /\ In(q) = {Head(q)} \cup In(Tail(q))
  <1>1. /\ Len(q) \in Nat \ {0} /\ Len(Tail(q)) = Len(q) - 1
        /\ \A i \in 1..Len(Tail(q)) : Tail(q)[i] = q[i + 1]
    BY HeadTailProperties, EmptySeq
  <1>2. Head(q) = q[1]
    OBVIOUS
  <1>3. \A i \in 1..Len(Tail(q)) : i + 1 \in 1..Len(q)
    BY <1>1
  <1>4. \A i \in 1..Len(q) : i = 1 \/ (i - 1 \in 1..Len(Tail(q)) /\ Tail(q)[i - 1] = q[i])
    BY <1>1
  <1>5. In(Tail(q)) \subseteq In(q) /\ Head(q) \in In(q)
    BY <1>1, <1>2, <1>3 DEF In
  <1>6. In(q) \subseteq {Head(q)} \cup In(Tail(q))
    BY <1>2, <1>4 DEF In
  <1> QED
    BY <1>2, <1>5, <1>6

\* The empty sequence has no packets.
LEMMA InEmpty == In(<<>>) = {}
  BY DEF In

\* q is a part of r, k places further on.
Within(q, r, k) == \A i \in 1..Len(q) : i + k \in 1..Len(r) /\ q[i] = r[i + k]

\* A sequence is a part of itself, and the empty one of any.
LEMMA WithinSelf ==
  ASSUME NEW S, NEW q \in Seq(S)
  PROVE  Within(q, q, 0) /\ Within(<<>>, q, 0)
  <1>1. Len(q) \in Nat
    BY LenProperties
  <1> QED
    BY <1>1 DEF Within

\* The tail of a sequence is a part of it, one place further on.
LEMMA WithinTail ==
  ASSUME NEW S, NEW q \in Seq(S), q # <<>>
  PROVE  Within(Tail(q), q, 1)
  <1>1. /\ Len(q) \in Nat \ {0} /\ Len(Tail(q)) = Len(q) - 1
        /\ \A i \in 1..Len(Tail(q)) : Tail(q)[i] = q[i + 1]
    BY HeadTailProperties, EmptySeq
  <1> QED
    BY <1>1 DEF Within

\* The end of a sequence, and its beginning without the head.
LEMMA WithinConcat ==
  ASSUME NEW S, NEW q \in Seq(S), NEW r \in Seq(S)
  PROVE  Within(r, q \o r, Len(q)) /\ Within(q, q \o r, 0)
  <1>1. /\ Len(q) \in Nat /\ Len(r) \in Nat /\ Len(q \o r) = Len(q) + Len(r)
        /\ \A i \in 1..Len(q) + Len(r) :
             (q \o r)[i] = IF i <= Len(q) THEN q[i] ELSE r[i - Len(q)]
    BY ConcatProperties, LenProperties
  <1> QED
    BY <1>1 DEF Within

\* The head of a concatenation comes off its first part.
LEMMA TailConcat ==
  ASSUME NEW S, NEW q \in Seq(S), q # <<>>, NEW r \in Seq(S)
  PROVE  Tail(q) \o r = Tail(q \o r) /\ q \o r # <<>> /\ Head(q \o r) = Head(q)
  <1>1. q \o r \in Seq(S) /\ Len(q \o r) = Len(q) + Len(r) /\ Len(r) \in Nat
        /\ Len(q) \in Nat \ {0}
        /\ \A i \in 1 .. Len(q) + Len(r) :
             (q \o r)[i] = IF i <= Len(q) THEN q[i] ELSE r[i - Len(q)]
    BY ConcatProperties, EmptySeq, LenProperties
  <1>2. q \o r # <<>>
    BY <1>1
  <1>3. Tail(q) \in Seq(S) /\ Len(Tail(q)) = Len(q) - 1
        /\ \A i \in 1 .. Len(Tail(q)) : Tail(q)[i] = q[i + 1]
    BY HeadTailProperties
  <1>4. /\ Tail(q) \o r \in Seq(S) /\ Len(Tail(q) \o r) = Len(q) - 1 + Len(r)
        /\ \A i \in 1 .. Len(q) - 1 + Len(r) :
             (Tail(q) \o r)[i] = IF i <= Len(q) - 1 THEN Tail(q)[i]
                                 ELSE r[i - (Len(q) - 1)]
    BY <1>3, ConcatProperties
  <1>5. /\ Tail(q \o r) \in Seq(S) /\ Len(Tail(q \o r)) = Len(q) + Len(r) - 1
        /\ \A i \in 1 .. Len(q) + Len(r) - 1 : Tail(q \o r)[i] = (q \o r)[i + 1]
    BY <1>1, <1>2, HeadTailProperties
  <1>6. \A i \in 1 .. Len(q) - 1 + Len(r) : (Tail(q) \o r)[i] = Tail(q \o r)[i]
    <2> TAKE i \in 1 .. Len(q) - 1 + Len(r)
    <2>1. i + 1 \in 1 .. Len(q) + Len(r) /\ i \in 1 .. Len(q) + Len(r) - 1
      BY <1>1
    <2>2. CASE i <= Len(q) - 1
      BY <1>1, <1>3, <1>4, <1>5, <2>1, <2>2
    <2>3. CASE ~(i <= Len(q) - 1)
      <3>1. i - (Len(q) - 1) = i + 1 - Len(q)
        BY <1>1
      <3> QED
        BY <1>1, <1>4, <1>5, <2>1, <2>3, <3>1
    <2> QED
      BY <2>2, <2>3
  <1>7. Tail(q) \o r = Tail(q \o r)
    BY <1>1, <1>4, <1>5, <1>6, SeqEqual
  <1> QED
    BY <1>1, <1>2, <1>7

-----------------------------------------------------------------------------
(* One exchange at a time on the wire *)

\* The packets on the wire, as sequences, and what Down holds.
LEMMA WireTypes ==
  ASSUME TypeOK
  PROVE  /\ c2s \in Seq(Packet) /\ s2c \in Seq(Packet) /\ inBuf \in Seq(Packet)
         /\ msgQueue \in Seq(Queued) /\ delivered \in Seq(Nat) /\ accepted \in Seq(Nat)
         /\ Down \in Seq(Packet) /\ In(Down) = In(inBuf) \cup In(s2c)
  <1>1. /\ c2s \in Seq(Packet) /\ s2c \in Seq(Packet) /\ inBuf \in Seq(Packet)
        /\ msgQueue \in Seq(Queued) /\ delivered \in Seq(Nat) /\ accepted \in Seq(Nat)
    BY DEF TypeOK, TypeNetwork, TypeClient, TypeBounds
  <1>2. Down \in Seq(Packet)
    BY <1>1, ConcatProperties DEF Down
  <1> QED
    BY <1>1, <1>2, InConcat DEF Down

\* Packets are lost or taken off the wire.
LEMMA ExchangeShrinks ==
  ASSUME OneExchange, NEW k1 \in Nat, NEW k2 \in Nat,
         Within(c2s', c2s, k1), Within(Down', Down, k2)
  PROVE  OneExchange'
  <1>1. \A i \in Asked' : i \in Nat /\ i + k1 \in Asked
    BY DEF Within, Asked
  <1>2. \A i \in Answered' : i \in Nat /\ i + k2 \in Answered
    BY DEF Within, Answered
  <1>3. \A i \in Pings' : i \in Nat /\ i + k1 \in Pings
    BY DEF Within, Pings
  <1>4. \A i \in PingResps' : i \in Nat /\ i + k2 \in PingResps
    BY DEF Within, PingResps
  <1>5. AtMostOne(Asked', Answered')
    BY <1>1, <1>2 DEF OneExchange, AtMostOne
  <1>6. AtMostOne(Pings', PingResps')
    BY <1>3, <1>4 DEF OneExchange, AtMostOne
  <1> QED
    BY <1>5, <1>6 DEF OneExchange, AtMostOne

\* The client sends m: a step of an exchange, or a ping, only if there is no
\* other on the wire.
LEMMA ExchangeSends ==
  ASSUME OneExchange, c2s \in Seq(Packet), Down' \in Seq(Packet), NEW m \in Packet,
         c2s' = Append(c2s, m), NEW k \in Nat, Within(Down', Down, k),
         Asks(m) => (\A x \in In(c2s) : ~Asks(x)) /\ (\A x \in In(Down') : ~Answers(x)),
         m.type = "PINGREQ" => /\ \A x \in In(c2s) : x.type # "PINGREQ"
                               /\ \A x \in In(Down') : x.type # "PINGRESP"
  PROVE  OneExchange'
  <1>1. /\ Len(c2s) \in Nat /\ Len(c2s') = Len(c2s) + 1 /\ c2s'[Len(c2s) + 1] = m
        /\ \A i \in 1..Len(c2s) : c2s'[i] = c2s[i]
    BY AppendProperties, LenProperties
  <1>2. \A i \in 1..Len(c2s') : i \in 1..Len(c2s) \/ i = Len(c2s) + 1
    BY <1>1
  <1>3. Asked' \subseteq Asked \cup {Len(c2s) + 1}
    BY <1>1, <1>2 DEF Asked
  <1>4. Len(c2s) + 1 \in Asked' => Asks(m)
    BY <1>1 DEF Asked, Asks
  <1>5. Pings' \subseteq Pings \cup {Len(c2s) + 1}
    BY <1>1, <1>2 DEF Pings
  <1>6. Len(c2s) + 1 \in Pings' => m.type = "PINGREQ"
    BY <1>1 DEF Pings
  <1>7. \A i \in Answered' : i \in Nat /\ i + k \in Answered
    BY DEF Within, Answered
  <1>8. \A i \in PingResps' : i \in Nat /\ i + k \in PingResps
    BY DEF Within, PingResps
  <1>9. Asks(m) => Asked = {} /\ Answered' = {}
    BY DEF Asked, Answered, In
  <1>10. m.type = "PINGREQ" => Pings = {} /\ PingResps' = {}
    BY DEF Pings, PingResps, In
  <1>11. AtMostOne(Asked', Answered')
    BY <1>3, <1>4, <1>7, <1>9 DEF OneExchange, AtMostOne
  <1>12. AtMostOne(Pings', PingResps')
    BY <1>5, <1>6, <1>8, <1>10 DEF OneExchange, AtMostOne
  <1> QED
    BY <1>11, <1>12 DEF OneExchange, AtMostOne

\* The broker sends r: an answer only to a packet it has just taken off the wire.
LEMMA ExchangeAnswers ==
  ASSUME OneExchange, c2s \in Seq(Packet), Down \in Seq(Packet), NEW r \in Packet,
         Down' = Append(Down, r), NEW k \in {0, 1}, Within(c2s', c2s, k),
         Answers(r) => k = 1 /\ 1 \in Asked,
         r.type = "PINGRESP" => k = 1 /\ 1 \in Pings
  PROVE  OneExchange'
  <1>1. /\ Len(Down) \in Nat /\ Len(Down') = Len(Down) + 1 /\ Down'[Len(Down) + 1] = r
        /\ \A i \in 1..Len(Down) : Down'[i] = Down[i]
    BY AppendProperties, LenProperties
  <1>2. \A i \in 1..Len(Down') : i \in 1..Len(Down) \/ i = Len(Down) + 1
    BY <1>1
  <1>3. Answered' \subseteq Answered \cup {Len(Down) + 1}
    BY <1>1, <1>2 DEF Answered
  <1>4. Len(Down) + 1 \in Answered' => Answers(r)
    BY <1>1 DEF Answered, Answers
  <1>5. PingResps' \subseteq PingResps \cup {Len(Down) + 1}
    BY <1>1, <1>2 DEF PingResps
  <1>6. Len(Down) + 1 \in PingResps' => r.type = "PINGRESP"
    BY <1>1 DEF PingResps
  <1>7. \A i \in Asked' : i \in Nat \ {0} /\ i + k \in Asked
    BY DEF Within, Asked
  <1>8. \A i \in Pings' : i \in Nat \ {0} /\ i + k \in Pings
    BY DEF Within, Pings
  <1>9. Answers(r) => Asked' = {} /\ Answered = {}
    BY <1>7 DEF OneExchange, AtMostOne
  <1>10. r.type = "PINGRESP" => Pings' = {} /\ PingResps = {}
    BY <1>8 DEF OneExchange, AtMostOne
  <1>11. AtMostOne(Asked', Answered')
    BY <1>3, <1>4, <1>7, <1>9 DEF OneExchange, AtMostOne
  <1>12. AtMostOne(Pings', PingResps')
    BY <1>5, <1>6, <1>8, <1>10 DEF OneExchange, AtMostOne
  <1> QED
    BY <1>11, <1>12 DEF OneExchange, AtMostOne

\* The answer that is processed is the only one, and nothing is asked.
LEMMA HeadAnswers ==
  ASSUME OneExchange, Down \in Seq(Packet), Down # <<>>, NEW k \in Nat \ {0},
         Within(Down', Down, k)
  PROVE  /\ Answers(Head(Down)) => /\ \A x \in In(c2s) : ~Asks(x)
                                   /\ \A x \in In(Down') : ~Answers(x)
         /\ Head(Down).type = "PINGRESP" => /\ \A x \in In(c2s) : x.type # "PINGREQ"
                                            /\ \A x \in In(Down') : x.type # "PINGRESP"
  <1>1. Head(Down) = Down[1] /\ 1 \in 1..Len(Down)
    BY HeadTailProperties, EmptySeq, LenProperties
  <1>2. \A i \in 1..Len(Down') : /\ i \in Nat \ {0} /\ i + k \in 1..Len(Down)
                                 /\ Down'[i] = Down[i + k] /\ i + k # 1
    BY DEF Within
  <1>3. ASSUME Answers(Head(Down))
        PROVE  (\A x \in In(c2s) : ~Asks(x)) /\ (\A x \in In(Down') : ~Answers(x))
    <2>1. 1 \in Answered
      BY <1>1, <1>3 DEF Answered
    <2>2. Asked = {} /\ \A i \in Answered : i = 1
      BY <2>1 DEF OneExchange, AtMostOne
    <2> QED
      BY <1>2, <2>2 DEF In, Asked, Answered
  <1>4. ASSUME Head(Down).type = "PINGRESP"
        PROVE  /\ \A x \in In(c2s) : x.type # "PINGREQ"
               /\ \A x \in In(Down') : x.type # "PINGRESP"
    <2>1. 1 \in PingResps
      BY <1>1, <1>4 DEF PingResps
    <2>2. Pings = {} /\ \A i \in PingResps : i = 1
      BY <2>1 DEF OneExchange, AtMostOne
    <2> QED
      BY <1>2, <2>2 DEF In, Pings, PingResps
  <1> QED
    BY <1>3, <1>4

-----------------------------------------------------------------------------
(* The exchange that is awaited *)

\* The head of the queue stays, and so does what the broker has delivered.
HeadKept ==
  /\ Fresh' => Fresh
  /\ msgQueue # <<>> => msgQueue' # <<>> /\ Head(msgQueue') = Head(msgQueue)
  /\ In(delivered) \subseteq In(delivered')

\* What is said of an exchange in progress stays true while it is awaited.
LEMMA FitsKept ==
  ASSUME HeadKept, ack' = ack, bRecv' = bRecv
  PROVE  /\ HeadDelivered(2) => HeadDelivered(2)'
         /\ \A m : Fits(m) => Fits(m)'
         /\ \A m : FitsUp(m) => FitsUp(m)'
  <1>1. \A q : HeadDelivered(q) => HeadDelivered(q)'
    BY DEF HeadKept, HeadDelivered
  <1>2. \A q : HeadDelivered(q) => msgQueue # <<>>
    BY DEF HeadDelivered
  <1>3. \A m : Fits(m) => Fits(m)'
    <2> TAKE m
    <2> HAVE Fits(m)
    <2>1. HeadDelivered(1) => HeadDelivered(1)'
      BY <1>1
    <2>2. HeadDelivered(2) => HeadDelivered(2)' /\ Head(msgQueue') = Head(msgQueue)
      BY <1>1, <1>2 DEF HeadKept
    <2> QED
      BY <2>1, <2>2 DEF Fits, HeadKept
  <1>4. \A m : FitsUp(m) => FitsUp(m)'
    <2> TAKE m
    <2> HAVE FitsUp(m)
    <2>1. HeadDelivered(2) => HeadDelivered(2)' /\ Head(msgQueue') = Head(msgQueue)
      BY <1>1, <1>2 DEF HeadKept
    <2> QED
      BY <2>1 DEF FitsUp, HeadKept
  <1> QED
    BY <1>1, <1>3, <1>4

\* Handlers that begin and end no exchange: what they put on the wire belongs to
\* none, but for the answer to a ping.
LEMMA ExchangeFrame ==
  ASSUME ExchangeOK, HeadKept, ack' = ack, bRecv' = bRecv,
         connState' = "MQTT_CONNECT_SENDING" => connState = "MQTT_CONNECT_SENDING",
         connState' \in InUse => connState \in InUse /\ ping'.wait = ping.wait,
         \A m \in In(c2s') : Asks(m) \/ m.type = "PINGREQ" => m \in In(c2s),
         \A m \in In(s2c') :
           /\ Answers(m) => m \in In(s2c)
           /\ m.type = "PINGRESP" => m \in In(s2c) \/ \E x \in In(c2s) : x.type = "PINGREQ",
         \A m \in In(inBuf') : Answers(m) => m \in In(inBuf) \cup In(s2c)
  PROVE  ExchangeOK'
  <1>1. WireOK'
    <2>1. \A m \in In(c2s') : Asks(m) => FitsUp(m)'
      BY FitsKept DEF ExchangeOK, WireOK
    <2>2. \A m \in In(s2c') : Answers(m) => Fits(m)' /\ m.id > 0
      BY FitsKept DEF ExchangeOK, WireOK
    <2>3. \A m \in In(inBuf') : Answers(m) =>
            m.id > 0 /\ (ack'.wait /\ ack'.type # "CONNECT" => Fits(m)')
      BY FitsKept DEF ExchangeOK, WireOK
    <2> QED
      BY <2>1, <2>2, <2>3 DEF WireOK, Asks, Answers
  <1>2. AckOK'
    BY FitsKept DEF ExchangeOK, AckOK
  <1>3. ConnectOK'
    BY DEF ExchangeOK, ConnectOK, Asks, Answers
  <1>4. PingOK'
    BY DEF ExchangeOK, PingOK
  <1>5. SessionOK'
    <2> SUFFICES ASSUME Fresh', NEW id \in bRecv
                 PROVE  HeadDelivered(2)' /\ id = Head(msgQueue').id
      BY DEF SessionOK
    <2>1. HeadDelivered(2) /\ id = Head(msgQueue).id
      BY DEF ExchangeOK, SessionOK, HeadKept
    <2>2. msgQueue # <<>>
      BY <2>1 DEF HeadDelivered
    <2> QED
      BY <2>1, <2>2, FitsKept DEF HeadKept
  <1> QED
    BY <1>1, <1>2, <1>3, <1>4, <1>5 DEF ExchangeOK

\* Handlers that end the exchange: no answer to it is left on the wire, and the
\* packet at the head of the queue is the one the broker's session is about.
LEMMA ExchangeEnds ==
  ASSUME ExchangeOK, ack' = NoAck, SessionOK',
         \A m \in In(c2s') : ~Asks(m),
         \A m \in In(s2c') : ~Answers(m),
         \A m \in In(inBuf') : Answers(m) => m.id > 0,
         connState' = "MQTT_CONNECT_SENDING" =>
           /\ \A m \in In(c2s') : m.type # "PINGREQ"
           /\ \A m \in In(s2c') : m.type # "PINGRESP",
         PingOK'
  PROVE  ExchangeOK'
  <1>1. WireOK'
    BY DEF WireOK, NoAck, Asks, Answers
  <1>2. AckOK' /\ ConnectOK'
    BY DEF AckOK, ConnectOK, NoAck, Asks, Answers
  <1> QED
    BY <1>1, <1>2 DEF ExchangeOK

\* Handlers that clear the connection.
LEMMA ExchangeCleared ==
  ASSUME ExchangeOK, ClearExchange, c2s' = <<>>, s2c' = <<>>,
         Fresh' => Fresh /\ UNCHANGED <<msgQueue, broker>>
  PROVE  ExchangeOK'
  <1>1. SessionOK'
    BY DEF ExchangeOK, SessionOK, HeadDelivered, broker
  <1>2. PingOK'
    BY InEmpty DEF PingOK
  <1>3. ack' = NoAck /\ inBuf' = <<>>
    BY DEF ClearExchange
  <1> QED
    BY <1>1, <1>2, <1>3, InEmpty, ExchangeEnds

-----------------------------------------------------------------------------
(* The messages in the queue *)

\* Handlers that leave the queue and the broker alone.
LEMMA MessagesKept ==
  ASSUME MessagesOK, UNCHANGED <<msgQueue, delivered, accepted, calls>>, Fresh' => Fresh
  PROVE  MessagesOK'
  BY DEF MessagesOK, QueueOK, KeptOrDelivered

\* The message at the head of the queue reaches the broker.
LEMMA MessagesDelivered ==
  ASSUME TypeOK, MessagesOK, msgQueue # <<>>, UNCHANGED <<msgQueue, accepted, calls>>,
         delivered' = Append(delivered, Head(msgQueue).pay), Fresh' => Fresh
  PROVE  MessagesOK' /\ In(delivered') = In(delivered) \cup {Head(msgQueue).pay}
  <1>1. Head(msgQueue) = msgQueue[1] /\ Head(msgQueue) \in Queued /\ 1 \in 1..Len(msgQueue)
    BY WireTypes, HeadTailProperties, EmptySeq, LenProperties
  <1>2. Head(msgQueue).pay \in 1..calls /\ Head(msgQueue).pay \in Nat /\ calls \in Nat
    BY <1>1, ConstantsType DEF MessagesOK, QueueOK, Queued, TypeOK, TypeBounds
  <1>3. In(delivered') = In(delivered) \cup {Head(msgQueue).pay}
    <2>1. delivered \in Seq(Nat)
      BY WireTypes
    <2> QED
      BY <1>2, <2>1, InAppend
  <1>4. QueueOK'
    BY <1>2, <1>3 DEF MessagesOK, QueueOK
  <1>5. KeptOrDelivered'
    BY <1>3 DEF MessagesOK, KeptOrDelivered
  <1> QED
    BY <1>3, <1>4, <1>5 DEF MessagesOK

\* The packet at the head of the queue is removed: the broker has its message, or
\* it carries none that was promised.
LEMMA MessagesPopped ==
  ASSUME TypeOK, MessagesOK, msgQueue # <<>>, msgQueue' = Tail(msgQueue),
         UNCHANGED <<delivered, accepted, calls>>,
         Fresh' => Fresh,
         Fresh /\ Kept(Head(msgQueue)) => Head(msgQueue).pay \in In(delivered)
  PROVE  MessagesOK'
  <1>1. /\ Len(msgQueue) \in Nat \ {0} /\ Len(Tail(msgQueue)) = Len(msgQueue) - 1
        /\ \A i \in 1..Len(Tail(msgQueue)) : Tail(msgQueue)[i] = msgQueue[i + 1]
    BY WireTypes, HeadTailProperties, EmptySeq
  <1>2. \A i \in 1..Len(Tail(msgQueue)) : i \in Nat /\ i + 1 \in 1..Len(msgQueue)
    BY <1>1
  <1>3. QueueOK'
    BY <1>1, <1>2 DEF MessagesOK, QueueOK
  <1>4. In(msgQueue) = {Head(msgQueue)} \cup In(Tail(msgQueue))
    BY WireTypes, InTail
  <1>5. KeptOrDelivered'
    BY <1>4 DEF MessagesOK, KeptOrDelivered
  <1> QED
    BY <1>3, <1>5 DEF MessagesOK

\* A call of the application: a packet behind the ones that are queued.
LEMMA MessagesEnqueued ==
  ASSUME TypeOK, MessagesOK, UNCHANGED delivered, Fresh' => Fresh,
         NEW t \in {"PUBLISH", "SUBSCRIBE", "UNSUBSCRIBE", "PINGREQ"}, NEW q \in 0..2,
         Enqueue(t, q)
  PROVE  MessagesOK' /\ HeadKept
  <1> DEFINE id == IF CarriesId(t, q) THEN NextId(message_id) ELSE 0
             m  == [type |-> t, qos |-> q, id |-> id, pay |-> calls + 1]
  <1>1. id \in Nat /\ (CarriesId(t, q) => id > 0)
    BY ConstantsType DEF NextId, TypeOK, TypeClient
  <1>2. calls \in Nat /\ calls' = calls + 1
    BY ConstantsType DEF Enqueue, TypeOK, TypeBounds
  <1>3. m \in Queued /\ m.pay = calls + 1 /\ m.type = t /\ m.qos = q /\ m.id = id
    BY <1>1, <1>2 DEF Queued
  <1>4. /\ msgQueue' = (IF Room THEN Append(msgQueue, m) ELSE msgQueue)
        /\ accepted' = IF Room /\ t = "PUBLISH" /\ q > 0
                       THEN Append(accepted, m.pay) ELSE accepted
    BY DEF Enqueue, QueuePuts
  <1> HIDE DEF id, m
  <1>5. CASE Room
    <2>1. msgQueue' = Append(msgQueue, m) /\ msgQueue' \in Seq(Queued)
      BY <1>3, <1>4, <1>5, WireTypes
    <2>2. /\ Len(msgQueue) \in Nat /\ Len(msgQueue') = Len(msgQueue) + 1
          /\ \A i \in 1..Len(msgQueue) : msgQueue'[i] = msgQueue[i]
          /\ msgQueue'[Len(msgQueue) + 1] = m
      BY <1>3, <2>1, WireTypes, AppendProperties, LenProperties
    <2>3. \A i \in 1..Len(msgQueue') : i \in 1..Len(msgQueue) \/ i = Len(msgQueue) + 1
      BY <2>2
    <2>4. \A i \in 1..Len(msgQueue') :
            /\ msgQueue'[i].pay \in 1..calls'
            /\ CarriesId(msgQueue'[i].type, msgQueue'[i].qos) => msgQueue'[i].id > 0
      BY <1>1, <1>2, <1>3, <2>2, <2>3 DEF MessagesOK, QueueOK
    <2>5. \A i, j \in 1..Len(msgQueue') : i < j => msgQueue'[i].pay < msgQueue'[j].pay
      <3> SUFFICES ASSUME NEW i \in 1..Len(msgQueue'), NEW j \in 1..Len(msgQueue'), i < j
                   PROVE  msgQueue'[i].pay < msgQueue'[j].pay
        OBVIOUS
      <3>1. i \in 1..Len(msgQueue) /\ msgQueue'[i].pay \in 1..calls
        BY <2>2, <2>3 DEF MessagesOK, QueueOK
      <3>2. CASE j = Len(msgQueue) + 1
        BY <1>2, <1>3, <2>2, <3>1, <3>2
      <3>3. CASE j \in 1..Len(msgQueue)
        BY <2>2, <3>1, <3>3 DEF MessagesOK, QueueOK
      <3> QED
        BY <2>3, <3>2, <3>3
    <2>6. \A n \in In(delivered') : n <= calls'
      <3>1. \A n \in In(delivered) : n \in Nat
        BY WireTypes, ElementOfSeq DEF In
      <3> QED
        BY <1>2, <3>1 DEF MessagesOK, QueueOK
    <2>7. In(msgQueue') = In(msgQueue) \cup {m}
      BY <1>3, <2>1, WireTypes, InAppend
    <2>8. In(accepted') \subseteq In(accepted) \cup {m.pay}
      <3>1. accepted \in Seq(Nat) /\ m.pay \in Nat
        BY <1>2, <1>3, WireTypes
      <3>2. In(Append(accepted, m.pay)) = In(accepted) \cup {m.pay}
        BY <3>1, InAppend
      <3> QED
        BY <1>4, <3>2
    <2>9. accepted' = accepted \/ Kept(m)
      BY <1>3, <1>4 DEF Kept
    <2>10. KeptOrDelivered'
      BY <2>7, <2>8, <2>9 DEF MessagesOK, KeptOrDelivered
    <2>11. HeadKept
      <3>1. msgQueue # <<>> => 1 \in 1..Len(msgQueue) /\ Head(msgQueue) = msgQueue[1]
        BY <2>2, WireTypes, EmptySeq
      <3>2. msgQueue' # <<>> /\ Head(msgQueue') = msgQueue'[1]
        BY <2>1, <2>2, EmptySeq
      <3> QED
        BY <2>2, <3>1, <3>2 DEF HeadKept
    <2> QED
      BY <2>4, <2>5, <2>6, <2>10, <2>11 DEF MessagesOK, QueueOK
  <1>6. CASE ~Room
    <2>1. msgQueue' = msgQueue /\ accepted' = accepted
      BY <1>4, <1>6
    <2>2. \A n \in In(delivered) : n \in Nat
      BY WireTypes, ElementOfSeq DEF In
    <2>3. QueueOK'
      BY <1>2, <2>1, <2>2 DEF MessagesOK, QueueOK
    <2> QED
      BY <2>1, <2>3 DEF MessagesOK, KeptOrDelivered, HeadKept
  <1> QED
    BY <1>5, <1>6

-----------------------------------------------------------------------------
(* Handlers that put nothing on the wire *)

\* They leave the exchange, the queue and the broker alone; what is on the wire
\* or in in_buffer may be dropped.
LEMMA DeliveryQuiet ==
  ASSUME TypeOK, DeliveryInv,
         UNCHANGED <<ack, msgQueue>>, UNCHANGED app, UNCHANGED broker, Fresh' => Fresh,
         connState' = "MQTT_CONNECT_SENDING" => connState = "MQTT_CONNECT_SENDING",
         connState' \in InUse => connState \in InUse /\ ping'.wait = ping.wait,
         UNCHANGED <<link, c2s, s2c>> \/ (c2s' = <<>> /\ s2c' = <<>>),
         inBuf' \in {inBuf, <<>>}
  PROVE  DeliveryInv'
  <1>1. /\ c2s \in Seq(Packet) /\ s2c \in Seq(Packet) /\ inBuf \in Seq(Packet)
        /\ <<>> \in Seq(Packet)
    BY WireTypes
  <1>2. LinkOK'
    BY DEF DeliveryInv, LinkOK
  <1>3. ExchangeOK'
    <2>1. HeadKept
      BY DEF HeadKept, broker
    <2>2. In(c2s') \subseteq In(c2s) /\ In(s2c') \subseteq In(s2c) /\ In(inBuf') \subseteq In(inBuf)
      BY InEmpty
    <2> QED
      BY <2>1, <2>2, ExchangeFrame DEF DeliveryInv, broker
  <1>4. OneExchange'
    <2>1. Within(c2s', c2s, 0)
      BY <1>1, WithinSelf
    <2>2. \E k \in Nat : Within(Down', Down, k)
      <3>1. /\ Within(inBuf, inBuf \o s2c, 0) /\ Within(s2c, inBuf \o s2c, Len(inBuf))
            /\ Len(inBuf) \in Nat
        BY <1>1, WithinConcat, LenProperties
      <3>2. /\ inBuf \o s2c \in Seq(Packet) /\ Within(inBuf \o s2c, inBuf \o s2c, 0)
            /\ Within(<<>>, inBuf \o s2c, 0)
        BY <1>1, ConcatProperties, WithinSelf
      <3>3. <<>> \o s2c = s2c /\ inBuf \o <<>> = inBuf /\ <<>> \o <<>> = <<>>
        BY <1>1, ConcatEmptySeq
      <3> QED
        BY <3>1, <3>2, <3>3 DEF Down
    <2> QED
      BY <2>1, <2>2, ExchangeShrinks DEF DeliveryInv
  <1>5. MessagesOK'
    BY MessagesKept DEF DeliveryInv, app, broker
  <1> QED
    BY <1>2, <1>3, <1>4, <1>5 DEF DeliveryInv

\* MQTT_Connect, from whichever handler calls it.
LEMMA DeliveryConnect ==
  ASSUME TypeOK, DeliveryInv, NEW p, NEW s \in {"TCP_CONNECTING", "TCP_RECONNECT_REQ"},
         MqttConnect(p, s), UNCHANGED app, UNCHANGED broker, restarts' = restarts
  PROVE  DeliveryInv'
  <1>1. /\ ClearExchange /\ c2s' = <<>> /\ s2c' = <<>> /\ UNCHANGED msgQueue /\ Fresh' = Fresh
        /\ connState' \in {"TCP_CONNECTING", "TCP_RECONNECT_REQ"} /\ inBuf' = <<>>
    BY DEF MqttConnect, DropLink, ClearExchange, Fresh
  <1>2. LinkOK'
    BY <1>1 DEF DeliveryInv, LinkOK
  <1>3. ExchangeOK'
    BY <1>1, ExchangeCleared DEF DeliveryInv
  <1>4. OneExchange'
    <2>1. c2s \in Seq(Packet) /\ Down \in Seq(Packet) /\ <<>> \in Seq(Packet)
      BY WireTypes
    <2>2. Down' = <<>>
      BY <1>1, <2>1, ConcatEmptySeq DEF Down
    <2> QED
      BY <1>1, <2>1, <2>2, WithinSelf, ExchangeShrinks DEF DeliveryInv
  <1>5. MessagesOK'
    BY <1>1, MessagesKept DEF DeliveryInv, app, broker
  <1> QED
    BY <1>2, <1>3, <1>4, <1>5 DEF DeliveryInv

\* A restart, or the end of the client: everything is forgotten.
LEMMA DeliveryForgotten ==
  ASSUME TypeOK, DeliveryInv, ClearExchange, msgQueue' = <<>>, c2s' = <<>>, s2c' = <<>>,
         ~Fresh', UNCHANGED <<delivered, calls>>
  PROVE  DeliveryInv'
  <1>1. LinkOK'
    BY DEF LinkOK
  <1>2. ExchangeOK'
    BY ExchangeCleared DEF DeliveryInv
  <1>3. OneExchange'
    <2>1. inBuf' = <<>>
      BY DEF ClearExchange
    <2>2. c2s \in Seq(Packet) /\ Down \in Seq(Packet) /\ <<>> \in Seq(Packet)
      BY WireTypes
    <2>3. Down' = <<>>
      BY <2>1, <2>2, ConcatEmptySeq DEF Down
    <2> QED
      BY <2>2, <2>3, WithinSelf, ExchangeShrinks DEF DeliveryInv
  <1>4. MessagesOK'
    BY DEF DeliveryInv, MessagesOK, QueueOK, KeptOrDelivered
  <1> QED
    BY <1>1, <1>2, <1>3, <1>4 DEF DeliveryInv

\* mqtt_tcpclient_connect_cb: a CONNECT is on the wire, and nothing else.
LEMMA DeliveryNetUp ==
  ASSUME TypeOK, DeliveryInv, NetUp
  PROVE  DeliveryInv'
  <1>1. PICK ok \in BOOLEAN :
          /\ link' = "up" /\ s2c' = <<>>
          /\ ack' = [wait |-> IF ok THEN TRUE ELSE ack.wait, type |-> "CONNECT", id |-> 0]
          /\ connState' = IF ok THEN "MQTT_CONNECT_SENDING"
                                ELSE "TCP_RECONNECT_DISCONNECTING"
          /\ c2s' = IF ok THEN <<Ctl("CONNECT", 0)>> ELSE <<>>
    BY DEF NetUp
  <1>2. UNCHANGED <<ping, msgQueue, inBuf>> /\ UNCHANGED broker /\ UNCHANGED app /\ Fresh' = Fresh
    BY DEF NetUp, Fresh, bounds
  <1>3. /\ c2s \in Seq(Packet) /\ s2c \in Seq(Packet) /\ inBuf \in Seq(Packet)
        /\ <<>> \in Seq(Packet)
    BY WireTypes
  <1>4. c2s = <<>> /\ s2c = <<>>
    BY DEF NetUp, DeliveryInv, LinkOK
  <1>5. \A m \in In(c2s') : ~Asks(m) /\ m.type # "PINGREQ"
    BY <1>1 DEF In, Ctl, Asks
  <1>6. LinkOK'
    BY <1>1, <1>2 DEF DeliveryInv, LinkOK
  <1>7. ExchangeOK'
    <2>1. WireOK'
      BY <1>1, <1>2, <1>5, InEmpty DEF DeliveryInv, ExchangeOK, WireOK, Asks, Answers
    <2>2. AckOK'
      BY <1>1 DEF AckOK
    <2>3. ConnectOK' /\ PingOK'
      BY <1>1, <1>5, InEmpty DEF ConnectOK, PingOK, Asks, Answers
    <2>4. SessionOK'
      BY <1>2 DEF DeliveryInv, ExchangeOK, SessionOK, HeadDelivered, broker
    <2> QED
      BY <2>1, <2>2, <2>3, <2>4 DEF ExchangeOK
  <1>8. OneExchange'
    <2>1. Down' = inBuf /\ Down = inBuf
      BY <1>1, <1>2, <1>3, <1>4, ConcatEmptySeq DEF Down
    <2>2. Asked' = {} /\ Pings' = {}
      BY <1>5 DEF In, Asked, Pings, Asks
    <2>3. Answered' = Answered /\ PingResps' = PingResps
      BY <2>1 DEF Answered, PingResps, Answers
    <2> QED
      BY <2>2, <2>3 DEF DeliveryInv, OneExchange, AtMostOne
  <1>9. MessagesOK'
    BY <1>2, MessagesKept DEF DeliveryInv, app, broker
  <1> QED
    BY <1>6, <1>7, <1>8, <1>9 DEF DeliveryInv

\* A call of the application.
LEMMA DeliveryAppCall ==
  ASSUME TypeOK, DeliveryInv, AppCall
  PROVE  DeliveryInv'
  <1>1. PICK c \in AppCalls : Enqueue(c[1], c[2])
    BY DEF AppCall
  <1>2. c[1] \in {"PUBLISH", "SUBSCRIBE", "UNSUBSCRIBE", "PINGREQ"} /\ c[2] \in 0..2
    BY ConstantsAssumption DEF ConstantsAssumption
  <1>3. /\ UNCHANGED <<connState, ack, ping, inBuf, link, c2s, s2c, bRecv, delivered>>
        /\ Fresh' = Fresh
    BY DEF AppCall, exchange, tcp, broker, bounds, Fresh
  <1>4. MessagesOK' /\ HeadKept
    BY <1>1, <1>2, <1>3, MessagesEnqueued DEF DeliveryInv
  <1>5. ExchangeOK'
    BY <1>3, <1>4, ExchangeFrame DEF DeliveryInv
  <1>6. LinkOK' /\ OneExchange'
    BY <1>3 DEF DeliveryInv, LinkOK, OneExchange, Asked, Answered, Pings, PingResps, Down,
                AtMostOne, Asks, Answers
  <1> QED
    BY <1>4, <1>5, <1>6 DEF DeliveryInv

-----------------------------------------------------------------------------
(* What MQTT_Task sends *)

\* An acknowledgement that is not awaited is not on the wire either.
LEMMA NothingAsked ==
  ASSUME TypeOK, DeliveryInv, ~ack.wait, inBuf = <<>>
  PROVE  /\ \A m \in In(c2s) : ~Asks(m)
         /\ \A m \in In(Down) : ~Answers(m)
  BY WireTypes, InEmpty DEF DeliveryInv, ExchangeOK, WireOK, Fits, FitsUp

\* Nor is a ping, while the connection is in use.
LEMMA NothingPinged ==
  ASSUME TypeOK, DeliveryInv, ~ack.wait, ~ping.wait, connState \in InUse, inBuf = <<>>
  PROVE  /\ \A m \in In(c2s) : m.type # "PINGREQ"
         /\ \A m \in In(Down) : m.type # "PINGRESP"
  BY WireTypes, InEmpty DEF DeliveryInv, ExchangeOK, PingOK

\* case MQTT_DATA: the head of the queue is sent when nothing is in flight.
LEMMA DeliverySendHead ==
  ASSUME TypeOK, TypeOK', DeliveryInv, connState = "MQTT_DATA", MaySend, ~HasPacket,
         NEW p, SendHead(p)
  PROVE  DeliveryInv'
  <1> DEFINE m == Head(msgQueue)
  <1>1. PICK ok \in BOOLEAN :
          /\ EspconnSend(ok, m) /\ UNCHANGED <<link, s2c>>
          /\ ack' = IF ok THEN [wait |-> NeedsAck(m), type |-> m.type, id |-> GetId(m)]
                          ELSE NoAck
          /\ msgQueue' = AfterSend(ok, msgQueue)
          /\ connState' = IF ok THEN connState ELSE "TCP_RECONNECT_DISCONNECTING"
    BY DEF SendHead
  <1>2. UNCHANGED <<ping, inBuf>> /\ UNCHANGED broker /\ UNCHANGED app /\ Fresh' = Fresh
    BY DEF SendHead, Fresh, bounds
  <1>3. ~ack.wait /\ ~ping.wait /\ inBuf = <<>> /\ msgQueue # <<>> /\ connState \in InUse
    BY DEF MaySend, HasPacket, InUse
  <1>4. /\ \A x \in In(c2s) : ~Asks(x) /\ x.type # "PINGREQ"
        /\ \A x \in In(Down) : ~Answers(x) /\ x.type # "PINGRESP"
    BY <1>3, NothingAsked, NothingPinged
  <1>5. /\ c2s \in Seq(Packet) /\ s2c \in Seq(Packet) /\ Down \in Seq(Packet)
        /\ In(Down) = In(inBuf) \cup In(s2c) /\ msgQueue \in Seq(Queued)
    BY WireTypes
  <1>6. /\ m \in Queued /\ m = msgQueue[1] /\ 1 \in 1..Len(msgQueue) /\ m \in Packet
    BY <1>3, <1>5, HeadTailProperties, EmptySeq, LenProperties, QueuedIsPacket
  <1>7. m.type \in {"PUBLISH", "SUBSCRIBE", "UNSUBSCRIBE", "PINGREQ"} /\ m.qos \in 0..2
    BY <1>6 DEF Queued
  <1> HIDE DEF m
  <1>8. LinkOK'
    <2>1. c2s' = c2s \/ LinkUp
      BY <1>1 DEF EspconnSend
    <2> QED
      BY <1>1, <1>2, <1>3, <2>1 DEF DeliveryInv, LinkOK, LinkUp
  <1>9. Down' = Down
    BY <1>1, <1>2 DEF Down
  <1>10. OneExchange'
    <2>1. Within(Down', Down, 0)
      BY <1>5, <1>9, WithinSelf
    <2>2. CASE ok
      <3>1. c2s' = Append(c2s, m)
        BY <1>1, <2>2 DEF EspconnSend
      <3> QED
        BY <1>4, <1>5, <1>6, <1>9, <2>1, <3>1, ExchangeSends DEF DeliveryInv
    <2>3. CASE ~ok
      <3>1. c2s' = c2s
        BY <1>1, <2>3 DEF EspconnSend
      <3> QED
        BY <1>5, <2>1, <3>1, WithinSelf, ExchangeShrinks DEF DeliveryInv
    <2> QED
      BY <2>2, <2>3
  <1>11. CASE ~ok
    <2>1. ack' = NoAck /\ c2s' = c2s /\ msgQueue' = msgQueue /\ connState' \notin InUse
      BY <1>1, <1>11 DEF EspconnSend, AfterSend, InUse
    <2>2. SessionOK' /\ PingOK'
      BY <1>2, <2>1 DEF DeliveryInv, ExchangeOK, SessionOK, PingOK, HeadDelivered, broker
    <2>3. ExchangeOK'
      BY <1>1, <1>2, <1>3, <1>4, <1>5, <2>1, <2>2, InEmpty, ExchangeEnds DEF DeliveryInv, InUse
    <2>4. MessagesOK'
      BY <1>2, <2>1, MessagesKept DEF DeliveryInv, app, broker
    <2> QED
      BY <1>8, <1>10, <2>3, <2>4 DEF DeliveryInv
  <1>12. CASE ok /\ ~NeedsAck(m)
    <2>1. /\ ack' = [wait |-> FALSE, type |-> "PUBLISH", id |-> 0]
          /\ msgQueue' = Tail(msgQueue) /\ m.type = "PUBLISH" /\ m.qos = 0
          /\ c2s' = Append(c2s, m) /\ connState' = connState
      <3>1. m.type = "PUBLISH" /\ m.qos = 0
        BY <1>7, <1>12 DEF NeedsAck
      <3>2. GetId(m) = 0 /\ NeedsAck(m) = FALSE
        BY <3>1 DEF GetId, NeedsAck
      <3>3. /\ ack' = [wait |-> NeedsAck(m), type |-> m.type, id |-> GetId(m)]
            /\ c2s' = Append(c2s, m) /\ connState' = connState
        BY <1>1, <1>12 DEF EspconnSend
      <3>4. msgQueue' = Tail(msgQueue)
        BY <1>1, <1>12 DEF AfterSend, m
      <3> QED
        BY <3>1, <3>2, <3>3, <3>4
    <2>2. In(c2s') = In(c2s) \cup {m}
      BY <1>5, <1>6, <2>1, InAppend
    <2>3. \A x \in In(c2s') : ~Asks(x) /\ x.type # "PINGREQ"
      BY <1>4, <2>1, <2>2 DEF Asks
    <2>4. Fresh => bRecv = {}
      BY <2>1 DEF DeliveryInv, ExchangeOK, SessionOK, HeadDelivered, m
    <2>5. WireOK' /\ AckOK' /\ ConnectOK' /\ PingOK'
      BY <1>1, <1>2, <1>3, <1>4, <1>5, <2>1, <2>3, InEmpty
      DEF WireOK, AckOK, ConnectOK, PingOK, Asks, Answers
    <2>6. SessionOK'
      BY <1>2, <2>4 DEF SessionOK, broker
    <2>7. MessagesOK'
      BY <1>2, <1>3, <2>1, MessagesPopped DEF DeliveryInv, Kept, app, broker, m
    <2> QED
      BY <1>8, <1>10, <2>5, <2>6, <2>7 DEF DeliveryInv, ExchangeOK
  <1>13. CASE ok /\ NeedsAck(m)
    <2>1. /\ ack' = [wait |-> TRUE, type |-> m.type, id |-> GetId(m)]
          /\ msgQueue' = msgQueue /\ c2s' = Append(c2s, m) /\ connState' = connState
      BY <1>1, <1>13 DEF EspconnSend, AfterSend, m
    <2>2. In(c2s') = In(c2s) \cup {m}
      BY <1>5, <1>6, <2>1, InAppend
    <2>3. FitsUp(m)'
      BY <1>3, <1>7, <2>1 DEF FitsUp, m
    <2>4. WireOK'
      <3>1. \A x \in In(c2s') : Asks(x) => FitsUp(x)'
        <4>1. m' = m
          BY <2>1 DEF m
        <4> SUFFICES ASSUME NEW x \in In(c2s'), Asks(x) PROVE FitsUp(x)'
          OBVIOUS
        <4>2. x = m
          BY <1>4, <2>2
        <4> QED
          BY <2>3, <4>1, <4>2
      <3>2. \A x \in In(s2c') : ~Answers(x)
        BY <1>1, <1>4, <1>5
      <3>3. In(inBuf') = {}
        BY <1>2, <1>3, InEmpty
      <3> QED
        BY <3>1, <3>2, <3>3 DEF WireOK, Asks, Answers
    <2>5. AckOK'
      BY <1>7, <2>1 DEF AckOK
    <2>6. ConnectOK'
      BY <2>1 DEF ConnectOK
    <2>7. PingOK'
      BY <1>1, <1>2, <1>4, <1>5, <2>1, <2>2 DEF PingOK
    <2>8. SessionOK'
      BY <1>2, <2>1 DEF DeliveryInv, ExchangeOK, SessionOK, HeadDelivered, broker
    <2>9. MessagesOK'
      BY <1>2, <2>1, MessagesKept DEF DeliveryInv, app, broker
    <2> QED
      BY <1>8, <1>10, <2>4, <2>5, <2>6, <2>7, <2>8, <2>9 DEF DeliveryInv, ExchangeOK
  <1> QED
    BY <1>11, <1>12, <1>13

\* mqtt_send_keepalive: a PINGREQ is sent when no other is on the wire.
LEMMA DeliverySendKeepalive ==
  ASSUME TypeOK, DeliveryInv, connState = "MQTT_KEEPALIVE_SEND", ~HasPacket,
         NEW p, SendKeepalive(p)
  PROVE  DeliveryInv'
  <1>1. /\ UNCHANGED <<ack, msgQueue, inBuf>> /\ UNCHANGED broker /\ UNCHANGED app
        /\ Fresh' = Fresh
    BY DEF SendKeepalive, Fresh, bounds
  <1>2. connState \in InUse
    BY DEF InUse
  <1>3. CASE UNCHANGED ping /\ UNCHANGED tcp /\ connState' \in {connState, "MQTT_DATA"}
    BY <1>1, <1>2, <1>3, DeliveryQuiet DEF tcp, InUse
  <1>4. ASSUME pCon, ~(ping.wait \/ ack.wait \/ sendTimeout > 0), NEW ok \in BOOLEAN,
               EspconnSend(ok, Ctl("PINGREQ", 0)), UNCHANGED <<link, s2c>>,
               connState' = IF ok THEN "MQTT_DATA" ELSE "TCP_RECONNECT_DISCONNECTING",
               ping' = IF ok THEN [wait |-> TRUE, tmo |-> SendTimeout] ELSE NoPing
        PROVE  DeliveryInv'
    <2>1. CASE ~ok
      BY <1>1, <1>4, <2>1, DeliveryQuiet DEF EspconnSend, InUse
    <2>2. CASE ok
      <3> DEFINE m == Ctl("PINGREQ", 0)
      <3>1. /\ c2s' = Append(c2s, m) /\ connState' = "MQTT_DATA" /\ ping'.wait /\ LinkUp
        BY <1>4, <2>2 DEF EspconnSend
      <3>2. m.type = "PINGREQ" /\ m \in Packet
        BY CtlType DEF Ctl, PacketTypes
      <3> HIDE DEF m
      <3>3. ~ack.wait /\ ~ping.wait /\ inBuf = <<>>
        BY <1>4 DEF HasPacket
      <3>4. /\ \A x \in In(c2s) : ~Asks(x) /\ x.type # "PINGREQ"
            /\ \A x \in In(Down) : ~Answers(x) /\ x.type # "PINGRESP"
        BY <1>2, <3>3, NothingAsked, NothingPinged
      <3>5. /\ c2s \in Seq(Packet) /\ s2c \in Seq(Packet) /\ Down \in Seq(Packet)
        BY WireTypes
      <3>6. Down' = Down
        BY <1>1, <1>4 DEF Down
      <3>7. OneExchange'
        BY <3>1, <3>2, <3>4, <3>5, <3>6, WithinSelf, ExchangeSends DEF DeliveryInv, Asks
      <3>8. In(c2s') = In(c2s) \cup {m}
        BY <3>1, <3>2, <3>5, InAppend
      <3>9. WireOK'
        BY <1>1, <1>4, <3>2, <3>4, <3>8
        DEF DeliveryInv, ExchangeOK, WireOK, Asks, Answers, Fits, HeadDelivered, broker
      <3>10. AckOK' /\ SessionOK'
        BY <1>1 DEF DeliveryInv, ExchangeOK, AckOK, SessionOK, HeadDelivered, broker
      <3>11. ConnectOK' /\ PingOK'
        BY <3>1 DEF ConnectOK, PingOK
      <3>12. LinkOK'
        BY <1>1, <1>4, <3>1 DEF DeliveryInv, LinkOK, LinkUp
      <3>13. MessagesOK'
        BY <1>1, MessagesKept DEF DeliveryInv, app, broker
      <3> QED
        BY <3>7, <3>9, <3>10, <3>11, <3>12, <3>13 DEF DeliveryInv, ExchangeOK
    <2> QED
      BY <2>1, <2>2
  <1> QED
    BY <1>3, <1>4 DEF SendKeepalive

-----------------------------------------------------------------------------
(* What mqtt_tcpclient_recv does with a packet *)

\* buf is what the handler has in its hands, rest what stays on the network.
Received(buf, rest) ==
  /\ buf \in Seq(Packet) /\ buf # <<>> /\ rest \in Seq(Packet)
  /\ buf \o rest = Down /\ In(rest) \subseteq In(s2c)
  /\ LinkUp \/ rest = s2c

\* After the handler the packet is gone.
LEMMA TakenOff ==
  ASSUME TypeOK, NEW buf, NEW rest, Received(buf, rest),
         inBuf' \in {<<>>, Tail(buf)}, s2c' \in {<<>>, rest}
  PROVE  /\ \E k \in Nat \ {0} : Within(Down', Down, k)
         /\ In(inBuf') \subseteq In(inBuf) \cup In(s2c) /\ In(s2c') \subseteq In(s2c)
         /\ Head(buf) = Head(Down) /\ Head(buf) \in In(inBuf) \cup In(s2c) /\ Down # <<>>
         /\ Head(buf) \in Packet
  <1>1. /\ buf \in Seq(Packet) /\ buf # <<>> /\ rest \in Seq(Packet) /\ Tail(buf) \in Seq(Packet)
        /\ Len(buf) \in Nat \ {0} /\ Head(buf) \in Packet
    BY HeadTailProperties, LenProperties, EmptySeq DEF Received
  <1>2. Down \in Seq(Packet) /\ In(Down) = In(inBuf) \cup In(s2c) /\ Down = buf \o rest
    BY WireTypes DEF Received
  <1>3. In(Down) = In(buf) \cup In(rest)
    BY <1>1, <1>2, InConcat
  <1>4. Head(buf) \in In(buf) /\ In(Tail(buf)) \subseteq In(buf)
    BY <1>1, InTail
  <1>5. Tail(buf) \o rest = Tail(Down) /\ Down # <<>> /\ Head(Down) = Head(buf)
    BY <1>1, <1>2, TailConcat
  <1>6. \E k \in Nat \ {0} : Within(Down', Down, k)
    <2>1. <<>> \in Seq(Packet)
      OBVIOUS
    <2>2. CASE inBuf' = Tail(buf) /\ s2c' = rest
      <3>1. Down' = Tail(Down)
        BY <1>5, <2>2 DEF Down
      <3> QED
        <4>1. Within(Tail(Down), Down, 1)
          BY <1>2, <1>5, WithinTail
        <4> QED
          BY <3>1, <4>1
    <2>3. CASE inBuf' = Tail(buf) /\ s2c' = <<>>
      <3>1. Down' = Tail(buf)
        BY <1>1, <2>3, ConcatEmptySeq DEF Down
      <3>2. Within(Tail(buf), buf, 1) /\ Within(buf, Down, 0)
        BY <1>1, <1>2, WithinTail, WithinConcat
      <3>3. Within(Tail(buf), Down, 1)
        BY <3>2, <1>1, LenProperties DEF Within
      <3> QED
        BY <3>1, <3>3
    <2>4. CASE inBuf' = <<>> /\ s2c' = rest
      <3>1. Down' = rest
        BY <1>1, <2>4, ConcatEmptySeq DEF Down
      <3>2. Within(rest, Down, Len(buf))
        BY <1>1, <1>2, WithinConcat
      <3> QED
        BY <1>1, <3>1, <3>2
    <2>5. CASE inBuf' = <<>> /\ s2c' = <<>>
      <3>1. Down' = <<>>
        BY <2>1, <2>5, ConcatEmptySeq DEF Down
      <3>2. Within(<<>>, Down, 1)
        BY DEF Within
      <3> QED
        BY <3>1, <3>2
    <2> QED
      BY <2>2, <2>3, <2>4, <2>5
  <1>7. In(s2c') \subseteq In(s2c) /\ In(inBuf') \subseteq In(Down)
    BY <1>3, <1>4, InEmpty DEF Received
  <1> QED
    BY <1>1, <1>2, <1>3, <1>4, <1>5, <1>6, <1>7

\* Handlers that take a packet and put nothing on the wire that begins an exchange.
LEMMA DeliveryTaken ==
  ASSUME TypeOK, TypeOK', DeliveryInv, NEW buf, NEW rest, Received(buf, rest),
         inBuf' \in {<<>>, Tail(buf)}, s2c' \in {<<>>, rest}, MessagesOK', HeadKept,
         UNCHANGED <<ack, ping>>, UNCHANGED broker,
         link' = link \/ (s2c' = <<>> /\ c2s' = <<>>),
         connState' \in {connState, "TCP_DISCONNECTING", "TCP_RECONNECT_DISCONNECTING"},
         c2s' \in {c2s, <<>>} \/ \E m \in Packet : /\ c2s' = Append(c2s, m) /\ LinkUp
                                                   /\ ~Asks(m) /\ m.type # "PINGREQ"
  PROVE  DeliveryInv'
  <1>1. /\ In(inBuf') \subseteq In(inBuf) \cup In(s2c) /\ In(s2c') \subseteq In(s2c)
    BY TakenOff
  <1>2. PICK k \in Nat \ {0} : Within(Down', Down, k)
    BY TakenOff
  <1>3. /\ c2s \in Seq(Packet) /\ Down' \in Seq(Packet) /\ s2c \in Seq(Packet)
        /\ <<>> \in Seq(Packet)
    <2>1. c2s \in Seq(Packet) /\ s2c \in Seq(Packet)
      BY WireTypes
    <2>2. Down' \in Seq(Packet)
      BY ConcatProperties DEF Down, TypeOK, TypeClient, TypeNetwork
    <2> QED
      BY <2>1, <2>2
  <1>4. LinkOK'
    <2>1. CASE s2c' = <<>> /\ c2s' = <<>>
      BY <2>1 DEF LinkOK
    <2>2. CASE link' = link /\ LinkUp
      BY <2>2 DEF LinkOK, LinkUp
    <2>3. CASE link' = link /\ ~LinkUp
      <3>1. c2s' \in {c2s, <<>>} /\ s2c' \in {s2c, <<>>}
        BY <2>3 DEF Received
      <3> QED
        BY <2>3, <3>1 DEF DeliveryInv, LinkOK
    <2> QED
      BY <2>1, <2>2, <2>3
  <1>5. \A m \in In(c2s') : Asks(m) \/ m.type = "PINGREQ" => m \in In(c2s)
    <2>1. CASE c2s' \in {c2s, <<>>}
      BY <2>1, InEmpty
    <2>2. ASSUME NEW m \in Packet, c2s' = Append(c2s, m), ~Asks(m), m.type # "PINGREQ"
          PROVE  \A x \in In(c2s') : Asks(x) \/ x.type = "PINGREQ" => x \in In(c2s)
      <3>1. In(c2s') = In(c2s) \cup {m}
        BY <1>3, <2>2, InAppend
      <3> QED
        BY <2>2, <3>1
    <2> QED
      BY <2>1, <2>2
  <1>6. ExchangeOK'
    <2>1. UNCHANGED <<ack, ping, bRecv>>
      BY DEF broker
    <2>2. /\ connState' = "MQTT_CONNECT_SENDING" => connState = "MQTT_CONNECT_SENDING"
          /\ connState' \in InUse => connState \in InUse
      BY DEF InUse
    <2> QED
      BY <1>1, <1>5, <2>1, <2>2, ExchangeFrame DEF DeliveryInv
  <1>7. OneExchange'
    <2>1. CASE c2s' \in {c2s, <<>>}
      <3>1. Within(c2s', c2s, 0)
        BY <1>3, <2>1, WithinSelf
      <3> QED
        BY <1>2, <3>1, ExchangeShrinks DEF DeliveryInv
    <2>2. CASE \E m \in Packet : c2s' = Append(c2s, m) /\ ~Asks(m) /\ m.type # "PINGREQ"
      BY <1>2, <1>3, <2>2, ExchangeSends DEF DeliveryInv
    <2> QED
      BY <2>1, <2>2
  <1> QED
    BY <1>4, <1>6, <1>7 DEF DeliveryInv

\* Handlers that take the answer that ends the exchange.
LEMMA DeliveryEnded ==
  ASSUME TypeOK, TypeOK', DeliveryInv, NEW buf, NEW rest, Received(buf, rest),
         inBuf' \in {<<>>, Tail(buf)}, s2c' = rest, UNCHANGED <<connState, link, c2s>>,
         connState \in {"MQTT_DATA", "MQTT_KEEPALIVE_SEND"},
         ack' = NoAck, MessagesOK', SessionOK',
         \A m \in In(c2s) : ~Asks(m),
         \A m \in In(s2c') : ~Answers(m),
         PingOK'
  PROVE  DeliveryInv'
  <1>1. /\ In(inBuf') \subseteq In(inBuf) \cup In(s2c) /\ In(s2c') \subseteq In(s2c)
    BY TakenOff
  <1>2. PICK k \in Nat \ {0} : Within(Down', Down, k)
    BY TakenOff
  <1>3. LinkOK'
    <2>1. LinkUp \/ s2c' = s2c
      BY DEF Received
    <2> QED
      BY <2>1 DEF DeliveryInv, LinkOK, LinkUp
  <1>4. ExchangeOK'
    <2>1. \A m \in In(inBuf') : Answers(m) => m.id > 0
      BY <1>1 DEF DeliveryInv, ExchangeOK, WireOK
    <2> QED
      BY <2>1, ExchangeEnds DEF DeliveryInv
  <1>5. OneExchange'
    <2>1. Within(c2s', c2s, 0)
      BY WireTypes, WithinSelf
    <2> QED
      BY <1>2, <2>1, ExchangeShrinks DEF DeliveryInv
  <1> QED
    BY <1>3, <1>4, <1>5 DEF DeliveryInv

\* The end of the handler takes the packet, or drops the buffer.
LEMMA ConsumedTakes ==
  ASSUME NEW buf, NEW p, NEW s, Consumed(buf, p, s)
  PROVE  inBuf' \in {<<>>, Tail(buf)} /\ connState' = s
  BY DEF Consumed

\* mqtt_send_direct of m, and the end of the handler.
LEMMA SendDirectTakes ==
  ASSUME NEW buf, NEW p, NEW rest, NEW m, SendDirect(m, buf, p, rest)
  PROVE  /\ inBuf' \in {<<>>, Tail(buf)} /\ s2c' = rest /\ link' = link
         /\ connState' \in {connState, "TCP_RECONNECT_DISCONNECTING"}
         /\ c2s' = c2s \/ (c2s' = Append(c2s, m) /\ LinkUp)
  BY ConsumedTakes DEF SendDirect, EspconnSend

\* CONNACK: no exchange can have begun before it.
LEMMA DeliveryConnack ==
  ASSUME TypeOK, TypeOK', DeliveryInv, NEW buf, NEW p, NEW rest, Received(buf, rest),
         connState = "MQTT_CONNECT_SENDING", ReceiveConnack(buf, p, rest),
         Fresh' = Fresh, UNCHANGED broker
  PROVE  DeliveryInv'
  <1>1. /\ UNCHANGED <<ping, msgQueue>> /\ UNCHANGED app
        /\ inBuf' \in {<<>>, Tail(buf)} /\ connState' \in {connState, "MQTT_DATA"}
        /\ ack' = NoAck \/ (ack' = ack /\ connState' = connState)
    BY ConsumedTakes DEF ReceiveConnack
  <1>2. \/ s2c' = rest /\ UNCHANGED <<link, c2s>>
        \/ s2c' = <<>> /\ c2s' = <<>>
    <2>1. CASE EspconnDisconnect
      <3>1. UNCHANGED tcp => ~LinkUp \/ (s2c' = <<>> /\ c2s' = <<>>)
        BY <2>1 DEF EspconnDisconnect, DropLink
      <3> QED
        BY <2>1, <3>1 DEF EspconnDisconnect, DropLink, Received, tcp
    <2> QED
      BY <2>1 DEF ReceiveConnack
  <1>3. MessagesOK' /\ HeadKept
    BY <1>1, MessagesKept DEF DeliveryInv, HeadKept, app, broker
  <1>4. CASE ack' = ack /\ connState' = connState
    <2>1. /\ UNCHANGED <<ack, ping>>
          /\ connState' \in {connState, "TCP_DISCONNECTING", "TCP_RECONNECT_DISCONNECTING"}
      BY <1>1, <1>4
    <2>2. /\ s2c' \in {<<>>, rest} /\ c2s' \in {c2s, <<>>}
          /\ link' = link \/ (s2c' = <<>> /\ c2s' = <<>>)
      BY <1>2
    <2> QED
      BY <1>1, <1>3, <2>1, <2>2, DeliveryTaken
  <1>5. CASE ack' = NoAck
    <2>1. /\ In(inBuf') \subseteq In(inBuf) \cup In(s2c) /\ In(s2c') \subseteq In(s2c)
      BY <1>1, <1>2, TakenOff
    <2>2. PICK k \in Nat \ {0} : Within(Down', Down, k)
      BY <1>1, <1>2, TakenOff
    <2>3. /\ \A m \in In(c2s') : ~Asks(m) /\ m.type # "PINGREQ"
          /\ \A m \in In(s2c') : ~Answers(m) /\ m.type # "PINGRESP"
      BY <1>2, <2>1, InEmpty DEF DeliveryInv, ExchangeOK, ConnectOK
    <2>4. SessionOK' /\ PingOK'
      BY <1>1, <2>3 DEF DeliveryInv, ExchangeOK, SessionOK, HeadDelivered, PingOK, broker
    <2>5. ExchangeOK'
      <3>1. \A m \in In(inBuf') : Answers(m) => m.id > 0
        BY <2>1 DEF DeliveryInv, ExchangeOK, WireOK
      <3> QED
        BY <1>5, <2>3, <2>4, <3>1, ExchangeEnds DEF DeliveryInv
    <2>6. OneExchange'
      <3>1. c2s \in Seq(Packet)
        BY WireTypes
      <3>2. Within(c2s', c2s, 0)
        BY <1>2, <3>1, WithinSelf
      <3> QED
        BY <2>2, <3>2, ExchangeShrinks DEF DeliveryInv
    <2>7. LinkOK'
      <3>1. CASE s2c' = <<>> /\ c2s' = <<>>
        BY <3>1 DEF LinkOK
      <3>2. CASE s2c' = rest /\ UNCHANGED <<link, c2s>>
        <4>1. LinkUp \/ s2c' = s2c
          BY <3>2 DEF Received
        <4> QED
          BY <3>2, <4>1 DEF DeliveryInv, LinkOK, LinkUp
      <3> QED
        BY <1>2, <3>1, <3>2
    <2> QED
      BY <1>3, <2>5, <2>6, <2>7 DEF DeliveryInv
  <1> QED
    BY <1>1, <1>4, <1>5

\* PUBLISH: the acknowledgement belongs to the broker's exchange, and what the
\* application answers is queued.
LEMMA DeliveryPublish ==
  ASSUME TypeOK, TypeOK', DeliveryInv, NEW buf, NEW p, NEW rest, Received(buf, rest),
         ReceivePublish(buf, p, rest), Fresh' = Fresh, UNCHANGED broker
  PROVE  DeliveryInv'
  <1>1. /\ UNCHANGED <<ack, ping, link>> /\ s2c' = rest
    BY DEF ReceivePublish, exchange
  <1>2. PICK pp \in {p, Posted(p, 1)}, s \in {connState, "TCP_RECONNECT_DISCONNECTING"} :
          Deliver(buf, pp, s)
    BY DEF ReceivePublish
  <1>3. /\ inBuf' \in {<<>>, Tail(buf)}
        /\ connState' \in {connState, "TCP_DISCONNECTING", "TCP_RECONNECT_DISCONNECTING"}
    BY <1>2, ConsumedTakes DEF Deliver
  <1>4. MessagesOK' /\ HeadKept
    <2>1. CASE Enqueue("PUBLISH", 2)
      BY <2>1, MessagesEnqueued DEF DeliveryInv, broker
    <2>2. CASE UNCHANGED <<msgQueue, app>>
      BY <2>2, MessagesKept DEF DeliveryInv, HeadKept, app, broker
    <2> QED
      BY <1>2, <2>1, <2>2 DEF Deliver
  <1>5. c2s' = c2s \/ \E m \in Packet : /\ c2s' = Append(c2s, m) /\ LinkUp
                                        /\ ~Asks(m) /\ m.type # "PINGREQ"
    <2>1. Head(buf) \in Packet
      BY HeadTailProperties DEF Received
    <2>2. ASSUME NEW ok \in BOOLEAN, NEW t \in {"PUBACK", "PUBREC"},
                 EspconnSend(ok, Ctl(t, Head(buf).id))
          PROVE  c2s' = c2s \/ \E m \in Packet : /\ c2s' = Append(c2s, m) /\ LinkUp
                                                 /\ ~Asks(m) /\ m.type # "PINGREQ"
      <3>1. Ctl(t, Head(buf).id) \in Packet
        BY <2>1, CtlType DEF Packet, PacketTypes
      <3>2. ~Asks(Ctl(t, Head(buf).id)) /\ Ctl(t, Head(buf).id).type # "PINGREQ"
        BY DEF Asks, Ctl
      <3> QED
        BY <2>2, <3>1, <3>2 DEF EspconnSend
    <2>3. \/ c2s' = c2s
          \/ \E ok \in BOOLEAN :
               EspconnSend(ok, Ctl(IF Head(buf).qos = 1 THEN "PUBACK" ELSE "PUBREC",
                                   Head(buf).id))
      BY DEF ReceivePublish
    <2> QED
      BY <2>2, <2>3
  <1>6. UNCHANGED <<ack, ping>> /\ s2c' \in {<<>>, rest} /\ link' = link
    BY <1>1
  <1>7. c2s' \in {c2s, <<>>} \/ \E m \in Packet : /\ c2s' = Append(c2s, m) /\ LinkUp
                                                 /\ ~Asks(m) /\ m.type # "PINGREQ"
    BY <1>5
  <1> QED
    BY <1>3, <1>4, <1>6, <1>7, DeliveryTaken

\* PUBREC for the packet in flight: PUBREL takes the place of the PUBLISH.
LEMMA DeliveryPubrec ==
  ASSUME TypeOK, TypeOK', DeliveryInv, NEW buf, NEW p, NEW rest, Received(buf, rest),
         Exchanging, Head(buf).type = "PUBREC", AwaitsPubrec(Head(buf)),
         ReceivePubrec(buf, p, rest), Fresh' = Fresh, UNCHANGED broker
  PROVE  DeliveryInv'
  <1> DEFINE m == Ctl("PUBREL", Head(buf).id)
  <1>1. /\ ack' = [ack EXCEPT !.type = "PUBREL"] /\ UNCHANGED <<ping, msgQueue>>
        /\ UNCHANGED app
    BY DEF ReceivePubrec
  <1>2. /\ inBuf' \in {<<>>, Tail(buf)} /\ s2c' = rest /\ link' = link
        /\ connState' \in {connState, "TCP_RECONNECT_DISCONNECTING"}
        /\ c2s' = c2s \/ (c2s' = Append(c2s, m) /\ LinkUp)
    BY SendDirectTakes DEF ReceivePubrec
  <1>3. /\ In(inBuf') \subseteq In(inBuf) \cup In(s2c) /\ In(s2c') \subseteq In(s2c)
        /\ Head(buf) = Head(Down) /\ Head(buf) \in In(inBuf) \cup In(s2c) /\ Down # <<>>
        /\ Head(buf) \in Packet
    BY <1>2, TakenOff
  <1>4. PICK k \in Nat \ {0} : Within(Down', Down, k)
    BY <1>2, TakenOff
  <1>5. /\ c2s \in Seq(Packet) /\ Down \in Seq(Packet) /\ s2c' \in Seq(Packet)
        /\ inBuf' \in Seq(Packet)
    BY WireTypes DEF TypeOK, TypeClient, TypeNetwork
  <1>6. Down' \in Seq(Packet) /\ In(Down') = In(inBuf') \cup In(s2c')
    BY <1>5, ConcatProperties, InConcat DEF Down
  <1>7. Answers(Head(buf))
    BY DEF Answers
  <1>8. (\A x \in In(c2s) : ~Asks(x)) /\ (\A x \in In(Down') : ~Answers(x))
    BY <1>3, <1>4, <1>5, <1>7, HeadAnswers DEF DeliveryInv
  <1>9. /\ ack.wait /\ ack.type = "PUBLISH" /\ HeadDelivered(2)
        /\ Head(buf).id = Head(msgQueue).id
    <2>1. ack.wait /\ ack.type # "CONNECT"
      BY DEF AwaitsPubrec
    <2>2. Fits(Head(buf))
      BY <1>3, <1>7, <2>1 DEF DeliveryInv, ExchangeOK, WireOK
    <2> QED
      BY <2>1, <2>2 DEF Fits
  <1>10. m \in Packet /\ m.type = "PUBREL" /\ m.id = Head(buf).id
    <2>1. Head(buf).id \in Nat
      BY <1>3 DEF Packet
    <2> QED
      BY <2>1, CtlType DEF Ctl, PacketTypes
  <1> HIDE DEF m
  <1>11. HeadDelivered(2)' /\ ack'.wait /\ ack'.type = "PUBREL"
    BY <1>1, <1>9 DEF HeadDelivered, broker, TypeOK, TypeExchange
  <1>12. WireOK'
    <2>1. ASSUME NEW x \in In(c2s'), Asks(x) PROVE FitsUp(x)'
      <3>1. CASE c2s' = c2s
        BY <1>8, <2>1, <3>1
      <3>2. CASE c2s' = Append(c2s, m)
        <4>1. In(c2s') = In(c2s) \cup {m}
          BY <1>5, <1>10, <3>2, InAppend
        <4>2. x.type = "PUBREL" /\ x.id = Head(msgQueue').id
          BY <1>1, <1>8, <1>9, <1>10, <2>1, <4>1
        <4> QED
          BY <1>11, <4>2 DEF FitsUp
      <3> QED
        BY <1>2, <3>1, <3>2
    <2>2. \A x \in In(Down') : ~Answers(x)
      BY <1>8
    <2> QED
      BY <1>6, <2>1, <2>2 DEF WireOK, Asks, Answers
  <1>13. AckOK' /\ ConnectOK'
    <2>1. AckOK'
      BY <1>11 DEF AckOK
    <2>2. connState' # "MQTT_CONNECT_SENDING"
      BY <1>2 DEF Exchanging
    <2> QED
      BY <2>1, <2>2 DEF ConnectOK
  <1>14. PingOK'
    <2>1. connState' \in InUse => connState' = connState
      BY <1>2 DEF InUse
    <2>2. \A x \in In(c2s') : x.type = "PINGREQ" => x \in In(c2s)
      <3>1. CASE c2s' = Append(c2s, m)
        <4>1. In(c2s') = In(c2s) \cup {m}
          BY <1>5, <1>10, <3>1, InAppend
        <4> QED
          BY <1>10, <4>1
      <3> QED
        BY <1>2, <3>1
    <2> QED
      BY <1>1, <1>3, <1>9, <2>1, <2>2 DEF DeliveryInv, ExchangeOK, PingOK
  <1>15. SessionOK'
    BY <1>1 DEF DeliveryInv, ExchangeOK, SessionOK, HeadDelivered, broker
  <1>16. OneExchange'
    <2>1. CASE c2s' = c2s
      <3>1. Within(c2s', c2s, 0)
        BY <1>5, <2>1, WithinSelf
      <3> QED
        BY <1>4, <3>1, ExchangeShrinks DEF DeliveryInv
    <2>2. CASE c2s' = Append(c2s, m)
      BY <1>4, <1>5, <1>6, <1>8, <1>10, <2>2, ExchangeSends DEF DeliveryInv
    <2> QED
      BY <1>2, <2>1, <2>2
  <1>17. LinkOK'
    <2>1. (LinkUp \/ s2c' = s2c) /\ (LinkUp \/ c2s' = c2s)
      BY <1>2 DEF Received
    <2> QED
      BY <1>2, <2>1 DEF DeliveryInv, LinkOK, LinkUp
  <1>18. MessagesOK'
    BY <1>1, MessagesKept DEF DeliveryInv, app, broker
  <1> QED
    BY <1>12, <1>13, <1>14, <1>15, <1>16, <1>17, <1>18 DEF DeliveryInv, ExchangeOK

\* SUBACK, UNSUBACK, PUBACK or PUBCOMP for the packet in flight: it leaves the
\* queue, and if it was a message the broker has it.
LEMMA DeliveryAck ==
  ASSUME TypeOK, TypeOK', DeliveryInv, InFlightIsHead, NEW buf, NEW p, NEW rest,
         Received(buf, rest), Exchanging, Completes(Head(buf)),
         ReceiveAck(buf, p, rest), Fresh' = Fresh, UNCHANGED broker
  PROVE  DeliveryInv' /\ msgQueue # <<>> /\ msgQueue' = Tail(msgQueue)
         /\ (Fresh /\ Kept(Head(msgQueue)) => Head(msgQueue).pay \in In(delivered))
  <1> DEFINE m == Head(buf)
  <1>1. /\ ack' = NoAck /\ UNCHANGED <<ping, link, c2s>> /\ UNCHANGED app
        /\ inBuf' \in {<<>>, Tail(buf)} /\ s2c' = rest /\ connState' = connState
        /\ msgQueue' = Pop(msgQueue)
    BY ConsumedTakes DEF ReceiveAck
  <1>2. /\ In(inBuf') \subseteq In(inBuf) \cup In(s2c) /\ In(s2c') \subseteq In(s2c)
        /\ m = Head(Down) /\ m \in In(inBuf) \cup In(s2c) /\ Down # <<>>
    BY <1>1, TakenOff
  <1>3. PICK k \in Nat \ {0} : Within(Down', Down, k)
    BY <1>1, TakenOff
  <1>4. Down \in Seq(Packet) /\ s2c' \in Seq(Packet) /\ inBuf' \in Seq(Packet)
    BY WireTypes DEF TypeOK, TypeClient, TypeNetwork
  <1>5. In(Down') = In(inBuf') \cup In(s2c')
    BY <1>4, InConcat DEF Down
  <1>6. Answers(m)
    BY DEF Completes, Answers
  <1>7. (\A x \in In(c2s) : ~Asks(x)) /\ (\A x \in In(s2c') : ~Answers(x))
    BY <1>2, <1>3, <1>4, <1>5, <1>6, HeadAnswers DEF DeliveryInv
  <1>8. m.id > 0
    BY <1>2, <1>6 DEF DeliveryInv, ExchangeOK, WireOK
  <1>9. ack.wait /\ ack.type \in {"SUBSCRIBE", "UNSUBSCRIBE", "PUBLISH", "PUBREL"}
    <2>1. ack.id = m.id /\ ack.type \in {"SUBSCRIBE", "UNSUBSCRIBE", "PUBLISH", "PUBREL"}
      BY DEF Completes
    <2>2. ack.id # 0
      BY <1>8, <2>1
    <2> QED
      BY <2>1, <2>2 DEF DeliveryInv, ExchangeOK, AckOK
  <1>10. Fits(m)
    BY <1>2, <1>6, <1>9 DEF DeliveryInv, ExchangeOK, WireOK
  <1>11. msgQueue # <<>> /\ AwaitsHead(ack, Head(msgQueue))
    BY <1>9 DEF InFlightIsHead
  <1>12. msgQueue' = Tail(msgQueue)
    BY <1>1, <1>11 DEF Pop
  <1>13. Fresh => /\ Kept(Head(msgQueue)) => Head(msgQueue).pay \in In(delivered)
                  /\ bRecv = {}
    <2>1. CASE m.type = "PUBACK"
      <3>1. HeadDelivered(1) /\ ~HeadDelivered(2)
        BY <1>10, <2>1 DEF Fits, HeadDelivered
      <3> QED
        BY <3>1 DEF HeadDelivered, DeliveryInv, ExchangeOK, SessionOK
    <2>2. CASE m.type = "PUBCOMP"
      BY <1>10, <2>2 DEF Fits, HeadDelivered
    <2>3. CASE ack.type \in {"SUBSCRIBE", "UNSUBSCRIBE"}
      <3>1. Head(msgQueue).type # "PUBLISH"
        BY <1>11, <2>3 DEF AwaitsHead
      <3> QED
        BY <3>1 DEF Kept, HeadDelivered, DeliveryInv, ExchangeOK, SessionOK
    <2> QED
      BY <2>1, <2>2, <2>3 DEF Completes
  <1>14. MessagesOK'
    BY <1>1, <1>11, <1>12, <1>13, MessagesPopped DEF DeliveryInv, app, broker
  <1>15. SessionOK'
    BY <1>13 DEF SessionOK, broker
  <1>16. PingOK'
    <2>1. connState \in InUse /\ ack.type # "PINGREQ"
      BY <1>9 DEF Exchanging, InUse
    <2> QED
      BY <1>1, <1>2, <2>1 DEF DeliveryInv, ExchangeOK, PingOK
  <1>17. UNCHANGED <<connState, link, c2s>>
    BY <1>1
  <1> HIDE DEF m
  <1>18. DeliveryInv'
    BY <1>1, <1>7, <1>14, <1>15, <1>16, <1>17, DeliveryEnded DEF Exchanging
  <1> QED
    BY <1>11, <1>12, <1>13, <1>18

\* PINGRESP: no other ping is on the wire, and a queued MQTT_Ping leaves the queue.
LEMMA DeliveryPingresp ==
  ASSUME TypeOK, TypeOK', DeliveryInv, InFlightIsHead, NEW buf, NEW p, NEW rest,
         Received(buf, rest), Exchanging, Head(buf).type = "PINGRESP",
         ReceivePingresp(buf, p, rest), Fresh' = Fresh, UNCHANGED broker
  PROVE  /\ DeliveryInv'
         /\ \/ msgQueue' = msgQueue
            \/ msgQueue # <<>> /\ msgQueue' = Tail(msgQueue) /\ ~Kept(Head(msgQueue))
  <1>1. /\ UNCHANGED <<link, c2s>> /\ UNCHANGED app
        /\ inBuf' \in {<<>>, Tail(buf)} /\ s2c' = rest /\ connState' = connState
    BY ConsumedTakes DEF ReceivePingresp
  <1>2. /\ In(inBuf') \subseteq In(inBuf) \cup In(s2c) /\ In(s2c') \subseteq In(s2c)
        /\ Head(buf) = Head(Down) /\ Down # <<>>
    BY <1>1, TakenOff
  <1>3. PICK k \in Nat \ {0} : Within(Down', Down, k)
    BY <1>1, TakenOff
  <1>4. Down \in Seq(Packet) /\ s2c' \in Seq(Packet) /\ inBuf' \in Seq(Packet)
    BY WireTypes DEF TypeOK, TypeClient, TypeNetwork
  <1>5. In(Down') = In(inBuf') \cup In(s2c')
    BY <1>4, InConcat DEF Down
  <1>6. /\ \A x \in In(c2s') : x.type # "PINGREQ"
        /\ \A x \in In(s2c') : x.type # "PINGRESP"
    BY <1>1, <1>2, <1>3, <1>4, <1>5, HeadAnswers DEF DeliveryInv
  <1>7. PingOK'
    BY <1>6 DEF PingOK
  <1>8. CASE ping.wait \/ ~(ack.type = "PINGREQ" /\ ack.wait)
    <2>1. UNCHANGED <<msgQueue, ack>>
      BY <1>8 DEF ReceivePingresp
    <2>2. MessagesOK'
      BY <1>1, <2>1, MessagesKept DEF DeliveryInv, app, broker
    <2>3. LinkOK'
      <3>1. LinkUp \/ s2c' = s2c
        BY <1>1 DEF Received
      <3> QED
        BY <1>1, <3>1 DEF DeliveryInv, LinkOK, LinkUp
    <2>4. WireOK'
      <3>1. \A x : Fits(x)' = Fits(x)
        BY <2>1 DEF Fits, HeadDelivered, broker
      <3>2. \A x : FitsUp(x)' = FitsUp(x)
        BY <2>1 DEF FitsUp, HeadDelivered, broker
      <3> QED
        BY <1>1, <1>2, <2>1, <3>1, <3>2 DEF DeliveryInv, ExchangeOK, WireOK, Asks, Answers
    <2>5. AckOK' /\ SessionOK'
      BY <2>1 DEF DeliveryInv, ExchangeOK, AckOK, SessionOK, HeadDelivered, broker
    <2>6. ConnectOK'
      BY <1>1 DEF ConnectOK, Exchanging
    <2>7. OneExchange'
      <3>1. Within(c2s', c2s, 0)
        BY <1>1, WireTypes, WithinSelf
      <3> QED
        BY <1>3, <3>1, ExchangeShrinks DEF DeliveryInv
    <2> QED
      BY <1>7, <2>1, <2>2, <2>3, <2>4, <2>5, <2>6, <2>7 DEF DeliveryInv, ExchangeOK
  <1>9. CASE ~ping.wait /\ ack.type = "PINGREQ" /\ ack.wait
    <2>1. ack' = NoAck /\ msgQueue' = Pop(msgQueue)
      BY <1>9 DEF ReceivePingresp
    <2>2. msgQueue # <<>> /\ AwaitsHead(ack, Head(msgQueue))
      BY <1>9 DEF InFlightIsHead
    <2>3. msgQueue' = Tail(msgQueue) /\ Head(msgQueue).type = "PINGREQ"
      BY <1>9, <2>1, <2>2 DEF Pop, AwaitsHead
    <2>4. (Fresh => bRecv = {}) /\ ~Kept(Head(msgQueue))
      BY <2>3 DEF DeliveryInv, ExchangeOK, SessionOK, HeadDelivered, Kept
    <2>5. MessagesOK'
      BY <1>1, <2>2, <2>3, <2>4, MessagesPopped DEF DeliveryInv, app, broker
    <2>6. SessionOK'
      BY <2>4 DEF SessionOK, broker
    <2>7. \A x \in In(c2s) : ~Asks(x)
      BY <1>9 DEF DeliveryInv, ExchangeOK, WireOK, FitsUp, Asks
    <2>8. \A x \in In(s2c') : ~Answers(x)
      BY <1>2, <1>9 DEF DeliveryInv, ExchangeOK, WireOK, Fits, Answers
    <2>9. UNCHANGED <<connState, link, c2s>>
      BY <1>1
    <2>10. DeliveryInv'
      BY <1>1, <1>7, <2>1, <2>5, <2>6, <2>7, <2>8, <2>9, DeliveryEnded DEF Exchanging
    <2> QED
      BY <2>2, <2>3, <2>4, <2>10
  <1> QED
    BY <1>8, <1>9

\* mqtt_tcpclient_recv on one packet.
LEMMA DeliveryProcess ==
  ASSUME TypeOK, TypeOK', DeliveryInv, InFlightIsHead, NEW buf, NEW p, NEW rest,
         Received(buf, rest), Process(buf, p, rest)
  PROVE  DeliveryInv'
  <1>1. Fresh' = Fresh /\ UNCHANGED broker
    BY DEF Process, Fresh, bounds
  <1>2. CASE Ignored(buf, p, rest)
    <2>1. /\ UNCHANGED <<ack, ping, msgQueue, link, c2s>> /\ UNCHANGED app
          /\ inBuf' \in {<<>>, Tail(buf)} /\ s2c' = rest /\ connState' = connState
      BY <1>1, <1>2, ConsumedTakes DEF Ignored, exchange
    <2>2. MessagesOK' /\ HeadKept
      BY <1>1, <2>1, MessagesKept DEF DeliveryInv, HeadKept, app, broker
    <2> QED
      BY <1>1, <2>1, <2>2, DeliveryTaken
  <1>3. CASE connState = "MQTT_CONNECT_SENDING" /\ ReceiveConnack(buf, p, rest)
    BY <1>1, <1>3, DeliveryConnack
  <1>4. CASE ReceivePublish(buf, p, rest)
    BY <1>1, <1>4, DeliveryPublish
  <1>5. CASE /\ Exchanging /\ Head(buf).type = "PUBREC" /\ AwaitsPubrec(Head(buf))
             /\ ReceivePubrec(buf, p, rest)
    BY <1>1, <1>5, DeliveryPubrec
  <1>6. CASE ReceivePubrel(buf, p, rest)
    <2> DEFINE m == Ctl("PUBCOMP", Head(buf).id)
    <2>1. UNCHANGED <<ack, ping, msgQueue>> /\ UNCHANGED app
      BY <1>1, <1>6 DEF ReceivePubrel, exchange
    <2>2. /\ inBuf' \in {<<>>, Tail(buf)} /\ s2c' = rest /\ link' = link
          /\ connState' \in {connState, "TCP_RECONNECT_DISCONNECTING"}
          /\ c2s' = c2s \/ (c2s' = Append(c2s, m) /\ LinkUp)
      BY <1>6, SendDirectTakes DEF ReceivePubrel
    <2>3. m \in Packet /\ ~Asks(m) /\ m.type # "PINGREQ"
      <3>1. Head(buf) \in Packet
        BY HeadTailProperties DEF Received
      <3>2. m \in Packet
        BY <3>1, CtlType DEF Packet, PacketTypes
      <3> QED
        BY <3>2 DEF Ctl, Asks
    <2> HIDE DEF m
    <2>4. MessagesOK' /\ HeadKept
      BY <1>1, <2>1, MessagesKept DEF DeliveryInv, HeadKept, app, broker
    <2>5. UNCHANGED <<ack, ping>> /\ s2c' \in {<<>>, rest}
          /\ connState' \in {connState, "TCP_DISCONNECTING", "TCP_RECONNECT_DISCONNECTING"}
      BY <2>1, <2>2
    <2>6. c2s' \in {c2s, <<>>} \/ \E x \in Packet : /\ c2s' = Append(c2s, x) /\ LinkUp
                                                   /\ ~Asks(x) /\ x.type # "PINGREQ"
      BY <2>2, <2>3
    <2> QED
      BY <1>1, <2>2, <2>4, <2>5, <2>6, DeliveryTaken
  <1>7. CASE Exchanging /\ Completes(Head(buf)) /\ ReceiveAck(buf, p, rest)
    BY <1>1, <1>7, DeliveryAck
  <1>8. CASE Exchanging /\ Head(buf).type = "PINGRESP" /\ ReceivePingresp(buf, p, rest)
    BY <1>1, <1>8, DeliveryPingresp
  <1> QED
    BY <1>2, <1>3, <1>4, <1>5, <1>6, <1>7, <1>8 DEF Process

\* mqtt_tcpclient_recv on what is in in_buffer, and on a chunk from the network.
LEMMA ReceivedBuffered ==
  ASSUME TypeOK, inBuf # <<>>
  PROVE  Received(inBuf, s2c)
  BY WireTypes DEF Received, Down

\* The packets Recv hands on are in_buffer and the first ones of the network.
LEMMA ReceivedChunk ==
  ASSUME TypeOK, LinkUp, NEW n \in 1..Len(s2c)
  PROVE  Received(inBuf \o SubSeq(s2c, 1, n), SubSeq(s2c, n + 1, Len(s2c)))
  <1> DEFINE chunk == SubSeq(s2c, 1, n)
             rest  == SubSeq(s2c, n + 1, Len(s2c))
  <1>1. s2c \in Seq(Packet) /\ inBuf \in Seq(Packet) /\ Len(s2c) \in Nat /\ n \in Nat \ {0}
    BY WireTypes, LenProperties
  <1>2. \A i \in 1..Len(s2c) : s2c[i] \in Packet
    BY <1>1, ElementOfSeq
  <1>3. chunk \in Seq(Packet) /\ Len(chunk) = n /\ rest \in Seq(Packet)
    BY <1>1, <1>2, SubSeqProperties
  <1>4. chunk \o rest = s2c
    <2>1. 1 \in 1..Len(s2c) + 1 /\ n \in 1 - 1..Len(s2c) /\ Len(s2c) \in n..Len(s2c)
      BY <1>1
    <2>2. SubSeq(s2c, 1, n) \o SubSeq(s2c, n + 1, Len(s2c)) = SubSeq(s2c, 1, Len(s2c))
      BY <1>1, <2>1, ConcatAdjacentSubSeq
    <2> QED
      BY <1>1, <2>2, SubSeqFull
  <1> HIDE DEF chunk, rest
  <1>5. (inBuf \o chunk) \o rest = inBuf \o s2c
    <2>1. (inBuf \o chunk) \o rest = inBuf \o (chunk \o rest)
      <3>1. inBuf \in Seq(Packet) /\ chunk \in Seq(Packet) /\ rest \in Seq(Packet)
        BY <1>1, <1>3
      <3> QED
        BY <3>1, ConcatAssociative
    <2> QED
      BY <1>4, <2>1
  <1>6. inBuf \o chunk \in Seq(Packet) /\ inBuf \o chunk # <<>>
    <2>1. Len(inBuf \o chunk) = Len(inBuf) + n /\ Len(inBuf) \in Nat
      BY <1>1, <1>3, ConcatProperties, LenProperties
    <2>2. Len(inBuf \o chunk) # 0
      BY <1>1, <2>1
    <2> QED
      BY <1>1, <1>3, <2>2, ConcatProperties, EmptySeq
  <1>7. In(rest) \subseteq In(s2c)
    <2>1. In(chunk \o rest) = In(chunk) \cup In(rest)
      BY <1>3, InConcat
    <2> QED
      BY <1>4, <2>1
  <1> QED
    BY <1>3, <1>5, <1>6, <1>7 DEF Received, Down, chunk, rest

\* mqtt_tcpclient_recv, with a chunk that fits or one that does not.
LEMMA DeliveryRecv ==
  ASSUME TypeOK, TypeOK', DeliveryInv, InFlightIsHead, Recv
  PROVE  DeliveryInv'
  <1>1. LinkUp
    BY DEF Recv
  <1>2. PICK n \in 1..Len(s2c) :
          \/ /\ inBuf' = <<>> /\ EspconnDisconnect
             /\ UNCHANGED <<connState, alive, exchange, msgQueue, broker, app, bounds>>
          \/ Process(inBuf \o SubSeq(s2c, 1, n), posts, SubSeq(s2c, n + 1, Len(s2c)))
    BY DEF Recv
  <1>3. CASE /\ inBuf' = <<>> /\ EspconnDisconnect
             /\ UNCHANGED <<connState, alive, exchange, msgQueue, broker, app, bounds>>
    <2>1. c2s' = <<>> /\ s2c' = <<>>
      BY <1>1, <1>3 DEF EspconnDisconnect, DropLink
    <2>2. Fresh' = Fresh
      BY <1>3 DEF Fresh, bounds
    <2> QED
      BY <1>3, <2>1, <2>2, DeliveryQuiet DEF exchange
  <1>4. CASE Process(inBuf \o SubSeq(s2c, 1, n), posts, SubSeq(s2c, n + 1, Len(s2c)))
    BY <1>1, <1>4, ReceivedChunk, DeliveryProcess
  <1> QED
    BY <1>2, <1>3, <1>4

-----------------------------------------------------------------------------
(* MQTT_Task *)

\* MQTT_Task in every connection state.
LEMMA DeliveryTask ==
  ASSUME TypeOK, TypeOK', DeliveryInv, InFlightIsHead, Task
  PROVE  DeliveryInv'
  <1> DEFINE p == posts - 1
  <1>1. \/ Idle(p) \/ DeleteClient(p) \/ Reconnect(p) \/ CloseConnection(p)
        \/ (HasPacket /\ Process(inBuf, p, s2c))
        \/ (connState = "MQTT_KEEPALIVE_SEND" /\ ~HasPacket /\ SendKeepalive(p))
        \/ (connState = "MQTT_DATA" /\ MaySend /\ ~HasPacket /\ SendHead(p))
    BY DEF Task
  <1>2. UNCHANGED <<alive, bounds>> => Fresh' = Fresh
    BY DEF Fresh, bounds
  <1> HIDE DEF p
  <1>3. CASE Idle(p)
    BY <1>2, <1>3, DeliveryQuiet DEF Idle, exchange, tcp
  <1>4. CASE CloseConnection(p)
    <2>1. UNCHANGED <<link, c2s, s2c>> \/ (c2s' = <<>> /\ s2c' = <<>>)
      BY <1>4 DEF CloseConnection, EspconnDisconnect, DropLink, tcp
    <2> QED
      BY <1>2, <1>4, <2>1, DeliveryQuiet DEF CloseConnection, exchange
  <1>5. CASE Reconnect(p)
    BY <1>5, DeliveryConnect DEF Reconnect, bounds
  <1>6. CASE HasPacket /\ Process(inBuf, p, s2c)
    BY <1>6, ReceivedBuffered, DeliveryProcess DEF HasPacket
  <1>7. CASE connState = "MQTT_KEEPALIVE_SEND" /\ ~HasPacket /\ SendKeepalive(p)
    BY <1>7, DeliverySendKeepalive
  <1>8. CASE connState = "MQTT_DATA" /\ MaySend /\ ~HasPacket /\ SendHead(p)
    BY <1>8, DeliverySendHead
  <1>9. CASE DeleteClient(p)
    <2>1. /\ ClearExchange /\ msgQueue' = <<>> /\ c2s' = <<>> /\ s2c' = <<>> /\ ~Fresh'
          /\ UNCHANGED <<delivered, calls>>
      BY <1>9 DEF DeleteClient, DropLink, Fresh, broker, app
    <2> QED
      BY <2>1, DeliveryForgotten
  <1> QED
    BY <1>1, <1>3, <1>4, <1>5, <1>6, <1>7, <1>8, <1>9

-----------------------------------------------------------------------------
(* The broker *)

\* A step of the client's exchange arrives: it is about the head of the queue, the
\* broker hands its message over unless it has it, and the answer says so.
LEMMA BrokerAsked ==
  ASSUME TypeOK, DeliveryInv, NEW m \in Packet, m \in In(c2s), Asks(m),
         UNCHANGED <<ack, msgQueue, calls, accepted>>, Fresh' = Fresh,
         delivered' = IF m.type = "PUBLISH" /\ (m.qos = 1 \/ (m.qos = 2 /\ m.id \notin bRecv))
                      THEN Append(delivered, m.pay) ELSE delivered,
         bRecv' = IF m.type = "PUBLISH" /\ m.qos = 2 THEN bRecv \cup {m.id}
                  ELSE IF m.type = "PUBREL" THEN bRecv \ {m.id} ELSE bRecv
  PROVE  /\ MessagesOK' /\ SessionOK' /\ AckOK'
         /\ \E r \in Packet : Reply(m) = <<r>> /\ Answers(r) /\ Fits(r)' /\ r.id > 0
                              /\ r.type # "PINGRESP"
         /\ delivered' = delivered
            \/ /\ msgQueue # <<>> /\ Kept(Head(msgQueue))
               /\ delivered' = Append(delivered, Head(msgQueue).pay)
  <1>1. FitsUp(m) /\ ack.wait
    BY DEF DeliveryInv, ExchangeOK, WireOK, FitsUp
  <1>2. m.id \in Nat /\ m.type \in PacketTypes /\ m.qos \in 0..2
    BY DEF Packet
  <1>3. ASSUME m.type # "PUBREL"
        PROVE  m = Head(msgQueue) /\ m.id > 0 /\ msgQueue # <<>> /\ ack.type = m.type
    <2>1. m = Head(msgQueue) /\ msgQueue # <<>> /\ ack.type = m.type
      BY <1>1, <1>3 DEF FitsUp
    <2>2. m = msgQueue[1] /\ 1 \in 1..Len(msgQueue)
      BY <2>1, WireTypes, LenProperties, EmptySeq
    <2>3. CarriesId(m.type, m.qos)
      BY <1>3 DEF Asks, CarriesId
    <2> QED
      BY <2>1, <2>2, <2>3 DEF DeliveryInv, MessagesOK, QueueOK
  <1>4. CASE m.type = "SUBSCRIBE"
    <2>1. UNCHANGED <<delivered, bRecv>>
      BY <1>4
    <2>2. MessagesOK' /\ SessionOK' /\ AckOK'
      BY <2>1, MessagesKept
      DEF DeliveryInv, ExchangeOK, SessionOK, AckOK, HeadDelivered
    <2>3. /\ Reply(m) = <<Ctl("SUBACK", m.id)>> /\ Ctl("SUBACK", m.id) \in Packet
      BY <1>2, <1>4, CtlType DEF Reply, PacketTypes
    <2>4. Answers(Ctl("SUBACK", m.id)) /\ Fits(Ctl("SUBACK", m.id))'
          /\ Ctl("SUBACK", m.id).id > 0 /\ Ctl("SUBACK", m.id).type # "PINGRESP"
      BY <1>1, <1>3, <1>4 DEF Answers, Fits, Ctl
    <2> QED
      BY <2>1, <2>2, <2>3, <2>4
  <1>5. CASE m.type = "UNSUBSCRIBE"
    <2>1. UNCHANGED <<delivered, bRecv>>
      BY <1>5
    <2>2. MessagesOK' /\ SessionOK' /\ AckOK'
      BY <2>1, MessagesKept
      DEF DeliveryInv, ExchangeOK, SessionOK, AckOK, HeadDelivered
    <2>3. /\ Reply(m) = <<Ctl("UNSUBACK", m.id)>> /\ Ctl("UNSUBACK", m.id) \in Packet
      BY <1>2, <1>5, CtlType DEF Reply, PacketTypes
    <2>4. Answers(Ctl("UNSUBACK", m.id)) /\ Fits(Ctl("UNSUBACK", m.id))'
          /\ Ctl("UNSUBACK", m.id).id > 0 /\ Ctl("UNSUBACK", m.id).type # "PINGRESP"
      BY <1>1, <1>3, <1>5 DEF Answers, Fits, Ctl
    <2> QED
      BY <2>1, <2>2, <2>3, <2>4
  <1>6. CASE m.type = "PUBLISH" /\ m.qos = 1
    <2>1. /\ m = Head(msgQueue) /\ msgQueue # <<>> /\ ack.type = "PUBLISH" /\ m.id > 0
          /\ delivered' = Append(delivered, Head(msgQueue).pay) /\ bRecv' = bRecv
      BY <1>3, <1>6
    <2>2. MessagesOK' /\ In(delivered') = In(delivered) \cup {Head(msgQueue).pay}
      BY <2>1, MessagesDelivered DEF DeliveryInv
    <2>3. HeadDelivered(1)'
      BY <1>6, <2>1, <2>2 DEF HeadDelivered
    <2>4. SessionOK' /\ AckOK'
      BY <2>1, <2>2 DEF DeliveryInv, ExchangeOK, SessionOK, AckOK, HeadDelivered
    <2>5. /\ Reply(m) = <<Ctl("PUBACK", m.id)>> /\ Ctl("PUBACK", m.id) \in Packet
      BY <1>2, <1>6, CtlType DEF Reply, PacketTypes
    <2>6. Answers(Ctl("PUBACK", m.id)) /\ Fits(Ctl("PUBACK", m.id))'
          /\ Ctl("PUBACK", m.id).id > 0 /\ Ctl("PUBACK", m.id).type # "PINGRESP"
      BY <1>1, <2>1, <2>3 DEF Answers, Fits, Ctl
    <2>7. Kept(Head(msgQueue))
      BY <1>6, <2>1 DEF Kept
    <2> QED
      BY <2>1, <2>2, <2>4, <2>5, <2>6, <2>7
  <1>7. CASE m.type = "PUBLISH" /\ m.qos = 2
    <2>1. /\ m = Head(msgQueue) /\ msgQueue # <<>> /\ ack.type = "PUBLISH" /\ m.id > 0
          /\ bRecv' = bRecv \cup {m.id} /\ Kept(Head(msgQueue))
      BY <1>3, <1>7 DEF Kept
    <2>2. /\ MessagesOK' /\ HeadDelivered(2)'
          /\ delivered' \in {delivered, Append(delivered, Head(msgQueue).pay)}
      <3>1. CASE m.id \in bRecv
        <4>1. delivered' = delivered /\ HeadDelivered(2)
          BY <1>7, <2>1, <3>1 DEF DeliveryInv, ExchangeOK, SessionOK, HeadDelivered
        <4> QED
          BY <4>1, MessagesKept DEF DeliveryInv, HeadDelivered
      <3>2. CASE m.id \notin bRecv
        <4>1. delivered' = Append(delivered, Head(msgQueue).pay)
          BY <1>7, <2>1, <3>2
        <4>2. MessagesOK' /\ In(delivered') = In(delivered) \cup {Head(msgQueue).pay}
          BY <2>1, <4>1, MessagesDelivered DEF DeliveryInv
        <4> QED
          BY <1>7, <2>1, <4>1, <4>2 DEF HeadDelivered
      <3> QED
        BY <3>1, <3>2
    <2>3. SessionOK'
      BY <2>1, <2>2 DEF DeliveryInv, ExchangeOK, SessionOK
    <2>4. AckOK'
      BY <1>1, <2>2 DEF AckOK
    <2>5. /\ Reply(m) = <<Ctl("PUBREC", m.id)>> /\ Ctl("PUBREC", m.id) \in Packet
      BY <1>2, <1>7, CtlType DEF Reply, PacketTypes
    <2>6. Answers(Ctl("PUBREC", m.id)) /\ Fits(Ctl("PUBREC", m.id))'
          /\ Ctl("PUBREC", m.id).id > 0 /\ Ctl("PUBREC", m.id).type # "PINGRESP"
      BY <1>1, <2>1, <2>2 DEF Answers, Fits, Ctl
    <2> QED
      BY <2>1, <2>2, <2>3, <2>4, <2>5, <2>6
  <1>8. CASE m.type = "PUBREL"
    <2>1. /\ ack.type = "PUBREL" /\ HeadDelivered(2) /\ m.id = Head(msgQueue).id
          /\ UNCHANGED delivered /\ bRecv' = bRecv \ {m.id}
      BY <1>1, <1>8 DEF FitsUp
    <2>2. (Fresh' => bRecv' = {}) /\ HeadDelivered(2)'
      BY <2>1 DEF DeliveryInv, ExchangeOK, SessionOK, HeadDelivered
    <2>3. MessagesOK' /\ SessionOK' /\ AckOK'
      BY <1>1, <2>1, <2>2, MessagesKept DEF DeliveryInv, SessionOK, AckOK
    <2>4. m.id > 0
      <3>1. /\ Head(msgQueue) = msgQueue[1] /\ 1 \in 1..Len(msgQueue)
            /\ CarriesId(Head(msgQueue).type, Head(msgQueue).qos)
        BY <2>1, WireTypes, LenProperties, EmptySeq DEF HeadDelivered, CarriesId
      <3> QED
        BY <2>1, <3>1 DEF DeliveryInv, MessagesOK, QueueOK
    <2>5. /\ Reply(m) = <<Ctl("PUBCOMP", m.id)>> /\ Ctl("PUBCOMP", m.id) \in Packet
      BY <1>2, <1>8, CtlType DEF Reply, PacketTypes
    <2>6. Answers(Ctl("PUBCOMP", m.id)) /\ Fits(Ctl("PUBCOMP", m.id))'
          /\ Ctl("PUBCOMP", m.id).id > 0 /\ Ctl("PUBCOMP", m.id).type # "PINGRESP"
      BY <1>1, <2>1, <2>2, <2>4 DEF Answers, Fits, Ctl
    <2> QED
      BY <2>1, <2>3, <2>5, <2>6
  <1> QED
    BY <1>2, <1>4, <1>5, <1>6, <1>7, <1>8 DEF Asks

\* The broker takes a packet off the wire and answers it.
LEMMA DeliveryBrokerReceives ==
  ASSUME TypeOK, TypeOK', DeliveryInv, BrokerReceives
  PROVE  DeliveryInv'
  <1> DEFINE m == Head(c2s)
  <1>1. /\ c2s # <<>> /\ LinkUp /\ c2s' = Tail(c2s)
        /\ UNCHANGED <<connState, ack, ping, msgQueue, inBuf>> /\ UNCHANGED app
        /\ Fresh' = Fresh
    BY DEF BrokerReceives, clientVars, Fresh, bounds
  <1>2. /\ c2s \in Seq(Packet) /\ s2c \in Seq(Packet) /\ inBuf \in Seq(Packet)
        /\ Down \in Seq(Packet) /\ In(Down) = In(inBuf) \cup In(s2c)
    BY WireTypes
  <1>3. /\ m \in In(c2s) /\ m = c2s[1] /\ In(Tail(c2s)) \subseteq In(c2s) /\ m \in Packet
        /\ Within(c2s', c2s, 1) /\ 1 \in 1..Len(c2s)
    <2>1. m \in In(c2s) /\ m = c2s[1] /\ In(Tail(c2s)) \subseteq In(c2s)
      BY <1>1, <1>2, InTail
    <2>2. m \in Packet
      BY <1>1, <1>2, HeadTailProperties
    <2>3. Within(c2s', c2s, 1)
      BY <1>1, <1>2, WithinTail
    <2>4. 1 \in 1..Len(c2s)
      BY <1>1, <1>2, LenProperties, EmptySeq
    <2> QED
      BY <2>1, <2>2, <2>3, <2>4
  <1>4. LinkOK'
    BY <1>1 DEF DeliveryInv, LinkOK, LinkUp, BrokerReceives
  <1>5. \/ m.type = "CONNECT" /\ UNCHANGED broker
           /\ \E i \in {0, 1} : s2c' = Append(s2c, Ctl("CONNACK", i))
        \/ /\ m.type # "CONNECT" /\ s2c' = s2c \o Reply(m)
           /\ delivered' = IF m.type = "PUBLISH" /\ (m.qos = 1 \/ (m.qos = 2 /\ m.id \notin bRecv))
                           THEN Append(delivered, m.pay) ELSE delivered
           /\ bRecv' = IF m.type = "PUBLISH" /\ m.qos = 2 THEN bRecv \cup {m.id}
                       ELSE IF m.type = "PUBREL" THEN bRecv \ {m.id} ELSE bRecv
    BY DEF BrokerReceives, B
  <1> HIDE DEF m
  \* One packet is added to what is on its way to the client.
  <1>6. ASSUME NEW r \in Packet, s2c' = Append(s2c, r)
        PROVE  /\ Down' = Append(Down, r) /\ In(s2c') = In(s2c) \cup {r}
               /\ (Answers(r) => Asks(m)) /\ (r.type = "PINGRESP" => m.type = "PINGREQ")
                    => OneExchange'
    <2>1. In(s2c') = In(s2c) \cup {r}
      BY <1>2, <1>6, InAppend
    <2>2. Down' = Append(Down, r)
      <3>1. Append(s2c, r) = s2c \o <<r>> /\ Append(inBuf \o s2c, r) = (inBuf \o s2c) \o <<r>>
        BY <1>2, <1>6, AppendIsConcat DEF Down
      <3>2. <<r>> \in Seq(Packet)
        OBVIOUS
      <3>3. inBuf \o (s2c \o <<r>>) = (inBuf \o s2c) \o <<r>>
        BY <1>2, <3>2, ConcatAssociative
      <3> QED
        BY <1>1, <1>6, <3>1, <3>3 DEF Down
    <2>3. ASSUME Answers(r) => Asks(m), r.type = "PINGRESP" => m.type = "PINGREQ"
          PROVE  OneExchange'
      <3>1. Asks(m) => 1 \in Asked
        BY <1>3 DEF Asked
      <3>2. m.type = "PINGREQ" => 1 \in Pings
        BY <1>3 DEF Pings
      <3> QED
        BY <1>2, <1>3, <2>2, <2>3, <3>1, <3>2, ExchangeAnswers DEF DeliveryInv
    <2> QED
      BY <2>1, <2>2, <2>3
  <1>7. CASE Asks(m)
    <2>1. m.type # "CONNECT"
      BY <1>7 DEF Asks
    <2>2. /\ MessagesOK' /\ SessionOK' /\ AckOK'
          /\ \E r \in Packet : Reply(m) = <<r>> /\ Answers(r) /\ Fits(r)' /\ r.id > 0
                               /\ r.type # "PINGRESP"
      BY <1>1, <1>3, <1>5, <1>7, <2>1, BrokerAsked DEF app
    <2>3. PICK r \in Packet : Reply(m) = <<r>> /\ Answers(r) /\ Fits(r)' /\ r.id > 0
                              /\ r.type # "PINGRESP"
      BY <2>2
    <2>4. s2c' = Append(s2c, r)
      BY <1>2, <1>5, <2>1, <2>3, AppendIsConcat
    <2>5. OneExchange' /\ In(s2c') = In(s2c) \cup {r}
      BY <1>6, <1>7, <2>3, <2>4
    <2>6. (\A x \in In(c2s') : ~Asks(x)) /\ (\A x \in In(Down) : ~Answers(x))
      <3>1. 1 \in Asked
        BY <1>3, <1>7 DEF Asked
      <3>2. (\A i \in Asked : i = 1) /\ Answered = {}
        BY <3>1 DEF DeliveryInv, OneExchange, AtMostOne
      <3>3. \A i \in 1..Len(c2s') : i \in Nat \ {0} /\ i + 1 \in 1..Len(c2s) /\ c2s'[i] = c2s[i + 1]
        BY <1>3 DEF Within
      <3>4. \A i \in 1..Len(c2s') : ~Asks(c2s'[i])
        BY <3>2, <3>3 DEF Asked
      <3> QED
        BY <3>2, <3>4 DEF In, Answered
    <2>7. WireOK'
      <3>1. In(inBuf') \subseteq In(Down) /\ In(s2c) \subseteq In(Down)
        BY <1>1, <1>2
      <3> QED
        BY <2>3, <2>5, <2>6, <3>1 DEF WireOK, Asks, Answers
    <2>8. ConnectOK'
      BY <1>1, <1>3, <1>7 DEF DeliveryInv, ExchangeOK, ConnectOK
    <2>9. PingOK'
      BY <1>1, <1>3, <2>3, <2>5 DEF DeliveryInv, ExchangeOK, PingOK
    <2> QED
      BY <1>4, <2>2, <2>5, <2>7, <2>8, <2>9 DEF DeliveryInv, ExchangeOK
  <1>8. CASE ~Asks(m)
    <2>1. UNCHANGED broker
      <3>1. m.type # "PUBREL" /\ (m.type = "PUBLISH" => ~(m.qos > 0))
        BY <1>8 DEF Asks
      <3> QED
        BY <1>5, <3>1 DEF broker
    <2>2. \/ s2c' = s2c
          \/ \E r \in Packet : /\ s2c' = Append(s2c, r) /\ ~Answers(r)
                               /\ r.type = "PINGRESP" => m.type = "PINGREQ"
      <3>1. CASE \E i \in {0, 1} : s2c' = Append(s2c, Ctl("CONNACK", i))
        <4>1. PICK i \in {0, 1} : s2c' = Append(s2c, Ctl("CONNACK", i))
          BY <3>1
        <4>2. Ctl("CONNACK", i) \in Packet
          BY CtlType DEF PacketTypes
        <4>3. ~Answers(Ctl("CONNACK", i)) /\ Ctl("CONNACK", i).type # "PINGRESP"
          BY DEF Answers, Ctl
        <4> QED
          BY <4>1, <4>2, <4>3
      <3>2. CASE s2c' = s2c \o Reply(m)
        <4>1. CASE m.type = "PINGREQ"
          <5>1. Reply(m) = <<Ctl("PINGRESP", 0)>> /\ Ctl("PINGRESP", 0) \in Packet
            BY <4>1, CtlType DEF Reply, PacketTypes
          <5>2. s2c' = Append(s2c, Ctl("PINGRESP", 0))
            BY <1>2, <3>2, <5>1, AppendIsConcat
          <5>3. ~Answers(Ctl("PINGRESP", 0))
            BY DEF Answers, Ctl
          <5> QED
            BY <4>1, <5>1, <5>2, <5>3
        <4>2. CASE m.type = "PUBREC"
          <5>1. Reply(m) = <<Ctl("PUBREL", m.id)>> /\ Ctl("PUBREL", m.id) \in Packet
            BY <1>3, <4>2, CtlType DEF Reply, PacketTypes, Packet
          <5>2. s2c' = Append(s2c, Ctl("PUBREL", m.id))
            BY <1>2, <3>2, <5>1, AppendIsConcat
          <5>3. ~Answers(Ctl("PUBREL", m.id)) /\ Ctl("PUBREL", m.id).type # "PINGRESP"
            BY DEF Answers, Ctl
          <5> QED
            BY <5>1, <5>2, <5>3
        <4>3. CASE m.type \notin {"PINGREQ", "PUBREC"}
          <5>1. /\ m.type \notin {"SUBSCRIBE", "UNSUBSCRIBE", "PUBREL"}
                /\ m.type = "PUBLISH" => m.qos # 1 /\ m.qos # 2
            BY <1>8 DEF Asks
          <5>2. Reply(m) = <<>>
            BY <4>3, <5>1 DEF Reply
          <5> QED
            BY <1>2, <3>2, <5>2, ConcatEmptySeq
        <4> QED
          BY <4>1, <4>2, <4>3
      <3> QED
        BY <1>5, <3>1, <3>2
    <2>3. HeadKept
      BY <1>1, <2>1 DEF HeadKept, broker
    <2>4. MessagesOK'
      BY <1>1, <2>1, MessagesKept DEF DeliveryInv, app, broker
    <2>5. \A x \in In(s2c') :
            /\ Answers(x) => x \in In(s2c)
            /\ x.type = "PINGRESP" => x \in In(s2c) \/ \E y \in In(c2s) : y.type = "PINGREQ"
      BY <1>3, <1>6, <2>2
    <2>6. ExchangeOK'
      <3>1. UNCHANGED <<ack, bRecv, connState, ping, inBuf>>
        BY <1>1, <2>1 DEF broker
      <3>2. In(c2s') \subseteq In(c2s)
        BY <1>1, <1>3
      <3> QED
        BY <2>3, <2>5, <3>1, <3>2, ExchangeFrame DEF DeliveryInv
    <2>7. OneExchange'
      <3>1. CASE s2c' = s2c
        <4>1. Down' = Down
          BY <1>1, <3>1 DEF Down
        <4> QED
          BY <1>2, <1>3, <4>1, WithinSelf, ExchangeShrinks DEF DeliveryInv
      <3> QED
        BY <1>6, <2>2, <3>1
    <2> QED
      BY <1>4, <2>4, <2>6, <2>7 DEF DeliveryInv
  <1> QED
    BY <1>7, <1>8

\* A message for one of the client's subscriptions belongs to none of its exchanges.
LEMMA DeliveryBrokerPublishes ==
  ASSUME TypeOK, DeliveryInv, BrokerPublishes
  PROVE  DeliveryInv'
  <1>1. /\ UNCHANGED <<connState, ack, ping, msgQueue, inBuf, link, c2s>>
        /\ UNCHANGED app /\ UNCHANGED broker /\ link = "session" /\ Fresh' = Fresh
    BY DEF BrokerPublishes, clientVars, Fresh
  <1>2. PICK r \in Packet : s2c' = Append(s2c, r) /\ r.type = "PUBLISH"
    <2>1. PICK q \in DownQoS :
            s2c' = Append(s2c, [type |-> "PUBLISH", qos |-> q,
                                id |-> IF q = 0 THEN 0 ELSE downs + 1, pay |-> 0])
      BY DEF BrokerPublishes
    <2>2. q \in 0..2 /\ downs + 1 \in Nat
      BY ConstantsAssumption, ConstantsType DEF ConstantsAssumption, TypeOK, TypeBounds
    <2>3. [type |-> "PUBLISH", qos |-> q, id |-> IF q = 0 THEN 0 ELSE downs + 1, pay |-> 0]
            \in Packet
      BY <2>2 DEF Packet, PacketTypes
    <2> QED
      BY <2>1, <2>3
  <1>3. /\ c2s \in Seq(Packet) /\ s2c \in Seq(Packet) /\ inBuf \in Seq(Packet)
        /\ Down \in Seq(Packet)
    BY WireTypes
  <1>4. ~Answers(r) /\ r.type # "PINGRESP"
    BY <1>2 DEF Answers
  <1>5. In(s2c') = In(s2c) \cup {r}
    BY <1>2, <1>3, InAppend
  <1>6. Down' = Append(Down, r)
    <2>1. Append(s2c, r) = s2c \o <<r>> /\ Append(inBuf \o s2c, r) = (inBuf \o s2c) \o <<r>>
      BY <1>3, AppendIsConcat DEF Down
    <2>2. <<r>> \in Seq(Packet)
      OBVIOUS
    <2>3. inBuf \o (s2c \o <<r>>) = (inBuf \o s2c) \o <<r>>
      BY <1>3, <2>2, ConcatAssociative
    <2> QED
      BY <1>1, <1>2, <2>1, <2>3 DEF Down
  <1>7. LinkOK' /\ MessagesOK'
    BY <1>1, MessagesKept DEF DeliveryInv, LinkOK, app, broker
  <1>8. HeadKept
    BY <1>1 DEF HeadKept, broker
  <1>9. ExchangeOK'
    BY <1>1, <1>4, <1>5, <1>8, ExchangeFrame DEF DeliveryInv, broker
  <1>10. OneExchange'
    <2>1. Within(c2s', c2s, 0)
      BY <1>1, <1>3, WithinSelf
    <2> QED
      BY <1>3, <1>4, <1>6, <2>1, ExchangeAnswers DEF DeliveryInv
  <1> QED
    BY <1>7, <1>9, <1>10 DEF DeliveryInv

-----------------------------------------------------------------------------
(* The theorems *)

\* MQTT_InitClient leaves nothing queued and nothing on the wire.
LEMMA DeliveryInit == Init => DeliveryInv
  <1> SUFFICES ASSUME Init PROVE DeliveryInv
    OBVIOUS
  <1>1. In(<<>>) = {} /\ inBuf = <<>> /\ c2s = <<>> /\ s2c = <<>> /\ msgQueue = <<>>
        /\ delivered = <<>> /\ accepted = <<>> /\ bRecv = {} /\ ack = NoAck
    BY InEmpty DEF Init
  <1>2. LinkOK
    BY DEF Init, LinkOK
  <1>3. ExchangeOK
    BY <1>1 DEF Init, ExchangeOK, WireOK, AckOK, ConnectOK, PingOK, SessionOK, NoAck
  <1>4. MessagesOK
    BY <1>1 DEF MessagesOK, QueueOK, KeptOrDelivered
  <1>5. OneExchange
    <2>1. Down = <<>>
      BY <1>1, ConcatEmptySeq DEF Down
    <2> QED
      BY <1>1, <2>1 DEF OneExchange, AtMostOne, Asked, Answered, Pings, PingResps
  <1> QED
    BY <1>2, <1>3, <1>4, <1>5 DEF DeliveryInv

\* mqtt_timer: a timeout takes the connection out of use.
LEMMA DeliveryTick ==
  ASSUME TypeOK, DeliveryInv, Tick
  PROVE  DeliveryInv'
  <1>1. /\ UNCHANGED <<ack, msgQueue, inBuf, link, c2s, s2c>> /\ UNCHANGED app
        /\ UNCHANGED broker /\ Fresh' = Fresh
    BY DEF Tick, tcp, Fresh, bounds
  <1>2. /\ connState' = "MQTT_CONNECT_SENDING" => connState = "MQTT_CONNECT_SENDING"
        /\ connState' \in InUse => connState \in InUse /\ ~PingDue
    BY DEF Tick, InUse, KeepDue
  <1>3. ~PingDue => ping'.wait = ping.wait
    BY DEF Tick, TypeOK, TypeExchange
  <1> QED
    BY <1>1, <1>2, <1>3, DeliveryQuiet

\* Every handler and every step of the environment keeps the invariant.
LEMMA DeliveryNext ==
  ASSUME TypeOK, TypeOK', DeliveryInv, InFlightIsHead, [Next]_vars
  PROVE  DeliveryInv'
  <1>1. UNCHANGED <<alive, bounds>> => Fresh' = Fresh
    BY DEF Fresh, bounds
  <1>2. CASE Task
    BY <1>2, DeliveryTask
  <1>3. CASE Recv
    BY <1>3, DeliveryRecv
  <1>4. CASE NetUp
    BY <1>4, DeliveryNetUp
  <1>5. CASE NetClosed \/ WifiGotIp
    BY <1>5, DeliveryConnect DEF NetClosed, WifiGotIp, bounds
  <1>6. CASE Tick
    BY <1>6, DeliveryTick
  <1>7. CASE AppCall
    BY <1>7, DeliveryAppCall
  <1>8. CASE BrokerReceives
    BY <1>8, DeliveryBrokerReceives
  <1>9. CASE BrokerPublishes
    BY <1>9, DeliveryBrokerPublishes
  <1>10. CASE DnsFound
    <2>1. UNCHANGED <<ack, ping, msgQueue, inBuf>> /\ UNCHANGED app /\ UNCHANGED broker
      BY <1>10 DEF DnsFound, exchange
    <2>2. connState' \in {"TCP_RECONNECT_REQ", "TCP_CONNECTING", connState} /\ Fresh' = Fresh
      BY <1>1, <1>10 DEF DnsFound
    <2>3. UNCHANGED <<link, c2s, s2c>> \/ (c2s' = <<>> /\ s2c' = <<>>)
      BY <1>10 DEF DnsFound, DropLink, tcp
    <2> QED
      BY <2>1, <2>2, <2>3, DeliveryQuiet DEF InUse
  <1>11. CASE NetError
    BY <1>1, <1>11, DeliveryQuiet DEF NetError, DropLink, exchange, InUse
  <1>12. CASE RemoteClose
    BY <1>1, <1>12, DeliveryQuiet DEF RemoteClose, DropLink, clientVars
  <1>13. CASE SentCb
    BY <1>1, <1>13, DeliveryQuiet DEF SentCb
  <1>14. CASE WifiDrop \/ Watchdog
    <2>1. StationIdle
      BY <1>14 DEF WifiDrop, Watchdog
    <2>2. /\ UNCHANGED <<ack, ping, msgQueue, inBuf, link, c2s, s2c>> /\ UNCHANGED app
          /\ UNCHANGED broker /\ Fresh' = Fresh /\ connState' = "TCP_DISCONNECTING"
      BY <1>1, <2>1 DEF StationIdle, exchange, tcp
    <2> QED
      BY <2>2, DeliveryQuiet DEF InUse
  <1>15. CASE Reboot
    <2>1. /\ ClearExchange /\ msgQueue' = <<>> /\ c2s' = <<>> /\ s2c' = <<>>
          /\ UNCHANGED <<delivered, calls>>
      BY <1>15 DEF Reboot, DropLink, broker
    <2>2. ~Fresh'
      BY <1>15, ConstantsType DEF Reboot, Fresh, TypeOK, TypeBounds
    <2> QED
      BY <2>1, <2>2, DeliveryForgotten
  <1>16. CASE RestartRequested
    BY <1>1, <1>16, DeliveryQuiet DEF RestartRequested, exchange, tcp, InUse
  <1>17. CASE UNCHANGED vars
    BY <1>1, <1>17, DeliveryQuiet DEF vars, clientVars, exchange, tcp
  <1> QED
    BY <1>2, <1>3, <1>4, <1>5, <1>6, <1>7, <1>8, <1>9, <1>10, <1>11, <1>12, <1>13,
       <1>14, <1>15, <1>16, <1>17 DEF Next, Client, Environment

\* The invariant of the exchange and of the messages holds in every reachable state.
THEOREM DeliveryInvariant == Spec => []DeliveryInv
  <1>1. TypeOK /\ TypeOK' /\ InFlightIsHead /\ DeliveryInv /\ [Next]_vars => DeliveryInv'
    BY DeliveryNext
  <1> QED
    BY <1>1, DeliveryInit, TypeCorrect, InFlightCorrect, PTL DEF Spec

\* At most one exchange of the client, and one ping, is on the wire in the two
\* directions together, so the acknowledgement mqtt_tcpclient_recv takes for the
\* packet in flight is for that packet.
THEOREM OneExchangeCorrect == Spec => []OneExchange
  <1>1. DeliveryInv => OneExchange
    BY DEF DeliveryInv
  <1> QED
    BY <1>1, DeliveryInvariant, PTL

\* Until the device restarts, a QoS 1 or 2 message MQTT_Publish returned TRUE for is
\* in msgQueue until the broker has it, whatever fails and however often the client
\* reconnects.  After a restart the broker may take a QoS 2 message for a duplicate
\* of one with the same identifier that the client has forgotten.
THEOREM NoLossCorrect == Spec => [](restarts = 0 => NoLoss)
  <1>1. DeliveryInv => (restarts = 0 => NoLoss)
    BY DEF DeliveryInv, MessagesOK, KeptOrDelivered, NoLoss, InSeq, In, Fresh
  <1> QED
    BY <1>1, DeliveryInvariant, PTL

-----------------------------------------------------------------------------
(* The refinement of Delivery *)

\* What is pending, by the packets of the queue.
LEMMA PendingIs ==
  /\ Pending = {m.pay : m \in {x \in In(msgQueue) : Kept(x)}}
  /\ Pending' = {m.pay : m \in {x \in In(msgQueue') : Kept(x)}}
  BY DEF Pending, In, Kept

\* The packet at the head of the queue is the oldest one.
LEMMA HeadIsOldest ==
  ASSUME TypeOK, DeliveryInv, msgQueue # <<>>
  PROVE  /\ Head(msgQueue).pay \in 1..MaxCalls
         /\ Head(msgQueue).pay \notin {m.pay : m \in In(Tail(msgQueue))}
         /\ Kept(Head(msgQueue)) => Abstract!Oldest(Head(msgQueue).pay)
  <1>1. /\ Head(msgQueue) = msgQueue[1] /\ 1 \in 1..Len(msgQueue) /\ Len(msgQueue) \in Nat
    BY WireTypes, LenProperties, EmptySeq
  <1>2. \A i \in 1..Len(msgQueue) : msgQueue[i].pay \in 1..calls
    BY DEF DeliveryInv, MessagesOK, QueueOK
  <1>3. calls \in 0..MaxCalls
    BY DEF TypeOK, TypeBounds
  <1>4. \A i \in 1..Len(msgQueue) : i # 1 => msgQueue[1].pay < msgQueue[i].pay
    BY <1>1 DEF DeliveryInv, MessagesOK, QueueOK
  <1>5. \A i \in 1..Len(msgQueue) : msgQueue[1].pay <= msgQueue[i].pay
    <2> TAKE i \in 1..Len(msgQueue)
    <2>1. msgQueue[1].pay \in Nat /\ msgQueue[i].pay \in Nat
      BY <1>1, <1>2, <1>3, ConstantsType
    <2> QED
      BY <1>1, <1>4, <2>1
  <1>6. Kept(Head(msgQueue)) => Head(msgQueue).pay \in Pending
    BY <1>1 DEF Pending, Kept
  <1>7. \A n \in Pending : Head(msgQueue).pay <= n
    BY <1>1, <1>5 DEF Pending
  <1>8. Head(msgQueue).pay \notin {m.pay : m \in In(Tail(msgQueue))}
    <2>1. \A i \in 1..Len(Tail(msgQueue)) :
            i + 1 \in 1..Len(msgQueue) /\ i + 1 # 1 /\ Tail(msgQueue)[i] = msgQueue[i + 1]
      BY <1>1, WireTypes, HeadTailProperties
    <2>2. \A i \in 1..Len(Tail(msgQueue)) : Tail(msgQueue)[i].pay # msgQueue[1].pay
      <3> TAKE i \in 1..Len(Tail(msgQueue))
      <3>1. msgQueue[1].pay < msgQueue[i + 1].pay /\ msgQueue[1].pay \in 1..calls
        BY <1>1, <1>2, <1>4, <2>1
      <3> QED
        BY <1>3, <2>1, <3>1, ConstantsType
    <2> QED
      BY <1>1, <2>2 DEF In
  <1> QED
    BY <1>1, <1>2, <1>3, <1>6, <1>7, <1>8, ConstantsType DEF Abstract!Oldest

\* The handlers that change the queue, as steps of Delivery: a call, the end of an
\* exchange, and a message that reaches the broker.
LEMMA AcceptStep ==
  ASSUME TypeOK, DeliveryInv, UNCHANGED delivered,
         NEW t \in {"PUBLISH", "SUBSCRIBE", "UNSUBSCRIBE", "PINGREQ"}, NEW q \in 0..2,
         Enqueue(t, q)
  PROVE  [Abstract!Next]_(Abstract!vars)
  <1> DEFINE id == IF CarriesId(t, q) THEN NextId(message_id) ELSE 0
             m  == [type |-> t, qos |-> q, id |-> id, pay |-> calls + 1]
  <1>1. calls + 1 \in 1..MaxCalls /\ calls \in Nat
    BY ConstantsType DEF Enqueue, TypeOK, TypeBounds
  <1>2. msgQueue' \in {msgQueue, Append(msgQueue, m)}
    BY DEF Enqueue, QueuePuts
  <1>3. m.pay = calls + 1
    OBVIOUS
  <1>4. id \in Nat
    BY ConstantsType DEF NextId, TypeOK, TypeClient
  <1>5. m \in Queued
    BY <1>1, <1>4 DEF Queued
  <1> HIDE DEF id, m
  <1>6. CASE msgQueue' = msgQueue
    BY <1>6 DEF Pending, Abstract!vars
  <1>7. CASE msgQueue' = Append(msgQueue, m)
    <2>1. In(msgQueue') = In(msgQueue) \cup {m}
      BY <1>5, <1>7, WireTypes, InAppend
    <2>2. Pending' = IF Kept(m) THEN Pending \cup {calls + 1} ELSE Pending
      BY <1>3, <2>1, PendingIs
    <2>3. CASE ~Kept(m)
      BY <2>2, <2>3 DEF Abstract!vars
    <2>4. CASE Kept(m)
      <3>1. \A n \in Pending : n < calls + 1
        <4>1. \A i \in 1..Len(msgQueue) : msgQueue[i].pay \in 1..calls
          BY DEF DeliveryInv, MessagesOK, QueueOK
        <4>2. \A n \in Pending : n \in 1..calls
          BY <4>1 DEF Pending
        <4> QED
          BY <1>1, <4>2
      <3>2. \A n \in Abstract!Delivered : n < calls + 1
        <4>1. \A n \in In(delivered) : n \in Nat /\ n <= calls
          BY WireTypes, ElementOfSeq DEF In, DeliveryInv, MessagesOK, QueueOK
        <4>2. Abstract!Delivered = In(delivered)
          BY DEF Abstract!Delivered, In
        <4>3. calls \in 0..MaxCalls
          BY DEF TypeOK, TypeBounds
        <4> QED
          BY <1>1, <4>1, <4>2
      <3>3. Abstract!Accept(calls + 1)
        BY <2>2, <2>4, <3>1, <3>2 DEF Abstract!Accept
      <3> QED
        BY <1>1, <3>3 DEF Abstract!Next
    <2> QED
      BY <2>3, <2>4
  <1> QED
    BY <1>2, <1>6, <1>7

\* The head of the queue leaves it: a message only when the broker has it.
LEMMA DoneStep ==
  ASSUME TypeOK, DeliveryInv, UNCHANGED delivered, msgQueue # <<>>, msgQueue' = Tail(msgQueue),
         Kept(Head(msgQueue)) => Head(msgQueue).pay \in In(delivered)
  PROVE  [Abstract!Next]_(Abstract!vars)
  <1>1. In(msgQueue) = {Head(msgQueue)} \cup In(msgQueue')
    BY WireTypes, InTail
  <1>2. CASE ~Kept(Head(msgQueue))
    <2>1. Pending' = Pending
      BY <1>1, <1>2, PendingIs
    <2> QED
      BY <2>1 DEF Abstract!vars
  <1>3. CASE Kept(Head(msgQueue))
    <2>1. /\ Head(msgQueue).pay \in 1..MaxCalls /\ Abstract!Oldest(Head(msgQueue).pay)
          /\ Head(msgQueue).pay \notin {m.pay : m \in In(msgQueue')}
      BY <1>3, HeadIsOldest
    <2>2. Pending' = Pending \ {Head(msgQueue).pay}
      BY <1>1, <1>3, <2>1, PendingIs
    <2>3. Abstract!Done(Head(msgQueue).pay)
      BY <1>3, <2>1, <2>2 DEF Abstract!Done, Abstract!Delivered, In
    <2> QED
      BY <2>1, <2>3 DEF Abstract!Next
  <1> QED
    BY <1>2, <1>3

\* A packet the broker takes off the wire is the oldest message, or none.
LEMMA DeliverStep ==
  ASSUME TypeOK, DeliveryInv, BrokerReceives
  PROVE  [Abstract!Next]_(Abstract!vars)
  <1> DEFINE m == Head(c2s)
  <1>1. /\ c2s # <<>> /\ UNCHANGED <<ack, msgQueue>> /\ UNCHANGED app /\ Fresh' = Fresh
    BY DEF BrokerReceives, clientVars, Fresh, bounds
  <1>2. m \in In(c2s) /\ m \in Packet
    BY <1>1, WireTypes, InTail, HeadTailProperties
  <1>3. \/ UNCHANGED broker
        \/ /\ delivered' = IF m.type = "PUBLISH" /\ (m.qos = 1 \/ (m.qos = 2 /\ m.id \notin bRecv))
                           THEN Append(delivered, m.pay) ELSE delivered
           /\ bRecv' = IF m.type = "PUBLISH" /\ m.qos = 2 THEN bRecv \cup {m.id}
                       ELSE IF m.type = "PUBREL" THEN bRecv \ {m.id} ELSE bRecv
    BY DEF BrokerReceives
  <1> HIDE DEF m
  <1>4. \/ delivered' = delivered
        \/ /\ msgQueue # <<>> /\ Kept(Head(msgQueue))
           /\ delivered' = Append(delivered, Head(msgQueue).pay)
    <2>1. CASE UNCHANGED broker
      BY <2>1 DEF broker
    <2>2. CASE ~UNCHANGED broker /\ Asks(m)
      BY <1>1, <1>2, <1>3, <2>2, BrokerAsked DEF app
    <2>3. CASE ~UNCHANGED broker /\ ~Asks(m)
      BY <1>3, <2>3 DEF Asks
    <2> QED
      BY <2>1, <2>2, <2>3
  <1>5. Pending' = Pending
    BY <1>1 DEF Pending
  <1>6. CASE delivered' = delivered
    BY <1>5, <1>6 DEF Abstract!vars
  <1>7. CASE /\ msgQueue # <<>> /\ Kept(Head(msgQueue))
             /\ delivered' = Append(delivered, Head(msgQueue).pay)
    <2>1. /\ Head(msgQueue).pay \in 1..MaxCalls /\ Abstract!Oldest(Head(msgQueue).pay)
      BY <1>7, HeadIsOldest
    <2>2. Abstract!Deliver(Head(msgQueue).pay)
      BY <1>5, <1>7, <2>1 DEF Abstract!Deliver
    <2> QED
      BY <2>1, <2>2 DEF Abstract!Next
  <1> QED
    BY <1>4, <1>6, <1>7

\* A client that is being deleted, or is, waits for the restart: it has no connection.
GoneOK == /\ connState = "MQTT_DELETED" \/ ~alive => MaxRestarts > 0
          /\ ~alive => link = "down" /\ ~pCon

\* No packet that is received restarts the device.
LEMMA GoneProcess ==
  ASSUME GoneOK, LinkUp \/ pCon, NEW buf, NEW p, NEW rest, Process(buf, p, rest)
  PROVE  GoneOK'
  <1>1. alive /\ alive' = alive
    BY DEF GoneOK, LinkUp, Process
  <1>2. \/ connState' = connState
        \/ connState' \in {"MQTT_DATA", "TCP_DISCONNECTING", "TCP_RECONNECT_DISCONNECTING"}
    BY ConsumedTakes DEF Process, ReceiveConnack, ReceivePublish, Deliver, ReceivePubrec,
       ReceivePubrel, SendDirect, ReceiveAck, ReceivePingresp, Ignored
  <1> QED
    BY <1>1, <1>2 DEF GoneOK

\* Every step keeps what holds of a client that is being deleted.
LEMMA GoneNext ==
  ASSUME TypeOK, GoneOK, [Next]_vars
  PROVE  GoneOK'
  <1>1. CASE Task
    <2> DEFINE p == posts - 1
    <2>1. \/ Idle(p) \/ (HasPacket /\ Process(inBuf, p, s2c))
          \/ alive /\ (Reconnect(p) \/ CloseConnection(p) \/ SendKeepalive(p) \/ SendHead(p))
          \/ connState = "MQTT_DELETED" /\ DeleteClient(p)
      BY <1>1 DEF Task
    <2> HIDE DEF p
    <2>2. CASE Idle(p)
      BY <2>2 DEF Idle, GoneOK, tcp
    <2>3. CASE HasPacket /\ Process(inBuf, p, s2c)
      BY <2>3, GoneProcess DEF HasPacket
    <2>4. CASE alive /\ Reconnect(p)
      BY <2>4 DEF GoneOK, Reconnect, MqttConnect
    <2>5. CASE alive /\ CloseConnection(p)
      BY <2>5 DEF GoneOK, CloseConnection
    <2>6. CASE alive /\ SendKeepalive(p)
      BY <2>6 DEF GoneOK, SendKeepalive
    <2>7. CASE alive /\ SendHead(p)
      BY <2>7 DEF GoneOK, SendHead
    <2>8. CASE connState = "MQTT_DELETED" /\ DeleteClient(p)
      BY <2>8 DEF GoneOK, DeleteClient, DropLink
    <2> QED
      BY <2>1, <2>2, <2>3, <2>4, <2>5, <2>6, <2>7, <2>8
  <1>2. CASE Recv
    <2>1. LinkUp /\ alive
      BY <1>2 DEF Recv, GoneOK, LinkUp
    <2>2. PICK n \in 1..Len(s2c) :
            \/ UNCHANGED <<connState, alive>>
            \/ Process(inBuf \o SubSeq(s2c, 1, n), posts, SubSeq(s2c, n + 1, Len(s2c)))
      BY <1>2 DEF Recv
    <2> QED
      BY <2>1, <2>2, GoneProcess DEF GoneOK
  <1>3. CASE NetUp \/ NetError \/ RemoteClose
    BY <1>3 DEF NetUp, NetError, RemoteClose, GoneOK, LinkUp, clientVars
  <1>4. CASE NetClosed
    BY <1>4 DEF NetClosed, MqttConnect, GoneOK
  <1>5. CASE WifiGotIp
    BY <1>5 DEF WifiGotIp, MqttConnect, GoneOK
  <1>6. CASE Tick
    BY <1>6 DEF Tick, GoneOK
  <1>7. CASE AppCall
    BY <1>7 DEF AppCall, GoneOK
  <1>8. CASE BrokerReceives
    BY <1>8 DEF BrokerReceives, GoneOK, LinkUp, clientVars
  <1>9. CASE BrokerPublishes
    BY <1>9 DEF BrokerPublishes, GoneOK, clientVars
  <1>10. CASE DnsFound
    BY <1>10 DEF DnsFound, GoneOK, tcp
  <1>11. CASE SentCb
    BY <1>11 DEF SentCb, GoneOK
  <1>12. CASE WifiDrop \/ Watchdog
    <2>1. StationIdle
      BY <1>12 DEF WifiDrop, Watchdog
    <2> QED
      BY <2>1 DEF StationIdle, GoneOK, tcp
  <1>13. CASE Reboot
    BY <1>13 DEF Reboot, GoneOK
  <1>14. CASE RestartRequested
    BY <1>14, ConstantsType DEF RestartRequested, GoneOK, TypeOK, TypeBounds
  <1>15. CASE UNCHANGED vars
    BY <1>15 DEF vars, clientVars, tcp, GoneOK
  <1> QED
    BY <1>1, <1>2, <1>3, <1>4, <1>5, <1>6, <1>7, <1>8, <1>9, <1>10, <1>11, <1>12, <1>13,
       <1>14, <1>15 DEF Next, Client, Environment

\* A step that changes neither the queue nor what the broker has is no step of Delivery.
LEMMA QuietStep ==
  ASSUME UNCHANGED <<msgQueue, delivered>>
  PROVE  UNCHANGED Abstract!vars
  BY DEF Abstract!vars, Pending

\* A restart, and the deletion of the client before one, forget what was pending.
LEMMA CrashStep ==
  ASSUME MaxRestarts > 0, msgQueue' = <<>>, UNCHANGED delivered
  PROVE  Abstract!Next
  <1>1. Pending' = {}
    BY InEmpty, PendingIs
  <1> QED
    BY <1>1 DEF Abstract!Next, Abstract!Crash

\* mqtt_tcpclient_recv and MQTT_Task with a packet, as steps of Delivery.
LEMMA ProcessStep ==
  ASSUME TypeOK, TypeOK', DeliveryInv, InFlightIsHead, Fresh, NEW buf, NEW p, NEW rest,
         Received(buf, rest), Process(buf, p, rest)
  PROVE  [Abstract!Next]_(Abstract!vars)
  <1>1. UNCHANGED broker /\ Fresh' = Fresh /\ UNCHANGED delivered
    BY DEF Process, Fresh, bounds, broker
  <1>2. \/ UNCHANGED msgQueue
        \/ ReceivePublish(buf, p, rest)
        \/ Exchanging /\ Completes(Head(buf)) /\ ReceiveAck(buf, p, rest)
        \/ Exchanging /\ Head(buf).type = "PINGRESP" /\ ReceivePingresp(buf, p, rest)
    BY DEF Process, ReceiveConnack, ReceivePubrec, ReceivePubrel, Ignored
  <1>3. CASE UNCHANGED msgQueue
    BY <1>1, <1>3, QuietStep
  <1>4. CASE ReceivePublish(buf, p, rest)
    <2>1. \/ UNCHANGED msgQueue
          \/ Enqueue("PUBLISH", 1) \/ Enqueue("PUBLISH", 2)
          \/ \E c \in AppCalls : Enqueue(c[1], c[2])
      BY <1>4 DEF ReceivePublish, Deliver
    <2>2. \A c \in AppCalls : c[1] \in {"PUBLISH", "SUBSCRIBE", "UNSUBSCRIBE", "PINGREQ"}
                              /\ c[2] \in 0..2
      BY ConstantsAssumption DEF ConstantsAssumption
    <2> QED
      BY <1>1, <2>1, <2>2, AcceptStep, QuietStep
  <1>5. CASE Exchanging /\ Completes(Head(buf)) /\ ReceiveAck(buf, p, rest)
    BY <1>1, <1>5, DeliveryAck, DoneStep
  <1>6. CASE Exchanging /\ Head(buf).type = "PINGRESP" /\ ReceivePingresp(buf, p, rest)
    <2>1. \/ msgQueue' = msgQueue
          \/ msgQueue # <<>> /\ msgQueue' = Tail(msgQueue) /\ ~Kept(Head(msgQueue))
      BY <1>1, <1>6, DeliveryPingresp
    <2> QED
      BY <1>1, <2>1, DoneStep, QuietStep
  <1> QED
    BY <1>2, <1>3, <1>4, <1>5, <1>6

\* Every step before a restart is a step of Delivery or changes nothing of it.
LEMMA DeliveryStep ==
  ASSUME TypeOK, TypeOK', DeliveryInv, InFlightIsHead, GoneOK, [Next]_vars, restarts = 0
  PROVE  [Abstract!Next]_(Abstract!vars)
  <1>1. CASE Task
    <2> DEFINE p == posts - 1
    <2>1. \/ alive /\ HasPacket /\ Process(inBuf, p, s2c)
          \/ alive /\ connState = "MQTT_DATA" /\ MaySend /\ SendHead(p)
          \/ connState = "MQTT_DELETED" /\ DeleteClient(p)
          \/ Idle(p) \/ Reconnect(p) \/ CloseConnection(p) \/ SendKeepalive(p)
      BY <1>1 DEF Task
    <2> HIDE DEF p
    <2>2. CASE alive /\ HasPacket /\ Process(inBuf, p, s2c)
      BY <2>2, ProcessStep, ReceivedBuffered DEF Fresh, HasPacket
    <2>3. CASE alive /\ connState = "MQTT_DATA" /\ MaySend /\ SendHead(p)
      <3>1. /\ msgQueue # <<>> /\ UNCHANGED delivered
            /\ \/ msgQueue' = msgQueue
               \/ msgQueue' = Tail(msgQueue) /\ ~NeedsAck(Head(msgQueue))
        BY <2>3 DEF MaySend, SendHead, AfterSend, broker
      <3>2. ~NeedsAck(Head(msgQueue)) => ~Kept(Head(msgQueue))
        BY DEF NeedsAck, Kept
      <3> QED
        BY <3>1, <3>2, DoneStep, QuietStep
    <2>4. CASE connState = "MQTT_DELETED" /\ DeleteClient(p)
      BY <2>4, CrashStep DEF GoneOK, DeleteClient, broker
    <2>5. CASE Idle(p) \/ Reconnect(p) \/ CloseConnection(p) \/ SendKeepalive(p)
      <3>1. UNCHANGED <<msgQueue, delivered>>
        BY <2>5 DEF Idle, Reconnect, MqttConnect, CloseConnection, SendKeepalive, broker
      <3> QED
        BY <3>1, QuietStep
    <2> QED
      BY <2>1, <2>2, <2>3, <2>4, <2>5
  <1>2. CASE Recv
    <2>1. LinkUp /\ Fresh
      BY <1>2 DEF Recv, GoneOK, LinkUp, Fresh
    <2>2. PICK n \in 1..Len(s2c) :
            \/ UNCHANGED <<msgQueue, broker>>
            \/ Process(inBuf \o SubSeq(s2c, 1, n), posts, SubSeq(s2c, n + 1, Len(s2c)))
      BY <1>2 DEF Recv
    <2>3. Received(inBuf \o SubSeq(s2c, 1, n), SubSeq(s2c, n + 1, Len(s2c)))
      BY <2>1, ReceivedChunk
    <2> QED
      BY <2>1, <2>2, <2>3, ProcessStep, QuietStep DEF broker
  <1>3. CASE AppCall
    <2>1. PICK c \in AppCalls : Enqueue(c[1], c[2])
      BY <1>3 DEF AppCall
    <2>2. c[1] \in {"PUBLISH", "SUBSCRIBE", "UNSUBSCRIBE", "PINGREQ"} /\ c[2] \in 0..2
      BY ConstantsAssumption DEF ConstantsAssumption
    <2>3. UNCHANGED delivered
      BY <1>3 DEF AppCall, broker
    <2> QED
      BY <2>1, <2>2, <2>3, AcceptStep
  <1>4. CASE BrokerReceives
    BY <1>4, DeliverStep
  <1>5. CASE Reboot
    <2>1. MaxRestarts > 0
      BY <1>5, ConstantsType DEF Reboot
    <2> QED
      BY <1>5, <2>1, CrashStep DEF Reboot, broker
  <1>6. CASE NetClosed \/ WifiGotIp
    BY <1>6, QuietStep DEF NetClosed, WifiGotIp, MqttConnect, broker
  <1>7. CASE NetUp \/ NetError \/ RemoteClose
    BY <1>7, QuietStep DEF NetUp, NetError, RemoteClose, broker, clientVars
  <1>8. CASE Tick \/ SentCb \/ DnsFound
    BY <1>8, QuietStep DEF Tick, SentCb, DnsFound, broker
  <1>9. CASE BrokerPublishes \/ RestartRequested
    BY <1>9, QuietStep DEF BrokerPublishes, RestartRequested, broker, clientVars
  <1>10. CASE WifiDrop \/ Watchdog
    BY <1>10, QuietStep DEF WifiDrop, Watchdog, StationIdle, broker
  <1>11. CASE UNCHANGED vars
    BY <1>11, QuietStep DEF vars, broker, clientVars
  <1> QED
    BY <1>1, <1>2, <1>3, <1>4, <1>5, <1>6, <1>7, <1>8, <1>9, <1>10, <1>11
       DEF Next, Client, Environment

\* Delivery starts with nothing pending and nothing delivered.
LEMMA DeliveryStart == Init => Abstract!Init
  BY DEF Init, Abstract!Init, Pending

\* Until the device restarts, and in the restart itself, the client, its queue, the
\* wire and the broker do what Delivery promises: the messages reach the broker in the
\* order MQTT_Publish accepted them, each of them before the next, and none leaves the
\* queue before the broker has it.
THEOREM DeliversUntilRestart ==
  Spec => Abstract!Init /\ [][restarts = 0 => [Abstract!Next]_(Abstract!vars)]_vars
  <1>1. Init => GoneOK
    BY DEF Init, GoneOK
  <1>2. TypeOK /\ GoneOK /\ [Next]_vars => GoneOK'
    BY GoneNext
  <1>3. TypeOK /\ TypeOK' /\ DeliveryInv /\ InFlightIsHead /\ GoneOK /\ [Next]_vars
          => (restarts = 0 => [Abstract!Next]_(Abstract!vars))
    BY DeliveryStep
  <1>4. Spec => []GoneOK
    BY <1>1, <1>2, TypeCorrect, PTL DEF Spec
  <1> QED
    BY <1>3, <1>4, DeliveryStart, DeliveryInvariant, InFlightCorrect, TypeCorrect, PTL DEF Spec

\* A device that does not restart implements Delivery.
THEOREM DeliversCorrect ==
  ASSUME MaxRestarts = 0
  PROVE  Spec => Delivers
  <1>1. TypeOK => restarts = 0
    BY DEF TypeOK, TypeBounds
  <1>2. TypeOK /\ (restarts = 0 => [Abstract!Next]_(Abstract!vars))
          => [Abstract!Next]_(Abstract!vars)
    BY <1>1
  <1>3. UNCHANGED vars => [Abstract!Next]_(Abstract!vars)
    BY QuietStep DEF vars, broker, clientVars
  <1> QED
    BY <1>2, <1>3, DeliversUntilRestart, TypeCorrect, PTL DEF Delivers, Abstract!Spec
=============================================================================
