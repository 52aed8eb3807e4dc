------------------------------ MODULE MqttClient ------------------------------
(***************************************************************************)
(* The MQTT client of mqtt/mqtt.c: the connection state machine driven by  *)
(* MQTT_Task, the espconn callbacks and the one-second mqtt_timer, the     *)
(* outgoing message queue, and the acknowledgement and keepalive           *)
(* bookkeeping.  The SDK's TCP layer (espconn), the DNS resolver and the   *)
(* broker are not part of the repository: they are modelled from the calls *)
(* and callbacks mqtt.c makes and registers.                               *)
(*                                                                         *)
(* Handlers run to completion (the SDK is single threaded), so one handler *)
(* is one action.  An operator that takes p, the number of posted task     *)
(* events, is the part of a handler that runs after p was computed.        *)
(***************************************************************************)
EXTENDS Integers, Sequences

CONSTANTS
  SendTimeout,       \* MQTT_SEND_TIMOUT, in timer ticks
  ReconnectTimeout,  \* MQTT_RECONNECT_TIMEOUT
  ConnectTimeout,    \* MQTT_CONNECT_TIMEOUT
  KeepAlive,         \* connect_info->keepalive / 2
  TaskQueueSize,     \* MQTT_TASK_QUEUE_SIZE: system_os_post fails beyond it
  QueueMax,          \* packets that fit in msgQueue
  InBufMax,          \* packets that fit in in_buffer (MQTT_BUF_SIZE)
  IdMax,             \* largest packet identifier, 65535 in the code
  DnsMax,            \* outstanding lookups the resolver accepts
  AppCalls,          \* API calls the application makes: <<type, qos>>
  DownQoS,           \* QoS of the PUBLISHes the broker sends
  HostIsIp,          \* the broker is configured as an IP address
  MaxCalls, MaxDown, \* bounds: API calls, PUBLISHes sent by the broker
  MaxFaults,         \* bound: failures, delays and requested restarts
  MaxRestarts        \* bound: restarts of the device

ASSUME ConstantsAssumption ==
  /\ {SendTimeout, ReconnectTimeout, ConnectTimeout, KeepAlive} \subseteq Nat \ {0}
  /\ {TaskQueueSize, QueueMax, InBufMax, IdMax, DnsMax} \subseteq Nat \ {0}
  /\ AppCalls \subseteq {"PUBLISH", "SUBSCRIBE", "UNSUBSCRIBE", "PINGREQ"} \X (0..2)
  /\ DownQoS \subseteq 0..2 /\ HostIsIp \in BOOLEAN
  /\ {MaxCalls, MaxDown, MaxFaults, MaxRestarts} \subseteq Nat

VARIABLES
  connState,     \* client->connState
  alive,         \* the client's buffers are allocated and callbacks are set
  pCon,          \* client->pCon # NULL
  timerArmed,    \* mqttTimer is armed
  posts,         \* MQTT_Task events posted and not yet run
  ack,           \* is_waiting_for_ack, pending_msg_type, pending_msg_id
  sendTimeout,   \* ticks left for the packet in flight, 0 = none
  ping,          \* is_waiting_for_pingresp, pingrespTimeout
  pubCbPending,  \* publish_send_callback_pending
  tick,          \* keepAliveTick, reconnectTick, connectTick
  message_id,    \* mqtt_connection.message_id
  msgQueue,      \* the packets of msgQueue, oldest first
  inBuf,         \* complete packets in in_buffer
  link,          \* the TCP connection
  c2s, s2c,      \* packets on their way to and from the broker
  unsent,        \* espconn_send calls whose sent callback is outstanding
  dnsPending,    \* lookups whose mqtt_dns_found call is outstanding
  wifiUp,        \* the station has an IP address
  bRecv,         \* broker session: QoS 2 ids received and not released
  delivered,     \* broker: QoS >= 1 messages handed to subscribers, in order
  accepted,      \* QoS >= 1 messages MQTT_Publish returned TRUE for
  calls, downs, faults, restarts  \* counters for the bounds

clientVars == <<connState, alive, pCon, timerArmed, posts, ack, sendTimeout,
                ping, pubCbPending, tick, message_id, msgQueue, inBuf>>
exchange == <<ack, sendTimeout, ping, pubCbPending>>
tcp      == <<link, c2s, s2c, unsent>>
app      == <<accepted, calls>>
bounds   == <<downs, restarts>>
broker   == <<bRecv, delivered>>
vars     == <<clientVars, tcp, dnsPending, wifiUp, broker, app, bounds, faults>>

ConnStates ==
  {"WIFI_INIT", "TCP_DISCONNECTING", "TCP_RECONNECT_DISCONNECTING",
   "TCP_RECONNECT_REQ", "TCP_RECONNECT", "TCP_CONNECTING",
   "MQTT_CONNECT_SENDING", "MQTT_DATA", "MQTT_KEEPALIVE_SEND", "MQTT_DELETED"}

PacketTypes ==
  {"CONNECT", "CONNACK", "PUBLISH", "PUBACK", "PUBREC", "PUBREL", "PUBCOMP",
   "SUBSCRIBE", "SUBACK", "UNSUBSCRIBE", "UNSUBACK", "PINGREQ", "PINGRESP"}

\* pay numbers the API calls; a CONNACK carries its return code in id.
Packet  == [type : PacketTypes, qos : 0..2, id : Nat, pay : Nat]
Ctl(t, id) == [type |-> t, qos |-> 0, id |-> id, pay |-> 0]

NoAck   == [wait |-> FALSE, type |-> "none", id |-> 0]
NoPing  == [wait |-> FALSE, tmo |-> 0]
NoTicks == [keep |-> 0, recon |-> 0, conn |-> 0]

-----------------------------------------------------------------------------
(* Helpers *)

B(p) == IF p THEN 1 ELSE 0

\* system_os_post: an event posted to a full task queue is lost.
Posted(p, n) == IF p + n > TaskQueueSize THEN TaskQueueSize ELSE p + n

\* append_message_id: ++message_id on 16 bits, skipping 0.
NextId(i) == IF i >= IdMax THEN 1 ELSE i + 1

\* A mutation of GetId: the identifier of a SUBSCRIBE is not read back.
GetIdNoSubscribe(m) == IF m.type = "PUBLISH" /\ m.qos > 0 THEN m.id ELSE 0

\* mqtt_get_id: the identifier read back from a packet.  The switch has no
\* case for UNSUBSCRIBE, and a QoS 0 PUBLISH carries none.
GetId(m) == IF m.type = "SUBSCRIBE" \/ (m.type = "PUBLISH" /\ m.qos > 0)
            THEN m.id ELSE 0

\* A mutation of NeedsAck: a QoS 1 PUBLISH leaves the queue once it is sent.
NeedsAckQos2(m) == m.type # "PUBLISH" \/ m.qos > 1

\* The packets MQTT_Task keeps at the head of the queue until they are
\* acknowledged.
NeedsAck(m) == m.type # "PUBLISH" \/ m.qos > 0

LinkUp == link \in {"up", "session"}

\* An outcome the environment produces only MaxFaults times.
Fault(b) == IF b THEN faults < MaxFaults /\ faults' = faults + 1
                 ELSE UNCHANGED faults

\* Nothing is under way in the task queue, nor in the network and the resolver
\* of a station that has its address.
Quiet ==
  /\ posts = 0
  /\ wifiUp => /\ c2s = <<>> /\ s2c = <<>> /\ unsent = 0 /\ dnsPending = 0
               /\ link \notin {"syn", "closing"}

DropLink(l) == link' = l /\ c2s' = <<>> /\ s2c' = <<>> /\ unsent' = 0

\* espconn_disconnect: mqtt_tcpclient_discon_cb follows only for a connection
\* that was established, because connect_cb registers it.
EspconnDisconnect ==
  IF LinkUp THEN DropLink("closing")
  ELSE IF link = "syn" THEN DropLink("down")
  ELSE UNCHANGED tcp

\* espconn_send of m: it succeeds on an established connection, or it fails.
EspconnSend(ok, m) ==
  /\ ok => LinkUp
  /\ c2s' = IF ok THEN Append(c2s, m) ELSE c2s
  /\ unsent' = IF ok THEN unsent + 1 ELSE unsent
  /\ Fault(~ok /\ LinkUp)

\* The fields mqtt_tcpclient_delete, mqtt_tcpclient_discon_cb and MQTT_Connect
\* all clear.
ClearExchange ==
  /\ inBuf' = <<>> /\ ack' = NoAck /\ sendTimeout' = 0
  /\ ping' = NoPing /\ pubCbPending' = FALSE

-----------------------------------------------------------------------------
(* Connecting *)

\* MQTT_Connect, with p events posted so far; failed is the connection state
\* when the lookup fails at once.
MqttConnect(p, failed) ==
  /\ ClearExchange /\ pCon' = TRUE /\ timerArmed' = TRUE /\ tick' = NoTicks
  /\ UNCHANGED <<alive, message_id, msgQueue>>
  /\ \/ /\ HostIsIp
        /\ DropLink("syn") /\ connState' = "TCP_CONNECTING" /\ posts' = p
        /\ UNCHANGED <<dnsPending, faults>>
     \/ /\ ~HostIsIp           \* ERR_OK: the address is cached
        /\ DropLink("syn") /\ connState' = "TCP_CONNECTING"
        /\ posts' = Posted(p, 1) /\ UNCHANGED <<dnsPending, faults>>
     \/ /\ ~HostIsIp /\ dnsPending < DnsMax   \* ERR_INPROGRESS
        /\ DropLink("down") /\ connState' = "TCP_CONNECTING"
        /\ posts' = Posted(p, 1) /\ dnsPending' = dnsPending + 1
        /\ UNCHANGED faults
     \/ /\ ~HostIsIp           \* any other code
        /\ DropLink("down") /\ connState' = failed
        /\ posts' = Posted(p, 1) /\ Fault(wifiUp) /\ UNCHANGED dnsPending

\* mqtt_dns_found, called back by the resolver.  Its argument is the address
\* of the one static mqtt_espconn, so an answer to an abandoned lookup acts on
\* the connection of the day.
DnsFound ==
  /\ dnsPending > 0 /\ dnsPending' = dnsPending - 1
  /\ \/ /\ connState' = "TCP_RECONNECT_REQ" /\ Fault(wifiUp)
        /\ UNCHANGED <<posts, tcp>>
     \/ /\ ~pCon /\ UNCHANGED <<connState, posts, tcp, faults>>
     \/ /\ pCon /\ connState' = "TCP_CONNECTING" /\ posts' = Posted(posts, 1)
        /\ IF link = "down" THEN DropLink("syn") ELSE UNCHANGED tcp
        /\ UNCHANGED faults
  /\ UNCHANGED <<alive, pCon, timerArmed, exchange, tick, message_id, msgQueue,
                 inBuf, wifiUp, broker, app, bounds>>

\* mqtt_tcpclient_connect_cb
NetUp ==
  /\ link = "syn" /\ wifiUp
  /\ message_id' = 0                   \* mqtt_msg_init clears mqtt_connection
  /\ posts' = Posted(posts, 1)
  /\ \E ok \in BOOLEAN :
       /\ link' = "up" /\ s2c' = <<>> /\ Fault(~ok)
       /\ ack' = [wait |-> IF ok THEN TRUE ELSE ack.wait, type |-> "CONNECT", id |-> 0]
       /\ sendTimeout' = IF ok THEN SendTimeout ELSE 0
       /\ connState' = IF ok THEN "MQTT_CONNECT_SENDING"
                             ELSE "TCP_RECONNECT_DISCONNECTING"
       /\ c2s' = IF ok THEN <<Ctl("CONNECT", 0)>> ELSE <<>>
       /\ unsent' = B(ok)
  /\ UNCHANGED <<alive, pCon, timerArmed, ping, pubCbPending, tick, msgQueue,
                 inBuf, dnsPending, wifiUp, broker, app, bounds>>

\* mqtt_tcpclient_recon_cb: the connection attempt or the connection failed.
\* What was in flight stays marked as in flight.
NetError ==
  /\ link \in {"syn", "up", "session"} /\ Fault(wifiUp)
  /\ DropLink("down") /\ connState' = "TCP_RECONNECT_REQ"
  /\ posts' = Posted(posts, 1)
  /\ UNCHANGED <<alive, pCon, timerArmed, exchange, tick, message_id, msgQueue,
                 inBuf, dnsPending, wifiUp, broker, app, bounds>>

\* The broker closes the connection; espconn reports it later (NetClosed).
RemoteClose ==
  /\ LinkUp /\ Fault(TRUE) /\ DropLink("closing")
  /\ UNCHANGED <<clientVars, dnsPending, wifiUp, broker, app, bounds>>

\* mqtt_tcpclient_discon_cb.  It clears the exchange, sets TCP_DISCONNECTED or
\* TCP_RECONNECT_REQ, calls disconnectedCb, which is mqtt_disconnected_cb and
\* so MQTT_Connect, and posts.
NetClosed ==
  /\ link = "closing"
  /\ MqttConnect(Posted(posts, 1), "TCP_RECONNECT_REQ")
  /\ UNCHANGED <<wifiUp, broker, app, bounds>>

-----------------------------------------------------------------------------
(* The application's calls *)

Room == Len(msgQueue) < QueueMax

\* A mutation of QueuePuts: a full queue drops its oldest packet.
QueuePutsDropOldest(q, m) == IF Room THEN Append(q, m) ELSE Append(Tail(q), m)

\* QUEUE_Puts on the packets: a packet that does not fit changes nothing.
QueuePuts(q, m) == IF Room THEN Append(q, m) ELSE q

CarriesId(t, q) == t \in {"SUBSCRIBE", "UNSUBSCRIBE"} \/ (t = "PUBLISH" /\ q > 0)

\* MQTT_Publish, MQTT_Subscribe, MQTT_UnSubscribe and MQTT_Ping up to their
\* system_os_post: a packet that does not fit is rejected, but has used an
\* identifier.
Enqueue(t, q) ==
  LET id == IF CarriesId(t, q) THEN NextId(message_id) ELSE 0
      m  == [type |-> t, qos |-> q, id |-> id, pay |-> calls + 1]
  IN /\ calls < MaxCalls /\ calls' = calls + 1
     /\ message_id' = IF CarriesId(t, q) THEN id ELSE message_id
     /\ msgQueue' = QueuePuts(msgQueue, m)
     /\ accepted' = IF Room /\ t = "PUBLISH" /\ q > 0
                    THEN Append(accepted, m.pay) ELSE accepted

AppCall ==
  /\ alive
  /\ \E c \in AppCalls : Enqueue(c[1], c[2])
  /\ posts' = Posted(posts, B(Room))
  /\ UNCHANGED <<connState, alive, pCon, timerArmed, exchange, tick, inBuf, tcp,
                 dnsPending, wifiUp, broker, bounds, faults>>

\* mqtt_restart_ack_timer_func: MQTT_DeleteClient, then a deferred restart.
RestartRequested ==
  /\ alive /\ restarts < MaxRestarts /\ connState # "MQTT_DELETED" /\ Fault(TRUE)
  /\ connState' = "MQTT_DELETED" /\ timerArmed' = FALSE
  /\ posts' = Posted(posts, 1)
  /\ UNCHANGED <<alive, pCon, exchange, tick, message_id, msgQueue, inBuf, tcp,
                 dnsPending, wifiUp, broker, app, bounds>>

-----------------------------------------------------------------------------
(* Receiving: mqtt_tcpclient_recv, on the packets buf and with p events      *)
(* posted; rest is what stays on the network.                                *)

Exchanging == connState \in {"MQTT_DATA", "MQTT_KEEPALIVE_SEND"}

Pop(q) == IF q = <<>> THEN q ELSE Tail(q)

\* The end of mqtt_tcpclient_recv, in connection state s: a failed control
\* send drops the whole buffer, otherwise the packet is removed and the task
\* is posted for the next one.
Consumed(buf, p, s) ==
  /\ connState' = s
  /\ IF s = "TCP_RECONNECT_DISCONNECTING"
     THEN inBuf' = <<>> /\ posts' = p
     ELSE inBuf' = Tail(buf) /\ posts' = Posted(p, 1)

Ignored(buf, p, rest) ==
  /\ Consumed(buf, p, connState) /\ s2c' = rest
  /\ UNCHANGED <<timerArmed, exchange, tick, message_id, msgQueue,
                 link, c2s, unsent, app, faults>>

ReceiveConnack(buf, p, rest) ==
  /\ IF ack.type = "CONNECT" THEN ack' = NoAck /\ sendTimeout' = 0
                             ELSE UNCHANGED <<ack, sendTimeout>>
  /\ IF ack.type = "CONNECT" /\ Head(buf).id = 0
     THEN /\ Consumed(buf, p, "MQTT_DATA")
          /\ s2c' = rest /\ UNCHANGED <<link, c2s, unsent>>
     ELSE Consumed(buf, p, connState) /\ EspconnDisconnect
  /\ UNCHANGED <<timerArmed, ping, pubCbPending, tick, message_id, msgQueue,
                 app, faults>>

\* deliver_publish and mqtt_data_cb: the application ignores the message,
\* answers it, or is asked to reconnect (mqtt_rpc_reconnect).
Deliver(buf, p, s) ==
  \/ /\ Consumed(buf, p, s)
     /\ UNCHANGED <<timerArmed, message_id, msgQueue, app>>
  \/ /\ Enqueue("PUBLISH", 2)
     /\ Consumed(buf, Posted(p, B(Room)), s) /\ UNCHANGED timerArmed
  \/ /\ Consumed(buf, Posted(p, 1), "TCP_DISCONNECTING") /\ timerArmed' = FALSE
     /\ UNCHANGED <<message_id, msgQueue, app>>

\* mqtt_send_direct of the acknowledgement comes first: when it fails the
\* message is delivered all the same.
ReceivePublish(buf, p, rest) ==
  LET m == Head(buf) IN
  /\ s2c' = rest /\ link' = link
  /\ \/ m.qos = 0 /\ Deliver(buf, p, connState) /\ UNCHANGED <<c2s, unsent, faults>>
     \/ /\ m.qos > 0
        /\ \E ok \in BOOLEAN :
             /\ EspconnSend(ok, Ctl(IF m.qos = 1 THEN "PUBACK" ELSE "PUBREC", m.id))
             /\ IF ok THEN Deliver(buf, p, connState)
                ELSE Deliver(buf, Posted(p, 1), "TCP_RECONNECT_DISCONNECTING")
  /\ UNCHANGED <<exchange, tick>>

\* mqtt_send_direct of m, and the end of the handler.
SendDirect(m, buf, p, rest) ==
  \E ok \in BOOLEAN :
    /\ EspconnSend(ok, m) /\ s2c' = rest /\ link' = link
    /\ IF ok THEN Consumed(buf, p, connState)
       ELSE Consumed(buf, Posted(p, 1), "TCP_RECONNECT_DISCONNECTING")

AwaitsPubrec(m) == /\ ack.wait /\ ack.id = m.id
                   /\ ack.type \in {"PUBLISH", "PUBREL"}

ReceivePubrec(buf, p, rest) ==
  /\ ack' = [ack EXCEPT !.type = "PUBREL"] /\ sendTimeout' = SendTimeout
  /\ SendDirect(Ctl("PUBREL", Head(buf).id), buf, p, rest)
  /\ UNCHANGED <<timerArmed, ping, pubCbPending, tick, message_id, msgQueue, app>>

ReceivePubrel(buf, p, rest) ==
  /\ SendDirect(Ctl("PUBCOMP", Head(buf).id), buf, p, rest)
  /\ UNCHANGED <<timerArmed, exchange, tick, message_id, msgQueue, app>>

\* The packet that completes the exchange in progress.
Completes(m) ==
  /\ ack.id = m.id
  /\ \/ m.type = "SUBACK"   /\ ack.type = "SUBSCRIBE"
     \/ m.type = "UNSUBACK" /\ ack.type = "UNSUBSCRIBE"
     \/ m.type = "PUBACK"   /\ ack.type = "PUBLISH"
     \/ m.type = "PUBCOMP"  /\ ack.type = "PUBREL"

ReceiveAck(buf, p, rest) ==
  /\ msgQueue' = Pop(msgQueue) /\ ack' = NoAck /\ sendTimeout' = 0
  /\ Consumed(buf, p, connState) /\ s2c' = rest
  /\ UNCHANGED <<timerArmed, ping, pubCbPending, tick, message_id,
                 link, c2s, unsent, app, faults>>

\* A PINGRESP answers the automatic keepalive first, then a queued MQTT_Ping.
ReceivePingresp(buf, p, rest) ==
  /\ tick' = [tick EXCEPT !.keep = 0]
  /\ IF ping.wait
     THEN ping' = NoPing /\ UNCHANGED <<msgQueue, ack, sendTimeout>>
     ELSE /\ IF ack.type = "PINGREQ" /\ ack.wait
             THEN msgQueue' = Pop(msgQueue) /\ ack' = NoAck /\ sendTimeout' = 0
             ELSE UNCHANGED <<msgQueue, ack, sendTimeout>>
          /\ UNCHANGED ping
  /\ Consumed(buf, p, connState) /\ s2c' = rest
  /\ UNCHANGED <<timerArmed, pubCbPending, message_id, link, c2s, unsent, app, faults>>

\* Exactly one packet is processed per call.
Process(buf, p, rest) ==
  LET m == Head(buf) IN
  /\ CASE connState = "MQTT_CONNECT_SENDING" /\ m.type = "CONNACK"
                                       -> ReceiveConnack(buf, p, rest)
       [] Exchanging /\ m.type = "PUBLISH" -> ReceivePublish(buf, p, rest)
       [] Exchanging /\ m.type = "PUBREC" /\ AwaitsPubrec(m)
                                       -> ReceivePubrec(buf, p, rest)
       [] Exchanging /\ m.type = "PUBREL"  -> ReceivePubrel(buf, p, rest)
       [] Exchanging /\ Completes(m)       -> ReceiveAck(buf, p, rest)
       [] Exchanging /\ m.type = "PINGRESP" -> ReceivePingresp(buf, p, rest)
       [] OTHER                            -> Ignored(buf, p, rest)
  /\ UNCHANGED <<alive, pCon, dnsPending, wifiUp, broker, bounds>>

\* mqtt_tcpclient_recv with a chunk of n packets; a chunk that does not fit
\* closes the connection.
Recv ==
  /\ LinkUp /\ wifiUp
  /\ \E n \in 1..Len(s2c) :
       LET buf == inBuf \o SubSeq(s2c, 1, n) IN
       IF Len(buf) > InBufMax
       THEN /\ inBuf' = <<>> /\ EspconnDisconnect
            /\ UNCHANGED <<connState, alive, pCon, timerArmed, posts, exchange,
                           tick, message_id, msgQueue, dnsPending, wifiUp,
                           broker, app, bounds, faults>>
       ELSE Process(buf, posts, SubSeq(s2c, n + 1, Len(s2c)))

\* A mutation of TimeoutAfterSent: the timeout ends with the TCP send.
TimeoutAfterSentAlways == 0

\* Only a packet that awaits nothing is done with when TCP has sent it.
TimeoutAfterSent == IF ack.wait THEN sendTimeout ELSE 0

\* mqtt_tcpclient_sent_cb
SentCb ==
  /\ unsent > 0 /\ LinkUp /\ unsent' = unsent - 1
  /\ tick' = [tick EXCEPT !.keep = 0]
  /\ sendTimeout' = TimeoutAfterSent
  /\ pubCbPending' = FALSE /\ posts' = Posted(posts, 1)
  /\ UNCHANGED <<connState, alive, pCon, timerArmed, ack, ping, message_id,
                 msgQueue, inBuf, link, c2s, s2c, dnsPending, wifiUp, broker,
                 app, bounds, faults>>

-----------------------------------------------------------------------------
(* The task: MQTT_Task, one posted event per step *)

\* case TCP_RECONNECT: mqtt_tcpclient_delete, MQTT_Connect, TCP_CONNECTING.
Reconnect(p) ==
  MqttConnect(p, "TCP_CONNECTING") /\ UNCHANGED <<wifiUp, broker, app, bounds>>

\* case TCP_DISCONNECTING and TCP_RECONNECT_DISCONNECTING
CloseConnection(p) ==
  /\ IF pCon THEN EspconnDisconnect ELSE UNCHANGED tcp
  /\ posts' = p
  /\ UNCHANGED <<connState, alive, pCon, timerArmed, exchange, tick, message_id,
                 msgQueue, inBuf, dnsPending, wifiUp, broker, app, bounds, faults>>

\* case MQTT_DELETED: mqtt_client_delete frees every buffer, drops the
\* connection and clears the callbacks.
DeleteClient(p) ==
  /\ connState' = "WIFI_INIT" /\ alive' = FALSE /\ timerArmed' = FALSE
  /\ pCon' = FALSE /\ posts' = p /\ DropLink("down")
  /\ ClearExchange /\ msgQueue' = <<>>
  /\ UNCHANGED <<tick, message_id, dnsPending, wifiUp, broker, app, bounds, faults>>

\* mqtt_send_keepalive
SendKeepalive(p) ==
  /\ \/ /\ ~pCon /\ posts' = p /\ UNCHANGED <<connState, ping, tick, tcp, faults>>
     \/ /\ pCon /\ (ping.wait \/ ack.wait \/ sendTimeout > 0)
        /\ connState' = "MQTT_DATA" /\ posts' = Posted(p, 1)
        /\ UNCHANGED <<ping, tick, tcp, faults>>
     \/ /\ pCon /\ ~(ping.wait \/ ack.wait \/ sendTimeout > 0)
        /\ posts' = Posted(p, 1)
        /\ \E ok \in BOOLEAN :
             /\ EspconnSend(ok, Ctl("PINGREQ", 0)) /\ UNCHANGED <<link, s2c>>
             /\ connState' = IF ok THEN "MQTT_DATA" ELSE "TCP_RECONNECT_DISCONNECTING"
             /\ ping' = IF ok THEN [wait |-> TRUE, tmo |-> SendTimeout] ELSE NoPing
             /\ tick' = IF ok THEN [tick EXCEPT !.keep = 0] ELSE tick
  /\ UNCHANGED <<alive, pCon, timerArmed, ack, sendTimeout, pubCbPending, message_id,
                 msgQueue, inBuf, dnsPending, wifiUp, broker, app, bounds>>

\* A mutation of MaySend: the packet in flight is not waited for.
MaySendTwice == pCon /\ msgQueue # <<>> /\ ~ping.wait

\* case MQTT_DATA may send: a connection, a packet, and nothing in flight.
MaySend == /\ pCon /\ msgQueue # <<>> /\ sendTimeout = 0
           /\ ~ack.wait /\ ~ping.wait

\* A mutation of AfterSend: a packet that could not be sent is queued again.
AfterSendRequeue(ok, q) ==
  IF ok THEN IF NeedsAck(Head(q)) THEN q ELSE Tail(q) ELSE Append(Tail(q), Head(q))

\* The queue after its head was sent, or could not be sent: the read pointer is
\* rolled back to it unless it is sent and needs no acknowledgement.
AfterSend(ok, q) == IF ok /\ ~NeedsAck(Head(q)) THEN Tail(q) ELSE q

\* case MQTT_DATA: the oldest packet is sent.  One that needs an
\* acknowledgement stays at the head of the queue, and so does every packet
\* whose espconn_send fails.
SendHead(p) ==
  LET m == Head(msgQueue) IN
  /\ \E ok \in BOOLEAN :
       /\ EspconnSend(ok, m) /\ UNCHANGED <<link, s2c>>
       /\ ack' = IF ok THEN [wait |-> NeedsAck(m), type |-> m.type, id |-> GetId(m)]
                       ELSE NoAck
       /\ sendTimeout' = IF ok THEN SendTimeout ELSE 0
       /\ pubCbPending' = (ok /\ m.type = "PUBLISH")
       /\ msgQueue' = AfterSend(ok, msgQueue)
       /\ connState' = IF ok THEN connState ELSE "TCP_RECONNECT_DISCONNECTING"
       /\ posts' = IF ok THEN p ELSE Posted(p, 1)
  /\ UNCHANGED <<alive, pCon, timerArmed, ping, tick, message_id, inBuf,
                 dnsPending, wifiUp, broker, app, bounds>>

\* Nothing to do in this connection state.
Idle(p) ==
  /\ posts' = p
  /\ UNCHANGED <<connState, alive, pCon, timerArmed, exchange, tick, message_id,
                 msgQueue, inBuf, tcp, dnsPending, wifiUp, broker, app, bounds,
                 faults>>

HasPacket == inBuf # <<>> /\ connState # "TCP_RECONNECT_DISCONNECTING" /\ pCon

Task ==
  /\ posts > 0
  /\ LET p == posts - 1 IN
     CASE ~alive                       -> Idle(p)
       [] alive /\ HasPacket           -> Process(inBuf, p, s2c)
       [] alive /\ ~HasPacket          ->
          CASE connState = "TCP_RECONNECT"       -> Reconnect(p)
            [] connState \in {"TCP_DISCONNECTING", "TCP_RECONNECT_DISCONNECTING"}
                                                 -> CloseConnection(p)
            [] connState = "MQTT_DELETED"        -> DeleteClient(p)
            [] connState = "MQTT_KEEPALIVE_SEND" -> SendKeepalive(p)
            [] connState = "MQTT_DATA" /\ MaySend -> SendHead(p)
            [] OTHER                             -> Idle(p)

-----------------------------------------------------------------------------
(* The one-second timer: mqtt_timer *)

KeepDue  == /\ connState = "MQTT_DATA" /\ tick.keep >= KeepAlive
            /\ ~ping.wait /\ ~ack.wait /\ sendTimeout = 0
ReconDue == connState = "TCP_RECONNECT_REQ" /\ tick.recon >= ReconnectTimeout
ConnDue  == connState = "TCP_CONNECTING" /\ tick.conn >= ConnectTimeout
PingDue  == ping.wait /\ ping.tmo = 1
SendDue  == sendTimeout = 1

\* A mutation of Countdown: no test for zero before the decrement.
CountdownUnguarded(t) == t - 1

Countdown(t) == IF t > 0 THEN t - 1 ELSE 0

\* A tick while something is under way stands for a delay of a second.
Tick ==
  /\ alive /\ timerArmed /\ Fault(~Quiet)
  /\ tick' =
       [keep  |-> IF connState = "MQTT_DATA" /\ tick.keep <= KeepAlive
                  THEN tick.keep + 1 ELSE tick.keep,
        recon |-> IF ReconDue THEN 0
                  ELSE tick.recon + B(connState = "TCP_RECONNECT_REQ"),
        conn  |-> IF ConnDue THEN 0
                  ELSE tick.conn + B(connState = "TCP_CONNECTING")]
  /\ ping' = IF PingDue THEN NoPing
             ELSE [ping EXCEPT !.tmo = IF ping.wait THEN Countdown(@) ELSE @]
  /\ sendTimeout' = Countdown(sendTimeout)
  /\ connState' = IF PingDue \/ SendDue THEN "TCP_RECONNECT_DISCONNECTING"
                  ELSE IF KeepDue THEN "MQTT_KEEPALIVE_SEND"
                  ELSE IF ReconDue \/ ConnDue THEN "TCP_RECONNECT"
                  ELSE connState
  /\ posts' = Posted(posts, B(KeepDue \/ ReconDue \/ ConnDue) + B(PingDue) + B(SendDue))
  /\ UNCHANGED <<alive, pCon, timerArmed, ack, pubCbPending, message_id, msgQueue,
                 inBuf, tcp, dnsPending, wifiUp, broker, app, bounds>>

-----------------------------------------------------------------------------
(* Wi-Fi, the watchdog and restarts *)

\* The station lost its access point, or failed to join it again:
\* wifi_changed_cb(STATION_IDLE), MQTT_Disconnect.
StationIdle ==
  /\ alive /\ wifiUp' = FALSE
  /\ connState' = "TCP_DISCONNECTING" /\ timerArmed' = FALSE
  /\ posts' = Posted(posts, 1)
  /\ UNCHANGED <<alive, pCon, exchange, tick, message_id, msgQueue, inBuf, tcp,
                 dnsPending, broker, app, bounds>>

WifiDrop == StationIdle /\ Fault(TRUE)

\* wifi_changed_cb(STATION_GOT_IP)
WifiGotIp ==
  /\ alive /\ ~wifiUp /\ wifiUp' = TRUE
  /\ MqttConnect(posts, "TCP_RECONNECT_REQ")
  /\ UNCHANGED <<broker, app, bounds>>

\* Nothing will call the client again: no timeout is counting and the
\* connection state is not one the timer acts on.
NothingWakes ==
  /\ Quiet
  /\ \/ ~timerArmed
     \/ /\ sendTimeout = 0 /\ ping.tmo = 0
        /\ connState \notin {"MQTT_DATA", "TCP_RECONNECT_REQ", "TCP_CONNECTING"}

\* A mutation of Watchdog: it is fed while nothing is published.
WatchdogFed ==
  /\ alive /\ wifiUp /\ NothingWakes /\ connState = "MQTT_DATA"
  /\ StationIdle /\ UNCHANGED faults

\* The MQTT watchdog: nothing was published or answered for MQTT_WATCHDOG_TIMEOUT,
\* and force_reset_wifi disconnects the station.  It is modelled where it is
\* needed: where nothing else would wake the client.
Watchdog ==
  /\ alive /\ wifiUp /\ NothingWakes /\ StationIdle /\ UNCHANGED faults

\* The RAM is lost, the broker's session is not (clean_session = 0).
Reboot ==
  /\ restarts < MaxRestarts /\ restarts' = restarts + 1
  /\ connState' = "WIFI_INIT" /\ alive' = TRUE /\ pCon' = FALSE
  /\ timerArmed' = FALSE /\ posts' = 1 /\ ClearExchange /\ tick' = NoTicks
  /\ message_id' = 0 /\ msgQueue' = <<>> /\ DropLink("down") /\ dnsPending' = 0
  /\ wifiUp' = FALSE /\ accepted' = <<>>
  /\ UNCHANGED <<broker, calls, downs, faults>>

-----------------------------------------------------------------------------
(* The broker, a client of the network: not in the repository *)

\* What the broker answers to m.
Reply(m) ==
  CASE m.type = "SUBSCRIBE"   -> <<Ctl("SUBACK", m.id)>>
    [] m.type = "UNSUBSCRIBE" -> <<Ctl("UNSUBACK", m.id)>>
    [] m.type = "PINGREQ"     -> <<Ctl("PINGRESP", 0)>>
    [] m.type = "PUBLISH" /\ m.qos = 1 -> <<Ctl("PUBACK", m.id)>>
    [] m.type = "PUBLISH" /\ m.qos = 2 -> <<Ctl("PUBREC", m.id)>>
    [] m.type = "PUBREL"      -> <<Ctl("PUBCOMP", m.id)>>
    [] m.type = "PUBREC"      -> <<Ctl("PUBREL", m.id)>>
    [] OTHER                  -> <<>>

BrokerReceives ==
  /\ c2s # <<>> /\ LinkUp /\ wifiUp /\ c2s' = Tail(c2s)
  /\ LET m == Head(c2s) IN
     IF m.type = "CONNECT"
     THEN /\ \E refused \in BOOLEAN :
               /\ s2c' = Append(s2c, Ctl("CONNACK", B(refused))) /\ Fault(refused)
               /\ link' = IF refused THEN link ELSE "session"
          /\ UNCHANGED broker
     ELSE /\ s2c' = s2c \o Reply(m) /\ link' = link /\ UNCHANGED faults
          /\ delivered' = IF m.type = "PUBLISH" /\ (m.qos = 1 \/ (m.qos = 2 /\ m.id \notin bRecv))
                          THEN Append(delivered, m.pay) ELSE delivered
          /\ bRecv' = IF m.type = "PUBLISH" /\ m.qos = 2 THEN bRecv \cup {m.id}
                      ELSE IF m.type = "PUBREL" THEN bRecv \ {m.id} ELSE bRecv
  /\ UNCHANGED <<clientVars, unsent, dnsPending, wifiUp, app, bounds>>

\* A message for one of the client's subscriptions.
BrokerPublishes ==
  /\ link = "session" /\ downs < MaxDown /\ downs' = downs + 1
  /\ \E q \in DownQoS :
       s2c' = Append(s2c, [type |-> "PUBLISH", qos |-> q,
                           id |-> IF q = 0 THEN 0 ELSE downs + 1, pay |-> 0])
  /\ UNCHANGED <<clientVars, link, c2s, unsent, dnsPending, wifiUp, broker, app,
                 restarts, faults>>

-----------------------------------------------------------------------------
Init ==
  /\ connState = "WIFI_INIT" /\ alive = TRUE /\ pCon = FALSE /\ timerArmed = FALSE
  /\ posts = 1                          \* MQTT_InitClient posts
  /\ ack = NoAck /\ sendTimeout = 0 /\ ping = NoPing /\ pubCbPending = FALSE
  /\ tick = NoTicks /\ message_id = 0 /\ msgQueue = <<>> /\ inBuf = <<>>
  /\ link = "down" /\ c2s = <<>> /\ s2c = <<>> /\ unsent = 0 /\ dnsPending = 0
  /\ wifiUp = FALSE /\ bRecv = {} /\ delivered = <<>> /\ accepted = <<>>
  /\ calls = 0 /\ downs = 0 /\ faults = 0 /\ restarts = 0

Client == Task \/ DnsFound \/ NetUp \/ NetError \/ NetClosed \/ Recv \/ SentCb \/ Tick
Environment == AppCall \/ RemoteClose \/ WifiDrop \/ WifiGotIp \/ Watchdog
               \/ BrokerReceives \/ BrokerPublishes \/ RestartRequested \/ Reboot

Next == Client \/ Environment

Spec == Init /\ [][Next]_vars

\* The SDK runs posted tasks, armed timers and pending callbacks; the network
\* carries what was sent while the station is connected; the access point
\* comes back.  Failures (NetError, RemoteClose, WifiDrop), the application and
\* the broker's own messages need not happen.
Fairness ==
  /\ WF_vars(Task) /\ WF_vars(DnsFound) /\ WF_vars(NetUp) /\ WF_vars(NetClosed)
  /\ WF_vars(Recv) /\ WF_vars(SentCb) /\ WF_vars(Tick)
  /\ WF_vars(WifiGotIp) /\ WF_vars(Watchdog) /\ WF_vars(BrokerReceives)

FairSpec == Spec /\ Fairness

-----------------------------------------------------------------------------
(* Properties *)

AckTypes == PacketTypes \cup {"none"}

\* What the application's calls queue.
Queued == [type : {"PUBLISH", "SUBSCRIBE", "UNSUBSCRIBE", "PINGREQ"},
           qos : 0..2, id : Nat, pay : Nat]

TypeExchange ==
  /\ ack \in [wait : BOOLEAN, type : AckTypes, id : Nat]
  /\ sendTimeout \in 0..SendTimeout
  /\ ping \in [wait : BOOLEAN, tmo : 0..SendTimeout]
  /\ pubCbPending \in BOOLEAN

TypeClient ==
  /\ connState \in ConnStates
  /\ alive \in BOOLEAN /\ pCon \in BOOLEAN /\ timerArmed \in BOOLEAN
  /\ posts \in 0..TaskQueueSize
  /\ tick \in [keep : 0..KeepAlive + 1, recon : 0..ReconnectTimeout,
               conn : 0..ConnectTimeout]
  /\ message_id \in 0..IdMax
  /\ msgQueue \in Seq(Queued) /\ Len(msgQueue) <= QueueMax
  /\ inBuf \in Seq(Packet) /\ Len(inBuf) <= InBufMax

TypeNetwork ==
  /\ link \in {"down", "syn", "up", "session", "closing"}
  /\ c2s \in Seq(Packet) /\ s2c \in Seq(Packet) /\ unsent \in Nat
  /\ dnsPending \in 0..DnsMax /\ wifiUp \in BOOLEAN
  /\ bRecv \subseteq Nat /\ delivered \in Seq(Nat)

TypeBounds ==
  /\ accepted \in Seq(Nat) /\ calls \in 0..MaxCalls /\ downs \in 0..MaxDown
  /\ faults \in 0..MaxFaults /\ restarts \in 0..MaxRestarts

\* The type of every variable: counters stay within their bounds and no timeout
\* counts below zero.
TypeOK == TypeExchange /\ TypeClient /\ TypeNetwork /\ TypeBounds

\* The acknowledgement awaited is that of the packet at the head of the queue:
\* mqtt_tcpclient_recv removes the head when it arrives, without comparing.
AwaitsHead(a, m) ==
  \/ a.type = "PUBLISH" /\ m.type = "PUBLISH" /\ m.qos > 0 /\ a.id = m.id
  \/ a.type = "PUBREL"  /\ m.type = "PUBLISH" /\ m.qos > 0 /\ a.id = m.id
  \/ a.type \in {"SUBSCRIBE", "UNSUBSCRIBE", "PINGREQ"} /\ m.type = a.type

InFlightIsHead ==
  ack.wait /\ ack.type # "CONNECT" =>
    msgQueue # <<>> /\ AwaitsHead(ack, Head(msgQueue))

\* What the broker has sent and the client has not yet processed, in order.
Down == inBuf \o s2c

\* A step of the client in an exchange it began, and what the broker answers.
Asks(m) == \/ m.type \in {"SUBSCRIBE", "UNSUBSCRIBE", "PUBREL"}
           \/ m.type = "PUBLISH" /\ m.qos > 0
Answers(m) == m.type \in {"SUBACK", "UNSUBACK", "PUBACK", "PUBREC", "PUBCOMP"}

\* The places in c2s and in Down of the steps of an exchange, and of pings.
Asked     == {i \in 1..Len(c2s)  : Asks(c2s[i])}
Answered  == {i \in 1..Len(Down) : Answers(Down[i])}
Pings     == {i \in 1..Len(c2s)  : c2s[i].type = "PINGREQ"}
PingResps == {i \in 1..Len(Down) : Down[i].type = "PINGRESP"}

\* There is one place at most in the two together.
AtMostOne(up, down) ==
  /\ \A i, j \in up : i = j
  /\ \A i, j \in down : i = j
  /\ up = {} \/ down = {}

\* At most one exchange the client began is on the wire, so an acknowledgement
\* can only be for the packet in flight, although packet identifiers start again
\* with every connection; and "since PINGRESP has no packet ID, do not permit two
\* outstanding PINGREQs" (mqtt_send_keepalive): neither two automatic ones, nor
\* one and an MQTT_Ping.
OneExchange == AtMostOne(Asked, Answered) /\ AtMostOne(Pings, PingResps)

\* Whatever is awaited has a timeout that still counts: an acknowledgement while
\* the connection is in use, a PINGRESP always.  The TCP sent callback of another
\* packet does not end it.
WaitHasTimeout ==
  /\ connState \in {"MQTT_CONNECT_SENDING", "MQTT_DATA", "MQTT_KEEPALIVE_SEND"} =>
       (ack.wait => sendTimeout > 0)
  /\ ping.wait => ping.tmo > 0

InSeq(x, q) == \E i \in 1..Len(q) : q[i] = x

\* A QoS 1 or 2 message MQTT_Publish accepted is queued until the broker has it:
\* no reconnect, failed send, full queue or late acknowledgement loses it.
NoLoss ==
  alive => \A i \in 1..Len(accepted) :
             \/ InSeq(accepted[i], delivered)
             \/ \E j \in 1..Len(msgQueue) : msgQueue[j].pay = accepted[i]

\* When failures end, the client ends up in an MQTT session and stays in it.
\* The path may need the watchdog: a timeout that fires on a dead connection
\* leaves nothing else to wake the client.
EventuallyConnected == <>[](link = "session" /\ Exchanging)

\* Every accepted message reaches the broker, also behind a SUBSCRIBE or an
\* MQTT_Ping at the head of the queue.
EventuallyDelivered ==
  \A n \in 1..MaxCalls : InSeq(n, accepted) ~> InSeq(n, delivered)

\* The QoS 1 and 2 messages in msgQueue, by the number of their call.
Pending == {msgQueue[i].pay : i \in {k \in 1..Len(msgQueue) :
                                       msgQueue[k].type = "PUBLISH" /\ msgQueue[k].qos > 0}}

Abstract == INSTANCE Delivery WITH
  Message <- 1..MaxCalls, Crashes <- MaxRestarts > 0,
  pending <- Pending, delivered <- delivered

\* The client, its queue and the wire implement at-least-once FIFO delivery.
Delivers == Abstract!Spec
=============================================================================
