------------------------------- MODULE KmpRequest -------------------------------
(***************************************************************************)
(* Reading a Kamstrup meter with the KMP protocol, and what the firmware    *)
(* builds on it from the boot to the samples: user/kamstrup/kmp_request.c,  *)
(* kmp.c, the interrupt handler of driver/uart.c, and of user/user_main.c   *)
(* the requests, meter_is_ready, the two boot modes and mqtt_connected_cb.  *)
(*                                                                         *)
(* A request asks for the serial number and, 400 ms later, for the          *)
(* registers; both answers come through one FIFO, which the task empties as *)
(* one frame at every stop byte.  Until the meter is ready the device has   *)
(* no name, no Wi-Fi and no watchdog.                                       *)
(*                                                                         *)
(* Bytes are numbers; the serial number, the energy and the checksum have   *)
(* one each, the checksum one above 255.  The meter and the broker are not  *)
(* in the repository: an answer can be lost, late or garbled, the meter can *)
(* be unplugged, and the connection comes and goes.                         *)
(***************************************************************************)
EXTENDS Integers, Sequences, SequencesExt

CONSTANTS
  QueueSize,   \* QUEUE_SIZE, in bytes of the model
  Serial,      \* the serial number of the meter
  FirstEnergy, \* what the meter has counted at the boot
  RpcSteps,    \* the announcements after the subscription: 5
  MaxEnergy,   \* bound: what it counts to
  MaxFaults    \* bound: faults of the line and updates of the firmware

ASSUME KmpAssumption ==
  /\ QueueSize \in Nat \ {0} /\ Serial \in 1 .. 255
  /\ 0 < FirstEnergy /\ FirstEnergy <= MaxEnergy /\ MaxEnergy <= 255
  /\ {FirstEnergy, MaxEnergy, MaxFaults, RpcSteps} \subseteq Nat

VARIABLES
  fifo,
  posts,           \* of kmp_received_task
  kmp_serial, e1_kwh,
  meter_is_ready_cb_called,
  kmp_requests_sent,
  armed,           \* the one-shot timers that are armed
  sampling,        \* sample_timer is armed
  fast_boot, config_mode,
  started,         \* sample_mode_timer_func has started MQTT, Wi-Fi and watchdogs
  first_mqtt_connect_after_boot,
  rpc_state,       \* mqtt_connected_first_mqtt_rpc_state
  connected,       \* to the broker
  subscribed,      \* the serial numbers of the topics it subscribed to
  ota_in_progress,
  meter, plugged,  \* what the meter has counted, and that it is there
  cmds,            \* the commands it has yet to answer
  wire,            \* the bytes of its answers on their way
  faults

input == <<fifo, posts>>
values == <<kmp_serial, e1_kwh, meter_is_ready_cb_called>>
boot  == <<fast_boot, config_mode, started>>
mqtt  == <<first_mqtt_connect_after_boot, rpc_state, connected, subscribed, sampling>>
line  == <<meter, plugged, wire, faults>>
vars  == <<input, values, kmp_requests_sent, armed, boot, mqtt, line, cmds,
           ota_in_progress>>

Timers == {"request",       \* kmp_request_send_timer, after the boot
           "serial", "register", "timeout",
           "config_mode", "sample_mode",
           "defer",         \* mqtt_connected_defer_timer
           "sample_first",  \* sample_timer_first
           "rpc"}           \* mqtt_connected_first_mqtt_rpc_timer

-----------------------------------------------------------------------------
(* Frames *)

Special == {128, 64, 13, 6, 27}

\* kmp_byte_stuff, which leaves the start byte alone.
Stuff(bytes) ==
  FlattenSeq([i \in DOMAIN bytes |->
    IF bytes[i] \in Special THEN <<27, 255 - bytes[i]>> ELSE <<bytes[i]>>])

\* A mutation of Unstuff: the escape stays.
UnstuffNothing(bytes) == bytes

\* kmp_byte_unstuff: an escape is dropped, the byte behind it turned over.
Unstuff(bytes) ==
  LET escape[i \in 0 .. Len(bytes)] ==
        IF i = 0 THEN FALSE ELSE bytes[i] = 27 /\ ~escape[i - 1]
  IN FlattenSeq([i \in DOMAIN bytes |->
       IF escape[i] THEN <<>>
       ELSE IF escape[i - 1] THEN <<255 - bytes[i]>> ELSE <<bytes[i]>>])

\* kmp_crc16, as a byte of its own that needs no escape.
Crc(bytes) ==
  LET sum[i \in 0 .. Len(bytes)] ==
        IF i = 0 THEN 0 ELSE (sum[i - 1] * 256 + bytes[i]) % 65521
  IN 256 + sum[Len(bytes)]

\* What the meter answers: address, command, value, and the checksum of them.
Answer(cid, value) ==
  LET body == <<63, cid, value>> IN
  <<64>> \o Stuff(Append(body, Crc(body))) \o <<13>>

\* kmp_decode_frame says whether the checksum is right.
Plain(frame) == <<frame[1]>> \o Unstuff(Tail(frame))
Body(frame)  == SubSeq(Plain(frame), 2, Len(Plain(frame)) - 2)

\* A mutation of SumIsRight: the checksum is not compared.
SumIsAnything(frame) == TRUE

SumIsRight(frame) == Plain(frame)[Len(Plain(frame)) - 1] = Crc(Body(frame))

Decodes(frame) ==
  /\ Len(frame) >= 6 /\ Last(frame) = 13
  /\ Len(Plain(frame)) >= 6
  /\ SumIsRight(frame) /\ Body(frame)[2] \in {2, 16}

-----------------------------------------------------------------------------
(* Requests *)

\* kmp_request_send ends with its counter reset: what the timeout would repeat
\* is never counted.
RequestsLeft == 0

RequestSend(timers) ==
  IF ota_in_progress
  THEN armed' = timers /\ UNCHANGED kmp_requests_sent
  ELSE armed' = timers \cup {"serial", "register", "timeout"}
       /\ kmp_requests_sent' = RequestsLeft

\* The request of system_init_done.
RequestTimer ==
  /\ "request" \in armed /\ RequestSend(armed \ {"request"})
  /\ UNCHANGED <<input, values, boot, mqtt, line, cmds, ota_in_progress>>

\* The meter has said all it had to, and that was taken.
Quiet == wire = <<>> /\ cmds = <<>> /\ posts = 0

\* A request has run its course, two seconds later: what is armed for longer, or
\* in the course of an answer, fires after that.
Settled == Quiet /\ {"serial", "register", "timeout"} \cap armed = {}

Transmit(cid) == cmds' = IF plugged THEN Append(cmds, cid) ELSE cmds

\* kmp_get_serial_timer_func
SerialTimer ==
  /\ "serial" \in armed /\ armed' = armed \ {"serial"}
  /\ Transmit(2)
  /\ UNCHANGED <<input, values, kmp_requests_sent, boot, mqtt, line, ota_in_progress>>

\* kmp_get_register_timer_func: 400 ms later, normally after the answer.
RegisterTimer ==
  /\ "register" \in armed /\ "serial" \notin armed
  /\ armed' = armed \ {"register"}
  /\ Quiet \/ faults < MaxFaults
  /\ faults' = faults + (IF Quiet THEN 0 ELSE 1)
  /\ Transmit(16)
  /\ UNCHANGED <<input, values, kmp_requests_sent, boot, mqtt, meter, plugged,
                 wire, ota_in_progress>>

\* kmp_receive_timeout_timer_func
TimeoutTimer ==
  /\ "timeout" \in armed /\ {"serial", "register"} \cap armed = {} /\ Quiet
  /\ IF kmp_requests_sent > 0 THEN RequestSend(armed \ {"timeout"})
     ELSE armed' = armed \ {"timeout"} /\ UNCHANGED kmp_requests_sent
  /\ UNCHANGED <<input, values, boot, mqtt, line, cmds, ota_in_progress>>

-----------------------------------------------------------------------------
(* Answers *)

Room == QueueSize - Len(fifo)

Stops(bytes) == {i \in DOMAIN bytes : bytes[i] \in {13, 6}}

\* uart0_rx_intr_handler, for the bytes up to a stop; for fewer when the task is
\* late, as it would find part of the next frame.
Receive ==
  /\ wire # <<>>
  /\ \E n \in DOMAIN wire :
       /\ \A i \in Stops(wire) : n <= i
       /\ posts > 0 \/ n \in Stops(wire) \cup {Len(wire)}
       /\ wire' = SubSeq(wire, n + 1, Len(wire))
       /\ fifo' = fifo \o SubSeq(wire, 1, IF n < Room THEN n ELSE Room)
       /\ posts' = IF n \in Stops(wire) /\ posts < 64 THEN posts + 1 ELSE posts
  /\ UNCHANGED <<values, kmp_requests_sent, armed, boot, mqtt, meter, plugged,
                 faults, cmds, ota_in_progress>>

\* meter_is_ready: the first frame that decodes, whichever it is.
MeterIsReady ==
  /\ meter_is_ready_cb_called' = TRUE
  /\ armed' = IF meter_is_ready_cb_called THEN armed
              ELSE armed \cup {"sample_mode"}
                         \cup (IF fast_boot THEN {} ELSE {"config_mode"})

\* kmp_received_task
Task ==
  /\ posts > 0 /\ posts' = posts - 1 /\ fifo' = <<>>
  /\ IF ~Decodes(fifo) THEN UNCHANGED <<values, kmp_requests_sent, armed>>
     ELSE /\ MeterIsReady
          /\ IF Body(fifo)[2] = 2
             THEN /\ kmp_serial' = Body(fifo)[3]
                  /\ UNCHANGED <<e1_kwh, kmp_requests_sent>>
             ELSE /\ e1_kwh' = Body(fifo)[3] /\ kmp_requests_sent' = 0
                  /\ UNCHANGED kmp_serial
  /\ UNCHANGED <<boot, mqtt, line, cmds, ota_in_progress>>

-----------------------------------------------------------------------------
(* The application *)

Application == UNCHANGED <<input, values, line, cmds, ota_in_progress>>

\* config_mode_timer_func: the access point and the web server.
ConfigMode ==
  /\ "config_mode" \in armed /\ {"serial", "register"} \cap armed = {}
  /\ armed' = armed \ {"config_mode"}
  /\ config_mode' = TRUE
  /\ Application /\ UNCHANGED <<kmp_requests_sent, fast_boot, started, mqtt>>

\* sample_mode_timer_func, two minutes after config_mode_timer_func.
SampleMode ==
  /\ "sample_mode" \in armed /\ "config_mode" \notin armed /\ Settled
  /\ armed' = armed \ {"sample_mode"}
  /\ config_mode' = FALSE /\ started' = TRUE
  /\ Application /\ UNCHANGED <<kmp_requests_sent, fast_boot, mqtt>>

\* A mutation of NeedsSerial: it goes on without one.
NeedsSerialNever == FALSE

NeedsSerial == kmp_serial = 0

\* A mutation of Deferred: it is not tried again.
DeferredNever == {}

Deferred == {"defer"}

\* mqtt_connected_cb: without a serial number, a request, and again later.
MqttConnected(timers) ==
  IF NeedsSerial
  THEN /\ RequestSend(timers \cup Deferred)
       /\ UNCHANGED <<first_mqtt_connect_after_boot, rpc_state, sampling>>
  ELSE /\ armed' = timers \cup {"rpc"}
                     \cup (IF first_mqtt_connect_after_boot THEN {"sample_first"} ELSE {})
       /\ first_mqtt_connect_after_boot' = FALSE
       /\ rpc_state' = 0 /\ sampling' = TRUE
       /\ UNCHANGED kmp_requests_sent

\* The broker accepts the connection, or it breaks, and mqtt_disconnected_cb
\* asks for another.
Connect ==
  /\ started /\ ~connected /\ connected' = TRUE /\ Settled
  /\ MqttConnected(armed)
  /\ Application /\ UNCHANGED <<boot, subscribed>>

Disconnect ==
  /\ connected /\ connected' = FALSE
  /\ Application
  /\ UNCHANGED <<kmp_requests_sent, armed, boot, first_mqtt_connect_after_boot,
                 rpc_state, subscribed, sampling>>

\* mqtt_connected_defer_timer_func
DeferTimer ==
  /\ "defer" \in armed /\ Settled
  /\ MqttConnected(armed \ {"defer"})
  /\ Application /\ UNCHANGED <<boot, connected, subscribed>>

\* mqtt_connected_first_mqtt_rpc_timer_func: the subscription, then the
\* announcements one by one, then an end.
RpcTimer ==
  /\ "rpc" \in armed /\ {"sample_first", "serial"} \cap armed = {}
  /\ subscribed' = IF rpc_state = 0 THEN subscribed \cup {kmp_serial} ELSE subscribed
  /\ rpc_state' = IF rpc_state <= RpcSteps THEN rpc_state + 1 ELSE 0
  /\ armed' = IF rpc_state <= RpcSteps THEN armed ELSE armed \ {"rpc"}
  /\ Application
  /\ UNCHANGED <<kmp_requests_sent, boot, first_mqtt_connect_after_boot,
                 connected, sampling>>

\* sample_timer_first_func; sample_timer_func, every minute, when all else is over
SampleFirst ==
  /\ "sample_first" \in armed /\ Settled /\ RequestSend(armed \ {"sample_first"})
  /\ Application /\ UNCHANGED <<boot, mqtt>>

SampleTimer ==
  /\ sampling /\ armed = {} /\ Quiet /\ RequestSend(armed)
  /\ Application /\ UNCHANGED <<boot, mqtt>>

-----------------------------------------------------------------------------
(* The meter, the line, and an update *)

Firmware == UNCHANGED <<input, values, kmp_requests_sent, armed, boot, mqtt>>

MeterCounts ==
  /\ meter < MaxEnergy /\ meter' = meter + 1 /\ Quiet
  /\ Firmware /\ UNCHANGED <<plugged, wire, faults, cmds, ota_in_progress>>

\* A command is answered; with a fault not at all, or with a byte that is wrong.
MeterAnswers ==
  LET frame == Answer(Head(cmds), IF Head(cmds) = 2 THEN Serial ELSE meter) IN
  /\ cmds # <<>> /\ wire = <<>> /\ cmds' = Tail(cmds)
  /\ \/ wire' = frame /\ UNCHANGED faults
     \/ /\ faults < MaxFaults /\ faults' = faults + 1
        /\ wire' \in {<<>>} \cup {[frame EXCEPT ![i] = 127] : i \in DOMAIN frame}
  /\ Firmware /\ UNCHANGED <<meter, plugged, ota_in_progress>>

Plug ==
  /\ plugged' = ~plugged /\ cmds' = <<>> /\ wire' = <<>>
  /\ Firmware /\ UNCHANGED <<meter, faults, ota_in_progress>>

OtaBegins ==
  /\ subscribed # {} /\ ~ota_in_progress /\ ota_in_progress' = TRUE
  /\ faults < MaxFaults /\ faults' = faults + 1
  /\ Firmware /\ UNCHANGED <<meter, plugged, wire, cmds>>

OtaEnds ==
  /\ ota_in_progress /\ ota_in_progress' = FALSE
  /\ Firmware /\ UNCHANGED <<line, cmds>>

\* user_init and system_init_done
Init ==
  /\ fifo = <<>> /\ posts = 0 /\ kmp_serial = 0 /\ e1_kwh = 0
  /\ meter_is_ready_cb_called = FALSE /\ kmp_requests_sent = 0
  /\ armed = {"request"} /\ sampling = FALSE
  /\ fast_boot \in BOOLEAN /\ config_mode = FALSE /\ started = FALSE
  /\ first_mqtt_connect_after_boot = TRUE /\ rpc_state = 0
  /\ connected = FALSE /\ subscribed = {} /\ ota_in_progress = FALSE
  /\ meter = FirstEnergy /\ plugged = TRUE /\ cmds = <<>> /\ wire = <<>>
  /\ faults = 0

Next ==
  \/ RequestTimer
  \/ SerialTimer
  \/ RegisterTimer
  \/ TimeoutTimer
  \/ Receive
  \/ Task
  \/ ConfigMode
  \/ SampleMode
  \/ Connect
  \/ Disconnect
  \/ DeferTimer
  \/ RpcTimer
  \/ SampleFirst
  \/ SampleTimer
  \/ MeterCounts
  \/ MeterAnswers
  \/ Plug
  \/ OtaBegins
  \/ OtaEnds

Spec == Init /\ [][Next]_vars

\* Timers fire, the task runs, bytes arrive, the meter answers, an update ends,
\* and Wi-Fi and the broker are there again after a while.
FairSpec ==
  /\ Spec
  /\ WF_vars(RequestTimer) /\ WF_vars(SerialTimer) /\ WF_vars(RegisterTimer)
  /\ WF_vars(TimeoutTimer) /\ WF_vars(Receive) /\ WF_vars(Task)
  /\ WF_vars(ConfigMode) /\ WF_vars(SampleMode) /\ WF_vars(Connect)
  /\ WF_vars(DeferTimer) /\ WF_vars(RpcTimer) /\ WF_vars(SampleFirst)
  /\ WF_vars(SampleTimer) /\ WF_vars(MeterAnswers) /\ WF_vars(OtaEnds)

-----------------------------------------------------------------------------
(* Properties *)

TypeOK ==
  /\ fifo \in Seq(Nat) /\ Len(fifo) <= QueueSize /\ posts \in 0 .. 64
  /\ kmp_serial \in {0, Serial} /\ e1_kwh \in {0} \cup FirstEnergy .. MaxEnergy
  /\ meter_is_ready_cb_called \in BOOLEAN /\ kmp_requests_sent \in Nat
  /\ armed \subseteq Timers /\ sampling \in BOOLEAN
  /\ fast_boot \in BOOLEAN /\ config_mode \in BOOLEAN /\ started \in BOOLEAN
  /\ first_mqtt_connect_after_boot \in BOOLEAN /\ rpc_state \in 0 .. RpcSteps + 1
  /\ connected \in BOOLEAN /\ subscribed \subseteq {0, Serial}
  /\ ota_in_progress \in BOOLEAN
  /\ meter \in FirstEnergy .. MaxEnergy /\ plugged \in BOOLEAN
  /\ cmds \in Seq({2, 16}) /\ wire \in Seq(Nat) /\ faults \in 0 .. MaxFaults

\* user_main.c "We MUST return here so we don't subscribe to /config/v2/0000000/#":
\* a device that was started without its serial number does not take commands
\* for another one.
SubscribesAsItself == 0 \notin subscribed

\* The energy that was read never goes back, whatever of the frames is lost,
\* joined or garbled, and whichever bytes they carry.
EnergyForward == [][e1_kwh' >= e1_kwh]_vars

\* A device that was started subscribes to its commands, also when the answer
\* with the serial number was lost, if connection and meter stay in the end.
EventuallySubscribed == <>[](connected /\ plugged) /\ <>started => <>(Serial \in subscribed)

\* A device that samples comes to know what the meter has counted, if connection
\* and meter stay in the end: every connection starts the minute of the sample
\* timer again, so that one that breaks more often leaves no time to sample.
KeepsUp == <>[](connected /\ plugged) => []<>(sampling => e1_kwh = meter)
=============================================================================
