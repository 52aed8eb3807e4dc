----------------------------- MODULE En61107Request -----------------------------
(***************************************************************************)
(* Reading a Kamstrup MC66 heat meter over its optical port:                *)
(* user/en61107/en61107_request.c, the parser en61107.c, and the interrupt  *)
(* handler of driver/uart.c that fills the FIFO and posts the task at the   *)
(* end of a frame.  A read cycle asks for the identification, the data of   *)
(* the standard, the instant values and two more frames, in that order, and *)
(* publishes a sample after the last.  One timer covers missing answers,    *)
(* the fast retry after a bad checksum and the pause after three failures.  *)
(* The build is the one for MC66 C, D and E (no MC_66B, no FLOW_METER).     *)
(*                                                                         *)
(* A character is a pair: its role in the frame and, for the registers and  *)
(* their checksum, the energy they tell; text of any length is one of them. *)
(* The meter is not in the repository: it answers the last command, an      *)
(* answer can be lost, late, garbled or begin before the UART has its speed,*)
(* and the meter can be unplugged.                                          *)
(***************************************************************************)
EXTENDS Integers, Sequences, SequencesExt

CONSTANTS
  QueueSize,   \* QUEUE_SIZE, in characters of the model
  BackoffMax,  \* where error_backoff_count stops: 10
  SumsToEtx,   \* the energies of the meter whose frame has the checksum 0x03
  MaxEnergy,   \* bound: what the meter counts to
  MaxFaults    \* bound: faults of the line and updates of the firmware

ASSUME MeterAssumption ==
  /\ {QueueSize, BackoffMax} \subseteq Nat \ {0}
  /\ {MaxEnergy, MaxFaults} \subseteq Nat
  /\ SumsToEtx \subseteq 0 .. MaxEnergy

VARIABLES
  en61107_uart_state, en61107_request_num, is_in_error_recovery,
  error_backoff_count,
  timer,            \* en61107_receive_timeout_timer: what it was armed with, or 0
  uart_timer,       \* en61107_delayed_uart_change_setting_timer: the speed it sets, or 0
  baud,             \* of the UART
  fifo,             \* fifo_buffer
  en61107_eod, en61107_etx_received,
  posts,            \* of en61107_received_task
  energy,           \* response.e1
  en61107_serial_set, meter_is_ready_cb_called, ota_in_progress,
  meter,            \* the energy the meter has counted
  plugged,          \* the meter is there
  cmd,              \* the command the meter has yet to answer
  wire,             \* the characters of its answers on their way, with their speed
  since,            \* what the meter had counted when the cycle began
  faults

request == <<en61107_uart_state, en61107_request_num, is_in_error_recovery,
             error_backoff_count, timer>>
uart    == <<uart_timer, baud, en61107_eod>>
input   == <<fifo, en61107_etx_received, posts>>
result  == <<energy, en61107_serial_set, meter_is_ready_cb_called>>
world   == <<meter, plugged, wire, faults>>
vars    == <<request, uart, input, result, world, cmd, since, ota_in_progress>>

States == {"NONE", "IDENT", "EN61107", "INST_VALUES", "STANDARD_DATA_1",
           "STANDARD_DATA_2"}

Speed(command) == IF command \in {"ident", "000"} THEN 300 ELSE 1200

-----------------------------------------------------------------------------
(* Frames *)

Char(role) == <<role, 0>>

Ident      == <<Char("text"), Char("cr"), Char("lf")>>
Body(r, e) == <<<<r, e>>, Char("cr"), Char("lf"), Char("etx")>>

\* The registers, with the customer number ("reg") or without it ("noserial").
Data(r, e) == <<Char("stx")>> \o Body(r, e) \o <<<<"bcc", e>>>>

\* A character that was not received well.
Garbled(c) == IF c[1] = "text" THEN c ELSE Char("junk")

\* The answers to a command.
Answers(command) ==
  CASE command = "ident" -> {Ident}
    [] command = "000"   -> {Data(r, meter) : r \in {"reg", "noserial"}}
    [] OTHER             -> {<<Char("text"), Char("cr")>>}

IsEtx(c) == c[1] = "etx" \/ (c[1] = "bcc" /\ c[2] \in SumsToEtx)

Places(frame, role) == {i \in DOMAIN frame : frame[i][1] = role}

Least(S)    == CHOOSE x \in S : \A y \in S : x <= y
Greatest(S) == CHOOSE x \in S : \A y \in S : x >= y

\* What the checksum is taken over: from the last STX, if any, to the first ETX.
FirstEtx(frame) == Least({i \in DOMAIN frame : IsEtx(frame[i])})
Summed(frame) ==
  LET before == {i \in Places(frame, "stx") : i < FirstEtx(frame)} IN
  SubSeq(frame, 1 + Greatest(before \cup {0}), FirstEtx(frame))

SumIsRight(frame) ==
  /\ \E i \in DOMAIN frame : IsEtx(frame[i])
  /\ \E r \in {"reg", "noserial"}, e \in 0 .. MaxEnergy :
       Summed(frame) = Body(r, e) /\ Last(frame) = <<"bcc", e>>

HasStx(frame) == Places(frame, "stx") # {}

\* The meter type is what stands in front of the first STX, more than three
\* characters.
HasMeterType(frame) ==
  /\ HasStx(frame)
  /\ \/ \E i \in Places(frame, "text") : i < Least(Places(frame, "stx"))
     \/ Least(Places(frame, "stx")) > 4

\* parse_en61107_frame
Parses(frame) == SumIsRight(frame) /\ HasMeterType(frame)

EnergyOf(frame) ==
  frame[Greatest({i \in Places(frame, "reg") \cup Places(frame, "noserial") :
                    i < FirstEtx(frame)})][2]
HasSerial(frame) == \E i \in Places(frame, "reg") : i < FirstEtx(frame)

-----------------------------------------------------------------------------
(* Sending *)

Send(state, eod, delay, command) ==
  /\ en61107_uart_state' = state /\ en61107_eod' = eod /\ timer' = delay
  /\ baud' = 300 /\ uart_timer' = Speed(command)
  /\ cmd' = IF plugged THEN command ELSE "none"

SendIdent ==
  /\ Send("IDENT", "lf", 3000, "ident")
  /\ fifo' = <<>> /\ en61107_etx_received' = FALSE

SendEn61107 ==
  Send("EN61107", "etx", 8000, "000") /\ en61107_etx_received' = FALSE

SendInstValues ==
  /\ Send("INST_VALUES", "cr", 3200, "#C")
  /\ UNCHANGED en61107_etx_received

SendStandardData1 ==
  /\ Send("STANDARD_DATA_1", "cr", 3000, "#1")
  /\ UNCHANGED en61107_etx_received

SendStandardData2 ==
  /\ Send("STANDARD_DATA_2", "cr", 3000, "#2")
  /\ UNCHANGED en61107_etx_received

MayRequest ==
  /\ ~ota_in_progress
  /\ ~is_in_error_recovery /\ en61107_uart_state = "NONE"

\* en61107_request_send
RequestSend ==
  /\ MayRequest
  /\ en61107_request_num' = en61107_request_num + 1
  /\ SendIdent
  /\ since' = meter
  /\ UNCHANGED <<is_in_error_recovery, error_backoff_count, posts, result,
                 world, ota_in_progress>>

-----------------------------------------------------------------------------
(* The timers *)

\* The meter has said all it had to.
Quiet == wire = <<>> /\ cmd = "none" /\ posts = 0

\* The pauses of error recovery: 5000 << n, at most a minute.
Backoff(n) == IF n > 3 THEN 60000 ELSE <<5000, 10000, 20000, 40000>>[n + 1]

\* The pause is over: the next attempt of the same cycle.
RecoveryOver ==
  /\ is_in_error_recovery /\ is_in_error_recovery' = FALSE
  /\ en61107_request_num' = 1
  /\ SendIdent
  /\ UNCHANGED error_backoff_count

\* A mutation of RestartsAt: a missing break, the data are given up.
RestartsAtNoBreak ==
  \/ en61107_uart_state = "IDENT" /\ SendIdent
  \/ en61107_uart_state \in {"EN61107", "INST_VALUES"} /\ SendInstValues /\ fifo' = <<>>
  \/ en61107_uart_state = "STANDARD_DATA_1" /\ SendStandardData1 /\ fifo' = <<>>
  \/ en61107_uart_state = "STANDARD_DATA_2" /\ SendStandardData2 /\ fifo' = <<>>

\* Where a lost answer takes the cycle.
RestartsAt ==
  \/ en61107_uart_state \in {"IDENT", "EN61107"} /\ SendIdent
  \/ en61107_uart_state = "INST_VALUES" /\ SendInstValues /\ fifo' = <<>>
  \/ en61107_uart_state = "STANDARD_DATA_1" /\ SendStandardData1 /\ fifo' = <<>>
  \/ en61107_uart_state = "STANDARD_DATA_2" /\ SendStandardData2 /\ fifo' = <<>>

\* The timeout counts itself.
Attempts == en61107_request_num + 1

Retransmit ==
  /\ ~is_in_error_recovery /\ Attempts <= 2
  /\ en61107_request_num' = Attempts
  /\ RestartsAt
  /\ UNCHANGED <<is_in_error_recovery, error_backoff_count>>

\* A mutation of PauseTimer: the pause is not armed.
PauseTimerOff == 0

PauseTimer == Backoff(error_backoff_count)

Backoffs == IF error_backoff_count < BackoffMax THEN error_backoff_count + 1
            ELSE error_backoff_count

GiveUp ==
  /\ ~is_in_error_recovery /\ Attempts > 2
  /\ is_in_error_recovery' = TRUE /\ en61107_uart_state' = "NONE"
  /\ en61107_request_num' = 0
  /\ error_backoff_count' = Backoffs
  /\ timer' = PauseTimer
  /\ baud' = 300 /\ fifo' = <<>>
  /\ UNCHANGED <<uart_timer, en61107_eod, en61107_etx_received, cmd>>

\* en61107_receive_timeout_timer_func: normally when the meter is silent.
Timeout ==
  /\ timer # 0 /\ uart_timer = 0
  /\ Quiet \/ faults < MaxFaults
  /\ faults' = faults + (IF Quiet THEN 0 ELSE 1)
  /\ RecoveryOver \/ Retransmit \/ GiveUp
  /\ UNCHANGED <<posts, result, since, ota_in_progress, meter, plugged, wire>>

\* en61107_delayed_uart_change_setting_timer_func
UartTimer ==
  /\ uart_timer # 0 /\ baud' = uart_timer /\ uart_timer' = 0
  /\ UNCHANGED <<request, en61107_eod, input, result, world, cmd, since,
                 ota_in_progress>>

-----------------------------------------------------------------------------
(* Receiving *)

Put(c) == fifo' = IF Len(fifo) < QueueSize THEN Append(fifo, c) ELSE fifo

\* A mutation of EndsFrame: the frame ends with ETX, without its checksum.
EndsFrameAtEtx(c) == IF en61107_eod = "etx" THEN IsEtx(c) ELSE c[1] = en61107_eod

\* en61107_is_eod_char
EndsFrame(c) ==
  IF en61107_eod = "etx" THEN en61107_etx_received /\ ~IsEtx(c)
  ELSE c[1] = en61107_eod

\* uart0_rx_intr_handler: a character that comes at another speed is junk.
Receive ==
  LET c == IF Head(wire)[2] = baud THEN Head(wire)[1] ELSE Garbled(Head(wire)[1]) IN
  /\ wire # <<>> /\ wire' = Tail(wire)
  /\ Put(c)
  /\ posts' = IF EndsFrame(c) /\ posts < 64 THEN posts + 1 ELSE posts
  /\ en61107_etx_received' = IF en61107_eod # "etx" THEN en61107_etx_received
                             ELSE IF EndsFrame(c) THEN FALSE
                             ELSE en61107_etx_received \/ IsEtx(c)
  /\ UNCHANGED <<request, uart, result, meter, plugged, faults, cmd, since,
                 ota_in_progress>>

-----------------------------------------------------------------------------
(* en61107_received_task *)

Counters == <<en61107_request_num, is_in_error_recovery, error_backoff_count>>

\* The identification stays in the FIFO, for the parser.
TaskIdent ==
  /\ en61107_uart_state = "IDENT"
  /\ SendEn61107
  /\ UNCHANGED <<Counters, fifo, result>>

\* A frame that does not parse is asked for again, soon.
TaskBadData ==
  /\ en61107_uart_state = "EN61107" /\ ~Parses(fifo)
  /\ fifo' = <<>> /\ timer' = 500
  /\ UNCHANGED <<en61107_uart_state, Counters, uart, en61107_etx_received, cmd, result>>

KnowsSerial == en61107_serial_set \/ HasSerial(fifo)

\* Without a serial number the cycle waits for the timeout.
TaskNoSerial ==
  /\ en61107_uart_state = "EN61107" /\ Parses(fifo) /\ ~KnowsSerial
  /\ fifo' = <<>> /\ energy' = EnergyOf(fifo)
  /\ UNCHANGED <<request, uart, en61107_etx_received, cmd,
                 en61107_serial_set, meter_is_ready_cb_called>>

TaskData ==
  /\ en61107_uart_state = "EN61107" /\ Parses(fifo) /\ KnowsSerial
  /\ fifo' = <<>> /\ energy' = EnergyOf(fifo)
  /\ en61107_serial_set' = (en61107_serial_set \/ HasSerial(fifo))
  /\ SendInstValues
  /\ UNCHANGED <<Counters, meter_is_ready_cb_called>>

\* The frames after the data are taken as they come: their parsers accept any.
TaskMore ==
  /\ \/ en61107_uart_state = "INST_VALUES" /\ SendStandardData1
     \/ en61107_uart_state = "STANDARD_DATA_1" /\ SendStandardData2
  /\ fifo' = <<>>
  /\ UNCHANGED <<Counters, result>>

\* The last frame: the sample is published and the cycle is over.
TaskLast ==
  /\ en61107_uart_state = "STANDARD_DATA_2" /\ en61107_uart_state' = "NONE"
  /\ fifo' = <<>> /\ error_backoff_count' = 0 /\ en61107_request_num' = 0
  /\ timer' = 0
  /\ meter_is_ready_cb_called' = TRUE
  /\ UNCHANGED <<is_in_error_recovery, uart, en61107_etx_received, cmd, energy,
                 en61107_serial_set>>

TaskIdle ==
  /\ en61107_uart_state = "NONE"
  /\ UNCHANGED <<request, uart, fifo, en61107_etx_received, result, cmd>>

Task ==
  /\ posts > 0 /\ posts' = posts - 1
  /\ \/ TaskIdent \/ TaskBadData \/ TaskNoSerial \/ TaskData \/ TaskMore
     \/ TaskLast \/ TaskIdle
  /\ UNCHANGED <<world, since, ota_in_progress>>

-----------------------------------------------------------------------------
(* The meter, the line, and the rest of the firmware *)

Meter == UNCHANGED <<request, uart, input, result, since>>

MeterCounts ==
  /\ meter < MaxEnergy /\ meter' = meter + 1
  /\ Meter /\ UNCHANGED <<plugged, cmd, wire, faults, ota_in_progress>>

\* The command is answered at its speed; with a fault, a character is garbled or
\* the customer number is zero, the answer begins before the UART has its speed,
\* or there is none.
MeterAnswers ==
  /\ cmd # "none" /\ wire = <<>> /\ cmd' = "none"
  /\ \E frame \in Answers(cmd) \cup {<<>>}, early, garbled \in BOOLEAN :
       LET fault == garbled \/ early \/ frame = <<>> \/ Places(frame, "noserial") # {}
       IN
       /\ fault => faults < MaxFaults
       /\ faults' = faults + (IF fault THEN 1 ELSE 0)
       /\ uart_timer = 0 \/ early
       /\ \E i \in DOMAIN frame \cup {0} :
            /\ garbled = (i # 0)
            /\ wire' = [k \in DOMAIN frame |->
                          <<IF k = i THEN Garbled(frame[k]) ELSE frame[k], Speed(cmd)>>]
  /\ Meter /\ UNCHANGED <<meter, plugged, ota_in_progress>>

\* The meter is unplugged, or plugged in again.
Plug ==
  /\ plugged' = ~plugged /\ cmd' = "none" /\ wire' = <<>>
  /\ Meter /\ UNCHANGED <<meter, faults, ota_in_progress>>

\* An update of the firmware, which stops requests while it runs.
OtaBegins ==
  /\ ~ota_in_progress /\ ota_in_progress' = TRUE
  /\ faults < MaxFaults /\ faults' = faults + 1
  /\ Meter /\ UNCHANGED <<meter, plugged, cmd, wire>>

OtaEnds ==
  /\ ota_in_progress /\ ota_in_progress' = FALSE
  /\ Meter /\ UNCHANGED <<meter, plugged, cmd, wire, faults>>

\* en61107_request_init
Init ==
  /\ en61107_uart_state = "NONE" /\ en61107_request_num = 0
  /\ is_in_error_recovery = FALSE /\ error_backoff_count = 0 /\ timer = 0
  /\ uart_timer = 0 /\ baud = 300 /\ en61107_eod = "lf"
  /\ fifo = <<>> /\ en61107_etx_received = FALSE /\ posts = 0
  /\ energy = 0 /\ en61107_serial_set = FALSE /\ meter_is_ready_cb_called = FALSE
  /\ ota_in_progress = FALSE
  /\ meter = 0 /\ plugged = TRUE /\ cmd = "none" /\ wire = <<>>
  /\ since = 0 /\ faults = 0

Next ==
  \/ RequestSend
  \/ Timeout
  \/ UartTimer
  \/ Receive
  \/ Task
  \/ MeterCounts
  \/ MeterAnswers
  \/ Plug
  \/ OtaBegins
  \/ OtaEnds

Spec == Init /\ [][Next]_vars

\* The timers and the task run, characters arrive, an update ends.
Running == WF_vars(Timeout) /\ WF_vars(UartTimer) /\ WF_vars(Receive)
           /\ WF_vars(Task) /\ WF_vars(OtaEnds)

\* The sample timer of user_main.c keeps asking, and the meter answers.
FairSpec == Spec /\ Running /\ WF_vars(RequestSend) /\ WF_vars(MeterAnswers)

-----------------------------------------------------------------------------
(* Properties *)

Chars == ({"text", "cr", "lf", "stx", "etx", "junk"} \X {0})
         \cup ({"reg", "noserial", "bcc"} \X (0 .. MaxEnergy))

TypeOK ==
  /\ en61107_uart_state \in States /\ en61107_request_num \in 0 .. 2
  /\ is_in_error_recovery \in BOOLEAN /\ error_backoff_count \in 0 .. BackoffMax
  /\ timer \in 0 .. 60000
  /\ uart_timer \in {0, 300, 1200} /\ baud \in {300, 1200}
  /\ en61107_eod \in {"lf", "cr", "etx"}
  /\ fifo \in Seq(Chars) /\ Len(fifo) <= QueueSize
  /\ en61107_etx_received \in BOOLEAN /\ posts \in 0 .. 64
  /\ {energy, meter, since} \subseteq 0 .. MaxEnergy
  /\ en61107_serial_set \in BOOLEAN /\ meter_is_ready_cb_called \in BOOLEAN
  /\ ota_in_progress \in BOOLEAN /\ plugged \in BOOLEAN
  /\ cmd \in {"none", "ident", "000", "#C", "#1", "#2"}
  /\ wire \in Seq(Chars \X {300, 1200}) /\ faults \in 0 .. MaxFaults

\* A cycle that has begun, and a pause, always have a timer that ends them: a
\* request is refused as long as there is one, so without it the meter would not
\* be read again (the guard of en61107_request_send).
TimerArmed == en61107_uart_state # "NONE" \/ is_in_error_recovery => timer # 0

\* user_main.c "meter_is_ready": the application, which takes its MQTT topics
\* from the serial number, is told only when there is one.
ReadyHasSerial == meter_is_ready_cb_called => en61107_serial_set

Sampled == en61107_uart_state = "STANDARD_DATA_2" /\ en61107_uart_state' = "NONE"
           /\ ~is_in_error_recovery'

\* A sample tells what the meter had counted in this cycle, and not what a late
\* answer of an earlier one said.
EnergyFresh == [][Sampled => energy >= since]_vars

\* A meter that stays plugged in is read again and again.
MeterIsRead == <>[]plugged => []<><<Sampled>>_vars
=============================================================================
