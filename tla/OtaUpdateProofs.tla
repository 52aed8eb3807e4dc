---------------------------- MODULE OtaUpdateProofs ----------------------------
(***************************************************************************)
(* The device can boot at every moment of an update, the update is never    *)
(* without a timer, and what it stages is a whole image, the one that was   *)
(* asked for: proofs for every size, number of retries and set of answers.  *)
(***************************************************************************)
EXTENDS OtaUpdate, Integers, SequenceTheorems, TLAPS

RtcData == [next : Slots \cup {NoRom}, mode : {"standard", "temp"}, last : Slots]

\* Only a device in standard mode updates, into the slot it does not run, and
\* that slot is the committed one exactly when a commit failed before.
SlotsApart ==
  /\ rtc \in RtcData /\ rom \in Slots /\ DOMAIN flash = Slots
  /\ exposed \in BOOLEAN
  /\ ota_in_progress => (exposed <=> rom # rtc.last)
  /\ ota_in_progress => rtc.mode = "standard" /\ ota_target_rom = Other(rtc.last)
  /\ ota_in_progress => ota_target_rom \in Slots

IInv == SlotsApart /\ CurrentBoots

\* What most steps do to the slots: nothing, and they start no update.
Aloof ==
  /\ UNCHANGED <<flash, boot>>
  /\ ota_in_progress' => ota_in_progress
  /\ ota_in_progress' => ota_target_rom' = ota_target_rom

LEMMA OtherSlot == \A s \in Slots : Other(s) \in Slots /\ Other(s) # s
  BY DEF Slots, Other

LEMMA InitSafe == Init => IInv
<1> SUFFICES ASSUME Init PROVE IInv
  OBVIOUS
<1>1. SlotsApart
  BY DEF Init, SlotsApart, RtcData, Slots, NoRom
<1>2. CurrentBoots
  <2>1. MinFirmware \in Nat \ {0} /\ MaxFirmware \in Nat /\ MinFirmware <= MaxFirmware
    BY SizesAssumption
  <2>2. \A c \in 0 .. MinFirmware - 1 :
          /\ c \in Cells /\ c < MinFirmware
          /\ flash[rom][c] = Chunk(Factory, c, MinFirmware)
    BY <2>1 DEF Init, Cells, Slots
  <2>3. MinFirmware \in MinFirmware .. MaxFirmware
    BY <2>1
  <2>4. \A c \in 0 .. MinFirmware - 1 :
          flash[rom][c].at = c /\ flash[rom][c].total = MinFirmware
    <3>1. \A x, y, z : Chunk(x, y, z).at = y /\ Chunk(x, y, z).total = z
      BY DEF Chunk
    <3> QED
      BY <2>2, <3>1
  <2> QED
    BY <2>3, <2>4 DEF CurrentBoots, Boots
<1> QED
  BY <1>1, <1>2 DEF IInv

LEMMA AloofSafe == IInv /\ Aloof => IInv'
  BY DEF IInv, Aloof, SlotsApart, CurrentBoots, Boots, boot

LEMMA RetryAloof == ota_in_progress /\ Retry => Aloof
  BY DEF Retry, Aloof, job

LEMMA DnsAloof == DnsFound => Aloof
  BY DEF DnsFound, Aloof, Listening, Connect, Attempt, TriggerReconnect, control,
         job

LEMMA RetryTimerAloof == RetryTimer => Aloof
  BY DEF RetryTimer, LookUp, Connect, Attempt, TriggerReconnect, Aloof, job

LEMMA TimeoutAloof == TimeoutTimer => Aloof
  BY RetryAloof DEF TimeoutTimer, Listening

LEMMA ConnectedAloof == Connected => Aloof
  BY RetryAloof DEF Connected, Listening, Aloof, control, job

LEMMA HeadersAloof == \A r \in Replies : RecvHeaders(r) => Aloof
  BY DEF RecvHeaders, FailUpdate, Aloof, control, job

LEMMA ErrorAloof == ConnectionError => Aloof
  BY RetryAloof DEF ConnectionError, Listening, Aloof, control, job

\* Only received data goes to the flash, to the slot the device does not run,
\* which it boots only if a commit failed.
LEMMA BodySafe ==
  ASSUME IInv, NEW n \in 1 .. PacketMax, RecvBody(n)
  PROVE  IInv' /\ flash'[rtc.last] = flash[rtc.last]
<1>1. /\ ota_in_progress /\ ota_in_progress' \in {ota_in_progress, FALSE}
      /\ UNCHANGED <<ota_target_rom, rom, rtc, exposed>>
  BY DEF RecvBody, Receiving, Listening, FailUpdate, control, job, boot
<1>2. \/ UNCHANGED flash
      \/ \E slot : flash' = [flash EXCEPT ![ota_target_rom] = slot]
  BY DEF RecvBody
<1>3. /\ ~exposed => rom = rtc.last
      /\ ota_target_rom # rtc.last
      /\ rtc.last \in DOMAIN flash
  BY <1>1, OtherSlot DEF IInv, SlotsApart, RtcData
<1>4. flash'[rtc.last] = flash[rtc.last] /\ DOMAIN flash' = Slots
  BY <1>2, <1>3 DEF IInv, SlotsApart
<1>5. SlotsApart'
  BY <1>1, <1>4 DEF IInv, SlotsApart
<1>6. CurrentBoots'
  BY <1>1, <1>3, <1>4 DEF IInv, CurrentBoots, Boots
<1> QED
  BY <1>4, <1>5, <1>6 DEF IInv

LEMMA DisconnectedSafe == IInv /\ Disconnected => IInv' /\ UNCHANGED flash
<1> SUFFICES ASSUME IInv, Disconnected PROVE IInv' /\ UNCHANGED flash
  OBVIOUS
<1>1. CASE ~(Listening /\ bound)
  <2>1. Aloof
    BY <1>1 DEF Disconnected, Aloof, control, job
  <2> QED
    BY <2>1, AloofSafe DEF Aloof
<1>2. CASE Listening /\ bound /\ Complete
  <2>1. /\ UNCHANGED <<flash, rom, exposed>> /\ ~ota_in_progress'
        /\ \/ UNCHANGED rtc
           \/ rtc' = [rtc EXCEPT !.next = ota_target_rom]
    BY <1>2 DEF Complete, StageAndRestart, FailUpdate, boot
  <2>2. ota_target_rom \in Slots
    BY <1>2 DEF IInv, SlotsApart, Listening
  <2>3. rtc' \in RtcData /\ rtc'.mode = rtc.mode /\ rtc'.last = rtc.last
    BY <2>1, <2>2 DEF IInv, SlotsApart, RtcData
  <2> QED
    BY <2>1, <2>3 DEF IInv, SlotsApart, CurrentBoots, Boots
<1>3. CASE Listening /\ bound /\ ScheduleRangeContinue
           /\ UNCHANGED <<job, flash, boot, faults>>
  <2>1. Aloof
    BY <1>3 DEF ScheduleRangeContinue, Aloof, job
  <2> QED
    BY <2>1, AloofSafe DEF Aloof
<1>4. CASE Listening /\ bound /\ Retry
  BY <1>4, RetryAloof, AloofSafe DEF Aloof, Listening
<1> QED
  BY <1>1, <1>2, <1>3, <1>4 DEF Disconnected

LEMMA StartSafe ==
  ASSUME IInv, NEW c \in Checks, StartUpdate(c)
  PROVE  IInv' /\ UNCHANGED flash
<1>1. /\ UNCHANGED <<flash, rom, rtc>> /\ rtc.mode = "standard"
      /\ \/ ~ota_in_progress' /\ UNCHANGED exposed
         \/ /\ ota_target_rom' = Other(rtc.last)
            /\ exposed' = (rom # rtc.last)
      /\ Boots(flash[rtc.last])
  BY DEF StartUpdate, TakesRpc, Confirmed, Uncommitted, Target, FailUpdate, IInv,
         SlotsApart, RtcData
<1>2. CurrentBoots'
  <2>1. CASE UNCHANGED exposed
    BY <1>1, <2>1 DEF IInv, CurrentBoots, Boots
  <2>2. CASE exposed' = (rom # rtc.last)
    <3>1. ~exposed' => flash'[rom'] = flash[rtc.last]
      BY <1>1, <2>2
    <3> QED
      BY <1>1, <3>1 DEF CurrentBoots, Boots
  <2> QED
    BY <1>1, <2>1, <2>2
<1> QED
  BY <1>1, <1>2, OtherSlot DEF IInv, SlotsApart, RtcData

LEMMA ConfirmSafe == IInv /\ Confirm => IInv' /\ UNCHANGED flash
<1> SUFFICES ASSUME IInv, Confirm PROVE IInv' /\ UNCHANGED flash
  OBVIOUS
<1>1. /\ UNCHANGED flash /\ ~ota_in_progress'
      /\ \/ rom' = rtc.last /\ exposed' = FALSE
         \/ UNCHANGED <<rom, exposed>>
      /\ rtc' = [next |-> NoRom, mode |-> "standard", last |-> rtc.last]
      /\ Boots(flash[rtc.last])
  BY DEF Confirm, TakesRpc, control
<1>2. SlotsApart'
  BY <1>1 DEF IInv, SlotsApart, RtcData
<1>3. CASE rom' = rtc.last
  <2>1. flash'[rom'] = flash[rtc.last]
    BY <1>1, <1>3
  <2> QED
    BY <1>1, <1>2, <2>1 DEF IInv, CurrentBoots, Boots
<1>4. CASE UNCHANGED <<rom, exposed>>
  <2>1. CurrentBoots'
    BY <1>1, <1>4 DEF IInv, CurrentBoots, Boots
  <2> QED
    BY <1>1, <1>2, <2>1 DEF IInv
<1> QED
  BY <1>1, <1>3, <1>4

LEMMA RebootSafe ==
  ASSUME IInv, NEW kept \in BOOLEAN, Reboot(kept)
  PROVE  IInv' /\ UNCHANGED flash
<1>1. /\ UNCHANGED <<flash, rom, exposed>> /\ ~ota_in_progress'
      /\ \/ rtc' = [next |-> NoRom, mode |-> "standard", last |-> rom]
         \/ /\ rtc.next \in Slots
            /\ rtc' = [next |-> NoRom, mode |-> "temp", last |-> rtc.next]
  BY DEF Reboot, IInv, SlotsApart, RtcData
<1>2. rtc' \in RtcData
  BY <1>1 DEF IInv, SlotsApart, RtcData
<1> QED
  BY <1>1, <1>2 DEF IInv, SlotsApart, CurrentBoots, Boots

LEMMA StepSafe == IInv /\ [Next]_vars => IInv' /\ flash'[rtc.last] = flash[rtc.last]
<1> SUFFICES ASSUME IInv, [Next]_vars
             PROVE  IInv' /\ flash'[rtc.last] = flash[rtc.last]
  OBVIOUS
<1>1. ASSUME NEW c \in Checks, StartUpdate(c) PROVE IInv' /\ UNCHANGED flash
  BY <1>1, StartSafe
<1>2. CASE Confirm
  BY <1>2, ConfirmSafe
<1>3. CASE DnsFound
  BY <1>3, DnsAloof, AloofSafe DEF Aloof
<1>4. CASE RetryTimer
  BY <1>4, RetryTimerAloof, AloofSafe DEF Aloof
<1>5. CASE TimeoutTimer
  BY <1>5, TimeoutAloof, AloofSafe DEF Aloof
<1>6. CASE Connected
  BY <1>6, ConnectedAloof, AloofSafe DEF Aloof
<1>7. ASSUME NEW r \in Replies, RecvHeaders(r) PROVE IInv' /\ UNCHANGED flash
  BY <1>7, HeadersAloof, AloofSafe DEF Aloof
<1>8. ASSUME NEW n \in 1 .. PacketMax, RecvBody(n)
      PROVE  IInv' /\ flash'[rtc.last] = flash[rtc.last]
  BY <1>8, BodySafe
<1>9. CASE ConnectionError
  BY <1>9, ErrorAloof, AloofSafe DEF Aloof
<1>10. CASE Disconnected
  BY <1>10, DisconnectedSafe
<1>11. CASE Restart
  BY <1>11, RebootSafe DEF Restart
<1>12. CASE CrashOrPowerCut
  BY <1>12, RebootSafe DEF CrashOrPowerCut
<1>13. CASE UNCHANGED vars
  <2>1. Aloof
    BY <1>13 DEF vars, control, job, boot, Aloof
  <2> QED
    BY <2>1, AloofSafe DEF Aloof
<1> QED
  BY <1>1, <1>2, <1>3, <1>4, <1>5, <1>6, <1>7, <1>8, <1>9, <1>10, <1>11, <1>12,
     <1>13 DEF Next

\* The committed ROM can be booted at every moment of an update, of its retries
\* and of the reboots in between (ota.c, mqtt_rpc_ota_update): unless the last
\* update was begun after a commit whose failure mqtt_rpc_ota_update ignores.
THEOREM CurrentBootsCorrect == Spec => []CurrentBoots
<1>1. IInv => CurrentBoots
  BY DEF IInv
<1> QED
  BY <1>1, InitSafe, StepSafe, PTL DEF Spec

\* No update erases or writes the slot the device runs from: ota_tcp_recv_cb
\* is the only writer, and start_ota_update gives it the other slot.
THEOREM RunningSlotCorrect == Spec => RunningSlotKept
<1>1. IInv /\ [Next]_vars => [flash'[rtc.last] = flash[rtc.last]]_vars
  BY StepSafe
<1> QED
  BY <1>1, InitSafe, StepSafe, PTL DEF Spec, RunningSlotKept

-----------------------------------------------------------------------------
(* The timers *)

LEMMA ReconnectArmed ==
  ASSUME NEW count, NEW received, NEW valid, TriggerReconnect(count, received, valid)
  PROVE  TimerArmed'
  BY DEF TriggerReconnect, TimerArmed

LEMMA AttemptArmed ==
  ASSUME NEW count, NEW received, NEW valid, NEW dns,
         Attempt(count, received, valid, dns)
  PROVE  TimerArmed'
  BY DEF Attempt, TimerArmed

LEMMA LookUpArmed ==
  ASSUME NEW count, NEW received, NEW valid,
         LookUp(count, received, valid) \/ Connect(count, received, valid)
  PROVE  TimerArmed'
  BY ReconnectArmed, AttemptArmed DEF LookUp, Connect

LEMMA RetryArmed == Retry => TimerArmed'
  BY ReconnectArmed DEF Retry

LEMMA FailArmed == FailUpdate => TimerArmed'
  BY DEF FailUpdate, TimerArmed

LEMMA SameArmed ==
  TimerArmed /\ UNCHANGED <<ota_in_progress, ota_retry_pending, timers>>
    => TimerArmed'
  BY DEF TimerArmed

LEMMA StepArmed == TimerArmed /\ [Next]_vars => TimerArmed'
<1> SUFFICES ASSUME TimerArmed, [Next]_vars PROVE TimerArmed'
  OBVIOUS
<1>1. ASSUME NEW c \in Checks, StartUpdate(c) PROVE TimerArmed'
  BY <1>1, FailArmed, LookUpArmed DEF StartUpdate
<1>2. CASE Confirm
  BY <1>2, SameArmed DEF Confirm, control
<1>3. CASE DnsFound
  BY <1>3, SameArmed, LookUpArmed, ReconnectArmed DEF DnsFound, control
<1>4. CASE RetryTimer
  BY <1>4, LookUpArmed DEF RetryTimer
<1>5. CASE TimeoutTimer
  BY <1>5, RetryArmed DEF TimeoutTimer
<1>6. CASE Connected
  BY <1>6, SameArmed, RetryArmed DEF Connected, control
<1>7. ASSUME NEW r \in Replies, RecvHeaders(r) PROVE TimerArmed'
  BY <1>7, SameArmed, FailArmed DEF RecvHeaders, control
<1>8. ASSUME NEW n \in 1 .. PacketMax, RecvBody(n) PROVE TimerArmed'
  BY <1>8, SameArmed, FailArmed DEF RecvBody, control
<1>9. CASE ConnectionError
  BY <1>9, SameArmed, RetryArmed DEF ConnectionError, control
<1>10. CASE Disconnected
  <2>1. StageAndRestart => TimerArmed'
    BY DEF StageAndRestart, TimerArmed
  <2>2. ScheduleRangeContinue => TimerArmed'
    BY <1>10 DEF ScheduleRangeContinue, TimerArmed
  <2> QED
    BY <1>10, <2>1, <2>2, SameArmed, RetryArmed, FailArmed
       DEF Disconnected, Complete, control
<1>11. CASE Restart
  BY <1>11 DEF Restart, Reboot, TimerArmed
<1>12. CASE CrashOrPowerCut
  BY <1>12 DEF CrashOrPowerCut, Reboot, TimerArmed
<1>13. CASE UNCHANGED vars
  BY <1>13, SameArmed DEF vars, control
<1> QED
  BY <1>1, <1>2, <1>3, <1>4, <1>5, <1>6, <1>7, <1>8, <1>9, <1>10, <1>11, <1>12,
     <1>13 DEF Next

\* Whatever callback comes, and however late, a running update has the one
\* timer armed that moves it on (ota.c, ota_trigger_reconnect,
\* ota_schedule_range_continue, ota_retry_timer_cb).
THEOREM TimerCorrect == Spec => []TimerArmed
<1>1. Init => TimerArmed
  BY DEF Init, TimerArmed
<1> QED
  BY <1>1, StepArmed, PTL DEF Spec
-----------------------------------------------------------------------------
(* The writer *)

WInv == WriterInStep /\ ota_received_bytes \in Int

\* The writer's position counts when it is open for the next packet or range.
Open == is_valid_binary /\ (Listening \/ ota_continue_pending)

LEMMA Closed == ota_received_bytes' \in Int /\ ~Open' => WInv'
  BY DEF WInv, WriterInStep, Open

LEMMA Untouched ==
  WInv /\ UNCHANGED <<writer, ota_received_bytes>> /\ (Open' => Open) => WInv'
  BY DEF WInv, WriterInStep, Open

LEMMA RewoundInt == \A received \in Int : Rewound(received) \in Int
<1>1. SectorSize \in Nat \ {0}
  BY SizesAssumption
<1> QED
  BY <1>1 DEF Rewound

LEMMA ReconnectCloses ==
  ASSUME NEW count, NEW received \in Int, NEW valid,
         TriggerReconnect(count, received, valid)
  PROVE  WInv'
<1>1. ota_received_bytes' \in Int
  BY RewoundInt DEF TriggerReconnect
<1>2. ~Open'
  BY DEF TriggerReconnect, Open, Listening
<1> QED
  BY <1>1, <1>2, Closed

\* A new attempt keeps an open writer only where it stands.
LEMMA LookUpInStep ==
  ASSUME NEW count, NEW received \in Int, NEW valid, UNCHANGED writer,
         valid => writer.at = received,
         LookUp(count, received, valid) \/ Connect(count, received, valid)
  PROVE  WInv'
<1>1. CASE TriggerReconnect(count, received, valid)
  BY <1>1, ReconnectCloses
<1>2. ASSUME NEW dns, Attempt(count, received, valid, dns) PROVE WInv'
  BY <1>2 DEF Attempt, WInv, WriterInStep, Listening
<1> QED
  BY <1>1, <1>2 DEF LookUp, Connect

LEMMA RetryCloses == WInv /\ Retry => WInv'
  BY ReconnectCloses DEF WInv, Retry

LEMMA BodyInStep ==
  ASSUME WInv, NEW n \in 1 .. PacketMax, RecvBody(n)
  PROVE  WInv'
<1>1. CASE FailUpdate /\ UNCHANGED progress
  BY <1>1, Closed DEF FailUpdate, Open, progress, WInv
<1>2. CASE /\ writer' = Written(Opened, Body(n)).writer
           /\ ota_received_bytes' = ota_received_bytes + n
  <2>1. PacketMax \in Nat /\ n \in Nat
    BY SizesAssumption
  <2>2. Len(Body(n)) = n
    BY <2>1 DEF Body
  <2>3. Opened.writer.at = ota_received_bytes
    BY DEF Opened, RecvBody, Receiving, WInv, WriterInStep
  <2>4. writer'.at = Opened.writer.at + Len(Body(n)) - 1 + 1
    BY <1>2 DEF Written
  <2>5. writer'.at = ota_received_bytes' /\ ota_received_bytes' \in Int
    BY <1>2, <2>1, <2>2, <2>3, <2>4 DEF WInv
  <2> QED
    BY <2>5 DEF WInv, WriterInStep
<1> QED
  BY <1>1, <1>2 DEF RecvBody

LEMMA StepInStep == WInv /\ [Next]_vars => WInv'
<1> SUFFICES ASSUME WInv, [Next]_vars PROVE WInv'
  OBVIOUS
<1>1. ASSUME NEW c \in Checks, StartUpdate(c) PROVE WInv'
  <2>1. CASE FailUpdate /\ ota_received_bytes' = 0
    BY <2>1, Closed DEF FailUpdate, Open
  <2>2. CASE LookUp(0, 0, FALSE)
    <3>1. UNCHANGED writer /\ 0 \in Int /\ (FALSE => writer.at = 0)
      BY <1>1 DEF StartUpdate
    <3> QED
      BY <2>2, <3>1, LookUpInStep
  <2> QED
    BY <1>1, <2>1, <2>2 DEF StartUpdate
<1>2. CASE Confirm
  BY <1>2, Untouched DEF Confirm, control, progress, stream, Open, Listening
<1>3. CASE DnsFound
  <2>1. CASE ~Listening
    BY <1>3, <2>1, Untouched DEF DnsFound, control, progress, stream, Open, Listening
  <2>2. CASE Listening
    <3>1. is_valid_binary => writer.at = ota_received_bytes
      BY <2>2 DEF WInv, WriterInStep
    <3>2. ota_received_bytes \in Int /\ UNCHANGED writer
      BY <1>3, <2>2 DEF DnsFound, WInv
    <3> QED
      BY <1>3, <2>2, <3>1, <3>2, LookUpInStep, ReconnectCloses DEF DnsFound
  <2> QED
    BY <2>1, <2>2
<1>4. CASE RetryTimer
  <2>1. WriterKept => writer.at = ota_received_bytes
    BY DEF WriterKept, WInv, WriterInStep
  <2> QED
    BY <1>4, <2>1, LookUpInStep DEF RetryTimer, WInv
<1>5. CASE TimeoutTimer
  BY <1>5, RetryCloses DEF TimeoutTimer
<1>6. CASE Connected
  BY <1>6, Untouched, RetryCloses
     DEF Connected, control, progress, stream, Open, Listening
<1>7. ASSUME NEW r \in Replies, RecvHeaders(r) PROVE WInv'
  <2>1. CASE Restarted(r)
    BY <2>1, Closed DEF Restarted, Open
  <2>2. CASE Ranged(r) /\ UNCHANGED <<control, writer>>
    BY <2>2, Untouched DEF Ranged, control, Open, Listening
  <2>3. CASE FailUpdate /\ UNCHANGED progress
    BY <2>3, Closed DEF FailUpdate, Open, progress, WInv
  <2> QED
    BY <1>7, <2>1, <2>2, <2>3 DEF RecvHeaders
<1>8. ASSUME NEW n \in 1 .. PacketMax, RecvBody(n) PROVE WInv'
  BY <1>8, BodyInStep
<1>9. CASE ConnectionError
  BY <1>9, Untouched, RetryCloses
     DEF ConnectionError, control, progress, stream, Open, Listening
<1>10. CASE Disconnected
  <2>1. CASE ~(Listening /\ bound)
    BY <1>10, <2>1, Untouched
       DEF Disconnected, control, progress, stream, Open, Listening
  <2>2. CASE Listening /\ Complete
    <3>1. CASE FailUpdate /\ UNCHANGED progress
      BY <3>1, Closed DEF FailUpdate, Open, progress, WInv
    <3>2. CASE StageAndRestart /\ UNCHANGED progress
      BY <2>2, <3>2, Untouched
         DEF StageAndRestart, stream, progress, Open, Listening
    <3> QED
      BY <2>2, <3>1, <3>2 DEF Complete
  <2>3. CASE Listening /\ ScheduleRangeContinue
    BY <2>3, Untouched DEF ScheduleRangeContinue, stream, progress, Open
  <2>4. CASE Retry
    BY <2>4, RetryCloses
  <2> QED
    BY <1>10, <2>1, <2>2, <2>3, <2>4 DEF Disconnected
<1>11. CASE Restart
  BY <1>11, Closed DEF Restart, Reboot, Open
<1>12. CASE CrashOrPowerCut
  BY <1>12, Closed DEF CrashOrPowerCut, Reboot, Open
<1>13. CASE UNCHANGED vars
  BY <1>13, Untouched DEF vars, control, progress, stream, Open, Listening
<1> QED
  BY <1>1, <1>2, <1>3, <1>4, <1>5, <1>6, <1>7, <1>8, <1>9, <1>10, <1>11, <1>12,
     <1>13 DEF Next

\* Data is written where it belongs, after any mixture of retries, which rewind
\* to a sector boundary, and ranges, which do not (ota.c, ota_trigger_reconnect,
\* ota_retry_timer_cb, ota_tcp_recv_cb).
THEOREM WriterCorrect == Spec => []WriterInStep
<1>1. Init => WInv
  BY DEF Init, WInv, WriterInStep
<1>2. WInv => WriterInStep
  BY DEF WInv
<1> QED
  BY <1>1, <1>2, StepInStep, PTL DEF Spec

-----------------------------------------------------------------------------
(* What is staged *)

\* A range of the update is being written, or is to be continued.
Streaming == ota_in_progress /\ Open

Slot == flash[ota_target_rom]

\* The first m cells hold the first m chunks of an image of that size.
Holds(slot, m, total) ==
  \A c \in 0 .. m - 1 : slot[c].at = c /\ slot[c].total = total

\* The sectors erased so far end behind cell m, and are blank from there on.
BlankFrom(slot, erased, m) ==
  \A c \in Cells : c >= m /\ Sector(c) <= erased => slot[c] = Blank
ErasedTo(erased, m) == \A c \in 0 .. m - 1 : Sector(c) <= erased

\* The hash was fed the first m cells.
Fed(slot, m) == [i \in 1 .. m |-> slot[i - 1]]

DataOK ==
  /\ ota_received_bytes \in 0 .. MaxFirmware
  /\ response \in [status : Nat, length : Nat, received : Nat, end : Nat, total : Nat]
  /\ serving \in Replies \cup {NoReply} /\ writer.erased \in Nat
  /\ is_valid_binary \in BOOLEAN

\* No more is received than there is.
SizeOK ==
  /\ ota_firmware_size = 0 \/ Sane(ota_firmware_size)
  /\ ota_received_bytes <= ota_firmware_size

\* What was received is in the flash, in order.
StoredOK == ota_in_progress => Holds(Slot, ota_received_bytes, ota_firmware_size)

\* The writer stands behind it with blank cells ahead, and the hash was fed it.
StreamOK == Streaming =>
  /\ writer.at = ota_received_bytes
  /\ BlankFrom(Slot, writer.erased, ota_received_bytes)
  /\ ErasedTo(writer.erased, ota_received_bytes)
  /\ check # NoCheck => hash = Fed(Slot, ota_received_bytes)

\* A writer that is to be opened again begins with a sector.
AlignedOK == ota_in_progress /\ ~Open => ota_received_bytes % SectorSize = 0

\* The answer goes on where the download stands, and it is for the same image.
ServeOK == Listening /\ response # NoResponse =>
  /\ serving.first + response.received = ota_received_bytes
  /\ serving.total = ota_firmware_size
  /\ response.received > 0 => is_valid_binary

\* What was asked for begins where the download stands.
AskedOK == conn = "open" /\ bound /\ Listening /\ response = NoResponse
             => ota_request_offset = ota_received_bytes

StageInv == DataOK /\ SizeOK /\ StoredOK /\ StreamOK /\ AlignedOK /\ ServeOK /\ AskedOK

\* Sectors and cells.
LEMMA SizesAre ==
  /\ SectorSize \in Nat /\ SectorSize >= 1 /\ MinFirmware \in Nat /\ MinFirmware >= 1
  /\ MaxFirmware \in Nat /\ PacketMax \in Nat
  BY SizesAssumption

LEMMA SectorOf ==
  \A c \in Nat : /\ Sector(c) \in Nat /\ c % SectorSize \in 0 .. SectorSize - 1
                 /\ c = SectorSize * Sector(c) + (c % SectorSize)
  BY SizesAre, SMTT(30) DEF Sector

\* Cells further on are in the same sector or further on.
LEMMA SectorGrows == \A c, d \in Nat : c <= d => Sector(c) <= Sector(d)
<1> SUFFICES ASSUME NEW c \in Nat, NEW d \in Nat, c <= d, Sector(d) < Sector(c) PROVE FALSE
  BY SectorOf
<1> DEFINE x == Sector(c)
           y == Sector(d)
<1>1. /\ x \in Nat /\ y \in Nat /\ y + 1 <= x
      /\ c = SectorSize * x + (c % SectorSize) /\ c % SectorSize \in Nat
      /\ d = SectorSize * y + (d % SectorSize) /\ d % SectorSize \in 0 .. SectorSize - 1
  BY SectorOf
<1> HIDE DEF x, y
<1>2. SectorSize * x >= SectorSize * (y + 1)
  BY <1>1, SizesAre, SMTT(30)
<1>3. SectorSize * (y + 1) = SectorSize * y + SectorSize
  BY <1>1, SizesAre
<1> QED
  BY <1>1, <1>2, <1>3, SizesAre

\* In front of the first cell of a sector there are other sectors.
LEMMA SectorBefore ==
  \A c, d \in Nat : c < d /\ d % SectorSize = 0 => Sector(c) < Sector(d)
<1> SUFFICES ASSUME NEW c \in Nat, NEW d \in Nat, c < d, d % SectorSize = 0,
                    Sector(d) <= Sector(c)
             PROVE  FALSE
  BY SectorOf
<1> DEFINE x == Sector(c)
           y == Sector(d)
<1>1. /\ x \in Nat /\ y \in Nat /\ y <= x
      /\ c = SectorSize * x + (c % SectorSize) /\ c % SectorSize \in Nat
      /\ d = SectorSize * y
  BY SectorOf, SizesAre
<1> HIDE DEF x, y
<1>2. SectorSize * x >= SectorSize * y
  BY <1>1, SizesAre, SMTT(30)
<1> QED
  BY <1>1, <1>2, SizesAre

\* ota_trigger_reconnect rewinds to the first cell of a sector.
LEMMA RewoundIs ==
  \A m \in Nat : /\ Rewound(m) \in 0 .. m /\ Rewound(m) % SectorSize = 0
<1> SUFFICES ASSUME NEW m \in Nat
             PROVE  Rewound(m) \in 0 .. m /\ Rewound(m) % SectorSize = 0
  OBVIOUS
<1>1. PICK k \in Nat, r \in 0 .. SectorSize - 1 :
        k = Sector(m) /\ r = m % SectorSize /\ m = SectorSize * k + r
  BY SectorOf
<1>2. Rewound(m) = m - r
  BY <1>1 DEF Rewound
<1>3. SectorSize * k \in Nat
  BY SizesAre, SMTT(30)
<1>4. Rewound(m) = SectorSize * k /\ m - r \in 0 .. m
  BY <1>1, <1>2, <1>3, SizesAre
<1>5. (SectorSize * k) % SectorSize = 0
  BY SizesAre, SMTT(30)
<1> QED
  BY <1>2, <1>4, <1>5

\* An update that has ended claims nothing of the slot.
LEMMA StageStopped == DataOK' /\ SizeOK' /\ ~ota_in_progress' => StageInv'
  BY DEF StageInv, StoredOK, StreamOK, AlignedOK, ServeOK, AskedOK, Streaming,
         Listening

LEMMA Shorter ==
  \A m \in Nat : \A k \in 0 .. m : \A c \in 0 .. k - 1 : c \in 0 .. m - 1
  OBVIOUS

LEMMA NoResponseIs ==
  /\ NoResponse \in [status : Nat, length : Nat, received : Nat, end : Nat,
                      total : Nat]
  /\ NoResponse.status = 0 /\ NoResponse.received = 0
  BY DEF NoResponse

\* A download that begins at chunk zero with the writer closed claims nothing.
LEMMA StageAnew ==
  ASSUME ota_received_bytes' = 0, ~is_valid_binary',
         DataOK', SizeOK', ServeOK', AskedOK'
  PROVE  StageInv'
<1>1. 0 % SectorSize = 0
  BY SizesAre, SMTT(30)
<1> QED
  <2>1. StoredOK'
    BY DEF StoredOK, Holds
  <2>2. StreamOK'
    BY DEF StreamOK, Streaming, Open
  <2>3. AlignedOK'
    BY <1>1 DEF AlignedOK
  <2> QED
    BY <2>1, <2>2, <2>3 DEF StageInv

\* Nothing moves but the connection.
LEMMA StageQuiet ==
  ASSUME StageInv, AskedOK', response' \in {response, NoResponse},
         UNCHANGED <<ota_in_progress, ota_retry_pending, ota_continue_pending,
                     progress, stream, job, flash, serving>>
  PROVE  StageInv'
<1>1. DataOK'
  BY DEF StageInv, DataOK, progress, stream, NoResponse
<1>2. SizeOK'
  BY DEF StageInv, SizeOK, progress
<1>3. StoredOK'
  BY DEF StageInv, StoredOK, Slot, progress, job
<1>4. StreamOK'
  BY DEF StageInv, StreamOK, Streaming, Open, Listening, Slot, progress, job, stream
<1>5. AlignedOK'
  BY DEF StageInv, AlignedOK, Open, Listening, progress, stream
<1>6. ServeOK'
  BY DEF StageInv, ServeOK, Listening, progress, stream
<1> QED
  BY <1>1, <1>2, <1>3, <1>4, <1>5, <1>6 DEF StageInv

\* A retry gives up what the last sector holds, and closes the writer.
LEMMA ReconnectStage ==
  ASSUME StageInv, ota_in_progress, NEW count, NEW valid \in BOOLEAN,
         TriggerReconnect(count, ota_received_bytes, valid),
         response' \in {response, NoResponse},
         UNCHANGED <<ota_firmware_size, writer, job, flash, serving>>
  PROVE  StageInv'
<1>1. /\ ota_received_bytes \in Nat /\ ota_received_bytes <= MaxFirmware
      /\ ota_received_bytes <= ota_firmware_size /\ ota_firmware_size \in Nat
  BY SizesAre DEF StageInv, DataOK, SizeOK, Sane
<1>2. ota_received_bytes' \in 0 .. ota_received_bytes
  BY <1>1, RewoundIs DEF TriggerReconnect
<1>3. DataOK'
  <2>1. is_valid_binary' \in BOOLEAN
    BY DEF TriggerReconnect
  <2>2. ota_received_bytes' \in 0 .. MaxFirmware
    BY <1>1, <1>2, SizesAre
  <2> QED
    BY <2>1, <2>2, NoResponseIs DEF StageInv, DataOK
<1>4. SizeOK'
  BY <1>1, <1>2 DEF StageInv, SizeOK
<1>5. CASE ~ota_in_progress'
  BY <1>3, <1>4, <1>5, StageStopped
<1>6. CASE ota_in_progress'
  <2>1. /\ ota_retry_pending' /\ ~ota_continue_pending'
        /\ ota_received_bytes' = Rewound(ota_received_bytes)
    BY <1>6 DEF TriggerReconnect
  <2>2. ~Listening' /\ ~Open'
    BY <2>1 DEF Listening, Open
  <2>3. StoredOK'
    <3>1. \A c \in 0 .. ota_received_bytes' - 1 : c \in 0 .. ota_received_bytes - 1
      BY <1>1, <1>2, Shorter
    <3>2. \A c \in 0 .. ota_received_bytes - 1 :
            Slot[c].at = c /\ Slot[c].total = ota_firmware_size
      BY DEF StageInv, StoredOK, Holds
    <3>3. Slot' = Slot
      BY DEF Slot, job
    <3> QED
      BY <3>1, <3>2, <3>3 DEF StoredOK, Holds
  <2>4. AlignedOK'
    BY <1>1, <2>1, RewoundIs DEF AlignedOK
  <2> QED
    BY <1>3, <1>4, <2>2, <2>3, <2>4
       DEF StageInv, StreamOK, ServeOK, AskedOK, Streaming
<1> QED
  BY <1>5, <1>6

\* An attempt that keeps the writer goes on where it stands; one that does not
\* begins with a sector.
LEMMA AttemptStage ==
  ASSUME StageInv, ota_in_progress, NEW count, NEW valid \in BOOLEAN, NEW dns,
         Attempt(count, ota_received_bytes, valid, dns),
         valid => Open, ~valid => ota_received_bytes % SectorSize = 0,
         conn' # "open" \/ ~bound',
         \/ response' = NoResponse
         \/ Listening /\ valid = is_valid_binary /\ UNCHANGED response,
         UNCHANGED <<ota_firmware_size, writer, hash, job, flash, serving>>
  PROVE  StageInv'
<1>1. /\ UNCHANGED ota_received_bytes /\ is_valid_binary' = valid
      /\ ota_in_progress' /\ Listening' /\ (Open' <=> valid)
  BY DEF Attempt, Listening, Open
<1>2. DataOK'
  BY <1>1 DEF StageInv, DataOK, NoResponse
<1>3. SizeOK'
  BY <1>1 DEF StageInv, SizeOK
<1>4. StoredOK'
  BY <1>1 DEF StageInv, StoredOK, Slot, job
<1>5. StreamOK'
  BY <1>1 DEF StageInv, StreamOK, Streaming, Slot, job
<1>6. AlignedOK'
  BY <1>1 DEF AlignedOK
<1>7. ServeOK'
  BY <1>1 DEF StageInv, ServeOK
<1>8. AskedOK'
  BY DEF AskedOK
<1> QED
  BY <1>2, <1>3, <1>4, <1>5, <1>6, <1>7, <1>8 DEF StageInv

LEMMA LookUpStage ==
  ASSUME StageInv, ota_in_progress, NEW count, NEW valid \in BOOLEAN,
         \/ LookUp(count, ota_received_bytes, valid)
         \/ Connect(count, ota_received_bytes, valid),
         valid => Open, ~valid => ota_received_bytes % SectorSize = 0,
         \/ response' = NoResponse
         \/ Listening /\ valid = is_valid_binary /\ UNCHANGED response,
         UNCHANGED <<ota_firmware_size, writer, hash, job, flash, serving>>
  PROVE  StageInv'
<1>1. CASE TriggerReconnect(count, ota_received_bytes, valid)
  BY <1>1, ReconnectStage
<1>2. ASSUME NEW dns, Attempt(count, ota_received_bytes, valid, dns),
             conn' # "open" \/ ~bound'
      PROVE  StageInv'
  BY <1>2, AttemptStage
<1> QED
  BY <1>1, <1>2 DEF LookUp, Connect

LEMMA RetryStage ==
  StageInv /\ ota_in_progress /\ Retry /\ UNCHANGED <<response, serving>>
    => StageInv'
  BY ReconnectStage DEF Retry, StageInv, DataOK

LEMMA FailStage ==
  StageInv /\ FailUpdate /\ UNCHANGED <<progress, response, writer>>
    /\ serving' \in Replies \cup {NoReply} => StageInv'
<1> SUFFICES ASSUME StageInv, FailUpdate, UNCHANGED <<progress, response, writer>>,
                    serving' \in Replies \cup {NoReply}
             PROVE  StageInv'
  OBVIOUS
<1>1. DataOK' /\ SizeOK'
  BY DEF StageInv, DataOK, SizeOK, FailUpdate, progress
<1> QED
  BY <1>1, StageStopped DEF FailUpdate

LEMMA StartStage ==
  ASSUME StageInv, NEW c \in Checks, StartUpdate(c)
  PROVE  StageInv'
<1>1. /\ ota_firmware_size' = 0 /\ response' = NoResponse /\ ota_request_offset' = 0
      /\ UNCHANGED <<writer, serving>>
  BY DEF StartUpdate
<1>2. ota_received_bytes' = 0 /\ is_valid_binary' = FALSE
  <2>1. Rewound(0) = 0
    BY RewoundIs
  <2>2. LookUp(0, 0, FALSE) => ota_received_bytes' = 0 /\ is_valid_binary' = FALSE
    BY <2>1 DEF LookUp, Connect, Attempt, TriggerReconnect
  <2> QED
    BY <2>2 DEF StartUpdate, FailUpdate
<1>3. DataOK'
  <2>1. 0 \in 0 .. MaxFirmware
    BY SizesAre
  <2>2. response' \in [status : Nat, length : Nat, received : Nat, end : Nat,
                       total : Nat]
    BY <1>1, NoResponseIs
  <2> QED
    BY <1>1, <1>2, <2>1, <2>2 DEF StageInv, DataOK
<1>4. SizeOK' /\ ServeOK' /\ AskedOK'
  BY <1>1, <1>2 DEF SizeOK, ServeOK, AskedOK
<1> QED
  BY <1>2, <1>3, <1>4, StageAnew

LEMMA RebootStage ==
  ASSUME NEW kept \in BOOLEAN, Reboot(kept)
  PROVE  StageInv'
<1>1. DataOK'
  <2>1. 0 \in 0 .. MaxFirmware
    BY SizesAre
  <2>2. response' \in [status : Nat, length : Nat, received : Nat, end : Nat,
                       total : Nat]
    BY NoResponseIs DEF Reboot
  <2>3. writer'.erased \in Nat
    BY DEF Reboot
  <2>4. /\ ota_received_bytes' = 0 /\ serving' = NoReply
        /\ is_valid_binary' = FALSE
    BY DEF Reboot
  <2> QED
    BY <2>1, <2>2, <2>3, <2>4 DEF DataOK
<1>2. SizeOK' /\ ServeOK' /\ AskedOK'
  BY DEF Reboot, SizeOK, ServeOK, AskedOK
<1> QED
  BY <1>1, <1>2, StageAnew DEF Reboot

LEMMA DnsStage == StageInv /\ DnsFound => StageInv'
<1> SUFFICES ASSUME StageInv, DnsFound PROVE StageInv'
  OBVIOUS
<1>1. UNCHANGED <<response, ota_request_offset, job, flash, serving>>
  BY DEF DnsFound, request
<1>2. CASE ~Listening
  <2>1. UNCHANGED <<control, progress, stream, conn, bound>>
    BY <1>2 DEF DnsFound
  <2>2. AskedOK'
    BY <1>1, <2>1 DEF StageInv, AskedOK, Listening, control, progress
  <2> QED
    BY <1>1, <2>1, <2>2, StageQuiet DEF control
<1>3. CASE Listening
  <2>1. /\ \/ Connect(ota_retry_count, ota_received_bytes, is_valid_binary)
           \/ TriggerReconnect(ota_retry_count, ota_received_bytes, is_valid_binary)
        /\ UNCHANGED <<ota_firmware_size, writer, hash>>
    BY <1>3 DEF DnsFound
  <2>2. is_valid_binary \in BOOLEAN /\ ota_in_progress
    BY <1>3 DEF StageInv, DataOK, Listening
  <2>3. /\ is_valid_binary => Open
        /\ ~is_valid_binary => ota_received_bytes % SectorSize = 0
    BY <1>3, <2>2 DEF StageInv, AlignedOK, Open
  <2> QED
    BY <1>1, <1>3, <2>1, <2>2, <2>3, LookUpStage, ReconnectStage
<1> QED
  BY <1>2, <1>3

LEMMA RetryTimerStage == StageInv /\ TimerArmed /\ RetryTimer => StageInv'
<1> SUFFICES ASSUME StageInv, TimerArmed, RetryTimer PROVE StageInv'
  OBVIOUS
<1>1. ota_in_progress /\ ota_retry_pending
  BY DEF RetryTimer, TimerArmed
<1>2. WriterKept \in BOOLEAN /\ (WriterKept <=> Open)
  BY <1>1 DEF WriterKept, Open, Listening, StageInv, DataOK
<1>3. ~WriterKept => ota_received_bytes % SectorSize = 0
  BY <1>1, <1>2 DEF StageInv, AlignedOK
<1> QED
  BY <1>1, <1>2, <1>3, LookUpStage DEF RetryTimer

LEMMA ConnectedStage == StageInv /\ Connected => StageInv'
<1> SUFFICES ASSUME StageInv, Connected PROVE StageInv'
  OBVIOUS
<1>1. CASE ~(Listening /\ bound)
  <2>1. AskedOK'
    BY <1>1 DEF Connected, AskedOK, Listening, control
  <2> QED
    BY <1>1, <2>1, StageQuiet DEF Connected, control, request
<1>2. CASE Listening /\ bound /\ Retry
  <2>1. response' \in {response, NoResponse} /\ is_valid_binary \in BOOLEAN
    BY <1>2 DEF Connected, StageInv, DataOK
  <2> QED
    BY <1>2, <2>1, ReconnectStage DEF Connected, Retry, Listening
<1>3. CASE Listening /\ bound /\ ~Retry
  <2>1. /\ ota_request_offset' = ota_received_bytes /\ response' = NoResponse
        /\ UNCHANGED <<ota_in_progress, ota_retry_pending, ota_continue_pending,
                       progress, stream, job, flash, serving>>
    BY <1>3 DEF Connected
  <2>2. AskedOK'
    BY <2>1 DEF AskedOK, progress
  <2> QED
    BY <2>1, <2>2, StageQuiet
<1> QED
  BY <1>1, <1>2, <1>3

\* Without a connection nothing is asked for.
LEMMA HungUpStage ==
  ASSUME StageInv, conn' = "none",
         UNCHANGED <<control, progress, request, stream, job, flash, serving>>
  PROVE  StageInv'
  BY StageQuiet DEF AskedOK, control, request

\* A 200 begins anew; a 206 goes on where the download stands.
LEMMA HeadersStage ==
  ASSUME StageInv, NEW r \in Replies, RecvHeaders(r)
  PROVE  StageInv'
<1>1. /\ Receiving /\ response = NoResponse /\ serving' = r
      /\ UNCHANGED <<writer, job, flash, bound>>
  BY DEF RecvHeaders
<1>2. /\ r.status \in Nat /\ r.length \in Nat /\ r.first \in Nat /\ r.last \in Nat
      /\ r.total \in Nat
      /\ r.status = 200 /\ r.length > 0 => r.first = 0 /\ r.total = r.length
  BY RepliesAssumption
<1>3. CASE ~HeadersFit(r)
  BY <1>1, <1>3, FailStage DEF RecvHeaders, request
<1>4. CASE HeadersFit(r) /\ r.status = 200
  <2>1. Restarted(r) /\ UNCHANGED control /\ Sane(r.length) /\ r.length > 0
    BY <1>4 DEF RecvHeaders, HeadersFit, RangeFits
  <2>2. response' = [status |-> 200, length |-> r.length, received |-> 0,
                     end |-> 0, total |-> 0]
    BY <2>1 DEF Restarted, NoResponse
  <2>3. DataOK'
    <3>1. /\ ota_received_bytes' = 0 /\ is_valid_binary' = FALSE
          /\ 0 \in 0 .. MaxFirmware /\ writer' = writer
      BY <1>1, <2>1, SizesAre DEF Restarted
    <3>2. response' \in [status : Nat, length : Nat, received : Nat, end : Nat,
                         total : Nat]
      BY <1>2, <2>2
    <3> QED
      BY <1>1, <3>1, <3>2 DEF StageInv, DataOK
  <2>4. SizeOK'
    BY <1>2, <2>1 DEF SizeOK, Restarted
  <2>5. ServeOK'
    <3>1. /\ response'.received = 0 /\ ota_received_bytes' = 0
          /\ ota_firmware_size' = r.length /\ serving' = r
      <4>1. response'.received = 0
        BY <2>2
      <4> QED
        BY <1>1, <2>1, <4>1 DEF Restarted
    <3>2. r.first = 0 /\ r.total = r.length
      BY <1>2, <1>4, <2>1
    <3> QED
      BY <3>1, <3>2 DEF ServeOK
  <2>6. AskedOK'
    BY <2>1 DEF AskedOK, Restarted
  <2> QED
    BY <2>1, <2>3, <2>4, <2>5, <2>6, StageAnew DEF Restarted
<1>5. CASE HeadersFit(r) /\ r.status # 200
  <2>1. Ranged(r) /\ UNCHANGED control /\ RangeFits(r)
    BY <1>5 DEF RecvHeaders, HeadersFit
  <2>2. /\ r.first = ota_received_bytes /\ r.first < r.total /\ Sane(r.total)
        /\ ota_firmware_size \in {0, r.total} /\ ota_firmware_size' = r.total
    <3>1. ota_request_offset = ota_received_bytes
      BY <1>1 DEF StageInv, AskedOK, Receiving
    <3> QED
      BY <1>2, <2>1, <3>1 DEF RangeFits, Ranged
  <2>3. /\ UNCHANGED <<ota_received_bytes, is_valid_binary, hash>>
        /\ response' = [status |-> 206, length |-> r.length, received |-> 0,
                        end |-> r.last, total |-> r.total]
    BY <2>1 DEF Ranged
  <2>4. DataOK'
    BY <1>1, <1>2, <2>3 DEF StageInv, DataOK
  <2>5. SizeOK'
    BY <1>2, <2>2, <2>3 DEF SizeOK
  <2>6. StoredOK'
    <3>1. ota_received_bytes \in Nat
      BY DEF StageInv, DataOK
    <3>2. CASE ota_firmware_size = 0
      <4>1. ota_received_bytes = 0
        BY <3>1, <3>2 DEF StageInv, SizeOK
      <4> QED
        BY <2>3, <4>1 DEF StoredOK, Holds
    <3>3. CASE ota_firmware_size = r.total
      BY <1>1, <2>1, <2>2, <2>3, <3>3 DEF StageInv, StoredOK, Slot, job, control
    <3> QED
      BY <2>2, <3>2, <3>3
  <2>7. StreamOK'
    BY <1>1, <2>1, <2>3
       DEF StageInv, StreamOK, Streaming, Open, Listening, Slot, job, control
  <2>8. AlignedOK'
    BY <2>1, <2>3 DEF StageInv, AlignedOK, Open, Listening, control
  <2>9. ServeOK'
    BY <1>1, <1>2, <2>2, <2>3 DEF ServeOK
  <2>10. AskedOK'
    <3>1. response'.status = 206 /\ NoResponse.status = 0
      BY <2>3 DEF NoResponse
    <3> QED
      BY <3>1 DEF AskedOK
  <2> QED
    BY <2>4, <2>5, <2>6, <2>7, <2>8, <2>9, <2>10 DEF StageInv
<1> QED
  BY <1>3, <1>4, <1>5

LEMMA DisconnectedStage == StageInv /\ Disconnected => StageInv'
<1> SUFFICES ASSUME StageInv, Disconnected PROVE StageInv'
  OBVIOUS
<1>1. conn' = "none" /\ UNCHANGED <<response, ota_request_offset, serving>>
  BY DEF Disconnected, request
<1>2. CASE ~(Listening /\ bound)
  BY <1>1, <1>2, HungUpStage DEF Disconnected, request
<1>3. CASE Listening /\ Complete
  <2>1. UNCHANGED progress
    BY <1>3 DEF Complete
  <2>2. CASE FailUpdate /\ UNCHANGED writer
    BY <1>1, <2>1, <2>2, FailStage DEF StageInv, DataOK
  <2>3. CASE StageAndRestart
    <3>1. DataOK' /\ SizeOK' /\ ~ota_in_progress'
      BY <1>1, <2>1, <2>3
         DEF StageInv, DataOK, SizeOK, StageAndRestart, progress, stream
    <3> QED
      BY <3>1, StageStopped
  <2> QED
    BY <1>3, <2>2, <2>3 DEF Complete
<1>4. CASE Listening /\ ScheduleRangeContinue /\ UNCHANGED <<job, flash>>
  <2>1. /\ ~Listening' /\ (Open' <=> Open) /\ ota_in_progress' = ota_in_progress
        /\ UNCHANGED <<progress, stream, job, flash>>
    BY <1>4 DEF ScheduleRangeContinue, Listening, Open, stream
  <2>2. DataOK' /\ SizeOK'
    BY <1>1, <2>1 DEF StageInv, DataOK, SizeOK, progress, stream
  <2>3. StoredOK' /\ AlignedOK'
    BY <2>1 DEF StageInv, StoredOK, AlignedOK, Slot, progress, job
  <2>4. StreamOK'
    BY <2>1 DEF StageInv, StreamOK, Streaming, Slot, progress, stream, job
  <2> QED
    BY <2>1, <2>2, <2>3, <2>4 DEF StageInv, ServeOK, AskedOK
<1>5. CASE Listening /\ Retry
  BY <1>1, <1>5, RetryStage DEF Listening
<1> QED
  BY <1>2, <1>3, <1>4, <1>5 DEF Disconnected

\* Two functions on 1 .. m and 1 .. n, one after the other.
Joins(h, f, g, m, n) ==
  /\ \A i \in 1 .. m : h[i] = f[i]
  /\ \A i \in 1 .. n : h[m + i] = g[i]

LEMMA ConcatIs ==
  ASSUME NEW S, NEW m \in Nat, NEW n \in Nat, NEW f \in [1 .. m -> S],
         NEW g \in [1 .. n -> S], NEW h \in [1 .. m + n -> S],
         Joins(h, f, g, m, n)
  PROVE  f \o g = h
<1>1. f \in Seq(S) /\ Len(f) = m
  OBVIOUS
<1>2. g \in Seq(S) /\ Len(g) = n
  OBVIOUS
<1>3. h \in Seq(S) /\ Len(h) = m + n
  OBVIOUS
<1>4. f \o g \in Seq(S) /\ Len(f \o g) = m + n
  BY <1>1, <1>2, ConcatProperties
<1>5. ASSUME NEW i \in 1 .. m + n PROVE (f \o g)[i] = h[i]
  <2>1. (f \o g)[i] = IF i <= m THEN f[i] ELSE g[i - m]
    BY <1>1, <1>2, ConcatProperties
  <2>2. CASE i <= m
    BY <2>1, <2>2 DEF Joins
  <2>3. CASE ~(i <= m)
    <3>1. PICK k \in 1 .. n : i = m + k
      <4>1. i - m \in 1 .. n /\ i = m + (i - m)
        BY <2>3
      <4> QED
        BY <4>1
    <3>2. i - m = k
      BY <3>1
    <3> QED
      BY <2>1, <2>3, <3>1, <3>2 DEF Joins
  <2> QED
    BY <2>2, <2>3
<1> QED
  BY <1>3, <1>4, <1>5, SeqEqual

\* A slot and a writer that stands behind the first m of total chunks.
Ready(stored, m, total) ==
  /\ stored.writer.at = m /\ stored.writer.erased \in Nat
  /\ Holds(stored.slot, m, total)
  /\ BlankFrom(stored.slot, stored.writer.erased, m)
  /\ ErasedTo(stored.writer.erased, m)

\* The n chunks that come after the first m.
Following(data, m, n, total) ==
  /\ Len(data) = n /\ data = [k \in 1 .. n |-> data[k]]
  /\ \A k \in 1 .. n : data[k].at = m + k - 1 /\ data[k].total = total

\* What the writer holds when the data comes, however it was opened.
LEMMA OpenedIs ==
  ASSUME StageInv, Listening
  PROVE  /\ Ready(Opened, ota_received_bytes, ota_firmware_size)
         /\ check # NoCheck => Opened.hash = Fed(Opened.slot, ota_received_bytes)
<1>1. /\ ota_received_bytes \in Nat /\ ota_received_bytes <= MaxFirmware
      /\ writer.erased \in Nat /\ MaxFirmware \in Nat
      /\ Holds(Slot, ota_received_bytes, ota_firmware_size)
  BY SizesAre DEF StageInv, DataOK, StoredOK, Listening
<1>2. CASE is_valid_binary
  <2>1. Opened = [slot |-> Slot, writer |-> writer, hash |-> hash]
    BY <1>2 DEF Opened, Slot
  <2>2. /\ Opened.slot = Slot /\ Opened.writer = writer /\ Opened.hash = hash
    BY <2>1
  <2>3. Streaming
    BY <1>2 DEF Streaming, Open, Listening
  <2> QED
    BY <1>1, <2>2, <2>3 DEF StageInv, StreamOK, Ready
<1>3. CASE ~is_valid_binary
  <2> DEFINE m == ota_received_bytes
             slot == Erased(Slot, {Sector(m)})
  <2>1. /\ Opened.slot = slot /\ Opened.writer = [at |-> m, erased |-> Sector(m)]
        /\ Opened.hash = Rehashed(slot)
    <3>1. Opened = [slot |-> slot, writer |-> [at |-> m, erased |-> Sector(m)],
                    hash |-> Rehashed(slot)]
      BY <1>3 DEF Opened, Slot
    <3> QED
      BY <3>1
  <2>2. Opened.writer.at = m /\ Opened.writer.erased = Sector(m)
    BY <2>1
  <2>3. m % SectorSize = 0
    BY <1>3 DEF StageInv, AlignedOK, Open, Listening
  <2>4. \A c \in 0 .. m - 1 : c \in Nat /\ c \in Cells /\ c < m /\ c <= m
    BY <1>1 DEF Cells
  <2>5. \A c \in 0 .. m - 1 : Sector(c) < Sector(m) /\ Sector(c) <= Sector(m)
                              /\ Sector(c) \in Nat /\ Sector(c) # Sector(m)
    <3>1. Sector(m) \in Nat
      BY <1>1, SectorOf
    <3>2. ASSUME NEW c \in 0 .. m - 1 PROVE Sector(c) < Sector(m) /\ Sector(c) \in Nat
      BY <1>1, <2>3, <2>4, SectorBefore, SectorOf
    <3> QED
      BY <3>1, <3>2
  <2>6. \A c \in 0 .. m - 1 : slot[c] = Slot[c]
    BY <2>4, <2>5 DEF Erased
  <2>7. \A c \in Cells : c >= m /\ Sector(c) <= Sector(m) => slot[c] = Blank
    <3> SUFFICES ASSUME NEW c \in Cells, c >= m, Sector(c) <= Sector(m)
                 PROVE  slot[c] = Blank
      OBVIOUS
    <3>1. c \in Nat /\ m \in Nat /\ m <= c
      BY <1>1 DEF Cells
    <3>2. Sector(m) <= Sector(c) /\ Sector(m) \in Nat /\ Sector(c) \in Nat
      BY <3>1, SectorGrows, SectorOf
    <3>3. Sector(c) = Sector(m)
      BY <3>2
    <3> QED
      BY <3>3 DEF Erased
  <2>8. check # NoCheck => Opened.hash = Fed(Opened.slot, m)
    BY <2>1 DEF Rehashed, Fed
  <2>9. Sector(m) \in Nat
    BY <1>1, SectorOf
  <2>10. Holds(Opened.slot, m, ota_firmware_size)
    BY <1>1, <2>1, <2>6 DEF Holds
  <2>11. BlankFrom(Opened.slot, Opened.writer.erased, m)
    BY <2>1, <2>2, <2>7 DEF BlankFrom
  <2>12. ErasedTo(Opened.writer.erased, m)
    BY <2>2, <2>5 DEF ErasedTo
  <2> QED
    BY <2>2, <2>8, <2>9, <2>10, <2>11, <2>12 DEF Ready
<1> QED
  BY <1>2, <1>3 DEF StageInv, DataOK

\* Data written behind the writer is held as it is, and nothing else changes.
LEMMA WrittenIs ==
  ASSUME NEW opened, NEW m \in Nat, NEW n \in Nat \ {0}, m + n <= MaxFirmware,
         NEW total, Ready(opened, m, total),
         NEW data, Following(data, m, n, total)
  PROVE  /\ Ready(Written(opened, data), m + n, total)
         /\ Fed(opened.slot, m) \o data = Fed(Written(opened, data).slot, m + n)
<1> DEFINE done == Written(opened, data)
<1>0. /\ Len(data) = n /\ opened.writer.at = m /\ opened.writer.erased \in Nat
      /\ BlankFrom(opened.slot, opened.writer.erased, m)
      /\ ErasedTo(opened.writer.erased, m)
  BY DEF Ready, Following
<1>1. PICK last \in Nat : last = m + n - 1 /\ last + 1 = m + n /\ m <= last
  OBVIOUS
<1>2. PICK e \in Nat : e = opened.writer.erased
  BY <1>0
<1>3. PICK t \in Nat : t = Sector(last)
  BY SectorOf
<1> DEFINE slot == Erased(opened.slot, (e + 1) .. t)
           top == IF t > e THEN t ELSE e
           new == [c \in Cells |->
                     IF c \notin m .. last THEN slot[c]
                     ELSE IF slot[c] = Blank THEN data[c - m + 1] ELSE Garbled]
<1>4. done = [slot |-> new, writer |-> [at |-> last + 1, erased |-> top]]
  BY <1>0, <1>1, <1>2, <1>3 DEF Written
<1>5. done.slot = new /\ done.writer.at = m + n /\ done.writer.erased = top
  BY <1>1, <1>4
<1>6. top \in Nat /\ top >= t /\ top >= e /\ (top = t \/ top = e)
  OBVIOUS
<1>7. \A c \in Cells : c \in Nat /\ c \in 0 .. MaxFirmware - 1 /\ Sector(c) \in Nat
  <2>1. \A c \in Cells : c \in Nat /\ c \in 0 .. MaxFirmware - 1
    BY SizesAre DEF Cells
  <2> QED
    BY <2>1, SectorOf
<1>8. \A c \in Cells : slot[c] = IF Sector(c) \in (e + 1) .. t THEN Blank
                                 ELSE opened.slot[c]
  BY DEF Erased
<1>9. \A c \in Cells : new[c] = IF c \notin m .. last THEN slot[c]
                      ELSE IF slot[c] = Blank THEN data[c - m + 1] ELSE Garbled
  OBVIOUS
<1>10. /\ \A c \in Cells : c >= m /\ Sector(c) <= e => opened.slot[c] = Blank
       /\ \A c \in 0 .. m - 1 : Sector(c) <= e
  BY <1>0, <1>2 DEF BlankFrom, ErasedTo
<1>11. \A c \in 0 .. last : c \in Cells /\ c \in Nat /\ Sector(c) <= t
  <2>1. ASSUME NEW c \in 0 .. last PROVE c \in Cells /\ c \in Nat /\ c <= last
    BY <1>1, SizesAre DEF Cells
  <2> QED
    BY <1>3, <2>1, SectorGrows
<1> HIDE DEF slot, top, new, done
<1>12. \A c \in 0 .. m - 1 : new[c] = opened.slot[c]
  <2> SUFFICES ASSUME NEW c \in 0 .. m - 1 PROVE new[c] = opened.slot[c]
    OBVIOUS
  <2>1. c \in 0 .. last /\ c \notin m .. last /\ c \in Cells
    BY <1>1, <1>11
  <2>2. Sector(c) <= e /\ Sector(c) \in Nat
    BY <1>7, <1>10, <2>1
  <2> QED
    BY <1>8, <1>9, <2>1, <2>2
<1>13. \A c \in Cells : c >= m /\ Sector(c) <= top => slot[c] = Blank
  <2> SUFFICES ASSUME NEW c \in Cells, c >= m, Sector(c) <= top
               PROVE  slot[c] = Blank
    OBVIOUS
  <2>1. CASE Sector(c) <= e
    BY <1>8, <1>10, <2>1
  <2>2. CASE ~(Sector(c) <= e)
    <3>1. Sector(c) \in (e + 1) .. t
      BY <1>6, <1>7, <2>2
    <3> QED
      BY <1>8, <3>1
  <2> QED
    BY <2>1, <2>2
<1>14. \A k \in 1 .. n : new[m + k - 1] = data[k]
  <2> SUFFICES ASSUME NEW k \in 1 .. n PROVE new[m + k - 1] = data[k]
    OBVIOUS
  <2>1. PICK c \in 0 .. last : c = m + k - 1
    BY <1>1
  <2>2. c \in m .. last /\ c - m + 1 = k /\ c >= m
    BY <1>1, <2>1
  <2>3. c \in Cells /\ Sector(c) <= top
    BY <1>6, <1>7, <1>11
  <2>4. slot[c] = Blank
    BY <1>13, <2>2, <2>3
  <2> QED
    BY <1>9, <2>1, <2>2, <2>3, <2>4
<1>15. BlankFrom(new, top, m + n)
  <2> SUFFICES ASSUME NEW c \in Cells, c >= m + n, Sector(c) <= top
               PROVE  new[c] = Blank
    BY DEF BlankFrom
  <2>1. c >= m /\ c \notin m .. last
    BY <1>1, <1>7
  <2> QED
    BY <1>9, <1>13, <2>1
<1>16. ErasedTo(top, m + n)
  <2> SUFFICES ASSUME NEW c \in 0 .. m + n - 1 PROVE Sector(c) <= top
    BY DEF ErasedTo
  <2>1. c \in 0 .. last
    BY <1>1
  <2>2. Sector(c) <= t /\ Sector(c) \in Nat
    BY <1>7, <1>11, <2>1
  <2> QED
    BY <1>6, <2>2
<1>17. Holds(new, m + n, total)
  <2>1. ASSUME NEW c \in 0 .. m + n - 1
        PROVE  new[c].at = c /\ new[c].total = total
    <3>1. CASE c \in 0 .. m - 1
      BY <1>12, <3>1 DEF Ready, Holds
    <3>2. CASE c \notin 0 .. m - 1
      <4>1. PICK k \in 1 .. n : c = m + k - 1
        <5>1. c - m + 1 \in 1 .. n /\ c = m + (c - m + 1) - 1
          BY <3>2
        <5> QED
          BY <5>1
      <4> QED
        BY <1>14, <4>1 DEF Following
    <3> QED
      BY <3>1, <3>2
  <2> QED
    BY <2>1 DEF Holds
<1>18. Fed(opened.slot, m) \o data = Fed(new, m + n)
  <2> DEFINE f == Fed(opened.slot, m)
             h == Fed(new, m + n)
             S == {f[i] : i \in 1 .. m} \cup {data[k] : k \in 1 .. n}
  <2>1. \A i \in 1 .. m : f[i] = opened.slot[i - 1]
    BY DEF Fed
  <2>2. \A i \in 1 .. m + n : h[i] = new[i - 1]
    BY DEF Fed
  <2>3. f = [i \in 1 .. m |-> f[i]]
    BY DEF Fed
  <2>4. h = [i \in 1 .. m + n |-> h[i]]
    BY DEF Fed
  <2>5. data = [k \in 1 .. n |-> data[k]]
    BY DEF Following
  <2> HIDE DEF f, h
  <2>6. \A i \in 1 .. m : h[i] = f[i]
    <3>1. \A i \in 1 .. m : i \in 1 .. m + n /\ i - 1 \in 0 .. m - 1
      OBVIOUS
    <3> QED
      BY <1>12, <2>1, <2>2, <3>1
  <2>7. \A k \in 1 .. n : h[m + k] = data[k]
    <3>1. \A k \in 1 .. n : m + k \in 1 .. m + n
      OBVIOUS
    <3> QED
      BY <1>14, <2>2, <3>1
  <2>8. \A i \in 1 .. m + n : h[i] \in S
    <3>1. \A i \in 1 .. m + n : i \in 1 .. m \/ \E k \in 1 .. n : i = m + k
      <4> SUFFICES ASSUME NEW i \in 1 .. m + n, i \notin 1 .. m
                   PROVE  \E k \in 1 .. n : i = m + k
        OBVIOUS
      <4>1. i - m \in 1 .. n /\ i = m + (i - m)
        OBVIOUS
      <4> QED
        BY <4>1
    <3> QED
      BY <2>6, <2>7, <3>1
  <2>9. f \in [1 .. m -> S] /\ data \in [1 .. n -> S]
    BY <2>3, <2>5
  <2> HIDE DEF S
  <2>10. h \in [1 .. m + n -> S]
    BY <2>4, <2>8
  <2>11. f \o data = h
    <3>1. Joins(h, f, data, m, n) /\ n \in Nat
      BY <2>6, <2>7 DEF Joins
    <3> QED
      BY <2>9, <2>10, <3>1, ConcatIs
  <2> QED
    BY <2>11 DEF f, h
<1>19. Ready(done, m + n, total)
  BY <1>5, <1>6, <1>15, <1>16, <1>17 DEF Ready
<1> QED
  BY <1>5, <1>18, <1>19 DEF done

\* A part of the body is written where it belongs and hashed as it is written.
LEMMA BodyStage ==
  ASSUME StageInv, IInv, NEW n \in 1 .. PacketMax, RecvBody(n)
  PROVE  StageInv'
<1> DEFINE m == ota_received_bytes
           data == Body(n)
           done == Written(Opened, data)
<1>1. /\ Receiving /\ Listening /\ ota_in_progress /\ response.length > 0
      /\ UNCHANGED <<job, serving, ota_firmware_size>>
  BY DEF RecvBody, Receiving, Listening, progress
<1>2. CASE TooLarge(n) \/ BadMagic \/ FailUpdate
  <2>1. FailUpdate /\ UNCHANGED <<progress, response, writer>>
    BY <1>1, <1>2 DEF RecvBody, request, FailUpdate, control
  <2> QED
    BY <1>1, <2>1, FailStage DEF StageInv, DataOK
<1>3. CASE ~(TooLarge(n) \/ BadMagic \/ FailUpdate)
  <2>1. /\ is_valid_binary' = TRUE /\ writer' = done.writer
        /\ hash' = IF check = NoCheck THEN hash ELSE Opened.hash \o data
        /\ flash' = [flash EXCEPT ![ota_target_rom] = done.slot]
        /\ ota_received_bytes' = m + n
        /\ response' = [response EXCEPT !.received = @ + n]
        /\ UNCHANGED control
    BY <1>3 DEF RecvBody
  <2>2. /\ n \in Nat \ {0} /\ m \in Nat /\ MaxFirmware \in Nat
        /\ response.length \in Nat /\ response.received \in Nat
        /\ ota_firmware_size \in Nat
    BY SizesAre DEF StageInv, DataOK, SizeOK, Sane
  <2>3. m + n <= MaxFirmware /\ m + n <= ota_firmware_size
    BY <1>3, <2>2 DEF TooLarge
  <2>4. /\ serving.first + response.received = m
        /\ serving.total = ota_firmware_size
    BY <1>1 DEF StageInv, ServeOK, NoResponse
  <2>5. serving.first \in Nat
    BY RepliesAssumption DEF StageInv, DataOK, NoReply
  <2>6. Following(data, m, n, ota_firmware_size)
    <3>1. Len(data) = n /\ data = [k \in 1 .. n |-> data[k]]
      BY <2>2 DEF Body
    <3>2. \A k \in 1 .. n :
            data[k] = Chunk(serving.image, serving.first + response.received + k - 1,
                            serving.total)
      BY DEF Body
    <3>3. \A x, y, z : Chunk(x, y, z).at = y /\ Chunk(x, y, z).total = z
      BY DEF Chunk
    <3> QED
      BY <2>4, <3>1, <3>2, <3>3 DEF Following
  <2>7. /\ Ready(Opened, m, ota_firmware_size)
        /\ check # NoCheck => Opened.hash = Fed(Opened.slot, m)
    BY <1>1, OpenedIs
  <2>8. /\ Ready(done, m + n, ota_firmware_size)
        /\ Fed(Opened.slot, m) \o data = Fed(done.slot, m + n)
    <3> HIDE DEF data
    <3> QED
      BY <2>2, <2>3, <2>6, <2>7, WrittenIs
  <2> HIDE DEF data, done
  <2>9. Slot' = done.slot
    <3>1. ota_target_rom \in DOMAIN flash /\ ota_target_rom' = ota_target_rom
      BY <1>1 DEF IInv, SlotsApart, job
    <3> QED
      BY <2>1, <3>1 DEF Slot
  <2>10. /\ done.writer.at = m + n /\ done.writer.erased \in Nat
         /\ Holds(done.slot, m + n, ota_firmware_size)
         /\ BlankFrom(done.slot, done.writer.erased, m + n)
         /\ ErasedTo(done.writer.erased, m + n)
    BY <2>8 DEF Ready
  <2>11. check # NoCheck => hash' = Fed(done.slot, m + n)
    BY <2>1, <2>7, <2>8
  <2>12. response'.length > 0 /\ response'.received = response.received + n
         /\ response' \in [status : Nat, length : Nat, received : Nat, end : Nat,
                           total : Nat]
    BY <1>1, <2>1, <2>2 DEF StageInv, DataOK
  <2>13. Listening' /\ Open' /\ Streaming'
    BY <1>1, <2>1 DEF Listening, Open, Streaming, control
  <2>14. DataOK'
    <3>1. ota_received_bytes' \in 0 .. MaxFirmware
      BY <2>1, <2>2, <2>3
    <3> QED
      BY <1>1, <2>1, <2>10, <2>12, <3>1 DEF StageInv, DataOK
  <2>15. SizeOK'
    BY <1>1, <2>1, <2>3 DEF StageInv, SizeOK
  <2>16. StoredOK'
    BY <1>1, <2>1, <2>9, <2>10 DEF StoredOK
  <2>17. StreamOK'
    BY <1>1, <2>1, <2>9, <2>10, <2>11 DEF StreamOK, job
  <2>18. AlignedOK'
    BY <2>13 DEF AlignedOK
  <2>19. ServeOK'
    <3>1. serving'.first + response'.received = ota_received_bytes'
      BY <1>1, <2>1, <2>2, <2>4, <2>5, <2>12
    <3> QED
      BY <1>1, <2>1, <2>4, <3>1 DEF ServeOK
  <2>20. AskedOK'
    BY <2>12 DEF AskedOK, NoResponse
  <2> QED
    BY <2>14, <2>15, <2>16, <2>17, <2>18, <2>19, <2>20 DEF StageInv
<1> QED
  BY <1>2, <1>3

LEMMA StepStage ==
  StageInv /\ IInv /\ TimerArmed /\ [Next]_vars => StageInv'
<1> SUFFICES ASSUME StageInv, IInv, TimerArmed, [Next]_vars PROVE StageInv'
  OBVIOUS
<1>1. ASSUME NEW c \in Checks, StartUpdate(c) PROVE StageInv'
  BY <1>1, StartStage
<1>2. CASE Confirm
  <2>1. AskedOK'
    BY <1>2 DEF Confirm, StageInv, AskedOK, Listening, control, progress, request, net
  <2> QED
    BY <1>2, <2>1, StageQuiet DEF Confirm, control, request, net
<1>3. CASE DnsFound
  BY <1>3, DnsStage
<1>4. CASE RetryTimer
  BY <1>4, RetryTimerStage
<1>5. CASE TimeoutTimer
  BY <1>5, RetryStage DEF TimeoutTimer, Listening, request
<1>6. CASE Connected
  BY <1>6, ConnectedStage
<1>7. ASSUME NEW r \in Replies, RecvHeaders(r) PROVE StageInv'
  BY <1>7, HeadersStage
<1>8. ASSUME NEW n \in 1 .. PacketMax, RecvBody(n) PROVE StageInv'
  BY <1>8, BodyStage
<1>9. CASE ConnectionError
  BY <1>9, RetryStage, HungUpStage DEF ConnectionError, Listening, request
<1>10. CASE Disconnected
  BY <1>10, DisconnectedStage
<1>11. CASE Restart
  BY <1>11, RebootStage DEF Restart
<1>12. CASE CrashOrPowerCut
  BY <1>12, RebootStage DEF CrashOrPowerCut
<1>13. CASE UNCHANGED vars
  <2>1. AskedOK'
    BY <1>13 DEF vars, StageInv, AskedOK, Listening, control, progress, request, net
  <2> QED
    BY <1>13, <2>1, StageQuiet DEF vars, control, request, net
<1> QED
  BY <1>1, <1>2, <1>3, <1>4, <1>5, <1>6, <1>7, <1>8, <1>9, <1>10, <1>11, <1>12,
     <1>13 DEF Next

\* What StagesOnlyWhole asks of a step.
StagesWhole ==
  rtc'.next # NoRom /\ rtc.next = NoRom =>
    /\ Boots(flash[rtc'.next])
    /\ check # NoCheck =>
         \A i \in 1 .. ota_firmware_size : flash[rtc'.next][i - 1].of = check

\* Only the end of a download stages, and the whole slot was received by then.
LEMMA StageWhole == StageInv /\ IInv /\ Disconnected => StagesWhole
<1> SUFFICES ASSUME StageInv, IInv, Disconnected,
                    rtc'.next # NoRom, rtc.next = NoRom
             PROVE  /\ Boots(flash[rtc'.next])
                    /\ check # NoCheck =>
                         \A i \in 1 .. ota_firmware_size :
                           flash[rtc'.next][i - 1].of = check
  BY DEF StagesWhole
<1>1. Listening /\ bound /\ Finished /\ Complete
  BY DEF Disconnected, boot, Retry
<1>2. DigestMatches /\ StageAndRestart
  BY <1>1 DEF Complete, boot
<1>3. rtc'.next = ota_target_rom
  BY <1>2 DEF StageAndRestart, IInv, SlotsApart, RtcData
<1>4. /\ ota_received_bytes = ota_firmware_size /\ Streaming /\ ota_in_progress
      /\ ota_firmware_size > 0
  BY <1>1 DEF Finished, Streaming, Open, Listening
<1>5. /\ Sane(ota_firmware_size) /\ ota_firmware_size \in Nat
      /\ ota_firmware_size <= MaxFirmware
      /\ Holds(Slot, ota_firmware_size, ota_firmware_size)
      /\ check # NoCheck => hash = Fed(Slot, ota_firmware_size)
  BY <1>4, SizesAre DEF StageInv, SizeOK, Sane, StoredOK, StreamOK
<1>6. Boots(Slot)
  BY <1>5 DEF Boots, Holds, Sane
<1>7. ASSUME check # NoCheck, NEW i \in 1 .. ota_firmware_size
      PROVE  Slot[i - 1].of = check
  <2>1. PICK k \in 1 .. MaxFirmware : hash = [j \in 1 .. k |-> Chunk(check, j - 1, k)]
    BY <1>2, <1>7 DEF DigestMatches
  <2>2. hash = [j \in 1 .. ota_firmware_size |-> Slot[j - 1]]
    BY <1>5, <1>7 DEF Fed
  <2>3. i \in DOMAIN hash /\ hash[i] = Slot[i - 1]
    BY <2>2
  <2>4. hash[i] = Chunk(check, i - 1, k)
    BY <2>1, <2>3
  <2> QED
    BY <2>3, <2>4 DEF Chunk
<1> QED
  BY <1>3, <1>6, <1>7 DEF Slot

\* No other step stages.
LEMMA StepStages == StageInv /\ IInv /\ [Next]_vars => StagesWhole
<1> SUFFICES ASSUME StageInv, IInv, [Next]_vars PROVE StagesWhole
  OBVIOUS
<1>1. CASE UNCHANGED rtc \/ rtc'.next = NoRom
  BY <1>1 DEF StagesWhole
<1>2. CASE Disconnected
  BY <1>2, StageWhole
<1>3. ASSUME NEW kept \in BOOLEAN, Reboot(kept) PROVE rtc'.next = NoRom
  BY <1>3 DEF Reboot
<1>4. ASSUME NEW c \in Checks, StartUpdate(c) PROVE UNCHANGED rtc
  BY <1>4 DEF StartUpdate, boot
<1>5. ASSUME NEW r \in Replies, RecvHeaders(r) PROVE UNCHANGED rtc
  BY <1>5 DEF RecvHeaders, boot
<1>6. ASSUME NEW n \in 1 .. PacketMax, RecvBody(n) PROVE UNCHANGED rtc
  BY <1>6 DEF RecvBody, boot
<1>7. CASE Confirm
  BY <1>1, <1>7 DEF Confirm
<1>8. CASE DnsFound
  BY <1>1, <1>8 DEF DnsFound, boot
<1>9. CASE RetryTimer
  BY <1>1, <1>9 DEF RetryTimer, boot
<1>10. CASE TimeoutTimer
  BY <1>1, <1>10 DEF TimeoutTimer, Retry, boot
<1>11. CASE Connected
  BY <1>1, <1>11 DEF Connected, Retry, boot
<1>12. CASE ConnectionError
  BY <1>1, <1>12 DEF ConnectionError, Retry, boot
<1>13. CASE Restart
  BY <1>1, <1>3, <1>13 DEF Restart
<1>14. CASE CrashOrPowerCut
  BY <1>1, <1>3, <1>14 DEF CrashOrPowerCut
<1>15. CASE UNCHANGED vars
  BY <1>1, <1>15 DEF vars, boot
<1> QED
  BY <1>1, <1>2, <1>4, <1>5, <1>6, <1>7, <1>8, <1>9, <1>10, <1>11, <1>12, <1>13,
     <1>14, <1>15 DEF Next

LEMMA InitStage == Init => StageInv
<1> SUFFICES ASSUME Init PROVE StageInv
  OBVIOUS
<1>1. DataOK
  <2>1. 0 \in 0 .. MaxFirmware /\ writer.erased \in Nat
    BY SizesAre DEF Init
  <2>2. /\ ota_received_bytes = 0 /\ response = NoResponse /\ serving = NoReply
        /\ is_valid_binary = FALSE
    BY DEF Init
  <2> QED
    BY <2>1, <2>2, NoResponseIs DEF DataOK
<1>2. SizeOK
  BY DEF Init, SizeOK
<1> QED
  BY <1>1, <1>2 DEF Init, StageInv, StoredOK, StreamOK, AlignedOK, ServeOK, AskedOK,
                    Streaming, Listening

\* rboot_set_temp_rom is called for a slot that holds an image from the first
\* chunk to the last, every chunk of it from the image of the digest that was
\* given, whatever retries, ranges, late callbacks and restarts of the download
\* came before (ota.c, ota_tcp_recv_cb, ota_tcp_discon_cb).
THEOREM StagesCorrect == Spec => StagesOnlyWhole
<1>1. Init => TimerArmed
  BY DEF Init, TimerArmed
<1>2. StageInv /\ IInv /\ [Next]_vars => [StagesWhole]_vars
  BY StepStages
<1> QED
  BY <1>1, <1>2, InitStage, InitSafe, StepSafe, StepArmed, StepStage, PTL
     DEF Spec, StagesOnlyWhole, StagesWhole

-----------------------------------------------------------------------------
(* The trial of a new image *)

\* The staged image lies in the slot not running, and no image on trial staged it.
\* An image on trial has the committed one to fall back to, unless a commit failed
\* before it was downloaded.
StagedOK ==
  /\ rtc.next # NoRom => /\ rtc.mode = "standard" /\ rtc.next = Other(rtc.last)
                         /\ exposed <=> rom # rtc.last
  /\ rtc.mode = "temp" /\ ~exposed => rom # rtc.last

Staged == IF rtc.next = NoRom THEN {} ELSE {flash[rtc.next]}

SwitchInv == StageInv /\ IInv /\ StagedOK

\* A step that leaves the slots and the boot data alone leaves the switch alone.
LEMMA SameSwitch == UNCHANGED <<flash, rom, rtc, exposed>> => UNCHANGED Switch!vars
  BY DEF Switch!vars, Uncommitted

LEMMA AloofSwitch ==
  StagedOK /\ Aloof => StagedOK' /\ [Switch!Next]_(Switch!vars)
<1> SUFFICES ASSUME StagedOK, Aloof PROVE StagedOK' /\ UNCHANGED Switch!vars
  OBVIOUS
<1>1. UNCHANGED <<flash, rom, rtc, exposed>>
  BY DEF Aloof, boot
<1> QED
  BY <1>1, SameSwitch DEF StagedOK

\* What a download writes may be a part of what the download before it staged.
LEMMA BodySwitch ==
  ASSUME IInv, StagedOK, NEW n \in 1 .. PacketMax, RecvBody(n)
  PROVE  StagedOK' /\ [Switch!Next]_(Switch!vars)
<1>1. /\ ota_in_progress /\ UNCHANGED <<rom, rtc, exposed, ota_target_rom>>
      /\ rtc.mode = "standard" /\ (exposed <=> rom # rtc.last)
      /\ ota_target_rom = Other(rtc.last) /\ rom \in Slots /\ rtc.last \in Slots
  BY DEF RecvBody, Receiving, Listening, boot, job, IInv, SlotsApart, RtcData
<1>2. flash'[rtc.last] = flash[rtc.last]
  BY BodySafe
<1>3. StagedOK'
  BY <1>1 DEF StagedOK
<1>4. UNCHANGED <<rtc.mode = "temp", flash[rtc.last], exposed \/ Uncommitted>>
  BY <1>1, <1>2 DEF Uncommitted
<1>5. CASE exposed
  <2>1. rtc.next # NoRom => rtc.next = rom
    BY <1>1, <1>5 DEF StagedOK, Other, Slots
  <2>2. Staged' \in {Staged, {flash'[rom']}}
    BY <1>1, <2>1 DEF Staged
  <2>3. Switch!Overwrite
    BY <1>1, <1>4, <1>5, <2>2 DEF Switch!Overwrite, Staged
  <2> QED
    BY <1>3, <2>3 DEF Switch!Next
<1>6. CASE ~exposed
  <2>1. flash'[rom'] = flash[rom]
    BY <1>1, <1>2, <1>6
  <2>2. CASE rtc.next = NoRom
    BY <1>1, <1>3, <1>4, <2>1, <2>2 DEF Switch!vars
  <2>3. CASE rtc.next # NoRom
    <3>1. Staged = {flash[rtc.next]} /\ Staged' = {flash'[rtc.next]}
      BY <1>1, <2>3 DEF Staged
    <3>2. Switch!Spoil
      BY <1>1, <1>4, <2>1, <2>3, <3>1 DEF Switch!Spoil, Staged
    <3> QED
      BY <1>3, <3>2 DEF Switch!Next
  <2> QED
    BY <2>2, <2>3
<1> QED
  BY <1>5, <1>6 DEF IInv, SlotsApart

\* The end of a download stages the slot it wrote, which is whole.
LEMMA DisconnectedSwitch ==
  ASSUME SwitchInv, Disconnected
  PROVE  StagedOK' /\ [Switch!Next]_(Switch!vars)
<1> USE DEF SwitchInv
<1>1. UNCHANGED <<flash, rom, exposed>>
  BY DisconnectedSafe DEF Disconnected, Complete, StageAndRestart, Retry, boot
<1>2. CASE UNCHANGED rtc
  BY <1>1, <1>2, SameSwitch DEF StagedOK
<1>3. CASE ~UNCHANGED rtc
  <2>1. Listening /\ StageAndRestart
    BY <1>3 DEF Disconnected, Complete, Retry, boot
  <2>2. /\ rtc.mode = "standard" /\ ota_target_rom = Other(rtc.last)
        /\ ota_target_rom \in Slots /\ rtc \in RtcData
        /\ exposed <=> rom # rtc.last
    BY <2>1 DEF Listening, IInv, SlotsApart
  <2>3. /\ rtc' = [rtc EXCEPT !.next = ota_target_rom]
        /\ rtc'.next = ota_target_rom /\ rtc'.mode = rtc.mode /\ rtc'.last = rtc.last
    BY <2>1, <2>2 DEF StageAndRestart, RtcData
  <2>4. rtc'.next # NoRom
    BY <2>2, <2>3 DEF Slots, NoRom
  <2>5. rtc.next = NoRom
    <3>1. rtc.next # ota_target_rom
      BY <1>3, <2>2, <2>3 DEF RtcData
    <3> QED
      BY <2>2, <3>1 DEF StagedOK
  <2>6. Boots(flash[rtc'.next])
    BY <2>4, <2>5, StageWhole DEF StagesWhole
  <2>7. Switch!Stage
    BY <1>1, <2>2, <2>3, <2>4, <2>5, <2>6 DEF Switch!Stage, Uncommitted
  <2>8. StagedOK'
    BY <1>1, <2>2, <2>3 DEF StagedOK
  <2> QED
    BY <2>7, <2>8 DEF Switch!Next
<1> QED
  BY <1>2, <1>3

\* An update begun after a failed commit leaves the committed image unprotected;
\* one begun by the committed image protects it again.
LEMMA StartSwitch ==
  ASSUME IInv, StagedOK, NEW c \in Checks, StartUpdate(c)
  PROVE  StagedOK' /\ [Switch!Next]_(Switch!vars)
<1>1. /\ UNCHANGED <<flash, rom, rtc>> /\ rtc.mode = "standard"
      /\ UNCHANGED exposed \/ exposed' = (rom # rtc.last)
      /\ Boots(flash[rtc.last])
  BY DEF StartUpdate, TakesRpc, Confirmed, Uncommitted, IInv, SlotsApart, RtcData
<1>2. exposed \in BOOLEAN /\ exposed' \in BOOLEAN
  BY StartSafe DEF IInv, SlotsApart
<1>3. StagedOK'
  <2>1. rtc'.mode = "standard" /\ UNCHANGED <<rtc.next, rtc.last, rom>>
    BY <1>1
  <2>2. rtc.next # NoRom => exposed' = (rom # rtc.last)
    BY <1>1, <1>2 DEF StagedOK
  <2> QED
    BY <2>1, <2>2 DEF StagedOK
<1>4. CASE UNCHANGED exposed
  BY <1>1, <1>3, <1>4, SameSwitch
<1>5. CASE exposed /\ ~exposed'
  <2>1. rom = rtc.last
    BY <1>1, <1>5
  <2>2. Switch!Settle
    BY <1>1, <1>5, <2>1 DEF Switch!Settle, Uncommitted
  <2> QED
    BY <1>3, <2>2 DEF Switch!Next
<1>6. CASE ~exposed /\ exposed'
  <2>1. Uncommitted /\ Uncommitted'
    BY <1>1, <1>6 DEF Uncommitted
  <2> QED
    BY <1>1, <1>3, <2>1 DEF Switch!vars
<1> QED
  BY <1>2, <1>4, <1>5, <1>6

\* The image that asks for its confirmation runs; that it is on trial no more
\* does not mean that it is committed.
LEMMA ConfirmSwitch ==
  ASSUME IInv, StagedOK, Confirm
  PROVE  StagedOK' /\ [Switch!Next]_(Switch!vars)
<1>1. /\ UNCHANGED flash /\ Boots(flash[rtc.last])
      /\ rtc'.next = NoRom /\ rtc'.mode = "standard" /\ rtc'.last = rtc.last
      /\ rtc.mode = "temp" \/ rom # rtc.last
  BY DEF Confirm, TakesRpc
<1>2. StagedOK'
  BY <1>1 DEF StagedOK
<1>3. rtc.mode = "temp" \/ exposed \/ Uncommitted
  BY <1>1 DEF IInv, SlotsApart, RtcData, Uncommitted
<1>4. CASE rom' = rtc.last /\ exposed' = FALSE
  <2>1. Switch!Confirm
    BY <1>1, <1>3, <1>4 DEF Switch!Confirm, Uncommitted
  <2> QED
    BY <1>2, <2>1 DEF Switch!Next
<1>5. CASE UNCHANGED <<rom, exposed>>
  <2>1. exposed' \/ Uncommitted'
    BY <1>1, <1>5 DEF Uncommitted, StagedOK
  <2>2. Switch!LoseConfirmation
    BY <1>1, <1>3, <1>5, <2>1 DEF Switch!LoseConfirmation
  <2> QED
    BY <1>2, <2>2 DEF Switch!Next
<1> QED
  BY <1>4, <1>5 DEF Confirm

LEMMA RebootSwitch ==
  ASSUME IInv, StagedOK, NEW kept \in BOOLEAN, Reboot(kept)
  PROVE  StagedOK' /\ [Switch!Next]_(Switch!vars)
<1>1. UNCHANGED <<flash, rom, exposed>> /\ rtc'.next = NoRom
  BY DEF Reboot
<1>2. CASE rtc.next # NoRom /\ rtc'.mode = "temp" /\ rtc'.last = rtc.next
  <2>1. (exposed \/ Uncommitted) <=> exposed
    BY <1>2 DEF StagedOK, Uncommitted
  <2>2. ~exposed => rom # rtc.next
    BY <1>2, OtherSlot DEF StagedOK, IInv, SlotsApart, RtcData
  <2>3. StagedOK'
    BY <1>1, <1>2, <2>2 DEF StagedOK
  <2>4. Switch!Try
    BY <1>1, <1>2, <2>1 DEF Switch!Try, Uncommitted
  <2> QED
    BY <2>3, <2>4 DEF Switch!Next
<1>3. CASE rtc'.mode = "standard" /\ rtc'.last = rom
  <2>1. StagedOK'
    BY <1>1, <1>3 DEF StagedOK
  <2>2. Switch!FallBack
    BY <1>1, <1>3 DEF Switch!FallBack, Uncommitted, IInv, SlotsApart
  <2> QED
    BY <2>1, <2>2 DEF Switch!Next
<1> QED
  BY <1>2, <1>3 DEF Reboot

LEMMA StepSwitch ==
  SwitchInv /\ [Next]_vars => StagedOK' /\ [Switch!Next]_(Switch!vars)
<1> DEFINE Goal == StagedOK' /\ [Switch!Next]_(Switch!vars)
<1> SUFFICES ASSUME SwitchInv, [Next]_vars PROVE Goal
  OBVIOUS
<1>1. IInv /\ StagedOK /\ StageInv
  BY DEF SwitchInv
<1>2. Aloof => Goal
  BY <1>1, AloofSwitch
<1>3. \A kept \in BOOLEAN : Reboot(kept) => Goal
  BY <1>1, RebootSwitch
<1>4. ASSUME NEW c \in Checks, StartUpdate(c) PROVE Goal
  BY <1>1, <1>4, StartSwitch
<1>5. CASE Confirm
  BY <1>1, <1>5, ConfirmSwitch
<1>6. ASSUME NEW n \in 1 .. PacketMax, RecvBody(n) PROVE Goal
  BY <1>1, <1>6, BodySwitch
<1>7. CASE Disconnected
  BY <1>7, DisconnectedSwitch
<1>8. CASE UNCHANGED vars
  <2>1. Aloof
    BY <1>8 DEF vars, control, job, boot, Aloof
  <2> QED
    BY <1>2, <2>1
<1> HIDE DEF Goal
<1>9. CASE Restart \/ CrashOrPowerCut
  BY <1>3, <1>9 DEF Restart, CrashOrPowerCut
<1>10. CASE DnsFound \/ RetryTimer \/ TimeoutTimer \/ Connected \/ ConnectionError
  BY <1>2, <1>10, DnsAloof, RetryTimerAloof, TimeoutAloof, ConnectedAloof, ErrorAloof
<1>11. ASSUME NEW r \in Replies, RecvHeaders(r) PROVE Goal
  BY <1>2, <1>11, HeadersAloof
<1> QED
  BY <1>4, <1>5, <1>6, <1>7, <1>8, <1>9, <1>10, <1>11 DEF Next

LEMMA InitSwitch == Init => StagedOK /\ Switch!Init
<1> SUFFICES ASSUME Init PROVE StagedOK /\ Switch!Init
  OBVIOUS
<1>1. /\ rtc.next = NoRom /\ rtc.mode = "standard" /\ rtc.last = rom
      /\ exposed = FALSE
  BY DEF Init
<1>2. Boots(flash[rom])
  BY <1>1, InitSafe DEF IInv, CurrentBoots
<1> QED
  BY <1>1, <1>2 DEF StagedOK, Switch!Init, Uncommitted

\* Downloads, retries, late callbacks, confirmations, restarts and power cuts in
\* any order are the trial of a new image: what is staged is whole, it is booted
\* once, from then on every restart falls back to the image confirmed last, and
\* only the image that runs makes itself that one (ota.c, mqtt_rpc_ota_update).
\* The image confirmed last is written over only after a commit that failed.
THEOREM TrialBootCorrect == Spec => ImplementsTrialBoot
<1>1. Init => TimerArmed
  BY DEF Init, TimerArmed
<1>2. StageInv /\ IInv /\ StagedOK /\ [Next]_vars
        => StagedOK' /\ [Switch!Next]_(Switch!vars)
  BY StepSwitch DEF SwitchInv
<1> QED
  BY <1>1, <1>2, InitStage, InitSafe, InitSwitch, StepSafe, StepArmed, StepStage, PTL
     DEF Spec, ImplementsTrialBoot, Switch!Spec
=============================================================================
