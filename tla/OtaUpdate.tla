------------------------------- MODULE OtaUpdate -------------------------------
(***************************************************************************)
(* The firmware update: the HTTP download of user/ota.c into the other of   *)
(* two ROM slots, with its retries, ranges and running SHA-256, the RPC     *)
(* that starts and confirms it (user/mqtt_rpc.c), the deferred restart      *)
(* (user/utils.c), and what rBoot boots.  rBoot, espconn, the DNS client    *)
(* and the HTTP server are not in the repository: they are modelled from    *)
(* how ota.c calls them.                                                   *)
(*                                                                         *)
(* Firmware is counted in chunks.  A flash cell holds a chunk of an image,  *)
(* is Blank, or is Garbled: written twice without an erasure.  An armed     *)
(* timer may fire at any time.                                             *)
(***************************************************************************)
EXTENDS Naturals, Sequences, FiniteSets

CONSTANTS
  SectorSize,        \* chunks in an erasable sector
  MinFirmware, MaxFirmware,   \* MIN_FIRMWARE_SIZE, MAX_FIRMWARE_SIZE
  OtaMaxRetries,     \* OTA_MAX_RETRIES
  Replies,           \* the answers a server may give to a request
  Digests,           \* the images a SHA-256 can be asked for
  PacketMax,         \* chunks in a packet
  MaxUpdates,        \* bound: requests for an update
  MaxLookups,        \* bound: DNS lookups not yet answered
  MaxResets,         \* bound: crashes and power cuts
  MaxFaults          \* bound: failing calls of the flash, rBoot and espconn

ASSUME SizesAssumption ==
  /\ {SectorSize, MinFirmware, MaxFirmware, OtaMaxRetries, PacketMax}
       \subseteq Nat \ {0}
  /\ MinFirmware <= MaxFirmware
  /\ {MaxUpdates, MaxLookups, MaxResets, MaxFaults} \subseteq Nat

\* What the status line and the headers say (length 0 for a Content-Length that
\* is missing, doubled or not a number), the image the body is cut from, and
\* whether that image starts with an ESP magic byte.  A 200 answers with the
\* whole image, a 206 with the chunks first .. last of total.
ASSUME RepliesAssumption ==
  /\ Replies \subseteq [status : Nat, length : Nat, first : Nat, last : Nat,
                        total : Nat, image : STRING, magic : BOOLEAN]
  /\ \A r \in Replies : r.status = 200 /\ r.length > 0
                          => r.first = 0 /\ r.total = r.length

Slots   == {0, 1}
Other(slot) == 1 - slot
Factory == "factory"
NoRom   == 2

Blank   == [of |-> "blank", at |-> 0, total |-> 0]
Garbled == [of |-> "garbled", at |-> 0, total |-> 0]
Chunk(image, at, total) == [of |-> image, at |-> at, total |-> total]

Cells == 0 .. MaxFirmware - 1
Sector(cell) == cell \div SectorSize
Erased(slot, sectors) ==
  [c \in Cells |-> IF Sector(c) \in sectors THEN Blank ELSE slot[c]]

\* No digest was given; only the digest of the other slot's image was.
NoCheck    == "none"
OtherCheck == "other"
Checks     == Digests \cup {NoCheck, OtherCheck}

VARIABLES
  ota_in_progress, ota_retry_pending, ota_continue_pending, ota_dns_pending,
  ota_retry_count,
  timers,              \* the armed ones of ota_timeout_timer, ota_retry_timer
  ota_firmware_size,   \* 0 while ota_firmware_size_known is false
  ota_received_bytes, ota_request_offset,
  response,            \* ota_response_*, and headers_parsed
  is_valid_binary,     \* the flash writer and the hash are open
  writer,              \* ota_status of rBoot: next cell, last sector erased
  check,               \* has_sha256_check_*, expected_sha256_*
  hash,                \* what ota_sha_ctx was fed
  ota_target_rom,
  flash,               \* the two ROM slots
  rom,                 \* rboot_config.current_rom
  rtc,                 \* rBoot's RTC data: staged temporary ROM, mode, running
  restarting,          \* system_restart_pending
  exposed,             \* history: the last update was begun over the ROM in rom
  scanning,            \* the Wi-Fi scanner is running (modules/wifi.c)
  conn, bound,         \* the connection; its callbacks are registered
  serving,             \* the reply the server is sending
  lookups,             \* DNS lookups not yet answered
  updates, resets, faults   \* counters for the bounds

control  == <<ota_in_progress, ota_retry_pending, ota_continue_pending,
              ota_dns_pending, ota_retry_count, timers>>
progress == <<ota_received_bytes, ota_firmware_size>>
request  == <<response, ota_request_offset>>
stream   == <<is_valid_binary, writer, hash>>
job      == <<check, ota_target_rom>>
boot     == <<rom, rtc, restarting, exposed>>
net      == <<conn, bound, serving, lookups>>
calls    == <<updates, resets>>
vars     == <<control, progress, request, stream, job, flash, boot, scanning,
              net, calls, faults>>

NoResponse == [status |-> 0, length |-> 0, received |-> 0, end |-> 0,
               total |-> 0]
NoReply == [status |-> 0, length |-> 0, first |-> 0, last |-> 0, total |-> 0,
            image |-> Factory, magic |-> TRUE]

\* Every callback but the retry timer's returns unless this holds.
Listening == ota_in_progress /\ ~ota_retry_pending

Fault == faults < MaxFaults /\ faults' = faults + 1

Init ==
  /\ ota_in_progress = FALSE /\ ota_retry_pending = FALSE
  /\ ota_continue_pending = FALSE /\ ota_dns_pending = FALSE
  /\ ota_retry_count = 0 /\ timers = {}
  /\ ota_received_bytes = 0 /\ ota_firmware_size = 0
  /\ response = NoResponse /\ ota_request_offset = 0
  /\ is_valid_binary = FALSE /\ writer = [at |-> 0, erased |-> 0] /\ hash = <<>>
  /\ check = NoCheck /\ ota_target_rom = 0
  /\ flash = [s \in Slots |-> [c \in Cells |->
                IF s = 0 /\ c < MinFirmware THEN Chunk(Factory, c, MinFirmware)
                                            ELSE Blank]]
  /\ rom = 0 /\ rtc = [next |-> NoRom, mode |-> "standard", last |-> 0]
  /\ restarting = FALSE /\ exposed = FALSE /\ scanning = TRUE
  /\ conn = "none" /\ bound = FALSE /\ serving = NoReply /\ lookups = 0
  /\ updates = 0 /\ resets = 0 /\ faults = 0

-----------------------------------------------------------------------------
(* Failing, retrying and continuing *)

\* ota_fail_update
FailUpdate ==
  /\ ota_in_progress' = FALSE /\ ota_retry_pending' = FALSE
  /\ ota_continue_pending' = FALSE /\ ota_dns_pending' = FALSE
  /\ timers' = {} /\ is_valid_binary' = FALSE /\ scanning' = TRUE

\* A mutation of Rewound: whole packets are trusted to be whole sectors.
RewoundNot(received) == received

\* The sector that may hold incomplete data starts here.
Rewound(received) == received - (received % SectorSize)

MayRetry(count) == count < OtaMaxRetries

\* A mutation of Counted: the retry is not counted.
CountedNot(count) == count

Counted(count) == count + 1

\* ota_trigger_reconnect, for an update that has made count retries and has
\* received so many chunks.
TriggerReconnect(count, received, valid) ==
  /\ ota_dns_pending' = FALSE /\ ota_continue_pending' = FALSE
  /\ IF MayRetry(count)
     THEN /\ ota_in_progress' = TRUE /\ ota_retry_pending' = TRUE
          /\ ota_retry_count' = Counted(count) /\ timers' = {"retry"}
          /\ ota_received_bytes' = Rewound(received) /\ is_valid_binary' = valid
     ELSE /\ ota_in_progress' = FALSE /\ ota_retry_pending' = FALSE
          /\ ota_retry_count' = count /\ timers' = {}
          /\ ota_received_bytes' = received /\ is_valid_binary' = FALSE

\* What a handler that calls it for the update in hand leaves alone.
Retry ==
  /\ TriggerReconnect(ota_retry_count, ota_received_bytes, is_valid_binary)
  /\ UNCHANGED <<ota_firmware_size, writer, hash, job, flash, boot, scanning>>

\* A mutation of ScheduleRangeContinue: the timer is set up, not armed.
ScheduleRangeContinueUnarmed ==
  /\ ota_dns_pending' = FALSE /\ ota_continue_pending' = TRUE
  /\ ota_retry_pending' = TRUE /\ timers' = {}
  /\ UNCHANGED <<ota_in_progress, ota_retry_count, progress, stream, scanning>>

\* ota_schedule_range_continue: no retry is spent and the writer stays open.
ScheduleRangeContinue ==
  /\ ota_dns_pending' = FALSE /\ ota_continue_pending' = TRUE
  /\ ota_retry_pending' = TRUE /\ timers' = {"retry"}
  /\ UNCHANGED <<ota_in_progress, ota_retry_count, progress, stream, scanning>>

-----------------------------------------------------------------------------
(* Looking up the server and connecting to it *)

Attempt(count, received, valid, dns) ==
  /\ ota_in_progress' = TRUE /\ ota_retry_pending' = FALSE
  /\ ota_continue_pending' = FALSE /\ ota_dns_pending' = dns
  /\ ota_retry_count' = count /\ timers' = {"timeout"}
  /\ ota_received_bytes' = received /\ is_valid_binary' = valid

\* ota_dns_found_cb with an address.  espconn_connect fails on its own account
\* or because the one static espconn still has a connection.
Connect(count, received, valid) ==
  /\ bound' = TRUE
  /\ \/ /\ conn = "none" /\ conn' = "connecting"
        /\ Attempt(count, received, valid, FALSE)
        /\ UNCHANGED faults
     \/ /\ TriggerReconnect(count, received, valid)
        /\ UNCHANGED conn
        /\ IF conn = "none" THEN Fault ELSE UNCHANGED faults

\* The connection is built anew, the timeout armed, and dns_gethostbyname
\* called: its answer is to come, is there at once, or cannot be asked for.
LookUp(count, received, valid) ==
  \/ /\ lookups < MaxLookups /\ lookups' = lookups + 1
     /\ Attempt(count, received, valid, TRUE)
     /\ bound' = FALSE /\ UNCHANGED <<conn, faults>>
  \/ Connect(count, received, valid) /\ UNCHANGED lookups
  \/ /\ TriggerReconnect(count, received, valid) /\ Fault
     /\ bound' = FALSE /\ UNCHANGED <<conn, lookups>>

\* ota_dns_found_cb, from the lookup in hand or from an earlier one.
DnsFound ==
  /\ lookups > 0 /\ lookups' = lookups - 1
  /\ IF ~Listening
     THEN UNCHANGED <<control, progress, stream, scanning, conn, bound, faults>>
     ELSE /\ \/ Connect(ota_retry_count, ota_received_bytes, is_valid_binary)
             \/ /\ TriggerReconnect(ota_retry_count, ota_received_bytes,
                                    is_valid_binary)
                /\ UNCHANGED <<conn, bound, faults>>
          /\ UNCHANGED <<ota_firmware_size, writer, hash, scanning>>
  /\ UNCHANGED <<request, job, flash, boot, serving, calls>>

\* A mutation of WriterKept: the writer survives a failed attempt.
WriterKeptAlways == is_valid_binary

\* Only a range that continues keeps the writer and the hash.
WriterKept == ota_continue_pending /\ is_valid_binary

\* ota_retry_timer_cb
RetryTimer ==
  /\ "retry" \in timers /\ ota_in_progress
  /\ response' = NoResponse
  /\ LookUp(ota_retry_count, ota_received_bytes, WriterKept)
  /\ UNCHANGED <<ota_firmware_size, ota_request_offset, writer, hash, job, flash,
                 boot, scanning, serving, calls>>

\* ota_timeout_timer_cb, which schedules the recovery itself.
TimeoutTimer ==
  /\ "timeout" \in timers /\ Listening
  /\ Retry
  /\ conn' = IF ota_dns_pending THEN conn ELSE "none"
  /\ UNCHANGED <<request, bound, serving, lookups, calls, faults>>

\* ota_tcp_connect_cb: the request asks for the image from the chunk after the
\* last one accepted.
Connected ==
  /\ conn = "connecting"
  /\ IF ~(Listening /\ bound)
     THEN /\ conn' = "open"
          /\ UNCHANGED <<control, progress, request, stream, job, flash, boot,
                         scanning, faults>>
     ELSE /\ ota_request_offset' = ota_received_bytes /\ response' = NoResponse
          /\ \/ /\ conn' = "open" /\ ota_dns_pending' = FALSE
                /\ UNCHANGED <<ota_in_progress, ota_retry_pending,
                               ota_continue_pending, ota_retry_count, timers,
                               progress, stream, job, flash, boot, scanning,
                               faults>>
             \/ conn' = "none" /\ Retry /\ Fault
  /\ UNCHANGED <<bound, serving, lookups, calls>>

-----------------------------------------------------------------------------
(* Receiving: ota_tcp_recv_cb.  A packet with the headers and a first part of
   the body is two in a row here; one that completes no header only arms the
   timeout again. *)

Receiving == conn = "open" /\ bound /\ Listening

Sane(size) == size \in MinFirmware .. MaxFirmware

\* The 206 describes exactly the range that was asked for.
RangeFits(r) ==
  /\ r.first = ota_request_offset /\ r.first <= r.last /\ r.last < r.total
  /\ Sane(r.total) /\ r.length = r.last - r.first + 1
  /\ ota_firmware_size \in {0, r.total}

HeadersFit(r) ==
  /\ r.length > 0
  /\ \/ r.status = 200 /\ Sane(r.length)
     \/ r.status = 206 /\ RangeFits(r)

\* A 200 restarts the download, the writer and the hash from chunk zero.
Restarted(r) ==
  /\ ota_received_bytes' = 0 /\ ota_request_offset' = 0
  /\ is_valid_binary' = FALSE /\ hash' = <<>>
  /\ ota_firmware_size' = r.length
  /\ response' = [NoResponse EXCEPT !.status = 200, !.length = r.length]

Ranged(r) ==
  /\ ota_firmware_size' = r.total
  /\ response' = [status |-> 206, length |-> r.length, received |-> 0,
                  end |-> r.last, total |-> r.total]
  /\ UNCHANGED <<ota_received_bytes, ota_request_offset, is_valid_binary, hash>>

RecvHeaders(r) ==
  /\ Receiving /\ response = NoResponse
  /\ serving' = r
  /\ IF HeadersFit(r)
     THEN /\ IF r.status = 200 THEN Restarted(r) ELSE Ranged(r)
          /\ UNCHANGED <<control, scanning, conn>>
     ELSE /\ FailUpdate /\ conn' = "none"
          /\ UNCHANGED <<ota_retry_count, progress, request, hash>>
  /\ UNCHANGED <<writer, job, flash, boot, bound, lookups, calls, faults>>

\* The n chunks of the body that come next.
Body(n) ==
  [k \in 1 .. n |->
     Chunk(serving.image, serving.first + response.received + k - 1,
           serving.total)]

TooLarge(n) ==
  \/ n > response.length - response.received
  \/ n > ota_firmware_size - ota_received_bytes
  \/ ota_received_bytes + n > MaxFirmware

BadMagic == ~is_valid_binary /\ ota_received_bytes = 0 /\ ~serving.magic

\* ota_rehash_flash
Rehashed(slot) ==
  IF check = NoCheck THEN hash
  ELSE [i \in 1 .. ota_received_bytes |-> slot[i - 1]]

\* The slot and the writer when the data is written: a writer not yet open
\* erases the sector it starts in and starts there (rboot_write_init).
Opened ==
  IF is_valid_binary
  THEN [slot |-> flash[ota_target_rom], writer |-> writer, hash |-> hash]
  ELSE LET slot == Erased(flash[ota_target_rom], {Sector(ota_received_bytes)}) IN
       [slot   |-> slot,
        writer |-> [at |-> ota_received_bytes,
                    erased |-> Sector(ota_received_bytes)],
        hash   |-> Rehashed(slot)]

\* rboot_write_flash: the sectors not yet erased are, then the data is written.
Written(opened, data) ==
  LET first == opened.writer.at
      last  == first + Len(data) - 1
      slot  == Erased(opened.slot, (opened.writer.erased + 1) .. Sector(last)) IN
  [slot   |-> [c \in Cells |->
                 IF c \notin first .. last THEN slot[c]
                 ELSE IF slot[c] = Blank THEN data[c - first + 1] ELSE Garbled],
   writer |-> [at |-> last + 1,
               erased |-> IF Sector(last) > opened.writer.erased
                          THEN Sector(last) ELSE opened.writer.erased]]

RecvBody(n) ==
  /\ Receiving /\ response.length > 0
  /\ IF TooLarge(n) \/ BadMagic
     THEN /\ FailUpdate /\ conn' = "none"
          /\ UNCHANGED <<ota_retry_count, progress, request, writer, hash, flash,
                         faults>>
     ELSE LET done == Written(Opened, Body(n)) IN
          \/ /\ is_valid_binary' = TRUE /\ writer' = done.writer
             /\ hash' = IF check = NoCheck THEN hash
                        ELSE Opened.hash \o Body(n)
             /\ flash' = [flash EXCEPT ![ota_target_rom] = done.slot]
             /\ ota_received_bytes' = ota_received_bytes + n
             /\ response' = [response EXCEPT !.received = @ + n]
             /\ UNCHANGED <<control, ota_firmware_size, ota_request_offset,
                            scanning, conn, faults>>
          \* The sector is not erased, the flash not read, the data not written.
          \/ /\ \E slot \in {flash[ota_target_rom], Opened.slot, done.slot} :
                  flash' = [flash EXCEPT ![ota_target_rom] = slot]
             /\ FailUpdate /\ conn' = "none" /\ Fault
             /\ UNCHANGED <<ota_retry_count, progress, request, writer, hash>>
  /\ UNCHANGED <<job, boot, bound, serving, lookups, calls>>

-----------------------------------------------------------------------------
(* The end of a connection *)

\* ota_tcp_recon_cb
ConnectionError ==
  /\ conn # "none" /\ conn' = "none"
  /\ IF Listening /\ bound THEN Retry
     ELSE UNCHANGED <<control, progress, stream, job, flash, boot, scanning>>
  /\ UNCHANGED <<request, bound, serving, lookups, calls, faults>>

WholeResponse == response.length > 0 /\ response.received = response.length

Finished ==
  /\ is_valid_binary /\ WholeResponse
  /\ ota_firmware_size > 0 /\ ota_received_bytes = ota_firmware_size

\* The digest of what was downloaded is the one given for the target slot.
DigestMatches ==
  \/ check = NoCheck
  \/ \E n \in 1 .. MaxFirmware :
       hash = [i \in 1 .. n |-> Chunk(check, i - 1, n)]

\* rboot_set_temp_rom, the lock released, system_restart_defered.
StageAndRestart ==
  /\ rtc' = [rtc EXCEPT !.next = ota_target_rom]
  /\ ota_in_progress' = FALSE /\ timers' = {} /\ restarting' = TRUE
  /\ scanning' = (scanning /\ restarting)
  /\ UNCHANGED <<ota_retry_pending, ota_continue_pending, ota_dns_pending,
                 ota_retry_count, stream, rom, exposed, faults>>

\* The download is whole: rboot_write_end and rboot_set_temp_rom may fail.
Complete ==
  /\ \/ DigestMatches /\ StageAndRestart
     \/ /\ FailUpdate
        /\ IF DigestMatches THEN Fault ELSE UNCHANGED faults
        /\ UNCHANGED <<ota_retry_count, writer, hash, boot>>
  /\ UNCHANGED <<progress, job, flash>>

\* A complete 206 for a part of the image: the next range is asked for.
MoreRanges ==
  /\ WholeResponse /\ response.status = 206
  /\ response.end + 1 < response.total
  /\ ota_received_bytes = response.end + 1
  /\ ota_received_bytes < ota_firmware_size

\* ota_tcp_discon_cb, after the server closed the connection.
Disconnected ==
  /\ conn = "open" /\ conn' = "none"
  /\ IF ~(Listening /\ bound)
     THEN UNCHANGED <<control, progress, stream, job, flash, boot, scanning,
                      faults>>
     ELSE IF Finished THEN Complete
     ELSE IF MoreRanges
     THEN ScheduleRangeContinue /\ UNCHANGED <<job, flash, boot, faults>>
     ELSE Retry /\ UNCHANGED faults
  /\ UNCHANGED <<request, bound, serving, lookups, calls>>

-----------------------------------------------------------------------------
(* Starting, confirming, rebooting *)

\* The slot holds an image from its first chunk to its last.
Boots(slot) ==
  \E n \in MinFirmware .. MaxFirmware :
    \A c \in 0 .. n - 1 : slot[c].at = c /\ slot[c].total = n

\* mqtt_data_cb takes calls, in a ROM that runs, while no update does.
TakesRpc == Boots(flash[rtc.last]) /\ ~ota_in_progress

\* A mutation of Confirmed: the guard is dropped.
ConfirmedAlways == TRUE

\* A ROM that has not passed its self-test is not to replace the other one.
Confirmed == rtc.mode # "temp"

\* A mutation of Target: the slots are swapped.
TargetSame == rtc.last

Target == Other(rtc.last)

\* A commit failed unnoticed: the device runs a ROM as if it were the one in rom.
Uncommitted == rtc.mode = "standard" /\ rom # rtc.last

\* mqtt_rpc_ota_update and start_ota_update.  The digests and the URL are
\* refused, or the download into the slot not running begins.
StartUpdate(c) ==
  /\ TakesRpc /\ Confirmed
  /\ updates < MaxUpdates /\ updates' = updates + 1
  /\ ota_firmware_size' = 0 /\ response' = NoResponse /\ ota_request_offset' = 0
  /\ \/ /\ FailUpdate /\ ota_retry_count' = 0 /\ ota_received_bytes' = 0
        /\ UNCHANGED <<job, hash, exposed, conn, bound, lookups, faults>>
     \/ /\ check' = c /\ ota_target_rom' = Target /\ hash' = <<>>
        /\ exposed' = Uncommitted
        /\ LookUp(0, 0, FALSE)
        /\ scanning' = FALSE
  /\ UNCHANGED <<writer, flash, rom, rtc, restarting, serving, resets>>

\* mqtt_rpc_ota_update with action=confirm.  Whether rboot_set_current_rom wrote
\* the configuration is not looked at: the RTC data leave the trial either way.
\* A call that fails is taken to leave the configuration as it was.
Confirm ==
  /\ TakesRpc
  /\ rtc.mode = "temp" \/ rom # rtc.last
  /\ \/ rom' = rtc.last /\ exposed' = FALSE /\ UNCHANGED faults
     \/ UNCHANGED <<rom, exposed>> /\ Fault
  /\ rtc' = [next |-> NoRom, mode |-> "standard", last |-> rtc.last]
  /\ UNCHANGED <<control, progress, request, stream, job, flash, restarting,
                 scanning, net, calls>>

\* rBoot boots the staged ROM once, if the RTC memory kept it, or the current.
Reboot(kept) ==
  /\ rtc' = IF kept /\ rtc.next # NoRom
            THEN [next |-> NoRom, mode |-> "temp", last |-> rtc.next]
            ELSE [next |-> NoRom, mode |-> "standard", last |-> rom]
  /\ ota_in_progress' = FALSE /\ ota_retry_pending' = FALSE
  /\ ota_continue_pending' = FALSE /\ ota_dns_pending' = FALSE
  /\ ota_retry_count' = 0 /\ timers' = {}
  /\ ota_received_bytes' = 0 /\ ota_firmware_size' = 0
  /\ response' = NoResponse /\ ota_request_offset' = 0
  /\ is_valid_binary' = FALSE /\ writer' = [at |-> 0, erased |-> 0]
  /\ hash' = <<>> /\ check' = NoCheck /\ ota_target_rom' = 0
  /\ restarting' = FALSE /\ scanning' = TRUE
  /\ conn' = "none" /\ bound' = FALSE /\ serving' = NoReply /\ lookups' = 0
  /\ UNCHANGED <<flash, rom, exposed>>

\* system_restart_defered_timer_func, or the hardware watchdog under a ROM that
\* does not run.
Restart ==
  /\ restarting \/ ~Boots(flash[rtc.last])
  /\ Reboot(TRUE) /\ UNCHANGED <<calls, faults>>

CrashOrPowerCut ==
  /\ resets < MaxResets /\ resets' = resets + 1
  /\ \E kept \in BOOLEAN : Reboot(kept)
  /\ UNCHANGED <<updates, faults>>

Next ==
  \/ \E c \in Checks : StartUpdate(c)
  \/ Confirm
  \/ DnsFound
  \/ RetryTimer
  \/ TimeoutTimer
  \/ Connected
  \/ \E r \in Replies : RecvHeaders(r)
  \/ \E n \in 1 .. PacketMax : RecvBody(n)
  \/ ConnectionError
  \/ Disconnected
  \/ Restart
  \/ CrashOrPowerCut

Spec == Init /\ [][Next]_vars

\* An armed timer fires, and a restart that is due happens.  Nothing is assumed
\* of the network and the server.
FairSpec == Spec /\ WF_vars(TimeoutTimer) /\ WF_vars(RetryTimer)
                 /\ WF_vars(Restart)
-----------------------------------------------------------------------------
(* Properties *)

CellValues == {Blank, Garbled} \cup
  {Chunk(r.image, at, r.total) : r \in Replies, at \in Cells} \cup
  {Chunk(Factory, at, MinFirmware) : at \in Cells}

\* The values every variable may have.
TypeOK ==
  /\ {ota_in_progress, ota_retry_pending, ota_continue_pending, ota_dns_pending,
      is_valid_binary, restarting, exposed, scanning, bound} \subseteq BOOLEAN
  /\ ota_retry_count \in 0 .. OtaMaxRetries /\ timers \subseteq {"timeout", "retry"}
  /\ ota_firmware_size \in 0 .. MaxFirmware
  /\ {ota_received_bytes, ota_request_offset, writer.at} \subseteq 0 .. MaxFirmware
  /\ response.received \in 0 .. response.length
  /\ check \in Checks /\ hash \in Seq(CellValues)
  /\ flash \in [Slots -> [Cells -> CellValues]]
  /\ {ota_target_rom, rom, rtc.last} \subseteq Slots
  /\ rtc.next \in Slots \cup {NoRom} /\ rtc.mode \in {"standard", "temp"}
  /\ conn \in {"none", "connecting", "open"} /\ serving \in Replies \cup {NoReply}
  /\ lookups \in 0 .. MaxLookups /\ updates \in 0 .. MaxUpdates
  /\ resets \in 0 .. MaxResets /\ faults \in 0 .. MaxFaults

\* A timer is always armed that moves a running update on: the retry timer when
\* a retry or the next range is due, else the inactivity timeout, through every
\* callback, also one that comes late or for an earlier connection.
TimerArmed ==
  ota_in_progress => timers = {IF ota_retry_pending THEN "retry" ELSE "timeout"}

\* Data about to be written belongs where the writer stands: after retries,
\* which rewind to a sector boundary, and ranges, which do not.
WriterInStep ==
  is_valid_binary /\ (Listening \/ ota_continue_pending)
    => writer.at = ota_received_bytes

\* The committed ROM can be booted at every moment, whatever was cut short, but
\* for one way to lose it: a commit that fails unnoticed and an update begun
\* after it, which takes the committed ROM for the other one.
CurrentBoots == ~exposed => Boots(flash[rom])

\* An update never erases or writes the slot the device runs from.
RunningSlotKept == [][flash'[rtc.last] = flash[rtc.last]]_vars

\* A ROM is staged for boot only when it is whole and, if a digest was given,
\* when it is the image with that digest and no mixture of answers.
StagesOnlyWhole ==
  [][rtc'.next # NoRom /\ rtc.next = NoRom =>
       /\ Boots(flash[rtc'.next])
       /\ check # NoCheck =>
            \A i \in 1 .. ota_firmware_size : flash[rtc'.next][i - 1].of = check]_vars

\* The ROM switch: what the two slots, rBoot's configuration and its RTC data
\* say, read as the images they stand for.
Switch == INSTANCE TrialBoot WITH
  Runs <- Boots, committed <- flash[rom], running <- flash[rtc.last],
  trial <- rtc.mode = "temp",
  lost <- exposed \/ Uncommitted,
  staged <- IF rtc.next = NoRom THEN {} ELSE {flash[rtc.next]}

\* Downloads, retries, crashes, confirmations and restarts in any order are the
\* trial of a new image: it is whole when it is staged, is booted once, and
\* replaces the old one only when it is confirmed by itself.  A confirmation may
\* be lost, and only then may the image to fall back to be written over.
ImplementsTrialBoot == Switch!Spec

\* Every update ends: it fails, or the device restarts.
UpdateEnds == ota_in_progress ~> ~ota_in_progress
=============================================================================
