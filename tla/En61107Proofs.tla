----------------------------- MODULE En61107Proofs -----------------------------
(***************************************************************************)
(* A read cycle of the MC66 is never without the timer that ends it, the    *)
(* application is told of a meter only with its serial number, and a sample *)
(* is of its own cycle: proofs for every size of the FIFO, every meter and  *)
(* any number of faults.                                                    *)
(***************************************************************************)
EXTENDS En61107Request, SequenceTheorems, WellFoundedInduction, TLAPS

\* The frames of a cycle after the data.
LateStates == {"INST_VALUES", "STANDARD_DATA_1", "STANDARD_DATA_2"}

\* The request's own state: a pause is between cycles, and the timer runs exactly
\* in a cycle and in a pause.
RequestOK ==
  /\ en61107_uart_state \in States
  /\ is_in_error_recovery \in BOOLEAN /\ error_backoff_count \in Nat
  /\ is_in_error_recovery => en61107_uart_state = "NONE"
  /\ timer # 0 <=> (en61107_uart_state # "NONE" \/ is_in_error_recovery)

\* A cycle gets past the data only with a serial number.
SerialOK ==
  /\ en61107_serial_set \in BOOLEAN
  /\ meter_is_ready_cb_called \/ en61107_uart_state \in LateStates => en61107_serial_set

IInv == RequestOK /\ SerialOK

-----------------------------------------------------------------------------
(* What the steps do to the request *)

LEMMA InitOK == Init => IInv
<1> SUFFICES ASSUME Init PROVE IInv
  OBVIOUS
<1>1. /\ en61107_uart_state = "NONE" /\ is_in_error_recovery = FALSE
      /\ error_backoff_count = 0 /\ timer = 0
      /\ en61107_serial_set = FALSE /\ meter_is_ready_cb_called = FALSE
  BY DEF Init
<1>2. RequestOK
  BY <1>1 DEF RequestOK, States
<1>3. SerialOK
  BY <1>1 DEF SerialOK, LateStates
<1> QED
  BY <1>2, <1>3 DEF IInv

\* A command is sent with the timer armed.
LEMMA SendArms ==
  ASSUME NEW state \in States \ {"NONE"}, NEW eod, NEW delay \in Nat \ {0}, NEW command,
         Send(state, eod, delay, command)
  PROVE  en61107_uart_state' = state /\ timer' # 0
  BY DEF Send

LEMMA BackoffPositive == \A n \in Nat : Backoff(n) # 0
<1> TAKE n \in Nat
<1>1. CASE n > 3
  BY <1>1 DEF Backoff
<1>2. CASE n \in {0, 1, 2, 3}
  BY <1>2 DEF Backoff
<1> QED
  BY <1>1, <1>2

LEMMA RequestSendOK == IInv /\ RequestSend => IInv'
<1> SUFFICES ASSUME IInv, RequestSend PROVE IInv'
  OBVIOUS
<1>1. en61107_uart_state' = "IDENT" /\ timer' # 0
  BY SendArms DEF RequestSend, SendIdent, States
<1>2. UNCHANGED <<is_in_error_recovery, error_backoff_count, result>> /\ ~is_in_error_recovery
  BY DEF RequestSend, MayRequest
<1>3. RequestOK'
  BY <1>1, <1>2 DEF IInv, RequestOK, States
<1>4. SerialOK'
  BY <1>1, <1>2 DEF IInv, SerialOK, LateStates, result
<1> QED
  BY <1>3, <1>4 DEF IInv

\* Whichever command a timeout repeats, its timer is armed, and the cycle does
\* not get further.
LEMMA RestartArms ==
  ASSUME IInv, RestartsAt, en61107_uart_state # "NONE"
  PROVE  /\ en61107_uart_state' \in States \ {"NONE"} /\ timer' # 0
         /\ en61107_uart_state' \in LateStates => en61107_uart_state \in LateStates
<1> USE DEF States, LateStates
<1>1. en61107_uart_state \in States
  BY DEF IInv, RequestOK
<1>2. CASE en61107_uart_state \in {"IDENT", "EN61107"}
  <2>1. SendIdent
    BY <1>2 DEF RestartsAt
  <2> QED
    BY <2>1, SendArms DEF SendIdent
<1>3. CASE en61107_uart_state = "INST_VALUES"
  <2>1. SendInstValues
    BY <1>3 DEF RestartsAt
  <2> QED
    BY <1>3, <2>1, SendArms DEF SendInstValues
<1>4. CASE en61107_uart_state = "STANDARD_DATA_1"
  <2>1. SendStandardData1
    BY <1>4 DEF RestartsAt
  <2> QED
    BY <1>4, <2>1, SendArms DEF SendStandardData1
<1>5. CASE en61107_uart_state = "STANDARD_DATA_2"
  <2>1. SendStandardData2
    BY <1>5 DEF RestartsAt
  <2> QED
    BY <1>5, <2>1, SendArms DEF SendStandardData2
<1> QED
  BY <1>1, <1>2, <1>3, <1>4, <1>5

LEMMA TimeoutOK == IInv /\ Timeout => IInv'
<1> SUFFICES ASSUME IInv, Timeout PROVE IInv'
  OBVIOUS
<1>1. timer # 0 /\ UNCHANGED result
  BY DEF Timeout
<1>2. CASE RecoveryOver
  <2>1. en61107_uart_state' = "IDENT" /\ timer' # 0
    BY <1>2, SendArms DEF RecoveryOver, SendIdent, States
  <2>2. is_in_error_recovery' = FALSE /\ UNCHANGED error_backoff_count
    BY <1>2 DEF RecoveryOver
  <2> QED
    BY <1>1, <2>1, <2>2 DEF IInv, RequestOK, SerialOK, States, LateStates, result
<1>3. CASE Retransmit
  <2>1. RestartsAt /\ ~is_in_error_recovery
        /\ UNCHANGED <<is_in_error_recovery, error_backoff_count>>
    BY <1>3 DEF Retransmit
  <2>2. en61107_uart_state # "NONE"
    BY <1>1, <2>1 DEF IInv, RequestOK
  <2>3. /\ en61107_uart_state' \in States \ {"NONE"} /\ timer' # 0
        /\ en61107_uart_state' \in LateStates => en61107_uart_state \in LateStates
    BY <2>1, <2>2, RestartArms
  <2>4. RequestOK'
    BY <2>1, <2>3 DEF IInv, RequestOK
  <2>5. SerialOK'
    BY <1>1, <2>3 DEF IInv, SerialOK, result
  <2> QED
    BY <2>4, <2>5 DEF IInv
<1>4. CASE GiveUp
  <2>1. /\ is_in_error_recovery' = TRUE /\ en61107_uart_state' = "NONE"
        /\ error_backoff_count' \in Nat
    BY <1>4 DEF GiveUp, Backoffs, IInv, RequestOK
  <2>2. timer' # 0
    BY <1>4, BackoffPositive DEF GiveUp, PauseTimer, IInv, RequestOK
  <2>3. RequestOK'
    BY <2>1, <2>2 DEF RequestOK, States
  <2>4. SerialOK'
    BY <1>1, <2>1 DEF IInv, SerialOK, LateStates, result
  <2> QED
    BY <2>3, <2>4 DEF IInv
<1> QED
  BY <1>2, <1>3, <1>4 DEF Timeout

LEMMA TaskOK == IInv /\ Task => IInv'
<1> SUFFICES ASSUME IInv, Task PROVE IInv'
  OBVIOUS
<1> USE DEF States, LateStates
<1>1. CASE TaskIdent
  <2>1. /\ en61107_uart_state' = "EN61107" /\ timer' # 0
        /\ UNCHANGED <<is_in_error_recovery, error_backoff_count, result>>
    BY <1>1, SendArms DEF TaskIdent, SendEn61107, Counters
  <2> QED
    BY <1>1, <2>1 DEF TaskIdent, IInv, RequestOK, SerialOK, result
<1>2. CASE TaskBadData
  BY <1>2 DEF TaskBadData, Counters, IInv, RequestOK, SerialOK, result
<1>3. CASE TaskNoSerial
  BY <1>3 DEF TaskNoSerial, IInv, RequestOK, SerialOK, request
<1>4. CASE TaskData
  <2>1. /\ en61107_uart_state' = "INST_VALUES" /\ timer' # 0
        /\ UNCHANGED <<is_in_error_recovery, error_backoff_count>>
    BY <1>4, SendArms DEF TaskData, SendInstValues, Counters
  <2>2. RequestOK'
    BY <1>4, <2>1 DEF TaskData, IInv, RequestOK
  <2>3. en61107_serial_set'
    BY <1>4, Zenon DEF TaskData, KnowsSerial
  <2>4. en61107_serial_set' \in BOOLEAN
    BY <1>4, Zenon DEF TaskData
  <2> QED
    BY <2>2, <2>3, <2>4 DEF IInv, SerialOK
<1>5. CASE TaskMore
  <2>1. UNCHANGED <<is_in_error_recovery, error_backoff_count, result>>
    BY <1>5 DEF TaskMore, Counters
  <2>2. en61107_uart_state \in LateStates
    BY <1>5 DEF TaskMore
  <2>3. en61107_uart_state' \in LateStates /\ timer' # 0
    BY <1>5, SendArms DEF TaskMore, SendStandardData1, SendStandardData2
  <2>4. RequestOK'
    BY <2>1, <2>2, <2>3 DEF IInv, RequestOK
  <2>5. SerialOK'
    BY <2>1, <2>2 DEF IInv, SerialOK, result
  <2> QED
    BY <2>4, <2>5 DEF IInv
<1>6. CASE TaskLast
  <2>1. RequestOK'
    BY <1>6 DEF TaskLast, IInv, RequestOK
  <2>2. SerialOK'
    BY <1>6 DEF TaskLast, IInv, SerialOK
  <2> QED
    BY <2>1, <2>2 DEF IInv
<1>7. CASE TaskIdle
  BY <1>7 DEF TaskIdle, IInv, RequestOK, SerialOK, request, result
<1> QED
  BY <1>1, <1>2, <1>3, <1>4, <1>5, <1>6, <1>7 DEF Task

LEMMA StepOK == IInv /\ [Next]_vars => IInv'
<1> SUFFICES ASSUME IInv, [Next]_vars PROVE IInv'
  OBVIOUS
<1>1. CASE UNCHANGED <<request, result>>
  BY <1>1 DEF IInv, RequestOK, SerialOK, request, result
<1>2. CASE RequestSend
  BY <1>2, RequestSendOK
<1>3. CASE Timeout
  BY <1>3, TimeoutOK
<1>4. CASE Task
  BY <1>4, TaskOK
<1>5. UartTimer \/ Receive \/ UNCHANGED vars => UNCHANGED <<request, result>>
  BY DEF UartTimer, Receive, vars
<1>6. MeterCounts \/ MeterAnswers \/ Plug \/ OtaBegins \/ OtaEnds
        => UNCHANGED <<request, result>>
  BY DEF MeterCounts, MeterAnswers, Plug, OtaBegins, OtaEnds, Meter
<1> QED
  BY <1>1, <1>2, <1>3, <1>4, <1>5, <1>6 DEF Next

LEMMA SpecOK == Spec => []IInv
  BY InitOK, StepOK, PTL DEF Spec

-----------------------------------------------------------------------------

\* A cycle that has begun, and a pause, always have a timer that ends them:
\* en61107_request_send refuses the next request as long as there is either.
THEOREM TimerCorrect == Spec => []TimerArmed
<1>1. IInv => TimerArmed
  BY DEF IInv, RequestOK, TimerArmed
<1> QED
  BY <1>1, SpecOK, PTL

\* The application is told that the meter is ready only with its serial number.
THEOREM ReadyCorrect == Spec => []ReadyHasSerial
<1>1. IInv => ReadyHasSerial
  BY DEF IInv, SerialOK, ReadyHasSerial
<1> QED
  BY <1>1, SpecOK, PTL

-----------------------------------------------------------------------------
(* What a frame that parses tells *)

\* A set of numbers that is not empty has a least one.
LEMMA LeastIs ==
  ASSUME NEW T \in SUBSET Nat, T # {}
  PROVE  Least(T) \in T /\ \A y \in T : Least(T) <= y
<1>1. \E n \in T : \A m \in T : ~(<<m, n>> \in OpToRel(<, Nat))
  BY WFMin, NatLessThanWellFounded
<1>2. \A n, m \in Nat : m < n => <<m, n>> \in OpToRel(<, Nat)
  BY DEF OpToRel
<1>3. \E n \in T : \A m \in T : ~(m < n)
  BY <1>1, <1>2, Zenon
<1>4. \E n \in T : \A m \in T : n <= m
  BY <1>3
<1> QED
  BY <1>4 DEF Least

\* And a bounded one has a greatest one.
LEMMA GreatestIs ==
  ASSUME NEW n \in Nat, NEW T \in SUBSET (0 .. n), T # {}
  PROVE  Greatest(T) \in T /\ \A y \in T : Greatest(T) >= y
<1> DEFINE U == {k \in 0 .. n : n - k \in T}
<1>1. U \in SUBSET Nat
  OBVIOUS
<1>2. PICK t \in T : TRUE
  OBVIOUS
<1>3. n - t \in U
  <2>1. t \in 0 .. n /\ n - t \in 0 .. n /\ n - (n - t) = t
    OBVIOUS
  <2> QED
    BY <2>1
<1>4. Least(U) \in U /\ \A y \in U : Least(U) <= y
  BY <1>1, <1>3, LeastIs
<1>5. \A y \in T : n - y \in U
  <2> TAKE y \in T
  <2>1. y \in 0 .. n /\ n - y \in 0 .. n /\ n - (n - y) = y
    OBVIOUS
  <2> QED
    BY <2>1
<1>6. PICK u \in 0 .. n : u = Least(U)
  BY <1>4
<1>7. n - u \in T /\ \A y \in T : n - u >= y
  BY <1>4, <1>5, <1>6
<1>8. \E x \in T : \A y \in T : x >= y
  BY <1>7
<1> QED
  BY <1>8 DEF Greatest

\* What the checksum of a frame that is right is taken over: the registers are the last
\* before the first ETX.
LEMMA SumIs ==
  ASSUME NEW f \in Seq(Chars), SumIsRight(f)
  PROVE  /\ f # <<>> /\ EnergyOf(f) \in 0 .. MaxEnergy
         /\ f[Len(f)] = <<"bcc", EnergyOf(f)>>
<1> DEFINE etx    == {i \in DOMAIN f : IsEtx(f[i])}
           before == {i \in Places(f, "stx") : i < FirstEtx(f)}
           g      == Greatest(before \cup {0})
           regs   == {i \in Places(f, "reg") \cup Places(f, "noserial") : i < FirstEtx(f)}
<1>1. PICK r \in {"reg", "noserial"}, e \in 0 .. MaxEnergy :
        Summed(f) = Body(r, e) /\ Last(f) = <<"bcc", e>>
  BY DEF SumIsRight
<1>2. Len(f) \in Nat /\ DOMAIN f = 1 .. Len(f)
  OBVIOUS
<1>3. FirstEtx(f) \in 1 .. Len(f)
  <2>1. etx \in SUBSET Nat /\ etx # {}
    BY <1>2 DEF SumIsRight
  <2> HIDE DEF etx
  <2>2. Least(etx) \in etx
    BY <2>1, LeastIs
  <2> QED
    BY <1>2, <2>2 DEF FirstEtx, etx
<1>4. g \in 0 .. Len(f)
  <2>1. before \cup {0} \in SUBSET (0 .. Len(f)) /\ before \cup {0} # {}
    BY <1>2 DEF Places
  <2> HIDE DEF before
  <2>2. Greatest(before \cup {0}) \in before \cup {0}
    BY <1>2, <2>1, GreatestIs
  <2> QED
    BY <2>1, <2>2
<1>5. Summed(f) = SubSeq(f, 1 + g, FirstEtx(f))
  BY DEF Summed
<1> HIDE DEF g
<1>6. PICK l \in 1 .. Len(f) : l = FirstEtx(f)
  BY <1>3
<1>7. SubSeq(f, 1 + g, l) = <<<<r, e>>, <<"cr", 0>>, <<"lf", 0>>, <<"etx", 0>>>>
  BY <1>1, <1>5, <1>6 DEF Body, Char
<1>8. l = g + 4
  <2>1. Len(SubSeq(f, 1 + g, l)) = 4
    <3>1. PICK a, b, c, d : SubSeq(f, 1 + g, l) = <<a, b, c, d>>
      BY <1>7
    <3>2. Len(<<a, b, c, d>>) = 4
      OBVIOUS
    <3> QED
      BY <3>1, <3>2
  <2>2. Len(SubSeq(f, 1 + g, l)) = IF 1 + g <= l THEN l - (1 + g) + 1 ELSE 0
    BY <1>2, <1>4, <1>6
  <2> QED
    BY <1>4, <1>6, <2>1, <2>2
<1>9. \A k \in 1 .. 4 : f[g + k] = <<<<r, e>>, <<"cr", 0>>, <<"lf", 0>>, <<"etx", 0>>>>[k]
  <2> TAKE k \in 1 .. 4
  <2>1. SubSeq(f, 1 + g, l)[k] = f[1 + g + k - 1]
    BY <1>2, <1>4, <1>6, <1>8
  <2>2. 1 + g + k - 1 = g + k
    BY <1>4
  <2> QED
    BY <1>7, <2>1, <2>2
<1>10. f[g + 1] = <<r, e>> /\ f[g + 2] = <<"cr", 0>> /\ f[g + 3] = <<"lf", 0>>
  BY <1>9
<1>11. Greatest(regs) = g + 1
  <2>1. g + 1 \in regs
    BY <1>2, <1>4, <1>6, <1>8, <1>10 DEF Places
  <2>2. \A i \in regs : i <= g + 1
    BY <1>2, <1>4, <1>6, <1>8, <1>10 DEF Places
  <2>3. regs \in SUBSET (0 .. Len(f))
    BY <1>2 DEF Places
  <2> HIDE DEF regs
  <2>4. Greatest(regs) \in regs /\ \A y \in regs : Greatest(regs) >= y
    BY <1>2, <2>1, <2>3, GreatestIs
  <2>5. PICK x \in regs : x = Greatest(regs)
    BY <2>4
  <2>6. x <= g + 1 /\ x >= g + 1 /\ x \in Nat
    <3>1. x <= g + 1
      BY <2>2
    <3>2. x >= g + 1
      BY <2>1, <2>4, <2>5
    <3>3. x \in Nat
      BY <1>2, <2>3
    <3> QED
      BY <3>1, <3>2, <3>3
  <2> QED
    BY <1>4, <2>5, <2>6
<1>12. EnergyOf(f) = e
  BY <1>10, <1>11 DEF EnergyOf
<1> QED
  BY <1>1, <1>2, <1>3, <1>12 DEF Last

\* A frame that parses has an STX that is not its first character.
LEMMA StxIs ==
  ASSUME NEW f \in Seq(Chars), HasMeterType(f)
  PROVE  \E j \in DOMAIN f : f[j][1] = "stx" /\ j # 1
<1> DEFINE stx == Places(f, "stx")
<1>1. DOMAIN f = 1 .. Len(f) /\ Len(f) \in Nat
  OBVIOUS
<1>2. stx \in SUBSET Nat /\ stx # {}
  BY <1>1 DEF HasMeterType, HasStx, Places
<1> HIDE DEF stx
<1>3. Least(stx) \in stx
  BY <1>2, LeastIs
<1>4. Least(stx) \in DOMAIN f /\ f[Least(stx)][1] = "stx"
  BY <1>3 DEF stx, Places
<1>5. Least(stx) # 1
  BY <1>1, <1>4 DEF HasMeterType, stx, Places
<1> QED
  BY <1>4, <1>5

-----------------------------------------------------------------------------
(* How old a sample is *)

\* A checksum that tells of the time before the cycle.
Old(c) == c[1] = "bcc" /\ c[2] < since

DataOK ==
  /\ fifo \in Seq(Chars) /\ wire \in Seq(Chars \X {300, 1200})
  /\ meter \in 0 .. MaxEnergy /\ since \in 0 .. meter /\ energy \in 0 .. MaxEnergy

\* An answer begins with its STX, if it has one.
WireInOrder == \A k \in DOMAIN wire : wire[k][1][1] = "stx" => k = 1

\* In front of an old checksum there is nothing but its own frame, in the FIFO as on
\* the line: it does not get a meter type.
OldFirst ==
  /\ \A i, j \in DOMAIN fifo : Old(fifo[i]) /\ j < i /\ fifo[j][1] = "stx" => j = 1
  /\ \A i \in DOMAIN wire : Old(wire[i][1]) =>
       /\ \A j \in DOMAIN fifo : fifo[j][1] = "stx" => j = 1
       /\ \A k \in DOMAIN wire : wire[k][1][1] = "stx" => fifo = <<>>

\* Past the data frame the energy is one of this cycle.
Taken == en61107_uart_state \in LateStates => energy >= since

FreshInv == DataOK /\ WireInOrder /\ OldFirst /\ Taken

\* The characters of the model.
LEMMA CharsAre ==
  /\ \A r \in {"text", "cr", "lf", "stx", "etx", "junk"} : Char(r) \in Chars
  /\ \A r \in {"reg", "noserial", "bcc"}, e \in 0 .. MaxEnergy : <<r, e>> \in Chars
  /\ \A c \in Chars : /\ Garbled(c) \in Chars
                      /\ Garbled(c) = c \/ Garbled(c)[1] = "junk"
  BY DEF Chars, Char, Garbled

\* A frame in one piece.
LEMMA SixTogether ==
  \A a, b, c, d, e, f : <<a>> \o <<b, c, d, e>> \o <<f>> = <<a, b, c, d, e, f>>
<1> TAKE a, b, c, d, e, f
<1> DEFINE S == {a, b, c, d, e, f}
           x == <<a>> \o <<b, c, d, e>>
           y == <<a, b, c, d, e, f>>
<1>1. /\ <<a>> \in Seq(S) /\ <<f>> \in Seq(S) /\ <<b, c, d, e>> \in Seq(S) /\ y \in Seq(S)
      /\ Len(<<a>>) = 1 /\ Len(<<f>>) = 1 /\ Len(<<b, c, d, e>>) = 4 /\ Len(y) = 6
  OBVIOUS
<1>2. /\ <<b, c, d, e>>[1] = b /\ <<b, c, d, e>>[2] = c /\ <<b, c, d, e>>[3] = d
      /\ <<b, c, d, e>>[4] = e /\ <<a>>[1] = a /\ <<f>>[1] = f
  OBVIOUS
<1>3. y[1] = a /\ y[2] = b /\ y[3] = c /\ y[4] = d /\ y[5] = e /\ y[6] = f
  OBVIOUS
<1> PICK u \in Seq(S), v \in Seq(S), w \in Seq(S) : u = <<a>> /\ v = <<b, c, d, e>> /\ w = <<f>>
  BY <1>1
<1> HIDE DEF y, S
<1>4. /\ u \o v \in Seq(S) /\ Len(u \o v) = 5
      /\ \A i \in 1 .. 5 : (u \o v)[i] = IF i <= 1 THEN u[i] ELSE v[i - 1]
  BY <1>1, ConcatProperties
<1>5. /\ (u \o v) \o w \in Seq(S) /\ Len((u \o v) \o w) = 6
      /\ \A i \in 1 .. 6 : ((u \o v) \o w)[i] = IF i <= 5 THEN (u \o v)[i] ELSE w[i - 5]
  BY <1>1, <1>4, ConcatProperties
<1>6. \A i \in 1 .. 6 : ((u \o v) \o w)[i] = y[i]
  <2> TAKE i \in 1 .. 6
  <2>1. i = 1 \/ i = 2 \/ i = 3 \/ i = 4 \/ i = 5 \/ i = 6
    OBVIOUS
  <2> QED
    BY <2>1, <1>2, <1>3, <1>4, <1>5
<1>7. (u \o v) \o w = y
  BY <1>1, <1>5, <1>6, SeqEqual
<1> QED
  BY <1>7 DEF y

\* An answer is in order, and it tells what the meter has counted.
LEMMA AnswerIs ==
  ASSUME meter \in 0 .. MaxEnergy, NEW frame \in Answers(cmd) \cup {<<>>}
  PROVE  /\ frame \in Seq(Chars)
         /\ \A k \in DOMAIN frame : /\ frame[k][1] = "stx" => k = 1
                                    /\ frame[k][1] = "bcc" => frame[k][2] = meter
<1>1. CASE frame = <<>>
  BY <1>1
<1>2. CASE frame = Ident
  <2>1. frame = <<Char("text"), Char("cr"), Char("lf")>>
    BY <1>2 DEF Ident
  <2> QED
    BY <2>1, CharsAre DEF Char
<1>3. CASE \E r \in {"reg", "noserial"} : frame = Data(r, meter)
  <2>1. PICK r \in {"reg", "noserial"} : frame = Data(r, meter)
    BY <1>3
  <2>2. frame = <<Char("stx"), <<r, meter>>, Char("cr"), Char("lf"), Char("etx"),
                  <<"bcc", meter>>>>
    <3>1. \A a, b, c, d, e, f : <<a>> \o <<b, c, d, e>> \o <<f>> = <<a, b, c, d, e, f>>
      BY SixTogether
    <3>2. frame = <<Char("stx")>> \o <<<<r, meter>>, Char("cr"), Char("lf"), Char("etx")>>
                  \o <<<<"bcc", meter>>>>
      BY <2>1 DEF Data, Body
    <3> QED
      BY <3>1, <3>2
  <2>3. frame \in Seq(Chars)
    <3>1. PICK a \in Chars, b \in Chars, c \in Chars, d \in Chars, e \in Chars, f \in Chars :
            /\ a = Char("stx") /\ b = <<r, meter>> /\ c = Char("cr") /\ d = Char("lf")
            /\ e = Char("etx") /\ f = <<"bcc", meter>>
      BY CharsAre
    <3>2. <<a, b, c, d, e, f>> \in Seq(Chars)
      OBVIOUS
    <3> QED
      BY <2>2, <3>1, <3>2
  <2> QED
    BY <2>2, <2>3 DEF Char
<1>4. CASE frame = <<Char("text"), Char("cr")>>
  BY <1>4, CharsAre DEF Char
<1> QED
  BY <1>1, <1>2, <1>3, <1>4 DEF Answers

\* The FIFO is emptied; since moves only to what the meter has counted.
LEMMA FifoCleared ==
  ASSUME FreshInv, fifo' = <<>>, UNCHANGED <<wire, meter>>, since' \in {since, meter},
         energy' \in 0 .. MaxEnergy, Taken'
  PROVE  FreshInv'
<1>1. DataOK'
  BY DEF FreshInv, DataOK
<1>2. WireInOrder'
  BY DEF FreshInv, WireInOrder
<1>3. DOMAIN fifo' = {}
  OBVIOUS
<1>4. OldFirst'
  BY <1>3 DEF OldFirst
<1> QED
  BY <1>1, <1>2, <1>4 DEF FreshInv

\* A step that leaves FIFO and line alone.
LEMMA LineKept ==
  ASSUME FreshInv, UNCHANGED <<fifo, wire, since>>, meter' \in meter .. MaxEnergy,
         energy' = energy, Taken'
  PROVE  FreshInv'
<1>1. DataOK'
  BY DEF FreshInv, DataOK
<1>2. WireInOrder'
  BY DEF FreshInv, WireInOrder
<1>3. OldFirst'
  BY DEF FreshInv, OldFirst, Old
<1> QED
  BY <1>1, <1>2, <1>3 DEF FreshInv

\* What is on the line is lost, or replaced by what the meter tells now.
LEMMA LineReplaced ==
  ASSUME FreshInv, UNCHANGED <<fifo, since, meter, energy, en61107_uart_state>>,
         wire' \in Seq(Chars \X {300, 1200}),
         \A k \in DOMAIN wire' : /\ wire'[k][1][1] = "stx" => k = 1
                                 /\ wire'[k][1][1] = "bcc" => wire'[k][1][2] = meter
  PROVE  FreshInv'
<1>1. DataOK' /\ meter >= since
  BY DEF FreshInv, DataOK
<1>2. WireInOrder'
  BY DEF WireInOrder
<1>3. \A k \in DOMAIN wire' : ~(Old(wire[k][1])')
  BY <1>1 DEF Old, DataOK
<1>4. OldFirst'
  BY <1>3 DEF FreshInv, OldFirst, Old
<1>5. Taken'
  BY DEF FreshInv, Taken
<1> QED
  BY <1>1, <1>2, <1>4, <1>5 DEF FreshInv

\* uart0_rx_intr_handler moves one character from the line to the FIFO, or drops it.
LEMMA ReceiveFresh == FreshInv /\ Receive => FreshInv'
<1> SUFFICES ASSUME FreshInv, Receive PROVE FreshInv'
  OBVIOUS
<1> USE DEF FreshInv
<1>1. /\ wire # <<>> /\ wire' = Tail(wire)
      /\ UNCHANGED <<meter, since, energy, en61107_uart_state>>
  BY DEF Receive, request, result
<1>2. /\ wire \in Seq(Chars \X {300, 1200}) /\ fifo \in Seq(Chars)
      /\ Len(wire) \in Nat /\ Len(fifo) \in Nat
  BY DEF DataOK
<1>3. /\ Len(wire) >= 1 /\ wire[1] \in Chars \X {300, 1200} /\ Head(wire) = wire[1]
      /\ wire' \in Seq(Chars \X {300, 1200}) /\ DOMAIN wire' = 1 .. Len(wire) - 1
      /\ \A k \in 1 .. Len(wire) - 1 : wire'[k] = wire[k + 1]
  BY <1>1, <1>2, HeadTailProperties
<1> DEFINE w == wire[1][1]
           c == IF Head(wire)[2] = baud THEN Head(wire)[1] ELSE Garbled(Head(wire)[1])
<1>4. w \in Chars /\ c \in Chars /\ (c = w \/ c[1] = "junk")
  BY <1>3, CharsAre
<1>5. fifo' = fifo \/ fifo' = Append(fifo, c)
  BY DEF Receive, Put
<1> HIDE DEF c
<1>6. /\ fifo' \in Seq(Chars) /\ DOMAIN fifo' \subseteq 1 .. Len(fifo) + 1
      /\ \A i \in 1 .. Len(fifo) : fifo'[i] = fifo[i]
      /\ \A i \in DOMAIN fifo' : i = Len(fifo) + 1 => fifo'[i] = c
  <2>1. CASE fifo' = fifo
    BY <1>2, <2>1
  <2>2. CASE fifo' = Append(fifo, c)
    BY <1>2, <1>4, <2>2, AppendProperties
  <2> QED
    BY <1>5, <2>1, <2>2
<1>7. DataOK'
  BY <1>1, <1>3, <1>6 DEF DataOK
<1>8. \A k \in DOMAIN wire' : wire'[k][1][1] # "stx"
  <2> SUFFICES ASSUME NEW k \in DOMAIN wire', wire'[k][1][1] = "stx" PROVE FALSE
    OBVIOUS
  <2>1. k \in 1 .. Len(wire) - 1 /\ k + 1 \in DOMAIN wire /\ wire[k + 1][1][1] = "stx"
    <3>1. k \in 1 .. Len(wire) - 1
      BY <1>3
    <3>2. wire'[k] = wire[k + 1]
      BY <1>3, <3>1
    <3>3. DOMAIN wire = 1 .. Len(wire)
      BY <1>2
    <3>4. k + 1 \in 1 .. Len(wire)
      BY <1>2, <3>1
    <3> QED
      BY <3>1, <3>2, <3>3, <3>4
  <2>2. k + 1 = 1
    BY <2>1 DEF WireInOrder
  <2> QED
    BY <2>1, <2>2
<1>9. WireInOrder'
  BY <1>8 DEF WireInOrder
<1>10. \A x : (Old(x))' <=> x[1] = "bcc" /\ x[2] < since
  BY <1>1 DEF Old
<1>11. ASSUME NEW k \in DOMAIN wire, Old(wire[k][1]), NEW j \in DOMAIN fifo', fifo'[j][1] = "stx"
       PROVE  j = 1
  <2>1. CASE j \in 1 .. Len(fifo)
    BY <1>2, <1>6, <1>11, <2>1 DEF OldFirst
  <2>2. CASE j = Len(fifo) + 1
    <3>1. c[1] = "stx"
      BY <1>6, <1>11, <2>2
    <3>2. w[1] = "stx"
      BY <1>4, <3>1
    <3>3. 1 \in DOMAIN wire
      BY <1>2, <1>3
    <3>4. fifo = <<>>
      BY <1>11, <3>2, <3>3 DEF OldFirst
    <3> QED
      BY <2>2, <3>4
  <2> QED
    BY <1>2, <1>6, <2>1, <2>2
<1>12. ASSUME NEW i \in DOMAIN fifo', NEW j \in DOMAIN fifo',
              Old(fifo'[i]), j < i, fifo'[j][1] = "stx"
       PROVE  j = 1
  <2>1. CASE i \in 1 .. Len(fifo)
    <3>1. i \in DOMAIN fifo /\ fifo'[i] = fifo[i]
      BY <1>2, <1>6, <2>1
    <3>2. j \in DOMAIN fifo /\ fifo'[j] = fifo[j]
      BY <1>2, <1>6, <1>12, <2>1
    <3> QED
      BY <1>12, <3>1, <3>2 DEF OldFirst
  <2>2. CASE i = Len(fifo) + 1
    <3>1. fifo'[i] = c
      BY <1>6, <2>2
    <3>2. Old(c) /\ c[1] = "bcc"
      BY <1>12, <3>1 DEF Old
    <3>3. Old(w) /\ 1 \in DOMAIN wire
      BY <1>2, <1>3, <1>4, <3>2
    <3> QED
      BY <1>11, <1>12, <3>3
  <2> QED
    BY <1>2, <1>6, <2>1, <2>2
<1>13. OldFirst'
  <2>1. \A i \in DOMAIN wire' : Old(wire'[i][1]) => \E k \in DOMAIN wire : Old(wire[k][1])
    <3> TAKE i \in DOMAIN wire'
    <3>1. i + 1 \in DOMAIN wire /\ wire'[i] = wire[i + 1]
      BY <1>2, <1>3
    <3> QED
      BY <3>1
  <2>2. \A i \in DOMAIN wire' : Old(wire'[i][1]) =>
          \A j \in DOMAIN fifo' : fifo'[j][1] = "stx" => j = 1
    BY <1>11, <2>1
  <2>3. since' = since
    BY <1>1
  <2>4. \A x : (x[1] = "bcc" /\ x[2] < since') <=> Old(x)
    BY <2>3 DEF Old
  <2> QED
    BY <1>8, <1>12, <2>2, <2>3 DEF OldFirst, Old
<1>14. Taken'
  BY <1>1 DEF Taken
<1> QED
  BY <1>7, <1>9, <1>13, <1>14

\* The meter answers, or its answer is lost.
LEMMA MeterAnswersFresh == FreshInv /\ MeterAnswers => FreshInv'
<1> SUFFICES ASSUME FreshInv, MeterAnswers PROVE FreshInv'
  OBVIOUS
<1>1. meter \in 0 .. MaxEnergy
  BY DEF FreshInv, DataOK
<1>2. UNCHANGED <<fifo, since, meter, energy, en61107_uart_state>>
  BY DEF MeterAnswers, Meter, input, result, request
<1>3. PICK frame \in Answers(cmd) \cup {<<>>} : \E i \in DOMAIN frame \cup {0} :
        wire' = [k \in DOMAIN frame |->
                   <<IF k = i THEN Garbled(frame[k]) ELSE frame[k], Speed(cmd)>>]
  BY DEF MeterAnswers
<1>4. PICK i \in DOMAIN frame \cup {0} :
        wire' = [k \in DOMAIN frame |->
                   <<IF k = i THEN Garbled(frame[k]) ELSE frame[k], Speed(cmd)>>]
  BY <1>3
<1>5. /\ frame \in Seq(Chars)
      /\ \A k \in DOMAIN frame : /\ frame[k][1] = "stx" => k = 1
                                 /\ frame[k][1] = "bcc" => frame[k][2] = meter
  BY <1>1, AnswerIs
<1>6. \A k \in DOMAIN frame : /\ frame[k] \in Chars /\ Garbled(frame[k]) \in Chars
                              /\ Garbled(frame[k]) = frame[k] \/ Garbled(frame[k])[1] = "junk"
  BY <1>5, CharsAre
<1>7. Speed(cmd) \in {300, 1200}
  BY DEF Speed
<1>8. DOMAIN wire' = DOMAIN frame
  BY <1>4
<1>9. \A k \in DOMAIN frame : /\ wire'[k] \in Chars \X {300, 1200}
                              /\ wire'[k][1] = frame[k] \/ wire'[k][1][1] = "junk"
  BY <1>4, <1>6, <1>7
<1>10. wire' \in Seq(Chars \X {300, 1200})
  <2>1. wire' = [k \in 1 .. Len(frame) |-> wire'[k]]
    BY <1>4, <1>5
  <2>2. Len(frame) \in Nat /\ DOMAIN frame = 1 .. Len(frame)
    BY <1>5
  <2> QED
    BY <1>9, <2>1, <2>2, IsASeq
<1>11. \A k \in DOMAIN wire' : /\ wire'[k][1][1] = "stx" => k = 1
                               /\ wire'[k][1][1] = "bcc" => wire'[k][1][2] = meter
  BY <1>5, <1>8, <1>9
<1> QED
  BY <1>2, <1>10, <1>11, LineReplaced

\* A timeout empties the FIFO, and the cycle does not get further.
LEMMA TimeoutFresh == IInv /\ FreshInv /\ Timeout => FreshInv'
<1> SUFFICES ASSUME IInv, FreshInv, Timeout PROVE FreshInv'
  OBVIOUS
<1>1. UNCHANGED <<wire, meter, since, energy>> /\ timer # 0
  BY DEF Timeout, result
<1>2. CASE RecoveryOver
  <2>1. fifo' = <<>> /\ en61107_uart_state' = "IDENT"
    BY <1>2 DEF RecoveryOver, SendIdent, Send
  <2>2. Taken'
    BY <2>1 DEF Taken, LateStates
  <2> QED
    BY <1>1, <2>1, <2>2, FifoCleared DEF FreshInv, DataOK
<1>3. CASE Retransmit
  <2>1. RestartsAt /\ en61107_uart_state # "NONE"
    BY <1>1, <1>3 DEF Retransmit, IInv, RequestOK
  <2>2. fifo' = <<>>
    BY <2>1 DEF RestartsAt, SendIdent
  <2>3. en61107_uart_state' \in LateStates => en61107_uart_state \in LateStates
    BY <2>1, RestartArms
  <2>4. Taken'
    BY <1>1, <2>3 DEF FreshInv, Taken
  <2> QED
    BY <1>1, <2>2, <2>4, FifoCleared DEF FreshInv, DataOK
<1>4. CASE GiveUp
  <2>1. fifo' = <<>> /\ en61107_uart_state' = "NONE"
    BY <1>4 DEF GiveUp
  <2>2. Taken'
    BY <2>1 DEF Taken, LateStates
  <2> QED
    BY <1>1, <2>1, <2>2, FifoCleared DEF FreshInv, DataOK
<1> QED
  BY <1>2, <1>3, <1>4 DEF Timeout

\* A frame with an old checksum has no meter type in front of its STX: it does not
\* parse, and the energy that is taken is one of this cycle.
LEMMA ParsedFresh ==
  ASSUME FreshInv, Parses(fifo)
  PROVE  EnergyOf(fifo) \in 0 .. MaxEnergy /\ EnergyOf(fifo) >= since
<1>1. fifo \in Seq(Chars) /\ SumIsRight(fifo) /\ HasMeterType(fifo)
  BY DEF FreshInv, DataOK, Parses
<1>2. /\ fifo # <<>> /\ EnergyOf(fifo) \in 0 .. MaxEnergy
      /\ fifo[Len(fifo)] = <<"bcc", EnergyOf(fifo)>>
  BY <1>1, SumIs
<1>3. PICK j \in DOMAIN fifo : fifo[j][1] = "stx" /\ j # 1
  BY <1>1, StxIs
<1>4. Len(fifo) \in DOMAIN fifo /\ j < Len(fifo)
  BY <1>1, <1>2, <1>3
<1>5. ~Old(fifo[Len(fifo)])
  BY <1>3, <1>4 DEF FreshInv, OldFirst
<1>6. since \in Int
  BY DEF FreshInv, DataOK
<1> QED
  BY <1>2, <1>5, <1>6 DEF Old

\* en61107_received_task: energy of an old frame is not taken.
LEMMA TaskFresh == FreshInv /\ Task => FreshInv'
<1> SUFFICES ASSUME FreshInv, Task PROVE FreshInv'
  OBVIOUS
<1>1. UNCHANGED <<wire, meter, since>>
  BY DEF Task, world
<1>2. energy \in 0 .. MaxEnergy /\ meter \in meter .. MaxEnergy
  BY DEF FreshInv, DataOK
<1>3. CASE TaskIdent
  <2>1. en61107_uart_state' = "EN61107" /\ UNCHANGED <<fifo, energy>>
    BY <1>3 DEF TaskIdent, SendEn61107, Send, result
  <2>2. Taken'
    BY <2>1 DEF Taken, LateStates
  <2> QED
    BY <1>1, <1>2, <2>1, <2>2, LineKept
<1>4. CASE TaskBadData
  <2>1. fifo' = <<>> /\ UNCHANGED <<energy, en61107_uart_state>>
    BY <1>4 DEF TaskBadData, result
  <2>2. Taken'
    BY <1>1, <2>1 DEF FreshInv, Taken
  <2> QED
    BY <1>1, <1>2, <2>1, <2>2, FifoCleared
<1>5. CASE TaskNoSerial \/ TaskData
  <2>1. Parses(fifo) /\ fifo' = <<>> /\ energy' = EnergyOf(fifo)
    BY <1>5 DEF TaskNoSerial, TaskData
  <2>2. energy' \in 0 .. MaxEnergy /\ energy' >= since'
    BY <1>1, <2>1, ParsedFresh
  <2>3. Taken'
    BY <2>2 DEF Taken
  <2> QED
    BY <1>1, <2>1, <2>2, <2>3, FifoCleared
<1>6. CASE TaskMore
  <2>1. fifo' = <<>> /\ energy' = energy /\ en61107_uart_state \in LateStates
    BY <1>6 DEF TaskMore, result, LateStates
  <2>2. Taken'
    BY <1>1, <2>1 DEF FreshInv, Taken
  <2> QED
    BY <1>1, <1>2, <2>1, <2>2, FifoCleared
<1>7. CASE TaskLast
  <2>1. fifo' = <<>> /\ energy' = energy /\ en61107_uart_state' = "NONE"
    BY <1>7 DEF TaskLast
  <2>2. Taken'
    BY <2>1 DEF Taken, LateStates
  <2> QED
    BY <1>1, <1>2, <2>1, <2>2, FifoCleared
<1>8. CASE TaskIdle
  <2>1. UNCHANGED <<fifo, energy, en61107_uart_state>>
    BY <1>8 DEF TaskIdle, request, result
  <2>2. Taken'
    BY <1>1, <2>1 DEF FreshInv, Taken
  <2> QED
    BY <1>1, <1>2, <2>1, <2>2, LineKept
<1> QED
  BY <1>3, <1>4, <1>5, <1>6, <1>7, <1>8 DEF Task

\* A cycle begins with an empty FIFO; what is on the line is old from now on.
LEMMA RequestSendFresh == FreshInv /\ RequestSend => FreshInv'
<1> SUFFICES ASSUME FreshInv, RequestSend PROVE FreshInv'
  OBVIOUS
<1>1. /\ fifo' = <<>> /\ en61107_uart_state' = "IDENT" /\ since' = meter
      /\ UNCHANGED <<wire, meter, energy>>
  BY DEF RequestSend, SendIdent, Send, result, world
<1>2. Taken'
  BY <1>1 DEF Taken, LateStates
<1> QED
  BY <1>1, <1>2, FifoCleared DEF FreshInv, DataOK

\* The meter is unplugged or plugged in: nothing is on its way.
LEMMA PlugFresh == FreshInv /\ Plug => FreshInv'
<1> SUFFICES ASSUME FreshInv, Plug PROVE FreshInv'
  OBVIOUS
<1>1. wire' = <<>> /\ UNCHANGED <<fifo, since, meter, energy, en61107_uart_state>>
  BY DEF Plug, Meter, input, result, request
<1> QED
  BY <1>1, LineReplaced

\* Nothing of it is touched.
LEMMA OthersFresh ==
  FreshInv /\ (UartTimer \/ MeterCounts \/ OtaBegins \/ OtaEnds \/ UNCHANGED vars) => FreshInv'
<1> SUFFICES ASSUME FreshInv,
                    UartTimer \/ MeterCounts \/ OtaBegins \/ OtaEnds \/ UNCHANGED vars
             PROVE  FreshInv'
  OBVIOUS
<1>1. /\ UNCHANGED <<fifo, wire, since, energy, en61107_uart_state>>
      /\ meter' = meter \/ (meter < MaxEnergy /\ meter' = meter + 1)
  BY DEF UartTimer, MeterCounts, OtaBegins, OtaEnds, Meter, vars, request, input, result, world
<1>2. meter' \in meter .. MaxEnergy
  BY <1>1, MeterAssumption DEF FreshInv, DataOK
<1>3. Taken'
  BY <1>1 DEF FreshInv, Taken
<1> QED
  BY <1>1, <1>2, <1>3, LineKept

\* en61107_request_init: the FIFO and the line are empty.
LEMMA FreshInit == Init => FreshInv
<1> SUFFICES ASSUME Init PROVE FreshInv
  OBVIOUS
<1>1. /\ fifo = <<>> /\ wire = <<>> /\ meter = 0 /\ since = 0 /\ energy = 0
      /\ en61107_uart_state = "NONE"
  BY DEF Init
<1>2. MaxEnergy \in Nat
  BY MeterAssumption
<1>3. DataOK
  BY <1>1, <1>2 DEF DataOK
<1>4. WireInOrder /\ OldFirst
  BY <1>1 DEF WireInOrder, OldFirst
<1>5. Taken
  BY <1>1 DEF Taken, LateStates
<1> QED
  BY <1>3, <1>4, <1>5 DEF FreshInv

\* Every step keeps old characters from being taken for new ones.
LEMMA FreshStep == IInv /\ FreshInv /\ [Next]_vars => FreshInv'
  BY RequestSendFresh, TimeoutFresh, ReceiveFresh, TaskFresh, MeterAnswersFresh, PlugFresh,
     OthersFresh DEF Next

\* A sample tells what the meter had counted in this cycle (parse_en61107_frame asks for
\* a meter type in front of the data, and the FIFO is emptied for every attempt): a late
\* answer of an earlier cycle is never published, however many answers are lost, late or
\* garbled, and whatever the size of the FIFO.
THEOREM FreshCorrect == Spec => EnergyFresh
<1>1. FreshInv /\ [Next]_vars => (Sampled => energy >= since)
  BY DEF FreshInv, Taken, LateStates, Sampled
<1>2. Spec => []FreshInv
  BY SpecOK, FreshInit, FreshStep, PTL DEF Spec
<1>3. FreshInv /\ [Next]_vars => [Sampled => energy >= since]_vars
  BY <1>1
<1> QED
  BY <1>2, <1>3, PTL DEF Spec, EnergyFresh
=============================================================================
