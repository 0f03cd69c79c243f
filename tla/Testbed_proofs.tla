--------------------------- MODULE Testbed_proofs ---------------------------
(***************************************************************************)
(* Proofs about Testbed: the packet buffer of the application, the time at *)
(* which sources start, and the lines that InjGen prints.                  *)
(*                                                                         *)
(* The first two rest on one invariant of the application and the          *)
(* commander, the third on one of InjGen alone.  Clocks that wrap and      *)
(* lines counted round by round need that quotient and remainder are       *)
(* unique; the sort needs the lemmas about permutations of DistinctSeqs.   *)
(***************************************************************************)
EXTENDS Testbed, DistinctSeqs

-----------------------------------------------------------------------------
(* Division. *)

(* Quotient and remainder. *)
LEMMA Division ==
  ASSUME NEW x \in Int, NEW d \in Nat \ {0}
  PROVE  /\ x \div d \in Int /\ x % d \in 0 .. d - 1
         /\ x = d * (x \div d) + (x % d)
  OBVIOUS

(* The same, to name them. *)
LEMMA Divided ==
  ASSUME NEW x \in Int, NEW d \in Nat \ {0}
  PROVE  \E q \in Int : \E r \in 0 .. d - 1 : x % d = r /\ x = d * q + r
  BY Division

(* They are the only ones. *)
LEMMA Remainder ==
  ASSUME NEW d \in Nat \ {0}, NEW q \in Int, NEW r \in 0 .. d - 1, NEW p \in Int, NEW s \in 0 .. d - 1,
         d * q + r = d * p + s
  PROVE  q = p /\ r = s
  <1>1. CASE q < p
    <2>1. PICK k \in Nat : p = q + 1 + k
      BY <1>1
    <2>2. d * p = d * q + d + d * k /\ d * k >= 0
      BY <2>1
    <2> QED BY <2>2
  <1>2. CASE p < q
    <2>1. PICK k \in Nat : q = p + 1 + k
      BY <1>2
    <2>2. d * q = d * p + d + d * k /\ d * k >= 0
      BY <2>1
    <2> QED BY <2>2
  <1>3. CASE p = q
    BY <1>3
  <1> QED BY <1>1, <1>2, <1>3

(* Clocks that wrap: a multiple of the range makes no difference. *)
LEMMA Wraps ==
  ASSUME NEW d \in Nat \ {0}, NEW x \in Int, NEW k \in Int
  PROVE  (x + d * k) % d = x % d
  <1>1. PICK q \in Int, r \in 0 .. d - 1 : x = d * q + r /\ x % d = r
    BY Division
  <1>2. PICK p \in Int, s \in 0 .. d - 1 : x + d * k = d * p + s /\ (x + d * k) % d = s
    <2>1. x + d * k \in Int
      OBVIOUS
    <2> QED BY <2>1, Division
  <1>3. d * (q + k) = d * q + d * k /\ q + k \in Int
    OBVIOUS
  <1>4. d * (q + k) + r = d * p + s
    BY <1>1, <1>2, <1>3
  <1> QED BY <1>1, <1>2, <1>3, <1>4, Remainder

(* A larger number has no smaller quotient. *)
LEMMA DivMonotone ==
  ASSUME NEW d \in Nat \ {0}, NEW x \in Nat, NEW y \in Nat, x <= y
  PROVE  x \div d \in Nat /\ x \div d <= y \div d
  <1>1. PICK q \in Int, r \in 0 .. d - 1 : x = d * q + r /\ x \div d = q
    BY Division
  <1>2. PICK p \in Int, s \in 0 .. d - 1 : y = d * p + s /\ y \div d = p
    BY Division
  <1>3. q >= 0
    <2> SUFFICES ASSUME q < 0 PROVE FALSE
      OBVIOUS
    <2>1. PICK k \in Nat : q = -1 - k
      BY Z3
    <2>2. d * q = -d - d * k /\ d * k >= 0
      BY <2>1
    <2> QED BY <1>1, <2>2
  <1>4. q <= p
    <2> SUFFICES ASSUME p < q PROVE FALSE
      OBVIOUS
    <2>1. PICK k \in Nat : q = p + 1 + k
      BY Z3
    <2>2. d * q = d * p + d + d * k /\ d * k >= 0
      BY <2>1
    <2> QED BY <1>1, <1>2, <2>2
  <1> QED BY <1>1, <1>2, <1>3, <1>4

-----------------------------------------------------------------------------
(* The application and the commander. *)

\* What a time packet on the air says of the clocks.
Stamped == air # NoPacket =>
             air.eventAt \in Nat /\ air.globalTime = (air.eventAt + offset) % CLOCK

\* A source that has not heard the time does nothing, one that is off is none.
Waits == build = "EVENT" =>
           /\ ~ synced => Timer = -1
           /\ power = "off" => ~ synced /\ ~ is_src /\ seqNum = 0

Clocks == now \in Nat /\ offset \in Nat /\ skew \in Nat

Inv == /\ build \in Builds /\ Clocks
       /\ sendBusy \in BOOLEAN /\ OnePacket
       /\ Stamped /\ Waits

LEMMA InitInv == Init => Inv
  <1> SUFFICES ASSUME Init PROVE Inv
    OBVIOUS
  <1>1. PICK e \in Experiments : build = e.build /\ offset = e.offset /\ skew = e.skew
    BY DEF Init
  <1>2. build \in Builds /\ offset \in Nat /\ skew \in Nat
    BY <1>1, TestbedAssumption
  <1> QED BY <1>2 DEF Init, Inv, Clocks, OnePacket, Stamped, Waits, AppInit, CmdInit

(* A packet is handed to the protocol only if it has none. *)
LEMMA MessageSent ==
  ASSUME NEW repeats, sendMessage(FALSE, repeats, 0)
  PROVE  sendBusy' \in BOOLEAN /\ OnePacket'
  <1>1. \/ sendBusy' = FALSE /\ outstanding' = 0
        \/ sendBusy' = TRUE /\ outstanding' = 0 + 1
    BY DEF sendMessage
  <1>2. 0 + 1 = 1
    OBVIOUS
  <1> QED BY <1>1, <1>2 DEF OnePacket

(* The handlers of the application. *)
LEMMA AppStep ==
  ASSUME Inv, UNCHANGED <<now, offset, given>>,
         \/ Booted \/ UartStarted \/ RadioStarted \/ PeriodicTimerFired \/ EventTimerFired
         \/ SendDone \/ TimeSyncReceive \/ UartReceive
  PROVE  sendBusy' \in BOOLEAN /\ OnePacket' /\ Waits'
  <1>1. build' = build /\ now \in Nat /\ now # -1 /\ build \in Builds
    BY DEF given, Inv, Clocks
  <1>2. sendBusy \in BOOLEAN /\ OnePacket /\ Waits
    BY DEF Inv
  <1>3. CASE Booted
    BY <1>1, <1>2, <1>3 DEF Booted, OnePacket, Waits
  <1>4. CASE UartStarted
    BY <1>1, <1>2, <1>4 DEF UartStarted, OnePacket, Waits
  <1>5. CASE RadioStarted
    BY <1>1, <1>2, <1>5 DEF RadioStarted, OnePacket, Waits
  <1>6. CASE PeriodicTimerFired
    <2>1. Waits'
      BY <1>1, <1>6 DEF PeriodicTimerFired, Waits
    <2>2. CASE WarmUp \/ FirstPeriod
      BY <1>2, <2>1, <2>2 DEF WarmUp, FirstPeriod, OnePacket
    <2>3. CASE Period
      BY <1>2, <2>1, <2>3, MessageSent DEF Period, OnePacket
    <2> QED BY <1>6, <2>2, <2>3 DEF PeriodicTimerFired
  <1>7. CASE EventTimerFired
    <2>1. synced /\ synced' = synced /\ power' = power
      BY <1>1, <1>2, <1>7 DEF EventTimerFired, Waits
    <2>2. Waits'
      BY <1>1, <1>2, <1>7, <2>1 DEF EventTimerFired, Waits
    <2>3. sendBusy' \in BOOLEAN /\ OnePacket'
      BY <1>2, <1>7, MessageSent DEF EventTimerFired, OnePacket
    <2> QED BY <2>2, <2>3
  <1>8. CASE SendDone
    <2>1. outstanding - 1 = 0
      BY <1>2, <1>8 DEF SendDone, OnePacket
    <2>2. Waits'
      BY <1>1, <1>2, <1>8 DEF SendDone, Waits
    <2>3. CASE build = "UART"
      <3>1. sendMessage(FALSE, repeat_cnt, 0)
        BY <1>8, <2>1, <2>3 DEF SendDone
      <3> QED BY <2>2, <3>1, MessageSent
    <2>4. CASE build # "UART"
      <3>1. sendBusy' = FALSE /\ outstanding' = 0
        BY <1>8, <2>1, <2>4 DEF SendDone
      <3> QED BY <2>2, <3>1 DEF OnePacket
    <2> QED BY <2>3, <2>4
  <1>9. CASE TimeSyncReceive
    BY <1>1, <1>2, <1>9 DEF TimeSyncReceive, Waits, OnePacket
  <1>10. CASE UartReceive
    <2>1. sendBusy' \in BOOLEAN /\ OnePacket'
      BY <1>2, <1>10, MessageSent DEF UartReceive, OnePacket
    <2> QED BY <1>1, <1>10, <2>1 DEF UartReceive, Waits
  <1> QED BY <1>3, <1>4, <1>5, <1>6, <1>7, <1>8, <1>9, <1>10

(* Every step keeps the invariant. *)
LEMMA NextInv == Inv /\ [Next]_vars => Inv'
  <1> SUFFICES ASSUME Inv, [Next]_vars PROVE Inv'
    OBVIOUS
  <1>1. CASE Node
    <2>1. UNCHANGED <<now, offset, given, cmdVars>>
      BY <1>1 DEF Node
    <2>2. sendBusy' \in BOOLEAN /\ OnePacket' /\ Waits'
      BY <1>1, <2>1, AppStep DEF Node
    <2> QED BY <2>1, <2>2 DEF Inv, Clocks, given, cmdVars, Stamped
  <1>2. CASE CommanderNode
    <2>1. UNCHANGED <<given, app, now, offset>>
      BY <1>2 DEF CommanderNode, CmdStarted, MilliTimerFired, AMSendDone
    <2>2. Stamped'
      <3>1. CASE air' = air
        BY <2>1, <3>1 DEF Inv, Stamped
      <3>2. CASE air' = [globalTime |-> CommanderClock, eventAt |-> now]
        BY <2>1, <3>2 DEF Inv, Clocks, Stamped, CommanderClock
      <3> QED BY <1>2, <3>1, <3>2 DEF CommanderNode, CmdStarted, MilliTimerFired, AMSendDone
    <2> QED BY <2>1, <2>2 DEF Inv, Clocks, given, app, OnePacket, Waits
  <1>3. CASE Programs
    BY <1>3 DEF Programs, Inv, Clocks, given, app, cmdVars, OnePacket, Waits, Stamped
  <1>4. CASE Inject
    <2>1. UNCHANGED <<now, offset, given, cmdVars>>
      BY <1>4 DEF Inject
    <2>2. CASE UNCHANGED app
      BY <2>1, <2>2 DEF Inv, Clocks, given, app, cmdVars, OnePacket, Waits, Stamped
    <2>3. CASE UartReceive
      <3>1. sendBusy' \in BOOLEAN /\ OnePacket' /\ Waits'
        BY <2>1, <2>3, AppStep
      <3> QED BY <2>1, <3>1 DEF Inv, Clocks, given, cmdVars, Stamped
    <2> QED BY <1>4, <2>2, <2>3 DEF Inject
  <1>5. CASE Tick
    BY <1>5 DEF Tick, Inv, Clocks, given, app, cmdVars, OnePacket, Waits, Stamped
  <1>6. CASE UNCHANGED vars
    BY <1>6 DEF vars, Inv, Clocks, given, app, cmdVars, OnePacket, Waits, Stamped
  <1> QED BY <1>1, <1>2, <1>3, <1>4, <1>5, <1>6 DEF Next

(* The one packet buffer is the protocol's exactly while sendBusy is set, whatever the
   timer, the serial port and sendDone ask for, in each build (TestMTAC.nc:157, :231). *)
THEOREM BufferGuarded == Spec => []OnePacket
  <1>1. Inv => OnePacket
    BY DEF Inv
  <1> QED BY <1>1, InitInv, NextInv, PTL DEF Spec

(* The interval computed in the node's clock ends when the commander's clock shows
   CONVERGE_TIME: skews, delays and the wrapping of the clocks cancel out. *)
LEMMA Converges ==
  ASSUME Clocks, NEW at \in Nat,
         NEW interval, interval =
           (CONVERGE_TIME + LocalTime(at) - LocalTime(now) - ((at + offset) % CLOCK)) % CLOCK
  PROVE  /\ interval \in Nat
         /\ (now + interval + offset) % CLOCK = CONVERGE_TIME % CLOCK
  <1>1. CLOCK \in Nat \ {0} /\ CONVERGE_TIME \in Nat /\ now \in Nat /\ offset \in Nat
        /\ skew \in Nat
    BY CommanderAssumption, TestAppAssumption DEF Clocks
  <1>2. PICK a \in Int, la \in 0 .. CLOCK - 1 :
          LocalTime(at) = la /\ at + skew = CLOCK * a + la
    <2>1. at + skew \in Int
      BY <1>1
    <2> QED BY <1>1, <2>1, Divided DEF LocalTime
  <1>3. PICK b \in Int, lb \in 0 .. CLOCK - 1 :
          LocalTime(now) = lb /\ now + skew = CLOCK * b + lb
    <2>1. now + skew \in Int
      BY <1>1
    <2> QED BY <1>1, <2>1, Divided DEF LocalTime
  <1>4. PICK c \in Int, g \in 0 .. CLOCK - 1 :
          (at + offset) % CLOCK = g /\ at + offset = CLOCK * c + g
    <2>1. at + offset \in Int
      BY <1>1
    <2> QED BY <1>1, <2>1, Divided
  <1>0. la \in Int /\ lb \in Int /\ g \in Int
    BY <1>1
  <1>5. PICK x \in Int : x = CONVERGE_TIME + la - lb - g
    BY <1>0, <1>1
  <1>6. PICK d \in Int : interval \in 0 .. CLOCK - 1 /\ x = CLOCK * d + interval
    <2>1. interval = x % CLOCK
      BY <1>2, <1>3, <1>4, <1>5
    <2>2. PICK d \in Int, i \in 0 .. CLOCK - 1 : x % CLOCK = i /\ x = CLOCK * d + i
      BY <1>1, Divided
    <2> QED BY <2>1, <2>2
  <1>7. interval \in Nat
    BY <1>1, <1>6
  <1>8. now + interval + offset = CONVERGE_TIME + CLOCK * (b + c - a - d)
    <2>1. CLOCK * (b + c - a - d) = CLOCK * b + CLOCK * c - CLOCK * a - CLOCK * d
      BY <1>1
    <2>2. PICK ca \in Int, cb \in Int, cc \in Int, cd \in Int :
            ca = CLOCK * a /\ cb = CLOCK * b /\ cc = CLOCK * c /\ cd = CLOCK * d
      BY <1>1
    <2>3. /\ at + skew = ca + la /\ now + skew = cb + lb /\ at + offset = cc + g
          /\ x = cd + interval /\ x = CONVERGE_TIME + la - lb - g
      BY <1>2, <1>3, <1>4, <1>5, <1>6, <2>2
    <2>4. now + interval + offset = CONVERGE_TIME + (cb + cc - ca - cd)
      BY <1>0, <1>1, <1>7, <2>3
    <2> QED BY <2>1, <2>2, <2>4
  <1>9. b + c - a - d \in Int
    OBVIOUS
  <1>10. (CONVERGE_TIME + CLOCK * (b + c - a - d)) % CLOCK = CONVERGE_TIME % CLOCK
    <2>1. PICK k \in Int : k = b + c - a - d
      BY <1>9
    <2>2. CONVERGE_TIME \in Int
      BY <1>1
    <2> QED BY <1>1, <2>1, <2>2, Wraps
  <1> QED BY <1>7, <1>8, <1>10

(* Sources start together. *)
LEMMA StartsStep ==
  ASSUME Inv, [Next]_vars, build = "EVENT"
  PROVE  /\ Timer = -1 /\ Timer' # -1 => (Timer' + offset) % CLOCK = CONVERGE_TIME % CLOCK
         /\ Timer # -1 /\ Timer' # Timer => Timer = now
         /\ seqNum' # seqNum => Timer = now
  <1>1. now \in Nat /\ now # -1
    BY DEF Inv, Clocks
  <1>2. CASE UNCHANGED <<Timer, seqNum>>
    BY <1>2
  <1>3. CASE Node
    <2>1. CASE Booted
      BY <2>1 DEF Booted, Inv, Waits
    <2>2. CASE UartStarted \/ RadioStarted \/ SendDone
      BY <1>2, <2>2 DEF UartStarted, RadioStarted, SendDone
    <2>3. CASE PeriodicTimerFired
      BY <2>3 DEF PeriodicTimerFired
    <2>4. CASE EventTimerFired
      BY <1>1, <2>4 DEF EventTimerFired
    <2>5. CASE TimeSyncReceive
      <3>1. Timer = -1 /\ seqNum' = seqNum /\ air # NoPacket
        BY <2>5 DEF TimeSyncReceive, Inv, Waits
      <3>2. PICK at \in Nat : air.eventAt = at /\ air.globalTime = (at + offset) % CLOCK
        BY <3>1 DEF Inv, Stamped
      <3>3. PICK interval :
              interval = (CONVERGE_TIME + LocalTime(at) - LocalTime(now)
                            - ((at + offset) % CLOCK)) % CLOCK
        OBVIOUS
      <3>4. Timer' = now + interval
        BY <2>5, <3>2, <3>3 DEF TimeSyncReceive
      <3>5. interval \in Nat /\ (now + interval + offset) % CLOCK = CONVERGE_TIME % CLOCK
        BY <3>3, Converges DEF Inv
      <3> QED BY <3>1, <3>4, <3>5
    <2> QED BY <1>3, <2>1, <2>2, <2>3, <2>4, <2>5 DEF Node
  <1>4. CASE Inject
    BY <1>2, <1>4 DEF Inject, UartReceive, app
  <1>5. CASE CommanderNode \/ Programs \/ Tick \/ UNCHANGED vars
    BY <1>2, <1>5 DEF CommanderNode, Programs, Tick, vars, app
  <1> QED BY <1>3, <1>4, <1>5 DEF Next

(* Every source starts at CONVERGE_TIME of the commander's clock (TestMTAC.nc:287), for
   all offsets and skews of the clocks, delays and losses of the packets, and every
   width of the clocks. *)
THEOREM SourcesStartTogether == Spec => StartsTogether
  <1>1. Inv /\ [Next]_vars =>
          [build = "EVENT" =>
             /\ Timer = -1 /\ Timer' # -1 => (Timer' + offset) % CLOCK = CONVERGE_TIME % CLOCK
             /\ Timer # -1 /\ Timer' # Timer => Timer = now
             /\ seqNum' # seqNum => Timer = now]_vars
    BY StartsStep
  <1> QED BY <1>1, InitInv, NextInv, PTL DEF Spec, StartsTogether
-----------------------------------------------------------------------------
(* The injected events. *)

\* Rounds take time.
LEMMA Rounds == ROUND_TIME \in Nat \ {0} /\ MAX_ROUND \in Nat
  <1>1. TRAFFIC_SCALAR \in Nat \ {0} /\ TRACE_TIME \in Nat /\ RUN_TIME \in Nat
        /\ TRAFFIC_SCALAR <= TRACE_TIME
    BY InjectionAssumption
  <1>2. TRAFFIC_SCALAR \div TRAFFIC_SCALAR = 1
    <2>1. PICK q \in Int, r \in 0 .. TRAFFIC_SCALAR - 1 :
            TRAFFIC_SCALAR = TRAFFIC_SCALAR * q + r /\ TRAFFIC_SCALAR \div TRAFFIC_SCALAR = q
      BY <1>1, Division
    <2>2. TRAFFIC_SCALAR * 1 + 0 = TRAFFIC_SCALAR * q + r /\ 0 \in 0 .. TRAFFIC_SCALAR - 1
      BY <1>1, <2>1
    <2> QED BY <1>1, <2>1, <2>2, Remainder
  <1>3. ROUND_TIME \in Int /\ 1 <= ROUND_TIME
    <2>1. TRAFFIC_SCALAR \div TRAFFIC_SCALAR <= TRACE_TIME \div TRAFFIC_SCALAR
      BY <1>1, DivMonotone
    <2>2. TRACE_TIME \div TRAFFIC_SCALAR \in Int
      BY <1>1, Division
    <2> QED BY <1>2, <2>1, <2>2 DEF ROUND_TIME
  <1>4. ROUND_TIME \in Nat \ {0}
    BY <1>3
  <1>5. RUN_TIME \div ROUND_TIME \in Nat
    BY <1>1, <1>4, DivMonotone
  <1> QED BY <1>4, <1>5 DEF MAX_ROUND

\* The events of the trace, and what their time is.
IdTime == [id : Int, time : Nat]
Evs    == [k \in 1 .. Len(trace) |-> id_time_t(trace[k])]
Timing == [x \in IdTime |-> x.time]

\* The line for an event in a round.
Line(e, r) == [id |-> e.id, time |-> e.time + r * ROUND_TIME]

InjType == /\ trace \in Seq(TraceLine) /\ idTimes \in Seq(IdTime) /\ result \in Seq(IdTime)
           /\ stage \in {"read", "sort", "print", "done"}
           /\ position \in Nat \ {0} /\ round \in 0 .. MAX_ROUND

\* So much is read.
Reading == stage = "read" =>
             /\ Len(idTimes) = position - 1 /\ position - 1 <= Len(trace)
             /\ \A k \in 1 .. position - 1 : idTimes[k] = Evs[k]

\* All is read, and so much is in order.
Complete == stage # "read" =>
              Len(idTimes) = Len(trace) /\ IsPermutation(idTimes, Evs, Len(trace))
Sorting == /\ stage = "sort" =>
                /\ position >= 2
                /\ position - 1 <= Len(trace) => InOrder(Timing, idTimes, position - 1)
                /\ position - 1 > Len(trace) => Len(trace) = 0
           /\ stage \in {"print", "done"} => InOrder(Timing, idTimes, Len(trace))

\* So much is printed.
Printing == /\ stage \in {"read", "sort"} => result = <<>> /\ round = 0
            /\ stage = "print" =>
                 /\ position <= Len(trace) + 1
                 /\ Len(result) = round * Len(trace) + (position - 1)
                 /\ round = MAX_ROUND => position = 1
            /\ stage = "done" => Len(result) = MAX_ROUND * Len(trace)

\* What is printed.
Printed == \A r \in 0 .. MAX_ROUND : \A k \in 1 .. Len(trace) :
           r * Len(trace) + k <= Len(result) =>
             result[r * Len(trace) + k] = Line(idTimes[k], r)

InjInv == trace # NoFile => InjType /\ Reading /\ Complete /\ Sorting /\ Printing /\ Printed

LEMMA InjInitInv == Init => InjInv
  <1> SUFFICES ASSUME Init, trace # NoFile
               PROVE  InjType /\ Reading /\ Complete /\ Sorting /\ Printing /\ Printed
    BY DEF InjInv
  <1>1. PICK e \in Experiments : trace = e.trace
    BY DEF Init
  <1>2. trace \in Seq(TraceLine)
    BY <1>1, TestbedAssumption
  <1>3. stage = "read" /\ idTimes = <<>> /\ position = 1 /\ round = 0 /\ result = <<>>
    BY DEF Init, InjInit
  <1>4. Len(trace) \in Nat /\ MAX_ROUND \in Nat
    BY <1>2, Rounds
  <1>5. InjType
    BY <1>2, <1>3, <1>4 DEF InjType
  <1>6. Reading /\ Complete /\ Sorting /\ Printing
    BY <1>3, <1>4 DEF Reading, Complete, Sorting, Printing
  <1>7. Printed
    <2> SUFFICES ASSUME NEW r \in 0 .. MAX_ROUND, NEW k \in 1 .. Len(trace)
                 PROVE  ~ (r * Len(trace) + k <= 0)
      BY <1>3 DEF Printed
    <2>1. PICK p \in Nat : p = r * Len(trace)
      BY <1>4
    <2> QED BY <1>4, <2>1
  <1> QED BY <1>5, <1>6, <1>7

(* Events are numbers. *)
LEMMA EventType ==
  ASSUME NEW l \in TraceLine
  PROVE  id_time_t(l) \in IdTime /\ id_time_t(l).time = (l.t \div 100) \div TRAFFIC_SCALAR
  <1>1. COLUMNS \in Nat /\ TRAFFIC_SCALAR \in Nat \ {0} /\ l.x \in Nat /\ l.y \in Nat /\ l.t \in Nat
    BY InjectionAssumption DEF TraceLine
  <1>2. FirstDigit(l.x) \in Int /\ FirstDigit(l.y) \in Int
    BY <1>1 DEF FirstDigit
  <1>3. coord2Id(FirstDigit(l.x), FirstDigit(l.y)) \in Int
    BY <1>1, <1>2 DEF coord2Id
  <1>4. l.t \div 100 \in Nat
    BY <1>1
  <1>5. (l.t \div 100) \div TRAFFIC_SCALAR \in Nat
    BY <1>1, <1>4, DivMonotone
  <1> QED BY <1>3, <1>5 DEF id_time_t, IdTime

(* A line is read. *)
LEMMA ReadStep ==
  ASSUME InjInv, trace # NoFile, ReadLine
  PROVE  InjInv'
  <1>1. /\ InjType /\ Reading /\ Printing /\ Printed
        /\ stage = "read" /\ UNCHANGED <<trace, round, result>>
    BY DEF InjInv, ReadLine
  <1>2. Len(trace) \in Nat /\ Len(idTimes) = position - 1 /\ position \in Nat \ {0}
        /\ idTimes \in Seq(IdTime) /\ trace \in Seq(TraceLine)
    BY <1>1 DEF InjType, Reading
  <1>3. result = <<>> /\ round = 0 /\ MAX_ROUND \in Nat
    BY <1>1, Rounds DEF Printing
  <1>4. Printed'
    <2> SUFFICES ASSUME NEW r \in 0 .. MAX_ROUND, NEW k \in 1 .. Len(trace)
                 PROVE  ~ (r * Len(trace) + k <= 0)
      BY <1>1, <1>3 DEF Printed
    <2>1. PICK p \in Nat : p = r * Len(trace)
      BY <1>2, <1>3
    <2> QED BY <1>2, <2>1
  <1>5. CASE position > Len(trace)
    <2>1. stage' = "sort" /\ position' = 2 /\ idTimes' = idTimes
      BY <1>5 DEF ReadLine
    <2>2. position - 1 = Len(trace)
      BY <1>1, <1>2, <1>5 DEF Reading
    <2>3. Complete'
      <3>1. \A k \in 1 .. Len(trace) : idTimes[k] = Evs[k]
        BY <1>1, <2>2 DEF Reading
      <3>2. IsPermutation(idTimes, Evs, Len(trace))
        BY <1>2, <3>1, PermutationOfItself
      <3>3. Evs' = Evs
        BY <1>1 DEF Evs
      <3> QED BY <1>1, <1>2, <2>1, <2>2, <3>2, <3>3 DEF Complete
    <2>4. Sorting'
      <3>1. ASSUME 1 <= Len(trace) PROVE InOrder(Timing, idTimes, 1)
        <4>1. 1 \in 1 .. Len(idTimes)
          BY <1>2, <2>2, <3>1
        <4>2. idTimes[1] \in IdTime
          BY <1>2, <4>1
        <4>3. Timing[idTimes[1]] \in Nat
          BY <4>2 DEF Timing, IdTime
        <4> QED BY <4>3 DEF InOrder
      <3> QED BY <1>1, <1>2, <2>1, <3>1 DEF Sorting
    <2>5. InjType' /\ Reading' /\ Printing'
      BY <1>1, <1>3, <2>1 DEF InjType, Reading, Printing
    <2> QED BY <1>4, <2>3, <2>4, <2>5 DEF InjInv
  <1>6. CASE ~ (position > Len(trace))
    <2>1. /\ stage' = "read" /\ position' = position + 1
          /\ idTimes' = Append(idTimes, id_time_t(trace[position]))
      BY <1>1, <1>6 DEF ReadLine
    <2>2. position \in 1 .. Len(trace)
      BY <1>2, <1>6
    <2>3. trace[position] \in TraceLine /\ Evs[position] = id_time_t(trace[position])
      BY <1>2, <2>2 DEF Evs
    <2>4. id_time_t(trace[position]) \in IdTime
      BY <2>3, EventType
    <2>5. /\ idTimes' \in Seq(IdTime) /\ Len(idTimes') = position
          /\ idTimes'[position] = Evs[position]
          /\ \A k \in 1 .. position - 1 : idTimes'[k] = idTimes[k]
      BY <1>2, <2>1, <2>3, <2>4, AppendProperties
    <2>6. \A k \in 1 .. position : idTimes'[k] = Evs[k]
      BY <1>1, <2>5 DEF Reading
    <2>7. Evs' = Evs
      BY <1>1 DEF Evs
    <2>8. Reading'
      BY <1>1, <1>2, <2>1, <2>2, <2>5, <2>6, <2>7 DEF Reading
    <2>9. InjType' /\ Complete' /\ Sorting' /\ Printing'
      BY <1>1, <1>3, <2>1, <2>5 DEF InjType, Complete, Sorting, Printing
    <2> QED BY <1>4, <2>8, <2>9 DEF InjInv
  <1> QED BY <1>5, <1>6

(* An event is moved to its place. *)
LEMMA InsertEventStep ==
  ASSUME InjInv, trace # NoFile, InsertEvent
  PROVE  InjInv'
  <1>1. /\ InjType /\ Complete /\ Sorting /\ Printing /\ Printed
        /\ stage = "sort" /\ UNCHANGED <<trace, round, result>>
    BY DEF InjInv, InsertEvent
  <1>2. /\ Len(trace) \in Nat /\ Len(idTimes) = Len(trace) /\ position \in Nat /\ position >= 2
        /\ idTimes \in Seq(IdTime)
        /\ IsPermutation(idTimes, Evs, Len(trace)) /\ Evs' = Evs
    BY <1>1 DEF InjType, Complete, Sorting, Evs
  <1>3. result = <<>> /\ round = 0 /\ MAX_ROUND \in Nat
    BY <1>1, Rounds DEF Printing
  <1>4. Printed'
    <2> SUFFICES ASSUME NEW r \in 0 .. MAX_ROUND, NEW k \in 1 .. Len(trace)
                 PROVE  ~ (r * Len(trace) + k <= 0)
      BY <1>1, <1>3 DEF Printed
    <2>1. PICK p \in Nat : p = r * Len(trace)
      BY <1>2, <1>3
    <2> QED BY <1>2, <2>1
  <1>5. CASE position > Len(idTimes)
    <2>1. stage' = "print" /\ position' = 1 /\ idTimes' = idTimes
      BY <1>5 DEF InsertEvent
    <2>2. InOrder(Timing, idTimes, Len(trace))
      <3>1. CASE position - 1 = Len(trace)
        BY <1>1, <1>2, <3>1 DEF Sorting
      <3>2. CASE Len(trace) = 0
        BY <3>2 DEF InOrder
      <3> QED BY <1>1, <1>2, <1>5, <3>1, <3>2 DEF Sorting
    <2>3. Printing'
      <3>1. 0 * Len(trace) + (1 - 1) = 0 /\ 1 <= Len(trace) + 1
        BY <1>2
      <3> QED BY <1>1, <1>3, <2>1, <3>1 DEF Printing
    <2>4. InjType' /\ Reading' /\ Complete' /\ Sorting'
      BY <1>1, <1>2, <2>1, <2>2 DEF InjType, Reading, Complete, Sorting
    <2> QED BY <1>4, <2>3, <2>4 DEF InjInv
  <1>6. CASE ~ (position > Len(idTimes))
    <2>1. position \in 2 .. Len(idTimes) /\ position \in 1 .. Len(idTimes)
      BY <1>2, <1>6
    <2>2. Timing \in [IdTime -> Nat]
      BY DEF Timing, IdTime
    <2>3. InOrder(Timing, idTimes, position - 1)
      BY <1>1, <1>2, <2>1 DEF Sorting
    <2>4. \A k \in 1 .. Len(idTimes) : Timing[idTimes[k]] = idTimes[k].time
      BY <1>2 DEF Timing
    <2> DEFINE j == Max({0} \union {k \in 1 .. position - 1 :
                                      idTimes[k].time <= idTimes[position].time})
    <2>5. j = Before(Timing, idTimes, position)
      <3>1. {k \in 1 .. position - 1 : idTimes[k].time <= idTimes[position].time}
              = {k \in 1 .. position - 1 : Timing[idTimes[k]] <= Timing[idTimes[position]]}
        BY <1>2, <2>1, <2>4
      <3> QED BY <3>1 DEF Before
    <2>6. /\ stage' = "sort" /\ position' = position + 1
          /\ idTimes' = InsertAt(RemoveAt(idTimes, position), j + 1, idTimes[position])
      BY <1>1, <1>6 DEF InsertEvent
    <2> HIDE DEF j
    <2>7. /\ idTimes' \in Seq(IdTime) /\ Len(idTimes') = Len(idTimes)
          /\ IsPermutation(idTimes', idTimes, Len(idTimes))
          /\ InOrder(Timing, idTimes', position)
      BY <1>2, <2>1, <2>2, <2>3, <2>5, <2>6, SortStep
    <2>8. IsPermutation(idTimes', Evs, Len(trace))
      BY <1>2, <2>7, PermutationsCompose
    <2>9. Complete'
      BY <1>1, <1>2, <2>7, <2>8 DEF Complete
    <2>10. Sorting'
      <3>1. position' - 1 = position /\ position' >= 2 /\ position <= Len(trace)
        BY <1>2, <2>1, <2>6
      <3> QED BY <1>1, <1>2, <2>6, <2>7, <3>1 DEF Sorting
    <2>11. InjType' /\ Reading' /\ Printing'
      BY <1>1, <1>3, <2>6, <2>7 DEF InjType, Reading, Printing
    <2> QED BY <1>4, <2>9, <2>10, <2>11 DEF InjInv
  <1> QED BY <1>5, <1>6

(* A line is printed. *)
LEMMA PrintStep ==
  ASSUME InjInv, trace # NoFile, PrintLine
  PROVE  InjInv'
  <1>1. /\ InjType /\ Complete /\ Sorting /\ Printing /\ Printed
        /\ stage = "print" /\ UNCHANGED <<trace, idTimes>>
    BY DEF InjInv, PrintLine
  <1>2. /\ Len(trace) \in Nat /\ Len(idTimes) = Len(trace) /\ position \in Nat \ {0}
        /\ idTimes \in Seq(IdTime) /\ result \in Seq(IdTime)
        /\ round \in 0 .. MAX_ROUND /\ MAX_ROUND \in Nat /\ ROUND_TIME \in Nat
        /\ position <= Len(trace) + 1
        /\ Len(result) = round * Len(trace) + (position - 1)
        /\ Evs' = Evs
    BY <1>1, Rounds DEF InjType, Complete, Printing, Evs
  <1>3. PICK p \in Nat : p = round * Len(trace)
    BY <1>2
  <1>4. CASE round = MAX_ROUND
    <2>1. stage' = "done" /\ UNCHANGED <<position, round, result>>
      BY <1>4 DEF PrintLine
    <2>2. Len(result) = MAX_ROUND * Len(trace)
      <3>1. position = 1
        BY <1>1, <1>4 DEF Printing
      <3> QED BY <1>2, <1>3, <1>4, <3>1
    <2>3. Printed'
      BY <1>1, <2>1 DEF Printed
    <2>4. InjType' /\ Reading' /\ Complete' /\ Sorting' /\ Printing'
      BY <1>1, <1>2, <2>1, <2>2 DEF InjType, Reading, Complete, Sorting, Printing
    <2> QED BY <2>3, <2>4 DEF InjInv
  <1>5. CASE round # MAX_ROUND /\ position > Len(idTimes)
    <2>1. round' = round + 1 /\ position' = 1 /\ UNCHANGED <<stage, result>>
      BY <1>5 DEF PrintLine
    <2>2. Len(result) = (round + 1) * Len(trace) + (1 - 1)
      <3>1. position - 1 = Len(trace)
        BY <1>2, <1>5
      <3>2. (round + 1) * Len(trace) = p + Len(trace)
        BY <1>2, <1>3
      <3> QED BY <1>2, <1>3, <3>1, <3>2
    <2>3. Printed'
      BY <1>1, <2>1 DEF Printed
    <2>4. round' \in 0 .. MAX_ROUND
      BY <1>2, <1>5, <2>1
    <2>5. Printing'
      BY <1>1, <1>2, <2>1, <2>2 DEF Printing
    <2>6. InjType' /\ Reading' /\ Complete' /\ Sorting'
      BY <1>1, <1>2, <2>1, <2>4 DEF InjType, Reading, Complete, Sorting
    <2> QED BY <2>3, <2>5, <2>6 DEF InjInv
  <1>6. CASE round # MAX_ROUND /\ ~ (position > Len(idTimes))
    <2> DEFINE tmp == idTimes[position]
    <2>1. /\ stage' = "print" /\ round' = round /\ position' = position + 1
          /\ result' = Append(result, Line(tmp, round))
      BY <1>1, <1>6 DEF PrintLine, Line
    <2>2. position \in 1 .. Len(trace)
      BY <1>2, <1>6
    <2>3. tmp \in IdTime
      BY <1>2, <2>2
    <2>4. Line(tmp, round) \in IdTime
      <3>1. PICK x \in Nat : x = round * ROUND_TIME
        BY <1>2
      <3>2. tmp.time + x \in Nat /\ tmp.id \in Int
        BY <2>3 DEF IdTime
      <3> QED BY <3>1, <3>2 DEF Line, IdTime
    <2> HIDE DEF tmp
    <2>5. /\ result' \in Seq(IdTime) /\ Len(result') = Len(result) + 1
          /\ result'[Len(result) + 1] = Line(tmp, round)
          /\ \A k \in 1 .. Len(result) : result'[k] = result[k]
      BY <1>2, <2>1, <2>4, AppendProperties
    <2>6. Printed'
      <3> SUFFICES ASSUME NEW r \in 0 .. MAX_ROUND, NEW k \in 1 .. Len(trace),
                          r * Len(trace) + k <= Len(result) + 1
                   PROVE  result'[r * Len(trace) + k] = Line(idTimes[k], r)
        BY <1>1, <2>5 DEF Printed, Line
      <3>1. PICK x \in Nat : x = r * Len(trace)
        BY <1>2
      <3>2. CASE x + k <= Len(result)
        <4>1. result[x + k] = Line(idTimes[k], r)
          BY <1>1, <3>1, <3>2 DEF Printed
        <4>2. x + k \in 1 .. Len(result)
          BY <1>2, <3>2
        <4> QED BY <2>5, <3>1, <4>1, <4>2
      <3>3. CASE x + k = Len(result) + 1
        <4>1. x + (k - 1) = p + (position - 1)
          BY <1>2, <1>3, <3>3
        <4>2. Len(trace) * r = x /\ Len(trace) * round = p
          BY <1>2, <1>3, <3>1
        <4>3. Len(trace) * r + (k - 1) = Len(trace) * round + (position - 1)
          BY <4>1, <4>2
        <4>4. /\ Len(trace) \in Nat \ {0} /\ r \in Int /\ round \in Int
              /\ k - 1 \in 0 .. Len(trace) - 1 /\ position - 1 \in 0 .. Len(trace) - 1
          BY <1>2, <2>2
        <4>5. r = round /\ k - 1 = position - 1
          BY SMTT(30), <4>3, <4>4, Remainder
        <4>6. k = position
          BY <1>2, <4>5
        <4> QED BY <2>5, <3>1, <3>3, <4>5, <4>6 DEF tmp
      <3> QED BY SMTT(30), <1>2, <3>1, <3>2, <3>3
    <2>7. Printing'
      <3>1. Len(result') = round' * Len(trace') + (position' - 1)
        BY <1>1, <1>2, <1>3, <2>1, <2>5
      <3>2. position' <= Len(trace') + 1 /\ round' # MAX_ROUND
        BY <1>1, <1>2, <1>6, <2>1, <2>2
      <3> QED BY <2>1, <3>1, <3>2 DEF Printing
    <2>8. InjType' /\ Reading' /\ Complete' /\ Sorting'
      BY <1>1, <1>2, <2>1, <2>5 DEF InjType, Reading, Complete, Sorting
    <2> QED BY <2>6, <2>7, <2>8 DEF InjInv
  <1> QED BY <1>4, <1>5, <1>6

LEMMA InjNextInv == InjInv /\ [Next]_vars => InjInv'
  <1> SUFFICES ASSUME InjInv, [Next]_vars PROVE InjInv'
    OBVIOUS
  <1>1. CASE UNCHANGED injVars
    BY <1>1 DEF injVars, InjInv, InjType, Reading, Complete, Sorting, Printing, Printed, Evs
  <1>2. CASE InjGen
    <2>1. CASE trace = NoFile
      BY <1>2, <2>1 DEF InjGen, ReadLine, InsertEvent, PrintLine, InjInv
    <2>2. CASE trace # NoFile
      BY <1>2, <2>2, ReadStep, InsertEventStep, PrintStep DEF InjGen
    <2> QED BY <2>1, <2>2
  <1> QED BY <1>1, <1>2 DEF Next, vars, Node, CommanderNode, Programs, Inject, Tick
(* All lines are there. *)
LEMMA AllPrinted ==
  ASSUME InjInv, trace # NoFile, stage = "done",
         NEW r \in 0 .. MAX_ROUND - 1, NEW k \in 1 .. Len(trace)
  PROVE  /\ Len(trace) * r + k \in 1 .. Len(result)
         /\ result[Len(trace) * r + k] = Line(idTimes[k], r)
  <1>1. /\ Len(trace) \in Nat /\ MAX_ROUND \in Nat /\ Len(result) = MAX_ROUND * Len(trace)
        /\ Printed
    BY Rounds DEF InjInv, InjType, Printing
  <1>2. PICK x \in Nat : x = Len(trace) * r
    BY <1>1
  <1>3. PICK y \in Nat : y = Len(trace) * (MAX_ROUND - 1 - r)
    <2>1. MAX_ROUND - 1 - r \in Nat
      BY <1>1
    <2> QED BY <1>1, <2>1
  <1>4. MAX_ROUND * Len(trace) = x + y + Len(trace)
    <2>1. Len(trace) * (MAX_ROUND - 1 - r)
            = Len(trace) * MAX_ROUND - Len(trace) - Len(trace) * r
      BY <1>1
    <2>2. Len(trace) * MAX_ROUND = MAX_ROUND * Len(trace) /\ MAX_ROUND * Len(trace) \in Nat
      BY <1>1
    <2> QED BY <1>1, <1>2, <1>3, <2>1, <2>2
  <1>5. x + k \in 1 .. Len(result)
    BY <1>1, <1>4
  <1>6. r \in 0 .. MAX_ROUND /\ r * Len(trace) = x
    BY <1>1, <1>2
  <1> QED BY <1>1, <1>2, <1>5, <1>6 DEF Printed

(* An event of a trace that fits is over when its round is. *)
LEMMA FitsRound ==
  ASSUME InjInv, trace # NoFile, stage = "done", Fits, NEW k \in 1 .. Len(trace)
  PROVE  idTimes[k].time <= ROUND_TIME
  <1>1. /\ trace \in Seq(TraceLine) /\ Len(trace) \in Nat
        /\ IsPermutation(idTimes, Evs, Len(trace))
    BY DEF InjInv, InjType, Complete
  <1>2. PICK j \in 1 .. Len(trace) : idTimes[k] = Evs[j]
    BY <1>1, PermutationValues
  <1>3. trace[j] \in TraceLine /\ Evs[j] = id_time_t(trace[j])
    BY <1>1 DEF Evs
  <1>4. idTimes[k].time = (trace[j].t \div 100) \div TRAFFIC_SCALAR
    BY <1>2, <1>3, EventType
  <1>5. trace[j].t \div 100 \in Nat /\ trace[j].t \div 100 <= TRACE_TIME
    BY <1>3 DEF Fits, TraceLine
  <1>6. TRAFFIC_SCALAR \in Nat \ {0} /\ TRACE_TIME \in Nat
    BY InjectionAssumption
  <1> QED BY <1>4, <1>5, <1>6, DivMonotone DEF ROUND_TIME

(* The lines are in the order of time. *)
LEMMA PrintedInOrder ==
  ASSUME InjInv, trace # NoFile, stage = "done", Fits, NEW i \in 1 .. Len(result) - 1
  PROVE  result[i].time <= result[i + 1].time
  <1>1. /\ Len(trace) \in Nat /\ MAX_ROUND \in Nat /\ ROUND_TIME \in Nat
        /\ Len(result) = MAX_ROUND * Len(trace)
        /\ idTimes \in Seq(IdTime) /\ Len(idTimes) = Len(trace)
        /\ InOrder(Timing, idTimes, Len(trace))
    BY Rounds DEF InjInv, InjType, Complete, Sorting, Printing
  <1>2. Len(trace) # 0
    <2>1. Len(trace) = 0 => Len(result) = 0
      BY <1>1
    <2> QED BY <2>1
  <1> DEFINE n == Len(trace)
  <1>3. PICK r \in Int, q \in 0 .. n - 1 : i - 1 = n * r + q
    <2>1. i - 1 \in Int /\ n \in Nat \ {0}
      BY <1>1, <1>2
    <2> QED BY <2>1, Divided
  <1>0. n \in Nat \ {0} /\ Len(result) \in Nat /\ i \in Nat /\ i >= 1 /\ i + 1 <= Len(result)
    <2>1. MAX_ROUND * n \in Nat
      BY <1>1
    <2> QED BY <1>1, <1>2, <2>1
  <1>4. r \in 0 .. MAX_ROUND - 1
    <2>1. CASE r < 0
      <3>1. PICK k \in Nat : r = -1 - k
        <4>1. -1 - r \in Nat /\ r = -1 - (-1 - r)
          BY <2>1
        <4> QED BY <4>1
      <3>2. n * r = -n - n * k /\ n * k >= 0
        BY <1>0, <3>1
      <3> QED BY <1>0, <1>3, <3>2
    <2>2. CASE r >= MAX_ROUND
      <3>1. PICK k \in Nat : r = MAX_ROUND + k
        <4>1. r - MAX_ROUND \in Nat /\ r = MAX_ROUND + (r - MAX_ROUND)
          BY <1>1, <2>2
        <4> QED BY <4>1
      <3>2. n * r = MAX_ROUND * n + n * k /\ n * k >= 0 /\ MAX_ROUND * n \in Nat
        BY <1>0, <1>1, <3>1
      <3> QED BY <1>0, <1>1, <1>3, <3>2
    <2> QED BY <1>1, <2>1, <2>2
  <1>5. q + 1 \in 1 .. n /\ n * r + (q + 1) = i
    <2>1. n * r \in Int
      BY <1>0
    <2> QED BY <1>0, <1>3, <2>1
  <1> HIDE DEF n
  <1>6. result[i] = Line(idTimes[q + 1], r)
    <2>1. result[n * r + (q + 1)] = Line(idTimes[q + 1], r)
      BY <1>4, <1>5, AllPrinted DEF n
    <2> QED BY <1>5, <2>1
  <1>7. \A k \in 1 .. n : idTimes[k].time \in Nat /\ Timing[idTimes[k]] = idTimes[k].time
    <2>1. \A k \in 1 .. n : idTimes[k] \in IdTime
      BY <1>1 DEF n
    <2> QED BY <2>1 DEF Timing, IdTime
  <1>8. PICK x \in Nat : x = r * ROUND_TIME
    BY <1>1, <1>4
  <1>9. result[i].time = idTimes[q + 1].time + x
    BY <1>6, <1>8 DEF Line
  <1>10. CASE q + 1 < n
    <2>1. q + 2 \in 1 .. n /\ n * r + (q + 2) = i + 1
      <3>1. n * r \in Int
        BY <1>0, <1>4
      <3> QED BY <1>0, <1>3, <1>10, <3>1
    <2>2. result[n * r + (q + 2)] = Line(idTimes[q + 2], r)
      BY <1>4, <2>1, AllPrinted DEF n
    <2>3. result[i + 1].time = idTimes[q + 2].time + x
      BY <1>8, <2>1, <2>2 DEF Line
    <2>4. Timing[idTimes[q + 1]] <= Timing[idTimes[q + 2]]
      BY SMTT(30), <1>1, <1>5, <2>1 DEF InOrder, n
    <2> QED BY SMTT(30), <1>5, <1>7, <1>9, <2>1, <2>3, <2>4
  <1>11. CASE q + 1 = n
    <2>1. 1 \in 1 .. n /\ n * (r + 1) = n * r + n /\ n * r \in Int
      BY <1>0, <1>4
    <2>2. n * (r + 1) + 1 = i + 1
      BY <1>0, <1>5, <1>11, <2>1
    <2>3. r + 1 # MAX_ROUND
      <3> SUFFICES ASSUME r + 1 = MAX_ROUND PROVE FALSE
        OBVIOUS
      <3>1. n * MAX_ROUND = MAX_ROUND * n
        BY <1>0, <1>1
      <3>2. n * (r + 1) = Len(result)
        BY <1>1, <3>1 DEF n
      <3> QED BY <1>0, <2>2, <3>2
    <2>4. r + 1 \in 0 .. MAX_ROUND - 1
      BY <1>1, <1>4, <2>3
    <2>5. result[n * (r + 1) + 1] = Line(idTimes[1], r + 1)
      BY <2>1, <2>4, AllPrinted DEF n
    <2>6. (r + 1) * ROUND_TIME = x + ROUND_TIME
      BY <1>1, <1>4, <1>8
    <2>7. result[i + 1].time = idTimes[1].time + (x + ROUND_TIME)
      BY <2>2, <2>5, <2>6 DEF Line
    <2>8. idTimes[q + 1].time <= ROUND_TIME
      <3>1. q + 1 \in 1 .. Len(trace)
        BY <1>5 DEF n
      <3> QED BY <3>1, FitsRound
    <2>9. idTimes[q + 1].time \in Nat /\ idTimes[1].time \in Nat
      BY <1>5, <1>7, <2>1
    <2>10. ROUND_TIME \in Nat
      BY <1>1
    <2>11. idTimes[q + 1].time + x <= idTimes[1].time + (x + ROUND_TIME)
      BY SMTT(30), <2>8, <2>9, <2>10
    <2> QED BY <1>9, <2>7, <2>11
  <1> QED BY <1>0, <1>5, <1>10, <1>11

(* Every round has every event as often as the trace. *)
LEMMA PrintedCounts ==
  ASSUME InjInv, trace # NoFile, stage = "done",
         NEW r \in 0 .. MAX_ROUND - 1, NEW e \in IdTime
  PROVE  Cardinality({k \in r * Len(trace) + 1 .. (r + 1) * Len(trace) :
                        result[k] = [e EXCEPT !.time = @ + r * ROUND_TIME]})
           = Cardinality({i \in 1 .. Len(trace) : Evs[i] = e})
  <1> DEFINE n == Len(trace)
             T == {i \in 1 .. n : idTimes[i] = e}
             R == {k \in r * n + 1 .. (r + 1) * n :
                     result[k] = [e EXCEPT !.time = @ + r * ROUND_TIME]}
             f == [i \in T |-> r * n + i]
  <1>1. /\ n \in Nat /\ MAX_ROUND \in Nat /\ ROUND_TIME \in Nat /\ r \in Nat
        /\ idTimes \in Seq(IdTime) /\ Len(idTimes) = n
        /\ IsPermutation(idTimes, Evs, n)
    BY Rounds DEF InjInv, InjType, Complete
  <1>2. PICK x \in Nat : x = r * n
    BY <1>1
  <1>3. (r + 1) * n = x + n /\ n * r = x
    BY <1>1, <1>2
  <1>4. PICK y \in Nat : y = r * ROUND_TIME
    BY <1>1
  <1>5. ASSUME NEW i \in 1 .. n
        PROVE  result[x + i] = [e EXCEPT !.time = @ + r * ROUND_TIME] <=> idTimes[i] = e
    <2>1. result[n * r + i] = Line(idTimes[i], r)
      BY AllPrinted
    <2>2. result[x + i] = [id |-> idTimes[i].id, time |-> idTimes[i].time + y]
      BY <1>3, <1>4, <2>1 DEF Line
    <2>3. [e EXCEPT !.time = @ + r * ROUND_TIME] = [id |-> e.id, time |-> e.time + y]
      BY <1>4 DEF IdTime
    <2>4. idTimes[i] \in IdTime
      BY <1>1
    <2>5. /\ idTimes[i] = [id |-> idTimes[i].id, time |-> idTimes[i].time]
          /\ e = [id |-> e.id, time |-> e.time]
          /\ idTimes[i].time \in Nat /\ e.time \in Nat
      BY <2>4 DEF IdTime
    <2>6. result[x + i] = [e EXCEPT !.time = @ + r * ROUND_TIME]
            <=> idTimes[i].id = e.id /\ idTimes[i].time + y = e.time + y
      BY <2>2, <2>3
    <2>7. idTimes[i].time + y = e.time + y <=> idTimes[i].time = e.time
      BY <2>5
    <2> QED BY <2>5, <2>6, <2>7
  <1>6. R = {k \in x + 1 .. x + n : result[k] = [e EXCEPT !.time = @ + r * ROUND_TIME]}
    BY <1>2, <1>3
  <1>7. f \in Bijection(T, R)
    <2>1. ASSUME NEW i \in T PROVE f[i] = x + i /\ f[i] \in R
      <3>1. i \in 1 .. n /\ x + i \in x + 1 .. x + n
        BY <1>1
      <3> QED BY <1>2, <1>5, <1>6, <3>1
    <2>2. ASSUME NEW k \in R PROVE \E i \in T : f[i] = k
      <3>1. k \in x + 1 .. x + n /\ result[k] = [e EXCEPT !.time = @ + r * ROUND_TIME]
        BY <1>6
      <3>2. k - x \in 1 .. n /\ x + (k - x) = k
        BY <1>1, <3>1
      <3>3. k - x \in T
        BY <1>5, <3>1, <3>2
      <3> QED BY <2>1, <3>2, <3>3
    <2>3. ASSUME NEW i \in T, NEW j \in T, f[i] = f[j] PROVE i = j
      <3>1. x + i = x + j /\ i \in Nat /\ j \in Nat
        BY <2>1, <2>3
      <3> QED BY <3>1
    <2>4. f \in [T -> R]
      <3>1. \A i \in T : r * n + i \in R
        BY <2>1
      <3> HIDE DEF T, R
      <3> QED BY <3>1
    <2> HIDE DEF f, T, R
    <2> QED BY <2>2, <2>3, <2>4, Fun_IsBij
  <1>8. IsFiniteSet(T)
    <2>1. IsFiniteSet(1 .. n)
      BY <1>1, FS_Interval
    <2> QED BY <2>1, FS_Subset
  <1>9. Cardinality(R) = Cardinality(T)
    <2> HIDE DEF f, T, R
    <2>1. ExistsBijection(T, R)
      BY <1>7 DEF ExistsBijection
    <2> QED BY <1>8, <2>1, FS_Bijection
  <1>10. Cardinality(T) = Cardinality({i \in 1 .. n : Evs[i] = e})
    <2>1. Count(idTimes, n, e) = Count(Evs, n, e)
      BY <1>1, PermutationCounts
    <2> QED BY <2>1 DEF Count
  <1> QED BY <1>9, <1>10

(* Round after round the lines repeat the trace, every event as often and at its scaled
   time; they are in the order of time if no event is later than a round lasts
   (InjGen.c:66-109). *)
THEOREM TraceReplayed == Spec => []Replayed
  <1>1. ASSUME InjInv PROVE Replayed
    <2> SUFFICES ASSUME stage = "done", trace # NoFile
                 PROVE  Replayed
      BY DEF Replayed
    <2>1. /\ trace \in Seq(TraceLine) /\ Len(trace) \in Nat /\ MAX_ROUND \in Nat
          /\ Len(result) = MAX_ROUND * Len(trace)
      BY <1>1, Rounds DEF InjInv, InjType, Printing
    <2>2. Len(result) = Len(trace) * MAX_ROUND
      BY <2>1
    <2>3. Fits => \A k \in 1 .. Len(result) - 1 : result[k].time <= result[k + 1].time
      BY <1>1, PrintedInOrder
    <2>4. ASSUME NEW r \in 0 .. MAX_ROUND - 1, NEW k \in 1 .. Len(trace)
          PROVE  Cardinality({i \in r * Len(trace) + 1 .. (r + 1) * Len(trace) :
                    result[i] = [id_time_t(trace[k]) EXCEPT !.time = @ + r * ROUND_TIME]})
                   = Cardinality({i \in 1 .. Len(trace) :
                                    id_time_t(trace[i]) = id_time_t(trace[k])})
      <3>1. PICK e \in IdTime : e = id_time_t(trace[k])
        BY <2>1, EventType
      <3>2. {i \in 1 .. Len(trace) : Evs[i] = e} = {i \in 1 .. Len(trace) : id_time_t(trace[i]) = e}
        BY DEF Evs
      <3> QED BY <1>1, <3>1, <3>2, PrintedCounts
    <2> QED BY <2>2, <2>3, <2>4 DEF Replayed
  <1> QED BY <1>1, InjInitInv, InjNextInv, PTL DEF Spec
=============================================================================
