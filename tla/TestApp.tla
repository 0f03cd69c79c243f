------------------------------ MODULE TestApp ------------------------------
(***************************************************************************)
(* TestMTAC.nc, the application on one node, in its three builds:          *)
(*   PERIODIC  sources send a packet every SRC_PERIOD                      *)
(*   EVENT     sources replay the events of a trace, from the time of the  *)
(*             commander on (EVENT_TRAFFIC)                                *)
(*   UART      packets are sent on command (EVENT_TRAFFIC and INDRIYA)     *)
(* The collection protocol under it takes a packet or refuses it, and      *)
(* answers sendDone once for each packet it took.  The payload fits into a *)
(* packet; received packets are only logged.                               *)
(***************************************************************************)
EXTENDS Commander, Sequences, FiniteSets

CONSTANTS
  NODES_BOOTUP_TIME, CONVERGE_TIME, SRC_PERIOD, EVENT_PERIOD,
  PKT_NUM,      \* packets a periodic source sends, 65535
  REPEAT_CNT,   \* packets for a command
  COUNT,        \* counters are uint16_t and wrap: 2^16
  ROOT_NODE_ID,
  Senders,      \* senderSet
  EventTimes    \* idTimes: lines [id, time]

\* What the macros choose between.
Builds == {"PERIODIC", "EVENT", "UART"}

ASSUME TestAppAssumption ==
  /\ {NODES_BOOTUP_TIME, CONVERGE_TIME, SRC_PERIOD, EVENT_PERIOD, PKT_NUM, REPEAT_CNT}
       \subseteq Nat \ {0}
  /\ \A i \in DOMAIN EventTimes : EventTimes[i].time < EVENT_PERIOD

VARIABLES
  build,
  TOS_NODE_ID,
  skew,             \* of this node's clock
  power,            \* what is being started: "off", "uart", "radio"; "on"
  routing,          \* RoutingControl is started
  isRoot,
  sendBusy, seqNum, timerFireTimes, repeat_cnt,
  is_src, synced,
  state,            \* which event is next
  Timer,            \* when it fires; -1: it is not started
  outstanding       \* packets the protocol has taken and not answered

given == <<build, TOS_NODE_ID, skew>>
app   == <<power, routing, isRoot, sendBusy, seqNum, timerFireTimes, repeat_cnt, is_src,
           synced, state, Timer, outstanding>>

AppInit == /\ power = "off" /\ routing = FALSE /\ isRoot = FALSE
           /\ sendBusy = FALSE /\ seqNum = 0 /\ timerFireTimes = 0 /\ repeat_cnt = 0
           /\ is_src = FALSE /\ synced = FALSE /\ state = 0
           /\ Timer = -1 /\ outstanding = 0

LocalTime(t) == (t + skew) % CLOCK

\* The payload of a packet.
EasyCollectionMsg == [nodeId : Nat, seq : 0 .. COUNT - 1]

\* findEventTime: the times of the first two events of the node.
TimesOf(node) == SelectSeq(EventTimes, LAMBDA e : e.id = node)
findEventTime(node) == Len(TimesOf(node)) > 1
t0 == TimesOf(TOS_NODE_ID)[1].time
t1 == TimesOf(TOS_NODE_ID)[2].time

\* A packet is numbered, and sent if the protocol takes it.  On command, at most
\* REPEAT_CNT in a row; repeat_cnt passes that by one.
sendMessage(busy, repeats, others) ==
  IF build = "UART" /\ repeats >= REPEAT_CNT
  THEN /\ repeat_cnt' = repeats + 1 /\ sendBusy' = busy /\ outstanding' = others
       /\ UNCHANGED seqNum
  ELSE /\ repeat_cnt' = IF build = "UART" THEN repeats + 1 ELSE repeats
       /\ seqNum' = (seqNum + 1) % COUNT
       /\ \/ sendBusy' = busy /\ outstanding' = others
          \/ routing /\ sendBusy' = TRUE /\ outstanding' = others + 1

Booted == /\ power = "off"
          /\ power' = IF build = "UART" THEN "uart" ELSE "radio"
          /\ seqNum' = 0
          /\ UNCHANGED <<routing, isRoot, sendBusy, timerFireTimes, repeat_cnt, is_src,
               synced, state, Timer, outstanding>>

\* A failed start is tried again.
UartStarted == /\ power = "uart" /\ power' = "radio"
               /\ UNCHANGED <<routing, isRoot, sendBusy, seqNum, timerFireTimes, repeat_cnt,
                    is_src, synced, state, Timer, outstanding>>

RadioStarted ==
  /\ power = "radio" /\ power' = "on"
  /\ IF build = "PERIODIC"
     THEN Timer' = now + NODES_BOOTUP_TIME /\ UNCHANGED <<isRoot, routing, is_src>>
     ELSE /\ isRoot' = (TOS_NODE_ID = ROOT_NODE_ID)
          /\ routing' = TRUE
          /\ is_src' = (build = "EVENT" /\ findEventTime(TOS_NODE_ID))
          /\ UNCHANGED Timer
  /\ UNCHANGED <<sendBusy, seqNum, timerFireTimes, repeat_cnt, synced, state, outstanding>>

\* The root and the sources take their parts, and the protocol starts.
WarmUp == /\ timerFireTimes = 0
          /\ isRoot' = (isRoot \/ TOS_NODE_ID = ROOT_NODE_ID)
          /\ Timer' = IF TOS_NODE_ID # ROOT_NODE_ID /\ TOS_NODE_ID \in Senders
                      THEN now + CONVERGE_TIME ELSE -1
          /\ routing' = TRUE
          /\ UNCHANGED <<sendBusy, seqNum, repeat_cnt, outstanding>>

FirstPeriod == /\ timerFireTimes = 1
               /\ Timer' = now + SRC_PERIOD
               /\ UNCHANGED <<routing, isRoot, sendBusy, seqNum, repeat_cnt, outstanding>>

\* A packet that is still on its way delays the next one by a period.
Period == /\ timerFireTimes > 1
          /\ IF seqNum >= PKT_NUM
             THEN Timer' = -1 /\ UNCHANGED <<sendBusy, seqNum, repeat_cnt, outstanding>>
             ELSE /\ Timer' = now + SRC_PERIOD
                  /\ IF sendBusy THEN UNCHANGED <<sendBusy, seqNum, repeat_cnt, outstanding>>
                     ELSE sendMessage(sendBusy, repeat_cnt, outstanding)
          /\ UNCHANGED <<routing, isRoot>>

PeriodicTimerFired == /\ build = "PERIODIC" /\ Timer = now
                      /\ WarmUp \/ FirstPeriod \/ Period
                      /\ timerFireTimes' = (timerFireTimes + 1) % COUNT
                      /\ UNCHANGED <<power, is_src, synced, state>>

\* Four times as fast as the trace.
EventTimerFired ==
  /\ build = "EVENT" /\ Timer = now
  /\ IF sendBusy THEN UNCHANGED <<sendBusy, seqNum, repeat_cnt, outstanding>>
     ELSE sendMessage(sendBusy, repeat_cnt, outstanding)
  /\ LET r == <<t0, t1, EVENT_PERIOD - t1>>[state + 1]
     IN Timer' = now + (r \div 4)
  /\ state' = (state + 1) % 3
  /\ UNCHANGED <<power, routing, isRoot, timerFireTimes, is_src, synced>>

SendDone ==
  /\ outstanding > 0
  /\ IF build = "UART" THEN sendMessage(FALSE, repeat_cnt, outstanding - 1)
     ELSE /\ sendBusy' = FALSE /\ outstanding' = outstanding - 1
          /\ UNCHANGED <<seqNum, repeat_cnt>>
  /\ UNCHANGED <<power, routing, isRoot, timerFireTimes, is_src, synced, state, Timer>>

\* Faulty: a command does not wait for the packets of the last one.
UartReceive_Eager ==
  /\ build = "UART" /\ power \in {"radio", "on"}
  /\ sendMessage(sendBusy, 0, outstanding)
  /\ UNCHANGED <<power, routing, isRoot, timerFireTimes, is_src, synced, state, Timer>>

\* A command is dropped while packets of the last one are on their way.
UartReceive ==
  /\ build = "UART" /\ power \in {"radio", "on"}
  /\ IF sendBusy THEN UNCHANGED <<sendBusy, seqNum, repeat_cnt, outstanding>>
     ELSE sendMessage(sendBusy, 0, outstanding)
  /\ UNCHANGED <<power, routing, isRoot, timerFireTimes, is_src, synced, state, Timer>>

\* Faulty: the time the packet took is not considered.
TimeSyncReceive_Undelayed ==
  /\ air # NoPacket /\ is_src /\ ~ synced
  /\ synced' = TRUE
  /\ Timer' = now + ((CONVERGE_TIME - air.globalTime) % CLOCK)
  /\ UNCHANGED <<power, routing, isRoot, sendBusy, seqNum, timerFireTimes, repeat_cnt, is_src,
       state, outstanding>>

\* The first valid time packet that a source receives tells it when to start.
TimeSyncReceive ==
  /\ air # NoPacket /\ is_src /\ ~ synced
  /\ synced' = TRUE
  /\ LET local_time == LocalTime(now)
         local_event_time == LocalTime(air.eventAt)
     IN Timer' = now +
          ((CONVERGE_TIME + local_event_time - local_time - air.globalTime) % CLOCK)
  /\ UNCHANGED <<power, routing, isRoot, sendBusy, seqNum, timerFireTimes, repeat_cnt, is_src,
       state, outstanding>>
=============================================================================
