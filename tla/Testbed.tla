------------------------------ MODULE Testbed ------------------------------
(***************************************************************************)
(* An experiment: the application on a node, and what drives it in each    *)
(* build.  Commands are injected through the serial port as InjGen's lines *)
(* say; the commander broadcasts its clock; in the simulator the nodes are *)
(* booted by Driver.c.                                                     *)
(***************************************************************************)
EXTENDS TestApp, Injection, Driver

CONSTANTS
  Experiments,  \* [build, node, simulator, trace, offset, skew]
  MaxTime       \* when the experiment ends

\* The simulator has no time synchronization.
ASSUME TestbedAssumption ==
  \A e \in Experiments :
    /\ e.build \in Builds /\ (e.simulator => e.build = "PERIODIC")
    /\ e.trace = NoFile \/ e.trace \in Seq(TraceLine)
    /\ e.offset \in Nat /\ e.skew \in Nat

VARIABLES
  simulator,    \* the node is simulated
  injected      \* how many lines have been injected

vars == <<now, offset, given, app, cmdVars, injVars, driverVars, simulator, injected>>

Init ==
  /\ \E e \in Experiments :
       /\ build = e.build /\ TOS_NODE_ID = e.node /\ simulator = e.simulator
       /\ trace = e.trace /\ offset = e.offset /\ skew = e.skew
  /\ AppInit /\ CmdInit /\ InjInit /\ DriverInit
  /\ ~ simulator => topology = NoTopology
  /\ now = 0 /\ injected = 0

\* The injector, not part of the repository: at the time of a line, the command for
\* its node, if the node has a serial port.  It may get lost.
Due == /\ stage = "done" /\ injected < Len(result)
       /\ result[injected + 1].time <= now

Inject == /\ Due
          /\ injected' = injected + 1
          /\ \/ /\ result[injected + 1].id = TOS_NODE_ID /\ lookup(TOS_NODE_ID)
                /\ UartReceive
             \/ UNCHANGED app
          /\ UNCHANGED <<now, offset, given, cmdVars, injVars, driverVars, simulator>>

\* Handlers take no time, and timers fire when they are due.
Tick == /\ now < MaxTime
        /\ Timer # now /\ MilliTimer # now /\ ~ Due
        /\ now' = now + 1
        /\ UNCHANGED <<offset, given, app, cmdVars, injVars, driverVars, simulator, injected>>

Start == IF simulator THEN TOS_NODE_ID \in simulated ELSE TRUE

Node == /\ \/ Start /\ Booted
           \/ UartStarted \/ RadioStarted
           \/ PeriodicTimerFired \/ EventTimerFired
           \/ SendDone \/ TimeSyncReceive
        /\ UNCHANGED <<now, offset, given, cmdVars, injVars, driverVars, simulator, injected>>

CommanderNode == /\ build = "EVENT"
                 /\ CmdStarted \/ MilliTimerFired \/ AMSendDone
                 /\ UNCHANGED <<given, app, injVars, driverVars, simulator, injected>>

Programs == /\ \/ InjGen /\ UNCHANGED driverVars
               \/ simulator /\ DriverMain /\ UNCHANGED injVars
            /\ UNCHANGED <<now, offset, given, app, cmdVars, simulator, injected>>

Next == Node \/ CommanderNode \/ Programs \/ Inject \/ Tick

Spec == Init /\ [][Next]_vars

-----------------------------------------------------------------------------
(* sendBusy, the only guard of the one packet buffer (TestMTAC.nc:42, :157, :231): it is
   set exactly while the protocol has the packet, whichever of the timer, the serial
   port and sendDone asks for the next one. *)
OnePacket == outstanding = IF sendBusy THEN 1 ELSE 0

(* "CONVERGE_TIME is in commander's clock" (TestMTAC.nc:285): whatever its own clock
   shows and however late the packet it heard was, a source starts its timer so that it
   fires for the first time at that time of the commander, and it sends only when the
   timer fires, which nothing sets anew before. *)
StartsTogether ==
  [][build = "EVENT" =>
       /\ Timer = -1 /\ Timer' # -1 => (Timer' + offset) % CLOCK = CONVERGE_TIME % CLOCK
       /\ Timer # -1 /\ Timer' # Timer => Timer = now
       /\ seqNum' # seqNum => Timer = now]_vars
=============================================================================
