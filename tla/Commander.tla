----------------------------- MODULE Commander -----------------------------
(***************************************************************************)
(* SyncRoot, CommanderP.nc: the node that broadcasts its clock every       *)
(* SYNC_PERIOD.  The radio stamps a packet, so that a receiver knows when, *)
(* in its own clock, the commander had read the time it carries.  Packets  *)
(* arrive late or never.  The sequence number, only logged, is left out.   *)
(***************************************************************************)
EXTENDS Integers

CONSTANTS
  SYNC_PERIOD,
  CLOCK,        \* clocks are unsigned and wrap: 2^32
  NoPacket

ASSUME CommanderAssumption == SYNC_PERIOD \in Nat \ {0} /\ CLOCK \in Nat \ {0}

VARIABLES
  now,          \* the time that passes, which no node knows
  offset,       \* of the commander's clock
  MilliTimer,   \* when it fires; -1: it is not started
  locked,
  air           \* the packet last sent: the time it carries, and when that was

cmdVars == <<MilliTimer, locked, air>>

CommanderClock == (now + offset) % CLOCK

CmdInit == MilliTimer = -1 /\ locked = FALSE /\ air = NoPacket

\* The header of a synchronization packet, with the time stamp of the radio.
sync_header_t == [globalTime : 0 .. CLOCK - 1, eventAt : Nat]

\* AMControl.startDone; a failed start is tried again.
CmdStarted == /\ MilliTimer = -1
              /\ MilliTimer' = now + SYNC_PERIOD
              /\ UNCHANGED <<now, offset, locked, air>>

\* The clock is broadcast, unless the last packet has not left or the radio refuses.
MilliTimerFired ==
  /\ MilliTimer = now
  /\ MilliTimer' = now + SYNC_PERIOD
  /\ \/ /\ ~ locked
        /\ air' = [globalTime |-> CommanderClock, eventAt |-> now]
        /\ locked' = TRUE
     \/ UNCHANGED <<air, locked>>
  /\ UNCHANGED <<now, offset>>

AMSendDone == locked /\ locked' = FALSE /\ UNCHANGED <<now, offset, MilliTimer, air>>
=============================================================================
