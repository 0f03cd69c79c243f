------------------------------- MODULE Driver -------------------------------
(***************************************************************************)
(* Driver.c, the program that runs the nodes in the TOSSIM simulator: it   *)
(* reads the links and the noise from a file, boots all nodes at time 0    *)
(* and then runs the simulator's events.  The simulator is external.       *)
(***************************************************************************)
EXTENDS Integers, Sequences

CONSTANTS
  Topologies,     \* files: lines <<"gain", x, y, gain>> or <<"noise", node, mean, std>>
  NoTopology,     \* the file is missing
  nodeNum         \* nodes are 0 .. nodeNum - 1

NOISE_RANDOM_NUM == 1000

VARIABLES
  topology,   \* the file
  links,      \* Radio.add: the links <<x, y>> of the radio model
  readings,   \* Mote.addNoiseTraceReading: how many each node has got
  simulated   \* the nodes that boot in the simulator

driverVars == <<topology, links, readings, simulated>>

DriverInit == /\ topology \in Topologies \union {NoTopology}
              /\ links = {} /\ readings = [n \in 0 .. nodeNum - 1 |-> 0]
              /\ simulated = {}

Lines(kind) == {i \in DOMAIN topology : topology[i][1] = kind}

\* main: nothing happens if the file is missing.
DriverMain ==
  /\ topology # NoTopology /\ simulated = {}
  /\ links' = {<<topology[i][2], topology[i][3]>> : i \in Lines("gain")}
  /\ readings' = [n \in DOMAIN readings |->
       NOISE_RANDOM_NUM *
         Len(SelectSeq(topology, LAMBDA l : l[1] = "noise" /\ l[2] = n))]
  /\ simulated' = 0 .. nodeNum - 1
  /\ UNCHANGED topology
=============================================================================
