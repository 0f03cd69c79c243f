----------------------------- MODULE Injection -----------------------------
(***************************************************************************)
(* EventTraffic: the programs that prepare the injection of events at      *)
(* Indriya.  InjGen.c turns a trace of events into lines <node, time>, the *)
(* trace repeated round after round.  IdIPPort.c makes the table of the    *)
(* nodes' serial ports out of the names and contents of a job's log files; *)
(* whatever sends the commands looks a node up in it.                      *)
(***************************************************************************)
EXTENDS Integers, Sequences, SequencesExt, FiniteSetsExt

CONSTANTS
  COLUMNS,          \* of the grid of nodes
  TRAFFIC_SCALAR,   \* the trace is played that much faster
  TRACE_TIME,       \* what a round lasts before it is scaled, 15000 ms
  RUN_TIME,         \* what all rounds last, 300000
  NoFile,
  Logs              \* the directory of a job: [name, ip, port, ids]

ROUND_TIME == TRACE_TIME \div TRAFFIC_SCALAR
MAX_ROUND  == RUN_TIME \div ROUND_TIME

\* A line of the trace: coordinates, and hundredths of a millisecond.
TraceLine == [x : 0 .. 99, y : 0 .. 99, t : Nat]

ASSUME InjectionAssumption ==
  /\ COLUMNS \in Nat \ {0} /\ TRAFFIC_SCALAR \in Nat \ {0}
  /\ TRACE_TIME \in Nat /\ RUN_TIME \in Nat /\ TRACE_TIME >= TRAFFIC_SCALAR

VARIABLES
  trace,      \* Trace.txt
  stage,      \* of InjGen: "read", "sort", "print", "done"
  idTimes,    \* the events, [id, time]
  position,   \* the loop variable i
  round,
  result      \* the lines printed

injVars == <<trace, stage, idTimes, position, round, result>>

InjInit == /\ stage = "read" /\ idTimes = <<>> /\ position = 1 /\ round = 0
           /\ result = <<>>

coord2Id(x, y) == y * COLUMNS + x + 1

\* Only the first digit of a coordinate is read.
FirstDigit(n) == IF n < 10 THEN n ELSE n \div 10

\* The milliseconds are truncated before they are scaled.
id_time_t(l) == [id |-> coord2Id(FirstDigit(l.x), FirstDigit(l.y)),
                 time |-> (l.t \div 100) \div TRAFFIC_SCALAR]

\* One line is read; without a file the program ends.
ReadLine ==
  /\ stage = "read"
  /\ IF trace = NoFile THEN stage' = "done" /\ UNCHANGED <<idTimes, position>>
     ELSE IF position > Len(trace)
     THEN stage' = "sort" /\ position' = 2 /\ UNCHANGED idTimes
     ELSE /\ idTimes' = Append(idTimes, id_time_t(trace[position]))
          /\ position' = position + 1
          /\ UNCHANGED stage
  /\ UNCHANGED <<trace, round, result>>

\* Faulty: an event moves past one other at most.
InsertEvent_Once ==
  /\ stage = "sort"
  /\ IF position > Len(idTimes)
     THEN stage' = "print" /\ position' = 1 /\ UNCHANGED idTimes
     ELSE LET tmp == idTimes[position]
              j == IF idTimes[position - 1].time > tmp.time THEN position - 2 ELSE position - 1
          IN /\ idTimes' = InsertAt(RemoveAt(idTimes, position), j + 1, tmp)
             /\ position' = position + 1
             /\ UNCHANGED stage
  /\ UNCHANGED <<trace, round, result>>

\* One event is moved left, to its place by time.
InsertEvent ==
  /\ stage = "sort"
  /\ IF position > Len(idTimes)
     THEN stage' = "print" /\ position' = 1 /\ UNCHANGED idTimes
     ELSE LET tmp == idTimes[position]
              j == Max({0} \union {k \in 1 .. position - 1 : idTimes[k].time <= tmp.time})
          IN /\ idTimes' = InsertAt(RemoveAt(idTimes, position), j + 1, tmp)
             /\ position' = position + 1
             /\ UNCHANGED stage
  /\ UNCHANGED <<trace, round, result>>

\* One line is printed.
PrintLine ==
  /\ stage = "print"
  /\ IF round = MAX_ROUND
     THEN stage' = "done" /\ UNCHANGED <<position, round, result>>
     ELSE IF position > Len(idTimes)
     THEN round' = round + 1 /\ position' = 1 /\ UNCHANGED <<stage, result>>
     ELSE LET tmp == idTimes[position]
          IN /\ result' = Append(result,
                  [id |-> tmp.id, time |-> tmp.time + round * ROUND_TIME])
             /\ position' = position + 1
             /\ UNCHANGED <<stage, round>>
  /\ UNCHANGED <<trace, idTimes>>

InjGen == ReadLine \/ InsertEvent \/ PrintLine

-----------------------------------------------------------------------------
\* Where the node identifier stands in a log file.
ID_COLUMN == 10

\* The tenth number of the file, or the last there is, and the parts of its name.
file2IdIPPort(log) ==
  [id |-> log.ids[Min({ID_COLUMN, Len(log.ids)})], ip_port |-> <<log.ip, log.port>>]

\* The table of all files but the directory and its parent; loadTable reads it back.
idIPPort == {file2IdIPPort(log) : log \in {l \in Logs : l.name \notin {".", ".."}}}

\* Whether there is a serial port to send a command for a node to.
lookup(id) == \E e \in idIPPort : e.id = id

-----------------------------------------------------------------------------
\* No event of the trace is later than a round lasts.
Fits == \A k \in 1 .. Len(trace) : trace[k].t \div 100 <= TRACE_TIME

(* "to inc/dec traffic", "# of repetitions of lite-trace" (InjGen.c:5, :16): round after
   round, every event of the trace is there at its scaled time; and for a trace no longer
   than a round the lines are in the order of time. *)
Replayed ==
  stage = "done" /\ trace # NoFile =>
    LET n == Len(trace)
        event(k) == id_time_t(trace[k])
        times(e, r) == Cardinality({k \in r * n + 1 .. (r + 1) * n :
                          result[k] = [e EXCEPT !.time = @ + r * ROUND_TIME]})
    IN /\ Len(result) = n * MAX_ROUND
       /\ Fits => \A k \in 1 .. Len(result) - 1 : result[k].time <= result[k + 1].time
       /\ \A r \in 0 .. MAX_ROUND - 1 : \A k \in 1 .. n :
            times(event(k), r) = Cardinality({i \in 1 .. n : event(i) = event(k)})
=============================================================================
