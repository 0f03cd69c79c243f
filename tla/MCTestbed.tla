----------------------------- MODULE MCTestbed -----------------------------
(* TLC instances of Testbed: a grid of two columns, clocks of four bits.  *)
EXTENDS Testbed

CONSTANTS nofile, notopology

\* Events at (x, y), out of order, some at the same scaled time; rounds of ten.
Line(x, y, t) == [x |-> x, y |-> y, t |-> t]
Events1 == <<Line(0, 1, 1800), Line(1, 0, 100), Line(0, 1, 250), Line(1, 1, 350)>>
Events2 == <<Line(1, 0, 1699), Line(1, 0, 1601), Line(0, 0, 50), Line(1, 10, 0)>>

MCEventTimes == <<[id |-> 3, time |-> 0], [id |-> 5, time |-> 4], [id |-> 2, time |-> 6],
                  [id |-> 3, time |-> 12], [id |-> 2, time |-> 30]>>

MCLogs == {[name |-> ".", ip |-> 0, port |-> 0, ids |-> <<>>],
           [name |-> "log2", ip |-> 1, port |-> 1, ids |-> <<9, 9, 9, 9, 9, 9, 9, 9, 9, 2, 1>>],
           [name |-> "log3", ip |-> 1, port |-> 2, ids |-> <<3>>]}

MCTopologies == {<<<<"gain", 0, 1, -82>>, <<"noise", 0, -105, 4>>, <<"noise", 1, -105, 4>>,
                   <<"gain", 1, 2, -80>>>>}

Experiment(b, n, events, o, s) ==
  [build |-> b, node |-> n, simulator |-> FALSE, trace |-> events, offset |-> o, skew |-> s]

Injected == {Experiment("UART", n, tr, 0, 0) : n \in {2, 3, 4}, tr \in {Events1, Events2}}
Synced == {Experiment("EVENT", n, nofile, o, s) : n \in {1, 2, 3, 5}, o \in {0, 9}, s \in {0, 13}}
Periodic == {Experiment("PERIODIC", n, nofile, 0, 0) : n \in {1, 2, 3}}
Simulated == {[e EXCEPT !.simulator = TRUE] : e \in Periodic}

MCExperiments == Injected \union Synced \union Periodic \union Simulated
MCSenders == {2}
=============================================================================
