------------------------------ MODULE MCRouter ------------------------------
(* TLC instances of Router. *)
EXTENDS Router, TLC

CONSTANTS a, b, c

\* More neighbours than slots; the node may be made a root and cease to be one.
Crowd == [neighbors |-> {a, b, c}, wide |-> FALSE, etxs |-> {20}, congestion |-> FALSE,
          data |-> FALSE, rooting |-> TRUE, power |-> FALSE, beacons |-> FALSE,
          min |-> 2, max |-> 2]

\* Every neighbour fits: congested and uncongested routes on both sides of the threshold.
Roomy == [Crowd EXCEPT !.neighbors = {a, b}, !.congestion = TRUE, !.rooting = FALSE]

\* Metrics at the end of the 16 bits: 65520 and the threshold still fit, 65525 and the
\* threshold do not, and a bad link wraps the metric itself.
Distant == [Crowd EXCEPT !.neighbors = {a, b}, !.etxs = {65510, 65515}, !.rooting = FALSE]
Simulated == [Distant EXCEPT !.wide = TRUE]

\* Time passes: the beacon timer through resets, stops and restarts.
Timed == [neighbors |-> {c}, wide |-> FALSE, etxs |-> {20}, congestion |-> FALSE,
          data |-> TRUE, rooting |-> TRUE, power |-> TRUE, beacons |-> TRUE,
          min |-> 2, max |-> 8]

AllWorlds == {Crowd, Roomy, Distant, Simulated, Timed}

\* No world and no choice tells a from b.
Symmetry == Permutations({a, b})
=============================================================================
