--------------------------- MODULE MCLinkEstimator ---------------------------
(* TLC instances of LinkEstimator. *)
EXTENDS LinkEstimator

CONSTANTS a, b, c

\* More neighbours than slots, clean and lossy beacons, no data.
Crowd == [neighbors |-> {a, b, c}, room |-> 1, gaps |-> {1, 10},
          beacons |-> 8, data |-> FALSE, wide |-> FALSE]

\* One link, every count of data outcomes, on a mote and in the simulator.
Losses == [neighbors |-> {a}, room |-> 1, gaps |-> {1},
           beacons |-> 0, data |-> TRUE, wide |-> FALSE]
HostLosses == [Losses EXCEPT !.wide = TRUE]

\* One link, any number of beacons: duplicates, gaps, and gaps that reset it.
Beacons == [neighbors |-> {a}, room |-> 1, gaps |-> {0, 1, 4, 11},
            beacons |-> Unbounded, data |-> FALSE, wide |-> FALSE]

AllWorlds == {Crowd, Losses, HostLosses, Beacons}
==============================================================================
