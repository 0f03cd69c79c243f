---------------------------- MODULE MCForwarder ----------------------------
(* TLC instances of Forwarder: one client, two pool entries, two next hops.  *)
EXTENDS Forwarder, TLC

CONSTANTS pa, pb  \* next hops

MCParents == {pa, pb}
MCParentLists == {<<>>, <<pa>>, <<pa, pb>>}

Bounds(time, sends, receives, errors, stops) ==
  [time |-> time, sends |-> sends, receives |-> receives, errors |-> errors, stops |-> stops]

\* The MTA build without loops, with deadlines that pass.
MTA == [variant |-> "MTA", loops |-> FALSE, polite |-> TRUE, refusals |-> {},
        relative |-> {1, 2}, absolute |-> {1, 2}, bounds |-> Bounds(2, 2, 3, 2, 0)]

\* The checked-in build with everything that may go wrong around it.
MMSPEED == [variant |-> "MMSPEED", loops |-> TRUE, polite |-> TRUE,
            refusals |-> {"EBUSY", "ESIZE", "FAIL"}, relative |-> {1},
            absolute |-> {0, 1, 2}, bounds |-> Bounds(1, 1, 3, 2, 1)]

\* The CTP build; deadlines play no part.
CTP == [variant |-> "CTP", loops |-> TRUE, polite |-> TRUE, refusals |-> {"EBUSY"},
        relative |-> {1}, absolute |-> {1}, bounds |-> Bounds(0, 2, 3, 2, 0)]

\* MTA with loops and a client that does not wait.
Rough == [variant |-> "MTA", loops |-> TRUE, polite |-> FALSE, refusals |-> {"EBUSY", "ESIZE"},
          relative |-> {1}, absolute |-> {1}, bounds |-> Bounds(0, 3, 3, 1, 0)]

\* MMSPEED where no loop is detected.
Quiet == [MMSPEED EXCEPT !.loops = FALSE, !.refusals = {"EBUSY"}, !.absolute = {1},
                         !.bounds = Bounds(0, 1, 3, 2, 0)]

AllWorlds == {MTA, MMSPEED, Quiet, CTP, Rough}

\* Liveness: a radio that is not switched off and does not answer FAIL.
Alive(w, bounds) == [w EXCEPT !.refusals = {"EBUSY"}, !.relative = {1}, !.absolute = {1},
                              !.bounds = bounds]

LiveWorlds == {Alive(MTA, Bounds(0, 2, 2, 2, 0)), Alive(MMSPEED, Bounds(0, 1, 2, 2, 0)),
               Alive(CTP, Bounds(0, 1, 2, 2, 0))}

\* MTA: a loop is detected while a packet is on the air.
LoopWorld == {[MTA EXCEPT !.loops = TRUE, !.relative = {1}, !.absolute = {1},
                          !.bounds = Bounds(0, 1, 3, 0, 0)]}

\* MMSPEED: a packet waits in the queue past its deadline.
LateWorld == {[MMSPEED EXCEPT !.loops = FALSE, !.refusals = {}, !.absolute = {1},
                              !.bounds = Bounds(1, 1, 1, 0, 0)]}

Symmetry == Permutations(Packets)
=============================================================================
