------------------------------- MODULE Router -------------------------------
(***************************************************************************)
(* The routing engine of one node, CtpRoutingEngineP.nc, over the link     *)
(* table it shares with the estimator (LinkTable): the routing table and   *)
(* the choice of a parent, the events both tables follow each other by,    *)
(* the trickle timer of the beacons, and the commands that start, stop and *)
(* root the node.                                                          *)
(*                                                                         *)
(* A beacon is heard by the estimator first, which may evict a neighbour   *)
(* in the middle of the handler, and then by the routing engine.  The      *)
(* neighbours, the forwarding engine and the application are the           *)
(* environment.  Delays travel in the same beacons and are PathTable's.    *)
(***************************************************************************)
EXTENDS Integers, Sequences, SequencesExt, FiniteSets, FiniteSetsExt

CONSTANTS
  Neighbors, TableSize,     \* both tables have the same size, NEIGHBOR_TABLE_SIZE
  Eetx, EvictThreshold,
  Me, Elsewhere,            \* parents in beacons: this node, or any other
  INVALID_ADDR,
  Worlds    \* environments to look at:
            \*   neighbors   who is around
            \*   wide        whether int has 32 bits (TOSSIM) or 16 (the motes)
            \*   etxs        path metrics in the beacons of nodes that are no roots: any
            \*               16-bit number, their sums wrap too
            \*   congestion  whether congestion bits are ever set
            \*   data        whether data packets are sent, which move the estimates
            \*   rooting     whether the application roots and unroots the node
            \*   power       whether radio and routing are switched off again
            \*   beacons     whether time passes: the beacon timer fires
            \*   min, max    minInterval and maxInterval of the trickle timer

MAX_METRIC == 65535

World == [neighbors : SUBSET Neighbors, wide : BOOLEAN, etxs : SUBSET (0 .. MAX_METRIC),
          congestion : BOOLEAN, data : BOOLEAN, rooting : BOOLEAN, power : BOOLEAN,
          beacons : BOOLEAN, min : Nat \ {0, 1}, max : Nat]

ASSUME RouterAssumption ==
  /\ {Me, Elsewhere, INVALID_ADDR} \intersect Neighbors = {}
  /\ Me # INVALID_ADDR /\ Elsewhere \notin {Me, INVALID_ADDR}
  /\ IsFiniteSet(Neighbors)
  /\ Worlds \subseteq World
  /\ \A w \in Worlds : w.min <= w.max

VARIABLES
  world,           \* chosen once
  links,           \* the estimator's table
  engine,          \* routing table, routeInfo, justEvicted, updateRouteTask posted
  state_is_root, running, radioOn,
  beacon,          \* which of: "posted" (or on its way through the delay pipeline),
                   \* "sending"
  trickle,         \* currentInterval, t, tHasPassed, and whether BeaconTimer runs
  told,            \* what the forwarding engine was told last: it has a route
  refused,         \* neighbours the estimator had no slot for at their last beacon
  owed             \* neighbours pinned for another reason than being the parent: roots,
                   \* and parents that setRoot or unsetRoot took from the node

vars == <<world, links, engine, state_is_root, running, radioOn, beacon, trickle,
          told, refused, owed>>

Table == INSTANCE LinkTable

ASSUME TableAssumption == Table!LinkTableAssumption

PARENT_SWITCH_THRESHOLD == 15
Word(x) == x % 65536
Arith(x) == IF world.wide THEN x ELSE Word(x)   \* of an expression on uint16_t

\* routeInfoInit
NoRoute == [parent |-> INVALID_ADDR, etx |-> 0, congested |-> FALSE]

Routed(e) == {r.neighbor : r \in ToSet(e.routes)}

Init ==
  /\ world \in Worlds
  /\ links = << >>
  /\ engine = [routes |-> <<>>, info |-> NoRoute, justEvicted |-> FALSE, posted |-> FALSE]
  /\ state_is_root = FALSE /\ running = FALSE /\ radioOn = FALSE
  /\ beacon = {}
  /\ trickle = [interval |-> world.min, t |-> 0, tHasPassed |-> FALSE, armed |-> FALSE]
  /\ told = FALSE
  /\ refused = {} /\ owed = {}

-----------------------------------------------------------------------------
(* The beacon timer.  The random part of t is any value. *)

\* Faulty: the interval is reset and the old time kept.
resetInterval_OldTime == trickle' = [trickle EXCEPT !.interval = world.min]

\* chooseAdvertiseTime, in an interval of the given length.
Advertise(interval) ==
  \E r \in 0 .. interval \div 2 - 1 :
    trickle' = [interval |-> interval, t |-> interval \div 2 + r,
                tHasPassed |-> FALSE, armed |-> TRUE]

resetInterval == Advertise(world.min)
decayInterval == Advertise(Min({trickle.interval * 2, world.max}))

remainingInterval == trickle' = [trickle EXCEPT !.tHasPassed = TRUE, !.armed = TRUE]

-----------------------------------------------------------------------------
(* Operators on the routing engine's own state, used within the handlers.  *)

\* Faulty: the routing table keeps the neighbour.
evicted_KeepsEntry(e, n) ==
  IF e.info.parent = n
  THEN [e EXCEPT !.info = NoRoute, !.justEvicted = TRUE, !.posted = TRUE] ELSE e

\* routingTableFind, of a neighbour that is there.
Place(e, n) == CHOOSE i \in DOMAIN e.routes : e.routes[i].neighbor = n

\* LinkEstimator.evicted, with routingTableEvict.
evicted(e, n) ==
  LET gone == IF n \in Routed(e) THEN [e EXCEPT !.routes = RemoveAt(@, Place(e, n))] ELSE e
  IN IF e.info.parent = n
     THEN [gone EXCEPT !.info = NoRoute, !.justEvicted = TRUE, !.posted = TRUE]
     ELSE gone

\* The event for the victims of a call of the estimator, none or one.
Following(e, victims) ==
  IF victims = {} THEN e ELSE evicted(e, CHOOSE n \in victims : TRUE)

\* Faulty: an entry that is there is not looked for.
routingTableUpdateEntry_NotFound(e, n, b) ==
  IF Len(e.routes) < TableSize
  THEN [e EXCEPT !.routes = Append(@,
          [neighbor |-> n, parent |-> b.parent, etx |-> b.etx, congested |-> FALSE])]
  ELSE e

routingTableUpdateEntry(e, n, b) ==
  IF n \in Routed(e)
  THEN [e EXCEPT !.routes = [i \in DOMAIN @ |-> IF @[i].neighbor # n THEN @[i]
                               ELSE [@[i] EXCEPT !.parent = b.parent, !.etx = b.etx]]]
  ELSE IF Len(e.routes) < TableSize
  THEN [e EXCEPT !.routes = Append(@,
          [neighbor |-> n, parent |-> b.parent, etx |-> b.etx, congested |-> FALSE])]
  ELSE e

setNeighborCongested(e, n, congested) ==
  [e EXCEPT
    !.routes = [i \in DOMAIN @ |-> IF @[i].neighbor # n THEN @[i]
                                   ELSE [@[i] EXCEPT !.congested = congested]],
    !.posted = @ \/ (e.info.congested /\ ~ congested) \/ (e.info.parent = n /\ congested)]

\* CompareBit.shouldInsert: a root, or better than a neighbour that is not the parent.
shouldInsert(e, b) ==
  /\ b.parent # INVALID_ADDR
  /\ b.etx = 0 \/ \E r \in ToSet(e.routes) : r.neighbor # e.info.parent /\ b.etx < r.etx

-----------------------------------------------------------------------------
(* The choice of a parent. *)

\* Neighbours with a route that is not through this node.
Usable(e) == {i \in DOMAIN e.routes : e.routes[i].parent \notin {INVALID_ADDR, Me}}

PathEtx(e, l, i) ==
  Word(Word(Table!getLinkQuality(l, e.routes[i].neighbor) + 10) + e.routes[i].etx)

Current(e) == {i \in Usable(e) : e.routes[i].neighbor = e.info.parent}

\* What is known of the parent now; passLinkEtxThreshold lets every link pass.
Refreshed(e) ==
  IF Current(e) = {} THEN e.info
  ELSE LET r == e.routes[CHOOSE i \in Current(e) : TRUE]
       IN [e.info EXCEPT !.etx = r.etx, !.congested = r.congested]

currentEtx(e, l) ==
  IF Current(e) = {} THEN MAX_METRIC ELSE PathEtx(e, l, CHOOSE i \in Current(e) : TRUE)

Candidates(e, l) == {i \in Usable(e) \ Current(e) :
                       ~ e.routes[i].congested /\ PathEtx(e, l, i) < MAX_METRIC}

minEtx(e, l) ==
  Min({MAX_METRIC} \union {PathEtx(e, l, i) : i \in Candidates(e, l)})

\* The first of the best.
Best(e, l) == Min({i \in Candidates(e, l) : PathEtx(e, l, i) = minEtx(e, l)})

\* Faulty: a route that is better by the threshold already is not enough, one that is
\* worse by less than it is.
Switches_Eager(e, l) ==
  /\ minEtx(e, l) # MAX_METRIC
  /\ \/ currentEtx(e, l) = MAX_METRIC
     \/ Refreshed(e).congested /\ minEtx(e, l) < Arith(Refreshed(e).etx + 10)
     \/ minEtx(e, l) < Arith(currentEtx(e, l) + PARENT_SWITCH_THRESHOLD)

\* Where int has 16 bits both sums wrap near the end of the metrics.
Switches(e, l) ==
  /\ minEtx(e, l) # MAX_METRIC
  /\ \/ currentEtx(e, l) = MAX_METRIC
     \/ Refreshed(e).congested /\ minEtx(e, l) < Arith(Refreshed(e).etx + 10)
     \/ Arith(minEtx(e, l) + PARENT_SWITCH_THRESHOLD) < currentEtx(e, l)

NextInfo(e, l) ==
  IF Switches(e, l)
  THEN LET r == e.routes[Best(e, l)]
       IN [parent |-> r.neighbor, etx |-> r.etx, congested |-> r.congested]
  ELSE Refreshed(e)

\* Faulty: the old parent stays pinned.
NextPins_Kept(e, l) ==
  IF Switches(e, l) THEN Table!Repinned(l, NextInfo(e, l).parent, TRUE) ELSE l

\* Faulty: pinned and unpinned the wrong way round.
NextPins_Swapped(e, l) ==
  IF Switches(e, l)
  THEN Table!Repinned(Table!Repinned(l, e.info.parent, TRUE), NextInfo(e, l).parent, FALSE)
  ELSE l

NextPins(e, l) ==
  IF Switches(e, l)
  THEN Table!Repinned(Table!Repinned(l, e.info.parent, FALSE), NextInfo(e, l).parent, TRUE)
  ELSE l
-----------------------------------------------------------------------------
(* Tasks. *)

\* Faulty: the eviction is not forgotten.
updateRouteTask_Reminded ==
  /\ engine.posted
  /\ IF state_is_root
     THEN /\ engine' = [engine EXCEPT !.posted = FALSE]
          /\ UNCHANGED <<links, told, owed>>
     ELSE /\ engine' = [engine EXCEPT !.posted = FALSE, !.info = NextInfo(engine, links)]
          /\ links' = NextPins(engine, links)
          /\ owed' = IF Switches(engine, links) THEN owed \ {engine.info.parent} ELSE owed
          /\ told' = CASE engine.justEvicted /\ engine'.info.parent = INVALID_ADDR -> FALSE
                       [] ~ engine.justEvicted /\ Switches(engine, links)
                          /\ currentEtx(engine, links) = MAX_METRIC -> TRUE
                       [] OTHER -> told
  /\ UNCHANGED <<world, state_is_root, running, radioOn, beacon, trickle, refused>>

\* A root returns at once and remembers an eviction.
updateRouteTask ==
  /\ engine.posted
  /\ IF state_is_root
     THEN /\ engine' = [engine EXCEPT !.posted = FALSE]
          /\ UNCHANGED <<links, told, owed>>
     ELSE /\ engine' = [engine EXCEPT !.posted = FALSE, !.justEvicted = FALSE,
                                      !.info = NextInfo(engine, links)]
          /\ links' = NextPins(engine, links)
          /\ owed' = IF Switches(engine, links) THEN owed \ {engine.info.parent} ELSE owed
          /\ told' = CASE engine.justEvicted /\ engine'.info.parent = INVALID_ADDR -> FALSE
                       [] ~ engine.justEvicted /\ Switches(engine, links)
                          /\ currentEtx(engine, links) = MAX_METRIC -> TRUE
                       [] OTHER -> told
  /\ UNCHANGED <<world, state_is_root, running, radioOn, beacon, trickle, refused>>

\* One beacon at a time.  The radio takes it, is found to be off (EOFF), or refuses.
sendBeaconTask ==
  /\ "posted" \in beacon
  /\ \/ beacon' = beacon \ {"posted"} /\ UNCHANGED radioOn
     \/ beacon' = {"sending"} /\ UNCHANGED radioOn
     \/ "sending" \notin beacon /\ beacon' = {} /\ radioOn' = FALSE /\ world.power
  /\ UNCHANGED <<world, links, engine, state_is_root, running, trickle, told, refused, owed>>

BeaconSendDone ==
  /\ "sending" \in beacon /\ beacon' = beacon \ {"sending"}
  /\ UNCHANGED <<world, links, engine, state_is_root, running, radioOn, trickle, told,
                 refused, owed>>
-----------------------------------------------------------------------------
(* Timers. *)

\* RouteTimer is periodic and never stopped.
RouteTimerFired ==
  /\ running /\ radioOn
  /\ engine' = [engine EXCEPT !.posted = TRUE]
  /\ UNCHANGED <<world, links, state_is_root, running, radioOn, beacon, trickle, told,
                 refused, owed>>

BeaconTimerFired ==
  /\ world.beacons /\ trickle.armed
  /\ IF ~ (radioOn /\ running)
     THEN /\ trickle' = [trickle EXCEPT !.armed = FALSE]
          /\ UNCHANGED <<engine, beacon>>
     ELSE IF ~ trickle.tHasPassed
     THEN /\ engine' = [engine EXCEPT !.posted = TRUE]
          /\ beacon' = beacon \union {"posted"}
          /\ remainingInterval
     ELSE decayInterval /\ UNCHANGED <<engine, beacon>>
  /\ UNCHANGED <<world, links, state_is_root, running, radioOn, told, refused, owed>>
-----------------------------------------------------------------------------
(* The radio and the neighbours. *)

\* A node without a parent asks for beacons (CTP_OPT_PULL); a root is its own parent.
Beacons == [parent : {INVALID_ADDR, Elsewhere}, etx : {0},
            congested : {FALSE, world.congestion}]
           \union [parent : {Me, Elsewhere}, etx : world.etxs,
                   congested : {FALSE, world.congestion}]

\* The estimator's part: what may become of the table, and who is evicted.
HeardFirst(n, b) ==
  IF n \in DOMAIN links
  THEN {Table!Outcome(l, {}) : l \in {links} \union {Table!Ripened(links, n, q) : q \in Eetx}}
  ELSE Table!Admitted(links, n, shouldInsert(engine, b))

\* From a root: force it into the table and pin it.
Rooted(l, n, b) == IF b.parent # INVALID_ADDR /\ b.etx = 0 THEN Table!Inserted(l, n)
                   ELSE {Table!Outcome(l, {})}

\* The routing engine's part, once the estimator's evictions are followed.
Recorded(e, n, b) ==
  IF b.parent = INVALID_ADDR THEN e
  ELSE setNeighborCongested(routingTableUpdateEntry(e, n, b), n, b.congested)

BeaconReceived(n, b) ==
  \E first \in HeardFirst(n, b) : \E second \in Rooted(first.links, n, b) :
    /\ links' = IF b.parent # INVALID_ADDR /\ b.etx = 0
                THEN Table!Repinned(second.links, n, TRUE) ELSE second.links
    /\ engine' = Recorded(Following(Following(engine, first.evicted), second.evicted), n, b)
    /\ IF b.parent = INVALID_ADDR THEN resetInterval ELSE UNCHANGED trickle
    /\ refused' = IF n \in DOMAIN links' THEN refused \ {n} ELSE refused \union {n}
    /\ owed' = (owed \ (first.evicted \union second.evicted)) \union
                 (IF b.etx = 0 /\ b.parent # INVALID_ADDR THEN {n} ELSE {})
    /\ UNCHANGED <<world, state_is_root, running, radioOn, beacon, told>>

BeaconReceive == radioOn /\ \E n \in world.neighbors, b \in Beacons : BeaconReceived(n, b)

\* Faulty: the timer is not restarted.
RadioStartDone_NoTimer == radioOn' = TRUE /\ UNCHANGED trickle

\* RadioControl.startDone: the timer starts anew, its phase is kept.
RadioStartDone == /\ radioOn' = TRUE
                  /\ trickle' = [trickle EXCEPT !.armed = @ \/ running]

RadioStarts ==
  /\ ~ radioOn /\ RadioStartDone
  /\ UNCHANGED <<world, links, engine, state_is_root, running, beacon, told, refused, owed>>

RadioStops ==
  /\ world.power /\ radioOn /\ radioOn' = FALSE
  /\ UNCHANGED <<world, links, engine, state_is_root, running, beacon, trickle, told,
                 refused, owed>>
-----------------------------------------------------------------------------
(* The application and the forwarding engine. *)

StdControlStart ==
  /\ ~ running /\ running' = TRUE
  /\ resetInterval
  /\ UNCHANGED <<world, links, engine, state_is_root, radioOn, beacon, told, refused, owed>>

StdControlStop ==
  /\ world.power /\ running /\ running' = FALSE
  /\ UNCHANGED <<world, links, engine, state_is_root, radioOn, beacon, trickle, told,
                 refused, owed>>

\* The pin of a parent is left where it is.
setRoot ==
  /\ world.rooting
  /\ state_is_root' = TRUE
  /\ engine' = [engine EXCEPT !.info.parent = Me, !.info.etx = 0]
  /\ told' = (told \/ engine.info.parent = INVALID_ADDR)
  /\ owed' = owed \union ({engine.info.parent} \intersect Neighbors)
  /\ UNCHANGED <<world, links, running, radioOn, beacon, trickle, refused>>

\* Faulty: the route, of a root that to itself, is kept.
unsetRoot_KeepsRoute ==
  /\ world.rooting
  /\ state_is_root' = FALSE
  /\ UNCHANGED <<world, links, engine, running, radioOn, beacon, trickle, told, refused,
                 owed>>

\* Not only on a root: another node loses its route, and its parent's pin is left too.
unsetRoot ==
  /\ world.rooting
  /\ state_is_root' = FALSE
  /\ engine' = [engine EXCEPT !.info = NoRoute, !.posted = TRUE]
  /\ owed' = owed \union ({engine.info.parent} \intersect Neighbors)
  /\ UNCHANGED <<world, links, running, radioOn, beacon, trickle, told, refused>>

\* The forwarding engine hears of congestion in a data packet.
NeighborCongested ==
  /\ radioOn /\ world.congestion
  /\ \E n \in world.neighbors, c \in BOOLEAN : engine' = setNeighborCongested(engine, n, c)
  /\ UNCHANGED <<world, links, state_is_root, running, radioOn, beacon, trickle, told,
                 refused, owed>>

\* It sends a data packet, whose outcome moves the estimate of the link.
LinkChanges ==
  /\ radioOn /\ world.data
  /\ \E n \in DOMAIN links, q \in Eetx : links' = [links EXCEPT ![n].eetx = q]
  /\ UNCHANGED <<world, engine, state_is_root, running, radioOn, beacon, trickle, told,
                 refused, owed>>

recomputeRoutes ==
  /\ engine' = [engine EXCEPT !.posted = TRUE]
  /\ UNCHANGED <<world, links, state_is_root, running, radioOn, beacon, trickle, told,
                 refused, owed>>

\* It asks for beacons soon: a loop, or a neighbour that pulls.  This starts the timer of
\* a stopped engine too.
triggerRouteUpdate ==
  /\ resetInterval
  /\ UNCHANGED <<world, links, engine, state_is_root, running, radioOn, beacon, told,
                 refused, owed>>

Next ==
  \/ updateRouteTask \/ sendBeaconTask \/ BeaconSendDone
  \/ RouteTimerFired \/ BeaconTimerFired
  \/ BeaconReceive \/ RadioStarts \/ RadioStops
  \/ StdControlStart \/ StdControlStop \/ setRoot \/ unsetRoot
  \/ NeighborCongested \/ LinkChanges \/ recomputeRoutes \/ triggerRouteUpdate

Spec == Init /\ [][Next]_vars
-----------------------------------------------------------------------------
(* Properties. *)

RouteInfo == [parent : Neighbors \union {Me, INVALID_ADDR}, etx : 0 .. MAX_METRIC,
              congested : BOOLEAN]

TypeOK ==
  /\ world \in Worlds
  /\ Table!LinksOK
  /\ engine \in [routes : Seq([neighbor : Neighbors, parent : {Me, Elsewhere},
                                etx : 0 .. MAX_METRIC, congested : BOOLEAN]),
                  info : RouteInfo, justEvicted : BOOLEAN, posted : BOOLEAN]
  /\ Len(engine.routes) <= TableSize /\ IsInjective([i \in DOMAIN engine.routes |->
                                                       engine.routes[i].neighbor])
  /\ state_is_root \in BOOLEAN /\ running \in BOOLEAN /\ radioOn \in BOOLEAN
  /\ beacon \subseteq {"posted", "sending"}
  /\ trickle \in [interval : Nat, t : Nat, tHasPassed : BOOLEAN, armed : BOOLEAN]
  /\ told \in BOOLEAN
  /\ refused \subseteq Neighbors /\ owed \subseteq Neighbors

Parent == engine.info.parent

\* A node that is no root has a parent only while that neighbour is in the routing
\* table: whatever evicts the one resets the other (LinkEstimator.evicted,
\* CtpRoutingEngineP.nc:512).
ParentIsRouted == ~ state_is_root => Parent \in Routed(engine) \union {INVALID_ADDR}

\* "Eviction follows the LinkEstimator table" (CtpRoutingEngineP.nc:697): a neighbour
\* that is routed has a slot, or the estimator had none for it when it was last heard.
EvictionFollows == Routed(engine) \ DOMAIN links \subseteq refused

\* As long as every neighbour fits in the estimator's table, the parent is pinned
\* there, so that it cannot be replaced (CtpRoutingEngineP.nc:678).
Fits == Cardinality(world.neighbors) <= TableSize
ParentPinned ==
  Fits /\ Parent \in Neighbors => Parent \in DOMAIN links /\ links[Parent].pinned

\* Pins are given back: what is pinned is the parent, a neighbour that was a root, or the
\* parent a node had when setRoot or unsetRoot, of a root or not, took it away: those two
\* never unpin (CtpRoutingEngineP.nc:285, :602, :616).
PinsReturned ==
  \A n \in DOMAIN links : links[n].pinned => n = Parent \/ n \in owed

\* A node with a route has told the forwarding engine so, whatever was evicted and
\* found again in between (CtpRoutingEngineP.nc:299).
RouteAnnounced == Parent # INVALID_ADDR => told

\* While routing runs and the radio is on, the beacon timer runs, whatever was stopped
\* and started before in whatever order (CtpRoutingEngineP.nc:168).
BeaconTimerRuns == running /\ radioOn => trickle.armed

\* The advertisement falls in the second half of the interval, also after a reset: what
\* remains of it is neither negative, which would be 2^32, nor more than half of
\* it (CtpRoutingEngineP.nc:127).
Advertised ==
  trickle.t # 0 => /\ trickle.t < trickle.interval
                   /\ trickle.t >= trickle.interval \div 2
                   /\ trickle.interval <= world.max

\* The choice is stable: looking again at the same tables keeps the parent, congested
\* or not (PARENT_SWITCH_THRESHOLD, CtpRoutingEngineP.nc:273).  The one exception is an
\* int of 16 bits and a best alternative, before the choice or after it, within the
\* threshold of MAX_METRIC: the sum wraps, the alternative looks better than any parent,
\* and the node switches back and forth.
ThresholdWraps(e, l) ==
  ~ world.wide /\ minEtx(e, l) + PARENT_SWITCH_THRESHOLD > MAX_METRIC /\ Candidates(e, l) # {}
NoFlapping ==
  [][updateRouteTask /\ ~ state_is_root /\ Switches(engine', links')
       => ThresholdWraps(engine, links) \/ ThresholdWraps(engine', links')]_vars
=============================================================================
