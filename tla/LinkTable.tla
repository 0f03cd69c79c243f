----------------------------- MODULE LinkTable -----------------------------
(***************************************************************************)
(* What 4bitle_old/LinkEstimatorP.nc promises the routing engine: a        *)
(* bounded set of neighbours, each with an estimate that counts once it is *)
(* mature, and a pin that keeps it from being replaced.  A neighbour       *)
(* leaves only to make room for another, and is named in the evicted event *)
(* then.  Slots, sequence numbers and the arithmetic of the estimates are  *)
(* LinkEstimator's business.                                               *)
(***************************************************************************)
EXTENDS Naturals, FiniteSets

CONSTANTS
  Neighbors,        \* the nodes that can be heard
  TableSize,        \* NEIGHBOR_TABLE_SIZE
  Eetx,             \* the estimates a link can have
  EvictThreshold    \* EVICT_EETX_THRESHOLD

\* What is assumed of them where this module is instantiated.
LinkTableAssumption ==
  /\ TableSize \in Nat \ {0}
  /\ EvictThreshold \in Nat
  /\ Eetx \subseteq Nat /\ 0 \in Eetx

VARIABLE links      \* links[n] for the neighbours that have a slot

Link == [mature : BOOLEAN, pinned : BOOLEAN, eetx : Eetx]

Fresh == [mature |-> FALSE, pinned |-> FALSE, eetx |-> 0]

Room(l) == Cardinality(DOMAIN l) < TableSize

Ripe(l)   == {n \in DOMAIN l : l[n].mature /\ ~ l[n].pinned}
Unripe(l) == {n \in DOMAIN l : ~ l[n].mature /\ ~ l[n].pinned}

\* The ripe neighbours with the largest estimate, if that reaches the threshold.
Worst(l, threshold) ==
  {n \in Ripe(l) : l[n].eetx >= threshold /\ \A m \in Ripe(l) : l[m].eetx <= l[n].eetx}

\* l after n has taken a free slot (out = {}) or that of the neighbour in out.
Enter(l, n, out) == [m \in (DOMAIN l \ out) \union {n} |-> IF m = n THEN Fresh ELSE l[m]]

\* A way to end a call: the table it leaves, and whom it signalled as evicted.
Outcome(l, out) == [links |-> l, evicted |-> out]
Replacing(l, n, victims) == {Outcome(Enter(l, n, {v}), {v}) : v \in victims}

\* insertNeighbor: the worst ripe neighbour goes, however good it is.
Inserted(l, n) ==
  IF n \in DOMAIN l THEN {Outcome(l, {})}
  ELSE IF Room(l) THEN {Outcome(Enter(l, n, {}), {})}
  ELSE IF Worst(l, 0) # {} THEN Replacing(l, n, Worst(l, 0))
  ELSE {Outcome(l, {})}

\* A beacon of a neighbour without a slot; the routing engine may recommend it.
Admitted(l, n, recommended) ==
  IF Room(l) THEN {Outcome(Enter(l, n, {}), {})}
  ELSE IF Worst(l, EvictThreshold) # {} THEN Replacing(l, n, Worst(l, EvictThreshold))
  ELSE IF recommended /\ Unripe(l) # {} THEN Replacing(l, n, Unripe(l))
  ELSE {Outcome(l, {})}

Ripened(l, n, q) == [l EXCEPT ![n].mature = TRUE, ![n].eetx = q]
Repinned(l, n, p) == IF n \in DOMAIN l THEN [l EXCEPT ![n].pinned = p] ELSE l

\* getLinkQuality
VERY_LARGE_EETX_VALUE == 255
getLinkQuality(l, n) ==
  IF n \in DOMAIN l /\ l[n].mature THEN l[n].eetx ELSE VERY_LARGE_EETX_VALUE
-----------------------------------------------------------------------------
Init == links = << >>

\* The estimate of n becomes any other, and its entry mature or not.
Estimated(n, mature) ==
  /\ n \in DOMAIN links \intersect DOMAIN links'
  /\ links'[n].eetx \in Eetx
  /\ links' = [links EXCEPT ![n].mature = mature, ![n].eetx = links'[n].eetx]

BeaconHeard(n) ==
  IF n \in DOMAIN links
  THEN links' = links \/ Estimated(n, TRUE)
  ELSE \E recommended \in BOOLEAN : \E o \in Admitted(links, n, recommended) : links' = o.links

insertNeighbor(n) == \E o \in Inserted(links, n) : links' = o.links

pinNeighbor(n)   == links' = Repinned(links, n, TRUE)
unpinNeighbor(n) == links' = Repinned(links, n, FALSE)

\* The outcome of a data packet may move the estimate.
Transmitted(n) == n \in DOMAIN links /\ Estimated(n, links[n].mature)

Next == \E n \in Neighbors :
  \/ BeaconHeard(n) \/ insertNeighbor(n)
  \/ pinNeighbor(n) \/ unpinNeighbor(n)
  \/ Transmitted(n)

Spec == Init /\ [][Next]_links
-----------------------------------------------------------------------------
\* The table holds neighbours only, and never more of them than it has slots
\* (findEmptyNeighborIdx, LinkEstimatorP.nc:203).
LinksOK == /\ DOMAIN links \subseteq Neighbors
           /\ links \in [DOMAIN links -> Link]
           /\ Cardinality(DOMAIN links) <= TableSize

\* A neighbour that is pinned is still there after any step: no beacon, no
\* forced insertion and no estimate takes its slot (PINNED_ENTRY, LinkEstimator.h:79).
PinnedStay == [][\A n \in DOMAIN links : links[n].pinned => n \in DOMAIN links']_links
=============================================================================
