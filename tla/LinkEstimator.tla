--------------------------- MODULE LinkEstimator ---------------------------
(***************************************************************************)
(* The 4-bit link estimator, 4bitle_old/LinkEstimatorP.nc: the neighbour   *)
(* table with its flags, the two windowed estimates (beacons heard, data   *)
(* packets acknowledged) with the integer widths of the code, the choice   *)
(* of an entry to replace, and the round robin of the footer.              *)
(*                                                                         *)
(* A beacon's sequence number is only ever compared with the previous one, *)
(* so the input is the gap between them; the routing engine's advice is    *)
(* an input too.                                                           *)
(***************************************************************************)
EXTENDS Integers, FiniteSets, FiniteSetsExt

CONSTANTS
  Neighbors,             \* the nodes that can be heard
  NoAddr,                \* the address in a slot that was never used
  NEIGHBOR_TABLE_SIZE,
  EVICT_EETX_THRESHOLD,
  Worlds    \* instances to look at:
            \*   neighbors  the nodes around
            \*   room       footer entries that fit in a beacon
            \*   gaps       differences of consecutive sequence numbers
            \*   beacons    bound on the beacons heard; Unbounded is none
            \*   data       whether data packets are sent
            \*   wide       int has 32 bits (TOSSIM) instead of 16 (the motes)

Unbounded == -1

Bytes     == 0 .. 255      \* the values of uint8_t
Estimates == 0 .. 65535    \* and of uint16_t

ASSUME EstimatorAssumption ==
  /\ NoAddr \notin Neighbors
  /\ NEIGHBOR_TABLE_SIZE \in 1 .. 254
  /\ EVICT_EETX_THRESHOLD \in Nat
  /\ Worlds \subseteq [neighbors : SUBSET Neighbors, room : Nat, gaps : SUBSET Bytes,
                       beacons : Nat \union {Unbounded}, data : BOOLEAN, wide : BOOLEAN]

VARIABLES
  world,          \* chosen once
  NeighborTable,  \* slot -> entry
  prevSentIdx,    \* the slot that was last reported in a footer
  heard,          \* beacons heard, where the world bounds them
  waits           \* beacons sent since a mature slot was last in a footer

vars == <<world, NeighborTable, prevSentIdx, heard, waits>>

MAX_AGE == 6
MAX_PKT_GAP == 10
ALPHA == 9
DLQ_PKT_WINDOW == 5
BLQ_PKT_WINDOW == 3
BEST_EETX == 0
VERY_LARGE_EETX_VALUE == 255
NUM_ENTRIES_FLAG == 15

Byte(x) == x % 256
Word(x) == x % 65536
Arith(x) == IF world.wide THEN x ELSE Word(x)   \* of an expression on uint16_t

Idx == 0 .. NEIGHBOR_TABLE_SIZE - 1

\* neighbor_table_entry_t; the sequence number is in the gap of the next beacon.
Flags == {"valid", "mature", "init", "pinned"}
Entry == [ll_addr : Neighbors \union {NoAddr}, flags : SUBSET Flags,
          rcvcnt : Bytes, failcnt : Bytes, inage : Bytes, inquality : Bytes,
          eetx : Estimates, data_success : Bytes, data_total : Bytes]

Blank == [ll_addr |-> NoAddr, flags |-> {}, rcvcnt |-> 0, failcnt |-> 0, inage |-> 0,
          inquality |-> 0, eetx |-> 0, data_success |-> 0, data_total |-> 0]

Init ==
  /\ world \in Worlds
  /\ NeighborTable = [i \in Idx |-> Blank]
  /\ prevSentIdx = 0
  /\ heard = 0
  /\ waits = [i \in Idx |-> 0]

Is(i, flag) == flag \in NeighborTable[i].flags

-----------------------------------------------------------------------------
(* Looking for a slot: the result is the set of slots the call may return, *)
(* empty where it returns INVALID_RVAL.                                    *)

First(S) == IF S = {} THEN {} ELSE {Min(S)}

findIdx(n) == First({i \in Idx : Is(i, "valid") /\ NeighborTable[i].ll_addr = n})

findEmptyNeighborIdx == First({i \in Idx : ~ Is(i, "valid")})

\* The last of the mature, unpinned slots with the largest estimate.
findWorstNeighborIdx(threshold) ==
  LET ripe == {i \in Idx : Is(i, "valid") /\ Is(i, "mature") /\ ~ Is(i, "pinned")}
      top  == {i \in ripe : \A j \in ripe : NeighborTable[j].eetx <= NeighborTable[i].eetx}
  IN {i \in top : NeighborTable[i].eetx >= threshold /\ \A j \in top : j <= i}

\* Any young, unpinned slot, by a random number.
findRandomNeighborIdx ==
  {i \in Idx : Is(i, "valid") /\ ~ Is(i, "pinned") /\ ~ Is(i, "mature")}

-----------------------------------------------------------------------------
(* Estimates. *)

\* Faulty: the two weights add up to eleven tenths.
updateEETX_Heavy(e, newEst) ==
  [e EXCEPT !.eetx = Word(Arith(ALPHA * @ + (11 - ALPHA) * newEst) \div 10)]

updateEETX(e, newEst) ==
  [e EXCEPT !.eetx = Word(Arith(ALPHA * @ + (10 - ALPHA) * newEst) \div 10)]

\* Faulty: a window that was all acknowledged counts as one transmission too many.
updateDEETX_NoMinus(e) ==
  IF e.data_success = 0
  THEN updateEETX(e, (e.data_total - 1) * 10)
  ELSE updateEETX([e EXCEPT !.data_success = 0, !.data_total = 0],
                  (10 * e.data_total) \div e.data_success)

\* Without a success the window goes on.
updateDEETX(e) ==
  IF e.data_success = 0
  THEN updateEETX(e, (e.data_total - 1) * 10)
  ELSE updateEETX([e EXCEPT !.data_success = 0, !.data_total = 0],
                  Word((10 * e.data_total) \div e.data_success - 10))

computeEETX(q) ==
  IF q > 0 /\ 2550 \div q - 10 <= 255 THEN 2550 \div q - 10 ELSE VERY_LARGE_EETX_VALUE

\* Faulty: the counts of the window are kept.
Estimated_KeepsCounts(e) ==
  LET total == Max({Byte(e.rcvcnt + e.failcnt), BLQ_PKT_WINDOW})
      est   == Byte((255 * e.rcvcnt) \div total)
      next  == [e EXCEPT !.inage = @ - 1, !.flags = @ \union {"mature"},
                         !.inquality = (ALPHA * @ + (10 - ALPHA) * est) \div 10]
  IN updateEETX(next, computeEETX(next.inquality))

\* updateNeighborTableEst, for one entry of that neighbour.
Estimated(e) ==
  LET aged  == IF e.inage > 0 THEN e.inage - 1 ELSE 0
      total == Max({Byte(e.rcvcnt + e.failcnt), BLQ_PKT_WINDOW})
      est   == Byte((255 * e.rcvcnt) \div total)
      next  == IF aged = 0
               THEN [e EXCEPT !.inage = 0, !.flags = @ \ {"valid"}, !.inquality = 0]
               ELSE [e EXCEPT !.inage = aged, !.flags = @ \union {"mature"},
                              !.inquality = (ALPHA * @ + (10 - ALPHA) * est) \div 10,
                              !.rcvcnt = 0, !.failcnt = 0]
  IN updateEETX(next, computeEETX(next.inquality))

updateNeighborTableEst(table, n) ==
  [i \in Idx |-> IF table[i].ll_addr = n /\ "valid" \in table[i].flags
                 THEN Estimated(table[i]) ELSE table[i]]

\* Faulty: the age is not refreshed.
Counted_NotRefreshed(e, gap) ==
  IF gap > MAX_PKT_GAP
  THEN [e EXCEPT !.failcnt = 0, !.rcvcnt = 1, !.inquality = 0]
  ELSE [e EXCEPT !.rcvcnt = Byte(@ + 1),
                 !.failcnt = Byte(@ + (IF gap > 0 THEN gap - 1 ELSE 0))]

\* updateNeighborEntryIdx up to the estimate: what was received and missed.
Counted(e, gap) ==
  IF gap > MAX_PKT_GAP
  THEN [e EXCEPT !.inage = MAX_AGE, !.failcnt = 0, !.rcvcnt = 1, !.inquality = 0]
  ELSE [e EXCEPT !.inage = MAX_AGE, !.rcvcnt = Byte(@ + 1),
                 !.failcnt = Byte(@ + (IF gap > 0 THEN gap - 1 ELSE 0))]

\* The first beacon of an entry sets the sequence number: it has no gap.
updateNeighborEntryIdx(table, i, gap) ==
  LET e == Counted([table[i] EXCEPT !.flags = @ \ {"init"}],
                   IF "init" \in table[i].flags THEN 0 ELSE gap)
      counted == [table EXCEPT ![i] = e]
  IN IF e.rcvcnt >= BLQ_PKT_WINDOW THEN updateNeighborTableEst(counted, e.ll_addr)
     ELSE counted

\* Everything but the counters of data packets is initialised.
initNeighborIdx(i, n) ==
  [NeighborTable EXCEPT ![i] = [Blank EXCEPT !.ll_addr = n, !.flags = {"init", "valid"},
     !.inage = MAX_AGE, !.data_success = NeighborTable[i].data_success,
                        !.data_total = NeighborTable[i].data_total]]
-----------------------------------------------------------------------------
(* The events and commands. *)

\* A slot that got a new estimate or occupant waits for its next report.
Waiting(table) ==
  [i \in Idx |-> IF table[i].ll_addr = NeighborTable[i].ll_addr THEN waits[i] ELSE 0]

Becomes(table) == /\ NeighborTable' = table
                  /\ waits' = Waiting(table)
                  /\ UNCHANGED <<world, prevSentIdx>>

\* Faulty: the entry of a neighbour that is known is not looked for.
processReceivedMessage_NotFound(n, gap, recommended) ==
  IF findEmptyNeighborIdx # {}
  THEN \E i \in findEmptyNeighborIdx :
         Becomes(updateNeighborEntryIdx(initNeighborIdx(i, n), i, gap))
  ELSE Becomes(NeighborTable)

\* processReceivedMessage, of a broadcast.
processReceivedMessage(n, gap, recommended) ==
  IF findIdx(n) # {}
  THEN \E i \in findIdx(n) : Becomes(updateNeighborEntryIdx(NeighborTable, i, gap))
  ELSE IF findEmptyNeighborIdx # {}
  THEN \E i \in findEmptyNeighborIdx :
         Becomes(updateNeighborEntryIdx(initNeighborIdx(i, n), i, gap))
  ELSE IF findWorstNeighborIdx(EVICT_EETX_THRESHOLD) # {}
  THEN \E i \in findWorstNeighborIdx(EVICT_EETX_THRESHOLD) : Becomes(initNeighborIdx(i, n))
  ELSE IF recommended /\ findRandomNeighborIdx # {}
  THEN \E i \in findRandomNeighborIdx : Becomes(initNeighborIdx(i, n))
  ELSE Becomes(NeighborTable)

Receive == \E n \in world.neighbors, gap \in world.gaps, recommended \in BOOLEAN :
  /\ world.beacons # Unbounded => heard < world.beacons
  /\ heard' = IF world.beacons # Unbounded THEN heard + 1 ELSE 0
  /\ processReceivedMessage(n, gap, recommended)

insertNeighbor(n) ==
  /\ UNCHANGED heard
  /\ IF findIdx(n) # {} THEN Becomes(NeighborTable)
     ELSE IF findEmptyNeighborIdx # {}
     THEN \E i \in findEmptyNeighborIdx : Becomes(initNeighborIdx(i, n))
     ELSE IF findWorstNeighborIdx(BEST_EETX) # {}
     THEN \E i \in findWorstNeighborIdx(BEST_EETX) : Becomes(initNeighborIdx(i, n))
     ELSE Becomes(NeighborTable)

\* A command on the entry of n, if it has one.
OnEntry(n, Op(_)) ==
  /\ UNCHANGED heard
  /\ Becomes([i \in Idx |-> IF i \in findIdx(n) THEN Op(NeighborTable[i])
                            ELSE NeighborTable[i]])

Pinned(e)   == [e EXCEPT !.flags = @ \union {"pinned"}]
Unpinned(e) == [e EXCEPT !.flags = @ \ {"pinned"}]
pinNeighbor(n)   == OnEntry(n, Pinned)
unpinNeighbor(n) == OnEntry(n, Unpinned)

Windowed(e) == IF e.data_total >= DLQ_PKT_WINDOW THEN updateDEETX(e) ELSE e
Acked(e)    == Windowed([e EXCEPT !.data_success = Byte(@ + 1), !.data_total = Byte(@ + 1)])
Unacked(e)  == Windowed([e EXCEPT !.data_total = Byte(@ + 1)])
Cleared(e)  == [e EXCEPT !.data_success = 0, !.data_total = 0]
txAck(n)    == world.data /\ OnEntry(n, Acked)
txNoAck(n)  == world.data /\ OnEntry(n, Unacked)
clearDLQ(n) == world.data /\ OnEntry(n, Cleared)

Reportable == {i \in Idx : Is(i, "valid") /\ Is(i, "mature")}

\* Faulty: the round starts at the slot reported last.
FooterOrder_Stays(i) == (prevSentIdx + i) % NEIGHBOR_TABLE_SIZE

\* The i-th slot that is looked at for the footer.
FooterOrder(i) == (prevSentIdx + i + 1) % NEIGHBOR_TABLE_SIZE

\* addLinkEstHeaderAndFooter: the first maxEntries reportable slots of the round.
Send ==
  LET maxEntries == Min({world.room, NUM_ENTRIES_FLAG})
      before(i)  == Cardinality({j \in 0 .. i : FooterOrder(j) \in Reportable})
      steps      == {i \in Idx : FooterOrder(i) \in Reportable /\ before(i) <= maxEntries}
      sent       == {FooterOrder(i) : i \in steps}
  IN /\ prevSentIdx' = IF steps = {} THEN 0 ELSE FooterOrder(Max(steps))
     /\ waits' = [i \in Idx |-> IF i \in Reportable \ sent THEN waits[i] + 1 ELSE 0]
     /\ UNCHANGED <<world, NeighborTable, heard>>

Next == \/ Receive
        \/ \E n \in world.neighbors :
             \/ insertNeighbor(n) \/ pinNeighbor(n) \/ unpinNeighbor(n)
             \/ txAck(n) \/ txNoAck(n) \/ clearDLQ(n)
        \/ Send

Spec == Init /\ [][Next]_vars
-----------------------------------------------------------------------------
(* Properties. *)

\* Every field keeps its width, and a window never outgrows its length
\* (BLQ_PKT_WINDOW, LinkEstimatorP.nc:403).
TypeOK ==
  /\ world \in Worlds
  /\ NeighborTable \in [Idx -> Entry]
  /\ \A i \in Idx : NeighborTable[i].rcvcnt < BLQ_PKT_WINDOW
  /\ prevSentIdx \in Idx
  /\ heard \in Nat
  /\ waits \in [Idx -> Nat]

\* No neighbour has two slots: findIdx (LinkEstimatorP.nc:190) finds the one
\* entry there is, so a pin, an estimate and a report concern the same link.
OneSlotEach ==
  \A i, j \in Idx : /\ Is(i, "valid") /\ Is(j, "valid")
                    /\ NeighborTable[i].ll_addr = NeighborTable[j].ll_addr
                    => i = j

\* The largest estimate: beacons yield 255 at most, a count of losses 2540; a
\* negative estimate that wraps (updateDEETX, LinkEstimatorP.nc:304) adds 6553 once.
LargestEetx ==
  IF ~ world.data THEN VERY_LARGE_EETX_VALUE ELSE IF world.wide THEN 8839 ELSE 6553

\* An estimate never leaves that range.  With 16-bit ints it cannot; with 32-bit
\* ones only because a second wrapped estimate needs 255 losses in a row, during
\* which the first one decays (updateEETX, LinkEstimatorP.nc:289).
EetxBounded == \A i \in Idx : NeighborTable[i].eetx <= LargestEetx

\* Every mature neighbour is in a footer at least once in as many beacons as there
\* are slots, however few entries fit (the round robin of LinkEstimatorP.nc:103).
FooterFair == world.room > 0 => \A i \in Idx : waits[i] < NEIGHBOR_TABLE_SIZE

\* On a mote, an acknowledgement that completes a window without a loss never makes
\* a link look worse, unless the link looked perfect and the window has counted
\* more packets acknowledged than sent (updateDEETX, LinkEstimatorP.nc:295).
AckNeverHurts ==
  [][~ world.wide =>
       \A n \in world.neighbors : \A i \in findIdx(n) :
         LET e == NeighborTable[i]
         IN /\ txAck(n)
            /\ e.data_success = e.data_total \/ (e.data_success > e.data_total /\ e.eetx > 0)
            => NeighborTable'[i].eetx <= e.eetx]_vars

-----------------------------------------------------------------------------
(* What the routing engine may rely on. *)

\* The neighbours that have a slot, as LinkTable sees them.
LinksOf(table) ==
  [n \in {table[i].ll_addr : i \in {j \in Idx : "valid" \in table[j].flags}} |->
     LET e == table[Min({i \in Idx : table[i].ll_addr = n /\ "valid" \in table[i].flags})]
     IN [mature |-> "mature" \in e.flags, pinned |-> "pinned" \in e.flags, eetx |-> e.eetx]]

Table == INSTANCE LinkTable WITH
  TableSize <- NEIGHBOR_TABLE_SIZE, Eetx <- Estimates,
  EvictThreshold <- EVICT_EETX_THRESHOLD, links <- LinksOf(NeighborTable)

\* The estimator implements LinkTable: a neighbour leaves only when another takes
\* its slot, never by age, never while it is pinned (LinkEstimatorP.nc:216, :330).
ImplementsLinkTable == Table!Spec
=============================================================================
