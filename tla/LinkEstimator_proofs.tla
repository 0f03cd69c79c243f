-------------------------- MODULE LinkEstimator_proofs --------------------------
(***************************************************************************)
(* Proofs about LinkEstimator for every set of neighbours, every size of   *)
(* the table, every threshold and every world: beacons, evictions and data *)
(* packets in any order, at both widths of int.                            *)
(***************************************************************************)
EXTENDS LinkEstimator, DistinctSeqs

-----------------------------------------------------------------------------
(* The inductive invariant. *)

\* What is left, after t losses in a row, of an estimate that a wrapped count has
\* made too large.
Excess(t) ==
  IF t <= 31 THEN 6299 - 170 * (t - 4)
  ELSE IF t <= 63 THEN 1709 - 40 * (t - 31)
  ELSE IF t <= 95 THEN 429 - 10 * (t - 63)
  ELSE IF t <= 204 THEN 204 - t ELSE 0

\* The counts of data packets: at most one packet more is acknowledged than counted,
\* and where that happened the estimate has decayed before.
CountsOK(e) ==
  /\ e.data_success > 0 => e.data_total < DLQ_PKT_WINDOW
  /\ e.data_success <= e.data_total + 1
  /\ e.eetx <= LargestEetx
  /\ world.wide =>
       /\ e.data_success = e.data_total + 1 => e.eetx <= 2540
       /\ e.data_success = 0 /\ e.data_total >= DLQ_PKT_WINDOW
          => e.eetx <= 2540 + Excess(e.data_total)

GoodEntry(e) ==
  /\ e \in Entry
  /\ e.rcvcnt < BLQ_PKT_WINDOW
  /\ CountsOK(e)
  /\ "valid" \in e.flags => e.ll_addr \in Neighbors

\* No two entries of one neighbour.
Single(table) ==
  \A i, j \in Idx : /\ "valid" \in table[i].flags /\ "valid" \in table[j].flags
                    /\ table[i].ll_addr = table[j].ll_addr
                    => i = j

GoodTable(table) ==
  /\ table \in [Idx -> Entry]
  /\ \A i \in Idx : GoodEntry(table[i])
  /\ Single(table)

\* Slots between the last one reported and i, in the order of the round.
Ahead(i) == IF i > prevSentIdx THEN i - prevSentIdx - 1
            ELSE i + NEIGHBOR_TABLE_SIZE - prevSentIdx - 1

\* A slot that has waited long is near the head of the round.
Round == world.room > 0 => \A i \in Idx : waits[i] + Ahead(i) < NEIGHBOR_TABLE_SIZE

IInv ==
  /\ world \in Worlds
  /\ prevSentIdx \in Idx
  /\ heard \in Nat
  /\ waits \in [Idx -> Nat]
  /\ GoodTable(NeighborTable)
  /\ Round

-----------------------------------------------------------------------------
--------------------------------------------------------------------------
(* The integers of C. *)

(* What is assumed of the constants. *)
LEMMA Sizes ==
  /\ NEIGHBOR_TABLE_SIZE \in Nat /\ NEIGHBOR_TABLE_SIZE > 0
  /\ NoAddr \notin Neighbors /\ EVICT_EETX_THRESHOLD \in Nat
  /\ Idx \subseteq Nat /\ 0 \in Idx
  /\ \A i \in Idx : i < NEIGHBOR_TABLE_SIZE
  BY EstimatorAssumption DEF Idx

(* The fields of a world. *)
LEMMA Fields ==
  ASSUME world \in Worlds
  PROVE  /\ world.neighbors \subseteq Neighbors /\ world.room \in Nat
         /\ world.gaps \subseteq Bytes
         /\ world.beacons \in Nat \union {Unbounded}
         /\ world.data \in BOOLEAN /\ world.wide \in BOOLEAN
  BY EstimatorAssumption

(* The fields of an entry. *)
LEMMA EntryFields ==
  ASSUME NEW e \in Entry
  PROVE  /\ e.ll_addr \in Neighbors \union {NoAddr} /\ e.flags \in SUBSET Flags
         /\ e.rcvcnt \in Bytes /\ e.failcnt \in Bytes /\ e.inage \in Bytes
         /\ e.inquality \in Bytes /\ e.eetx \in Estimates
         /\ e.data_success \in Bytes /\ e.data_total \in Bytes
  BY DEF Entry

(* The first of the slots in S, if there is one. *)
LEMMA FirstOf ==
  ASSUME NEW S \in SUBSET Idx
  PROVE  /\ First(S) \subseteq S
         /\ S # {} => First(S) # {}
         /\ \A i \in First(S), j \in First(S) : i = j
  <1>1. S \subseteq Nat
    BY Sizes
  <1>2. S # {} => Min(S) \in S
    BY <1>1, MinOf
  <1> QED BY <1>2 DEF First

(* An 8-bit and a 16-bit integer. *)
LEMMA Widths ==
  /\ \A x \in Int : Byte(x) \in Bytes /\ Word(x) \in Estimates
  /\ \A x \in Bytes : x \in Nat /\ x < 256
  /\ \A x \in Estimates : x \in Nat /\ x < 65536
  /\ \A x \in Nat : x < 256 => x \in Bytes /\ Byte(x) = x
  /\ \A x \in Nat : x < 65536 => x \in Estimates /\ Word(x) = x
  <1>1. \A x \in Int : Byte(x) \in Bytes
    BY DEF Byte, Bytes
  <1>2. \A x \in Int : Word(x) \in Estimates
    BY SMTT(30) DEF Word, Estimates
  <1>3. \A x \in Bytes : x \in Nat /\ x < 256
    BY DEF Bytes
  <1>4. \A x \in Estimates : x \in Nat /\ x < 65536
    BY SMTT(30) DEF Estimates
  <1>5. \A x \in Nat : x < 256 => x \in Bytes /\ Byte(x) = x
    BY DEF Byte, Bytes
  <1>6. \A x \in Nat : x < 65536 => Word(x) = x
    BY DEF Word
  <1>7. \A x \in Nat : x < 65536 => x \in Estimates
    BY <1>2, <1>6
  <1> QED BY <1>1, <1>2, <1>3, <1>4, <1>5, <1>6, <1>7

-----------------------------------------------------------------------------
(* The estimates. *)

(* The average of an estimate and a new one: nine tenths and one tenth, cut off to
   16 bits before the division where int has 16. *)
LEMMA Average ==
  ASSUME world \in Worlds, NEW e \in Entry, NEW est \in Estimates,
         NEW u, u = updateEETX(e, est)
  PROVE  /\ u \in Entry
         /\ u = [e EXCEPT !.eetx = u.eetx]
         /\ world.wide \/ 9 * e.eetx + est < 65536 => u.eetx = (9 * e.eetx + est) \div 10
         /\ ~ world.wide => /\ u.eetx = Word(9 * e.eetx + est) \div 10
                            /\ u.eetx <= 6553
  <1> DEFINE sum == 9 * e.eetx + est
  <1>1. e.eetx \in Nat /\ e.eetx < 65536 /\ est \in Nat /\ est < 65536
    BY EntryFields, Widths
  <1>2. sum \in Nat /\ sum \div 10 \in Nat /\ sum \div 10 < 65536
    BY <1>1
  <1>3. u = [e EXCEPT !.eetx = Word(Arith(sum) \div 10)]
    <2>1. ALPHA * e.eetx + (10 - ALPHA) * est = sum
      BY <1>1 DEF ALPHA
    <2> QED BY <2>1 DEF updateEETX
  <1>4. u.eetx = Word(Arith(sum) \div 10)
    BY <1>3 DEF Entry
  <1>5. Word(sum) \in Nat /\ Word(sum) < 65536
    BY <1>2, Widths
  <1>6. CASE world.wide
    <2>1. u.eetx = sum \div 10
      BY <1>2, <1>4, <1>6, Widths DEF Arith
    <2>2. u.eetx \in Estimates
      BY <1>2, <2>1, Widths
    <2> QED BY <1>3, <1>4, <1>6, <2>1, <2>2 DEF Entry
  <1>7. CASE ~ world.wide
    <2> DEFINE w == Word(sum)
    <2>1. w \div 10 \in Nat /\ w \div 10 <= 6553
      BY <1>5
    <2>2. u.eetx = w \div 10
      BY <1>4, <1>7, <2>1, Widths DEF Arith
    <2>3. u.eetx \in Estimates
      BY <2>1, <2>2, Widths
    <2>4. sum < 65536 => u.eetx = sum \div 10
      BY <1>2, <2>2, Widths
    <2> QED BY <1>3, <1>4, <1>7, <2>1, <2>2, <2>3, <2>4 DEF Entry
  <1> QED BY <1>6, <1>7

(* An average of numbers up to a bound stays up to it. *)
LEMMA AverageBound ==
  ASSUME world \in Worlds, NEW e \in Entry, NEW est \in Estimates, NEW b \in Nat,
         e.eetx <= b, est <= b, world.wide \/ 10 * b < 65536
  PROVE  updateEETX(e, est).eetx <= b
  <1> DEFINE u == updateEETX(e, est)
  <1>1. e.eetx \in Nat /\ est \in Nat
    BY EntryFields, Widths
  <1>2. world.wide \/ 9 * e.eetx + est < 65536
    BY <1>1
  <1>3. u.eetx = (9 * e.eetx + est) \div 10
    BY <1>2, Average
  <1>4. (9 * e.eetx + est) \div 10 <= b
    BY <1>1
  <1> QED BY <1>3, <1>4

(* What an estimate is worth with what is left of a wrapped one: the excess after one
   more loss covers nine tenths of the excess before. *)
LEMMA ExcessDecays ==
  /\ \A t \in Bytes : Excess(t) \in Int
  /\ \A t \in DLQ_PKT_WINDOW .. 255 : Excess(t) \in Nat
  /\ \A t \in DLQ_PKT_WINDOW .. 255, e \in Nat :
       e <= 2540 + Excess(t - 1) => (9 * e + (t - 1) * 10) \div 10 <= 2540 + Excess(t)
  /\ Excess(DLQ_PKT_WINDOW - 1) = 6299 /\ Excess(255) = 0
  <1>1. \A t \in Bytes : Excess(t) \in Int
    BY DEF Excess, Bytes
  <1>2. \A t \in 5 .. 255 : Excess(t) \in Nat
    BY DEF Excess
  <1>3. ASSUME NEW t \in 5 .. 255, NEW e \in Nat, e <= 2540 + Excess(t - 1)
        PROVE  (9 * e + (t - 1) * 10) \div 10 <= 2540 + Excess(t)
    <2>1. CASE t <= 31
      BY <1>3, <2>1 DEF Excess
    <2>2. CASE t > 31 /\ t <= 63
      BY <1>3, <2>2 DEF Excess
    <2>3. CASE t > 63 /\ t <= 95
      BY <1>3, <2>3 DEF Excess
    <2>4. CASE t > 95 /\ t <= 204
      BY <1>3, <2>4 DEF Excess
    <2>5. CASE t > 204
      BY <1>3, <2>5 DEF Excess
    <2> QED BY <2>1, <2>2, <2>3, <2>4, <2>5
  <1>4. Excess(4) = 6299 /\ Excess(255) = 0
    BY DEF Excess
  <1> QED BY <1>1, <1>2, <1>3, <1>4 DEF DLQ_PKT_WINDOW

-----------------------------------------------------------------------------
(* What the operations do to one entry. *)

\* Everything an estimate depends on besides the entry's own quality.
SameCounts(e, f) == f.data_success = e.data_success /\ f.data_total = e.data_total

(* Every good entry obeys the limits, at either width of int. *)
LEMMA CountsFields ==
  ASSUME world \in Worlds, NEW e \in Entry, CountsOK(e)
  PROVE  /\ e.data_success \in Nat /\ e.data_total \in Nat /\ e.eetx \in Nat
         /\ e.data_total < 256 /\ e.data_success <= DLQ_PKT_WINDOW
         /\ LargestEetx \in Nat /\ LargestEetx >= 255
         /\ Excess(e.data_total) \in Int
         /\ e.data_total >= DLQ_PKT_WINDOW => Excess(e.data_total) \in Nat
  <1>1. /\ e.data_success \in Nat /\ e.data_total \in Nat /\ e.eetx \in Nat
        /\ e.data_total < 256
    BY EntryFields, Widths
  <1>2. e.data_success <= DLQ_PKT_WINDOW
    BY <1>1 DEF CountsOK, DLQ_PKT_WINDOW
  <1>3. LargestEetx \in Nat /\ LargestEetx >= 255
    BY DEF LargestEetx, VERY_LARGE_EETX_VALUE
  <1>4. Excess(e.data_total) \in Int
    BY EntryFields, ExcessDecays
  <1>5. e.data_total >= DLQ_PKT_WINDOW => Excess(e.data_total) \in Nat
    <2>1. e.data_total >= DLQ_PKT_WINDOW => e.data_total \in DLQ_PKT_WINDOW .. 255
      BY <1>1 DEF DLQ_PKT_WINDOW
    <2> QED BY <2>1, ExcessDecays
  <1> QED BY <1>1, <1>2, <1>3, <1>4, <1>5

(* A new average with an estimate from beacons keeps the limits. *)
LEMMA BeaconAverage ==
  ASSUME world \in Worlds, NEW e \in Entry, CountsOK(e), NEW est \in Nat, est <= 255,
         NEW u, u = updateEETX(e, est)
  PROVE  CountsOK(u)
  <1>1. est \in Estimates
    BY Widths
  <1>2. u \in Entry /\ u = [e EXCEPT !.eetx = u.eetx]
    BY <1>1, Average
  <1>3. SameCounts(e, u)
    BY <1>2 DEF SameCounts, Entry
  <1>4. ASSUME NEW b \in Nat, b >= 255, e.eetx <= b, world.wide \/ 10 * b < 65536
        PROVE  u.eetx <= b
    <2>1. est <= b
      BY <1>4
    <2> QED BY <1>1, <1>4, <2>1, AverageBound
  <1>5. u.eetx <= LargestEetx
    <2>1. CASE world.wide
      BY <2>1, <1>4, CountsFields DEF CountsOK
    <2>2. CASE ~ world.wide /\ world.data
      BY <2>2, <1>1, Average DEF LargestEetx
    <2>3. CASE ~ world.wide /\ ~ world.data
      <3>1. LargestEetx = 255
        BY <2>3 DEF LargestEetx, VERY_LARGE_EETX_VALUE
      <3> QED BY <3>1, <1>4 DEF CountsOK
    <2> QED BY <2>1, <2>2, <2>3, Fields
  <1>6. ASSUME world.wide, e.data_success = e.data_total + 1
        PROVE  u.eetx <= 2540
    BY <1>4, <1>6 DEF CountsOK
  <1>7. ASSUME world.wide, e.data_success = 0, e.data_total >= DLQ_PKT_WINDOW
        PROVE  u.eetx <= 2540 + Excess(e.data_total)
    <2>1. 2540 + Excess(e.data_total) \in Nat /\ 2540 + Excess(e.data_total) >= 255
      BY <1>7, CountsFields
    <2>2. e.eetx <= 2540 + Excess(e.data_total)
      BY <1>7 DEF CountsOK
    <2> QED BY <1>4, <1>7, <2>1, <2>2
  <1> QED BY <1>3, <1>5, <1>6, <1>7 DEF CountsOK, SameCounts

\* An entry for n, in a slot that was e's.
Renewed(e, n) ==
  [Blank EXCEPT !.ll_addr = n, !.flags = {"init", "valid"}, !.inage = MAX_AGE,
                !.data_success = e.data_success, !.data_total = e.data_total]

(* An entry for a new neighbour has the flags, the age and the estimate of a new one. *)
LEMMA FreshEntry ==
  ASSUME world \in Worlds, NEW e \in Entry, CountsOK(e), NEW n \in Neighbors,
         NEW f, f = Renewed(e, n)
  PROVE  /\ GoodEntry(f)
         /\ f.ll_addr = n /\ f.flags = {"init", "valid"} /\ f.eetx = 0 /\ f.rcvcnt = 0
  <1>1. /\ f.ll_addr = n /\ f.flags = {"init", "valid"} /\ f.eetx = 0 /\ f.rcvcnt = 0
        /\ SameCounts(e, f)
    BY DEF Blank, SameCounts, Renewed
  <1>2. f \in Entry
    <2>1. 0 \in Bytes /\ MAX_AGE \in Bytes /\ 0 \in Estimates
      BY Widths DEF MAX_AGE
    <2>2. e.data_success \in Bytes /\ e.data_total \in Bytes
      BY EntryFields
    <2>3. {"init", "valid"} \in SUBSET Flags
      BY DEF Flags
    <2> QED BY <2>1, <2>2, <2>3 DEF Entry, Blank, Renewed
  <1>3. CountsOK(f)
    BY <1>1, CountsFields DEF CountsOK, SameCounts
  <1> QED BY <1>1, <1>2, <1>3 DEF GoodEntry, BLQ_PKT_WINDOW

(* The quality of a link, and the estimate it stands for, are 8-bit numbers. *)
LEMMA computeEETXType ==
  ASSUME NEW q \in Bytes
  PROVE  computeEETX(q) \in Nat /\ computeEETX(q) <= 255
  <1>1. q \in Nat /\ q < 256
    BY Widths
  <1>2. ASSUME q > 0
        PROVE  2550 \div q \in Int /\ 2550 \div q >= 10
    <2> DEFINE d == 2550 \div q
    <2>1. d \in Int /\ q * d <= 2550 /\ 2550 < q * (d + 1)
      BY <1>1, <1>2, Z3
    <2> HIDE DEF d
    <2>2. ASSUME d <= 9
          PROVE  q * (d + 1) <= 2550
      <3>1. q * (9 - d) \in Nat
        BY <1>1, <2>1, <2>2, Z3
      <3>2. q * (d + 1) = 10 * q - q * (9 - d)
        BY <1>1, <2>1, Z3
      <3> QED BY <1>1, <2>1, <3>1, <3>2
    <2>3. ~ (d <= 9)
      BY <1>1, <2>1, <2>2
    <2> QED BY <2>1, <2>3 DEF d
  <1> QED BY <1>1, <1>2 DEF computeEETX, VERY_LARGE_EETX_VALUE

(* A beacon is counted, or the entry starts again after a long gap. *)
LEMMA CountedEntry ==
  ASSUME NEW e \in Entry, e.rcvcnt < BLQ_PKT_WINDOW, NEW gap \in Bytes,
         NEW c, c = Counted(e, gap)
  PROVE  /\ c \in Entry
         /\ c.inage = MAX_AGE /\ c.rcvcnt <= BLQ_PKT_WINDOW
         /\ c.ll_addr = e.ll_addr /\ c.flags = e.flags /\ c.eetx = e.eetx
         /\ SameCounts(e, c)
  <1>1. 0 \in Bytes /\ 1 \in Bytes /\ MAX_AGE \in Bytes
    BY Widths DEF MAX_AGE
  <1>2. e.rcvcnt \in Nat /\ gap \in Nat
    BY EntryFields, Widths
  <1>3. CASE gap > MAX_PKT_GAP
    <2>1. c = [e EXCEPT !.inage = MAX_AGE, !.failcnt = 0, !.rcvcnt = 1, !.inquality = 0]
      BY <1>3 DEF Counted
    <2>2. c \in Entry
      BY <1>1, <2>1 DEF Entry
    <2>3. c.rcvcnt = 1 /\ 1 <= BLQ_PKT_WINDOW
      BY <2>1 DEF Entry, BLQ_PKT_WINDOW
    <2> QED BY <2>1, <2>2, <2>3 DEF Entry, SameCounts
  <1>4. CASE ~ (gap > MAX_PKT_GAP)
    <2> DEFINE r == Byte(e.rcvcnt + 1)
               m == Byte(e.failcnt + (IF gap > 0 THEN gap - 1 ELSE 0))
    <2>1. c = [e EXCEPT !.inage = MAX_AGE, !.rcvcnt = r, !.failcnt = m]
      BY <1>4 DEF Counted
    <2>2. r \in Bytes /\ r <= BLQ_PKT_WINDOW
      BY <1>2, Widths DEF BLQ_PKT_WINDOW
    <2>3. m \in Bytes
      <3>1. e.failcnt \in Nat
        BY EntryFields, Widths
      <3>2. e.failcnt + (IF gap > 0 THEN gap - 1 ELSE 0) \in Int
        BY <1>2, <3>1
      <3> QED BY <3>2, Widths
    <2> HIDE DEF r, m
    <2> QED BY <1>1, <2>1, <2>2, <2>3 DEF Entry, SameCounts
  <1> QED BY <1>3, <1>4

(* A window is over: the entry is mature, and its age is never used up. *)
LEMMA EstimatedEntry ==
  ASSUME world \in Worlds, NEW c \in Entry, CountsOK(c), c.inage = MAX_AGE,
         NEW u, u = Estimated(c)
  PROVE  /\ u \in Entry /\ CountsOK(u)
         /\ u.rcvcnt = 0 /\ u.ll_addr = c.ll_addr
         /\ u.flags = c.flags \union {"mature"}
  <1> DEFINE total == Max({Byte(c.rcvcnt + c.failcnt), BLQ_PKT_WINDOW})
             est   == Byte((255 * c.rcvcnt) \div total)
             q     == (ALPHA * c.inquality + (10 - ALPHA) * est) \div 10
             next  == [c EXCEPT !.inage = MAX_AGE - 1, !.flags = @ \union {"mature"},
                                !.inquality = q, !.rcvcnt = 0, !.failcnt = 0]
  <1>1. c.rcvcnt \in Nat /\ c.failcnt \in Nat /\ c.inquality \in Nat /\ c.inquality < 256
    BY EntryFields, Widths
  <1>2. total \in Nat /\ total > 0
    <2>1. Byte(c.rcvcnt + c.failcnt) \in Nat
      BY <1>1, Widths
    <2> QED BY <2>1, MinMaxOfTwo DEF BLQ_PKT_WINDOW
  <1>3. (255 * c.rcvcnt) \div total \in Int
    BY <1>1, <1>2, Z3
  <1>4. est \in Nat /\ est < 256
    BY <1>3, Widths
  <1>5. q \in Bytes
    <2>1. q \in Nat /\ q < 256
      BY <1>1, <1>4 DEF ALPHA
    <2> QED BY <2>1, Widths
  <1> HIDE DEF q
  <1>6. u = updateEETX(next, computeEETX(next.inquality))
    <2>1. MAX_AGE > 0 /\ MAX_AGE - 1 # 0 /\ c.inage - 1 = MAX_AGE - 1
      BY DEF MAX_AGE
    <2> QED BY <2>1 DEF Estimated, q
  <1>7. /\ next \in Entry /\ next.inquality = q /\ next.rcvcnt = 0 /\ next.eetx = c.eetx
        /\ next.ll_addr = c.ll_addr /\ next.flags = c.flags \union {"mature"}
        /\ SameCounts(c, next)
    <2>1. 0 \in Bytes /\ MAX_AGE - 1 \in Bytes
      BY Widths DEF MAX_AGE
    <2>2. c.flags \union {"mature"} \in SUBSET Flags
      BY EntryFields DEF Flags
    <2> QED BY <1>5, <2>1, <2>2 DEF Entry, SameCounts
  <1>8. CountsOK(next)
    BY <1>7 DEF CountsOK, SameCounts
  <1> HIDE DEF next
  <1>9. computeEETX(q) \in Nat /\ computeEETX(q) <= 255
    BY <1>5, computeEETXType
  <1>10. CountsOK(u)
    BY <1>6, <1>7, <1>8, <1>9, BeaconAverage
  <1>11. u \in Entry /\ u = [next EXCEPT !.eetx = u.eetx]
    <2>1. computeEETX(q) \in Estimates
      BY <1>9, Widths
    <2> QED BY <1>6, <1>7, <2>1, Average
  <1> QED BY <1>7, <1>10, <1>11 DEF Entry

(* A data packet that was lost: the count goes on, and what a wrapped estimate had
   added to this one decays. *)
LEMMA UnackedEntry ==
  ASSUME world \in Worlds, world.data, NEW e \in Entry, CountsOK(e),
         NEW u, u = Unacked(e)
  PROVE  /\ u \in Entry /\ CountsOK(u)
         /\ u.rcvcnt = e.rcvcnt /\ u.ll_addr = e.ll_addr /\ u.flags = e.flags
  <1> DEFINE s == e.data_success
             t == e.data_total
             v == Byte(t + 1)
             f == [e EXCEPT !.data_total = v]
  <1>1. /\ s \in Nat /\ t \in Nat /\ t < 256 /\ e.eetx \in Nat
        /\ LargestEetx \in Nat /\ LargestEetx >= 255
    BY CountsFields
  <1>2. v \in Bytes /\ v \in Nat /\ v = IF t = 255 THEN 0 ELSE t + 1
    BY <1>1, Widths DEF Byte
  <1>3. /\ s > 0 => t < 5
        /\ s <= t + 1 /\ e.eetx <= LargestEetx
        /\ world.wide /\ s = 0 /\ t >= 5 => e.eetx <= 2540 + Excess(t)
    BY DEF CountsOK, DLQ_PKT_WINDOW
  <1> HIDE DEF v
  <1>4. /\ f \in Entry /\ f.data_success = s /\ f.data_total = v /\ f.eetx = e.eetx
        /\ f.rcvcnt = e.rcvcnt /\ f.ll_addr = e.ll_addr /\ f.flags = e.flags
    BY <1>2 DEF Entry
  <1> HIDE DEF f
  <1>5. u = Windowed(f)
    BY DEF Unacked, f, v
  <1>6. CASE v < 5
    <2>1. u = f
      BY <1>2, <1>4, <1>5, <1>6 DEF Windowed, DLQ_PKT_WINDOW
    <2>2. /\ s <= v + 1
          /\ s # v + 1 \/ s = 0
      BY <1>1, <1>2, <1>3
    <2>3. CountsOK(f)
      BY <1>1, <1>2, <1>3, <1>4, <1>6, <2>2 DEF CountsOK, DLQ_PKT_WINDOW
    <2> QED BY <1>4, <2>1, <2>3
  <1>7. CASE v >= 5 /\ s = 0
    <2> DEFINE est == (v - 1) * 10
    <2>1. est \in Nat /\ est <= 2540 /\ est \in Estimates
      BY <1>1, <1>2, <1>7, Widths
    <2>2. u = updateEETX(f, est)
      BY <1>4, <1>5, <1>7 DEF Windowed, updateDEETX, DLQ_PKT_WINDOW
    <2>3. /\ u \in Entry /\ u = [f EXCEPT !.eetx = u.eetx]
          /\ world.wide => u.eetx = (9 * e.eetx + est) \div 10
          /\ ~ world.wide => u.eetx <= 6553
      BY <1>4, <2>1, <2>2, Average
    <2>4. /\ u.data_success = 0 /\ u.data_total = v /\ u.rcvcnt = e.rcvcnt
          /\ u.ll_addr = e.ll_addr /\ u.flags = e.flags
      BY <1>4, <1>7, <2>3 DEF Entry
    <2>5. u.eetx <= LargestEetx
      <3>1. CASE world.wide
        <4>1. LargestEetx = 8839
          BY <3>1 DEF LargestEetx
        <4> QED BY <1>1, <1>3, <2>1, <2>3, <3>1, <4>1
      <3>2. CASE ~ world.wide
        BY <2>3, <3>2 DEF LargestEetx
      <3> QED BY <3>1, <3>2
    <2>6. ASSUME world.wide
          PROVE  u.eetx <= 2540 + Excess(v)
      <3>1. v \in 5 .. 255 /\ t = v - 1
        BY <1>1, <1>2, <1>7
      <3>2. e.eetx <= 2540 + Excess(v - 1)
        <4>1. CASE v = 5
          <5>1. LargestEetx = 8839
            BY <2>6 DEF LargestEetx
          <5>2. Excess(v - 1) = 6299
            BY <4>1, ExcessDecays DEF DLQ_PKT_WINDOW
          <5> QED BY <1>1, <1>3, <5>1, <5>2
        <4>2. CASE v # 5
          BY <1>1, <1>3, <1>7, <2>6, <3>1, <4>2
        <4> QED BY <4>1, <4>2
      <3>3. (9 * e.eetx + (v - 1) * 10) \div 10 <= 2540 + Excess(v)
        <4>1. v \in DLQ_PKT_WINDOW .. 255
          BY <3>1 DEF DLQ_PKT_WINDOW
        <4> QED BY <1>1, <3>2, <4>1, ExcessDecays
      <3> QED BY <2>3, <2>6, <3>3
    <2>7. CountsOK(u)
      BY <1>2, <1>7, <2>4, <2>5, <2>6 DEF CountsOK
    <2> QED BY <2>3, <2>4, <2>7
  <1>8. CASE v >= 5 /\ s # 0
    <2> DEFINE g == [f EXCEPT !.data_success = 0, !.data_total = 0]
               d == (10 * v) \div s
    <2>1. s \in 1 .. 5 /\ v = 5
      BY <1>1, <1>2, <1>3, <1>8
    <2>2. d \in Nat /\ d >= 10 /\ d <= 50
      <3>1. s = 1 \/ s = 2 \/ s = 3 \/ s = 4 \/ s = 5
        BY <2>1
      <3> QED BY <2>1, <3>1
    <2>3. Word(d - 10) = d - 10 /\ d - 10 \in Estimates /\ d - 10 <= 2540
      BY <2>2, Widths
    <2> HIDE DEF d
    <2>4. /\ g \in Entry /\ g.data_success = 0 /\ g.data_total = 0 /\ g.eetx = e.eetx
          /\ g.rcvcnt = e.rcvcnt /\ g.ll_addr = e.ll_addr /\ g.flags = e.flags
      <3>1. 0 \in Bytes
        BY Widths
      <3> QED BY <1>4, <3>1 DEF Entry
    <2>5. u = updateEETX(g, d - 10)
      BY <1>4, <1>5, <1>8, <2>3 DEF Windowed, updateDEETX, DLQ_PKT_WINDOW, d
    <2> HIDE DEF g
    <2>6. /\ u \in Entry /\ u = [g EXCEPT !.eetx = u.eetx]
          /\ world.wide => u.eetx = (9 * e.eetx + (d - 10)) \div 10
          /\ ~ world.wide => u.eetx <= 6553
      BY <2>3, <2>4, <2>5, Average
    <2>7. /\ u.data_success = 0 /\ u.data_total = 0 /\ u.rcvcnt = e.rcvcnt
          /\ u.ll_addr = e.ll_addr /\ u.flags = e.flags
      BY <2>4, <2>6 DEF Entry
    <2>8. u.eetx <= LargestEetx
      <3>1. CASE world.wide
        <4>1. LargestEetx = 8839
          BY <3>1 DEF LargestEetx
        <4> QED BY <1>1, <1>3, <2>2, <2>6, <3>1, <4>1
      <3>2. CASE ~ world.wide
        BY <2>6, <3>2 DEF LargestEetx
      <3> QED BY <3>1, <3>2
    <2>9. CountsOK(u)
      BY <2>7, <2>8 DEF CountsOK, DLQ_PKT_WINDOW
    <2> QED BY <2>6, <2>7, <2>9
  <1> QED BY <1>2, <1>6, <1>7, <1>8

(* A data packet that was acknowledged, with what it does to the estimate of a link
   whose window had no loss. *)
LEMMA AckedEntry ==
  ASSUME world \in Worlds, world.data, NEW e \in Entry, CountsOK(e),
         NEW u, u = Acked(e)
  PROVE  /\ u \in Entry /\ CountsOK(u)
         /\ u.rcvcnt = e.rcvcnt /\ u.ll_addr = e.ll_addr /\ u.flags = e.flags
         /\ /\ ~ world.wide
            /\ \/ e.data_success = e.data_total
               \/ e.data_success > e.data_total /\ e.eetx > 0
            => u.eetx <= e.eetx
  <1> DEFINE s == e.data_success
             t == e.data_total
             v == Byte(t + 1)
             r == Byte(s + 1)
             f == [e EXCEPT !.data_success = r, !.data_total = v]
  <1>1. /\ s \in Nat /\ t \in Nat /\ t < 256 /\ e.eetx \in Nat
        /\ LargestEetx \in Nat /\ LargestEetx >= 255 /\ s <= 5
    BY CountsFields DEF DLQ_PKT_WINDOW
  <1>2. v \in Bytes /\ v \in Nat /\ v = IF t = 255 THEN 0 ELSE t + 1
    BY <1>1, Widths DEF Byte
  <1>3. r \in Bytes /\ r \in Nat /\ r = s + 1
    BY <1>1, Widths
  <1>4. /\ s > 0 => t < 5
        /\ s <= t + 1 /\ e.eetx <= LargestEetx
        /\ world.wide /\ s = 0 /\ t >= 5 => e.eetx <= 2540 + Excess(t)
        /\ world.wide /\ s = t + 1 => e.eetx <= 2540
    BY DEF CountsOK, DLQ_PKT_WINDOW
  <1> HIDE DEF v, r
  <1>5. /\ f \in Entry /\ f.data_success = r /\ f.data_total = v /\ f.eetx = e.eetx
        /\ f.rcvcnt = e.rcvcnt /\ f.ll_addr = e.ll_addr /\ f.flags = e.flags
    BY ZenonT(40), <1>2, <1>3 DEF Entry
  <1> HIDE DEF f
  <1>6. u = Windowed(f)
    BY DEF Acked, f, v, r
  <1>7. CASE v < 5
    <2>1. u = f
      BY <1>2, <1>5, <1>6, <1>7 DEF Windowed, DLQ_PKT_WINDOW
    <2>2. t < 4 \/ t = 255
      BY <1>1, <1>2, <1>7
    <2>3. r <= v + 1
      BY <1>1, <1>2, <1>3, <1>4, <2>2
    <2>4. ASSUME world.wide, r = v + 1
          PROVE  e.eetx <= 2540
      <3>1. CASE t = 255
        BY <1>1, <1>4, <2>4, <3>1, ExcessDecays
      <3>2. CASE t < 4
        BY <1>1, <1>2, <1>3, <1>4, <2>4, <3>2
      <3> QED BY <2>2, <3>1, <3>2
    <2>5. CountsOK(f)
      BY <1>1, <1>2, <1>3, <1>4, <1>5, <1>7, <2>3, <2>4 DEF CountsOK, DLQ_PKT_WINDOW
    <2> QED BY <1>1, <1>5, <2>1, <2>5
  <1>8. CASE v >= 5
    <2> DEFINE g == [f EXCEPT !.data_success = 0, !.data_total = 0]
               d == (10 * v) \div r
               est == Word(d - 10)
    <2>1. \/ s = 0 /\ r = 1
          \/ t = 4 /\ v = 5 /\ r \in 1 .. 6
      BY <1>1, <1>2, <1>3, <1>4, <1>8
    <2>2. d \in Nat /\ d <= 2550
      <3>1. r = 1 \/ r = 2 \/ r = 3 \/ r = 4 \/ r = 5 \/ r = 6
        BY <2>1
      <3>2. v < 256
        BY <1>2, Widths
      <3> QED BY <1>2, <2>1, <3>1, <3>2
    <2>3. ASSUME ~ (t = 4 /\ r = 6)
          PROVE  d >= 10
      <3>1. r = 1 \/ (v = 5 /\ (r = 2 \/ r = 3 \/ r = 4 \/ r = 5))
        BY <2>1, <2>3
      <3> QED BY <1>2, <1>8, <3>1
    <2>4. t = 4 /\ r = 6 => d = 8
      BY <2>1
    <2>5. t = 4 /\ r = 5 => d = 10
      BY <2>1
    <2> HIDE DEF d
    <2>6. /\ est \in Estimates /\ est \in Nat
          /\ ~ (t = 4 /\ r = 6) => est = d - 10 /\ est <= 2540
          /\ t = 4 /\ r = 6 => est = 65534
      BY <2>2, <2>3, <2>4, Widths DEF Word
    <2>7. /\ g \in Entry /\ g.data_success = 0 /\ g.data_total = 0 /\ g.eetx = e.eetx
          /\ g.rcvcnt = e.rcvcnt /\ g.ll_addr = e.ll_addr /\ g.flags = e.flags
      <3>1. 0 \in Bytes
        BY Widths
      <3> QED BY <1>5, <3>1 DEF Entry
    <2>8. u = updateEETX(g, est)
      <3>1. r # 0
        BY <1>1, <1>3
      <3> QED BY <1>5, <1>6, <1>8, <3>1 DEF Windowed, updateDEETX, DLQ_PKT_WINDOW, d
    <2> HIDE DEF g, est
    <2>9. /\ u \in Entry /\ u = [g EXCEPT !.eetx = u.eetx]
          /\ world.wide => u.eetx = (9 * e.eetx + est) \div 10
          /\ ~ world.wide => u.eetx <= 6553 /\ u.eetx = Word(9 * e.eetx + est) \div 10
      BY <2>6, <2>7, <2>8, Average
    <2>10. /\ u.data_success = 0 /\ u.data_total = 0 /\ u.rcvcnt = e.rcvcnt
           /\ u.ll_addr = e.ll_addr /\ u.flags = e.flags
      BY <2>7, <2>9 DEF Entry
    <2>11. u.eetx <= LargestEetx
      <3>1. CASE world.wide /\ ~ (t = 4 /\ r = 6)
        <4>1. LargestEetx = 8839
          BY <3>1 DEF LargestEetx
        <4> QED BY <1>1, <1>4, <2>6, <2>9, <3>1, <4>1
      <3>2. CASE world.wide /\ t = 4 /\ r = 6
        <4>1. LargestEetx = 8839
          BY <3>2 DEF LargestEetx
        <4>2. e.eetx <= 2540
          BY <1>1, <1>3, <1>4, <3>2
        <4> QED BY <1>1, <2>6, <2>9, <3>2, <4>1, <4>2
      <3>3. CASE ~ world.wide
        BY <2>9, <3>3 DEF LargestEetx
      <3> QED BY <3>1, <3>2, <3>3
    <2>12. CountsOK(u)
      BY <2>10, <2>11 DEF CountsOK, DLQ_PKT_WINDOW
    <2>13. ASSUME ~ world.wide, s = t
           PROVE  u.eetx <= e.eetx
      <3>1. t = 4 /\ r = 5
        BY <1>1, <1>2, <1>3, <1>8, <2>1, <2>13
      <3>2. est = 0
        BY <2>5, <2>6, <3>1
      <3>3. e.eetx <= 6553
        BY <1>4, <2>13 DEF LargestEetx, VERY_LARGE_EETX_VALUE
      <3>4. u.eetx = (9 * e.eetx) \div 10
        BY <1>1, <2>9, <2>13, <3>2, <3>3, Widths
      <3> QED BY <1>1, <3>4
    <2>14. ASSUME ~ world.wide, s > t, e.eetx > 0
           PROVE  u.eetx <= e.eetx
      <3>1. t = 4 /\ r = 6
        BY <1>1, <1>2, <1>3, <1>4, <1>8, <2>1, <2>14
      <3>2. e.eetx <= 6553
        BY <1>4, <2>14 DEF LargestEetx, VERY_LARGE_EETX_VALUE
      <3>3. Word(9 * e.eetx + 65534) = 9 * e.eetx - 2
        BY <1>1, <2>14, <3>2 DEF Word
      <3>4. u.eetx = (9 * e.eetx - 2) \div 10
        BY <2>6, <2>9, <2>14, <3>1, <3>3
      <3> QED BY <1>1, <2>14, <3>4
    <2> QED BY <2>9, <2>10, <2>12, <2>13, <2>14
  <1> QED BY <1>2, <1>7, <1>8

(* An entry whose counts are cleared. *)
LEMMA ClearedEntry ==
  ASSUME world \in Worlds, NEW e \in Entry, CountsOK(e), NEW u, u = Cleared(e)
  PROVE  /\ u \in Entry /\ CountsOK(u)
         /\ u.rcvcnt = e.rcvcnt /\ u.ll_addr = e.ll_addr /\ u.flags = e.flags
         /\ u.eetx = e.eetx
  <1>1. 0 \in Bytes
    BY Widths
  <1>2. /\ u \in Entry /\ u.data_success = 0 /\ u.data_total = 0 /\ u.eetx = e.eetx
        /\ u.rcvcnt = e.rcvcnt /\ u.ll_addr = e.ll_addr /\ u.flags = e.flags
    BY <1>1 DEF Entry, Cleared
  <1> QED BY <1>2 DEF CountsOK, DLQ_PKT_WINDOW

(* An entry that is pinned, or no longer. *)
LEMMA PinnedEntry ==
  ASSUME world \in Worlds, NEW e \in Entry, CountsOK(e),
         NEW u, u = Pinned(e) \/ u = Unpinned(e)
  PROVE  /\ u \in Entry /\ CountsOK(u)
         /\ u.rcvcnt = e.rcvcnt /\ u.ll_addr = e.ll_addr /\ u.eetx = e.eetx
         /\ u = Pinned(e) => u.flags = e.flags \union {"pinned"}
         /\ u = Unpinned(e) => u.flags = e.flags \ {"pinned"}
  <1>1. /\ e.flags \union {"pinned"} \in SUBSET Flags
        /\ e.flags \ {"pinned"} \in SUBSET Flags
    BY EntryFields DEF Flags
  <1>2. /\ u \in Entry /\ SameCounts(e, u) /\ u.eetx = e.eetx
        /\ u.rcvcnt = e.rcvcnt /\ u.ll_addr = e.ll_addr
        /\ u = Pinned(e) => u.flags = e.flags \union {"pinned"}
        /\ u = Unpinned(e) => u.flags = e.flags \ {"pinned"}
    BY <1>1 DEF Entry, Pinned, Unpinned, SameCounts
  <1> QED BY <1>2 DEF CountsOK, SameCounts

-----------------------------------------------------------------------------
(* The slots. *)

\* What a beacon does to the entry of its sender.
Heard(e, gap) ==
  LET c == Counted([e EXCEPT !.flags = @ \ {"init"}],
                   IF "init" \in e.flags THEN 0 ELSE gap)
  IN IF c.rcvcnt >= BLQ_PKT_WINDOW THEN Estimated(c) ELSE c

(* The sender keeps its entry, which may become mature and get a new estimate; the
   first beacon of an entry does not estimate yet. *)
LEMMA HeardEntry ==
  ASSUME world \in Worlds, NEW e, GoodEntry(e), NEW gap \in Bytes, NEW h, h = Heard(e, gap)
  PROVE  /\ GoodEntry(h) /\ h.ll_addr = e.ll_addr
         /\ \/ h.flags = e.flags \ {"init"} /\ h.eetx = e.eetx
            \/ h.flags = (e.flags \ {"init"}) \union {"mature"}
         /\ "init" \in e.flags /\ e.rcvcnt = 0
            => h.flags = e.flags \ {"init"} /\ h.eetx = e.eetx
  <1> DEFINE b == [e EXCEPT !.flags = @ \ {"init"}]
             g == IF "init" \in e.flags THEN 0 ELSE gap
             c == Counted(b, g)
  <1>1. e \in Entry /\ e.rcvcnt < BLQ_PKT_WINDOW /\ CountsOK(e)
        /\ ("valid" \in e.flags => e.ll_addr \in Neighbors)
    BY DEF GoodEntry
  <1>2. /\ b \in Entry /\ b.rcvcnt = e.rcvcnt /\ b.ll_addr = e.ll_addr
        /\ b.flags = e.flags \ {"init"} /\ b.eetx = e.eetx /\ SameCounts(e, b)
    <2>1. e.flags \ {"init"} \in SUBSET Flags
      BY <1>1, EntryFields
    <2> QED BY <1>1, <2>1 DEF Entry, SameCounts
  <1>3. g \in Bytes
    BY Widths
  <1>4. e.rcvcnt \in Nat
    BY <1>1, EntryFields, Widths
  <1>5. "init" \in e.flags /\ e.rcvcnt = 0 => c.rcvcnt = 1
    <2> SUFFICES ASSUME "init" \in e.flags, e.rcvcnt = 0 PROVE c.rcvcnt = 1
      OBVIOUS
    <2>1. ~ (g > MAX_PKT_GAP)
      BY DEF MAX_PKT_GAP
    <2>2. c.rcvcnt = Byte(b.rcvcnt + 1)
      BY <1>2, <2>1 DEF Counted, Entry
    <2>3. b.rcvcnt + 1 = 1 /\ Byte(1) = 1
      BY <1>2, Widths
    <2> QED BY <2>2, <2>3
  <1>6. h = IF c.rcvcnt >= BLQ_PKT_WINDOW THEN Estimated(c) ELSE c
    BY DEF Heard
  <1> HIDE DEF b, g
  <1>7. /\ c \in Entry /\ c.inage = MAX_AGE /\ c.rcvcnt <= BLQ_PKT_WINDOW
        /\ c.ll_addr = e.ll_addr /\ c.flags = e.flags \ {"init"} /\ c.eetx = e.eetx
        /\ SameCounts(e, c)
    BY <1>1, <1>2, <1>3, CountedEntry DEF SameCounts
  <1> HIDE DEF c
  <1>8. CountsOK(c)
    BY <1>1, <1>7 DEF CountsOK, SameCounts
  <1>9. c.rcvcnt \in Nat /\ BLQ_PKT_WINDOW = 3
    BY <1>7, EntryFields, Widths DEF BLQ_PKT_WINDOW
  <1>10. CASE c.rcvcnt >= BLQ_PKT_WINDOW
    <2>1. h = Estimated(c)
      BY <1>6, <1>10
    <2>2. /\ h \in Entry /\ CountsOK(h) /\ h.rcvcnt = 0 /\ h.ll_addr = e.ll_addr
          /\ h.flags = (e.flags \ {"init"}) \union {"mature"}
      BY <1>7, <1>8, <2>1, EstimatedEntry
    <2>3. ~ ("init" \in e.flags /\ e.rcvcnt = 0)
      BY <1>5, <1>9, <1>10
    <2> QED BY <1>1, <1>9, <2>2, <2>3 DEF GoodEntry
  <1>11. CASE ~ (c.rcvcnt >= BLQ_PKT_WINDOW)
    <2>1. h = c
      BY <1>6, <1>11
    <2>2. c.rcvcnt < BLQ_PKT_WINDOW
      BY <1>9, <1>11
    <2> QED BY <1>1, <1>7, <1>8, <2>1, <2>2 DEF GoodEntry
  <1> QED BY <1>10, <1>11

(* The loop over the slots updates the one entry the neighbour has. *)
LEMMA UpdatedSlot ==
  ASSUME world \in Worlds, NEW table, GoodTable(table), NEW i \in Idx,
         "valid" \in table[i].flags, NEW gap \in Bytes
  PROVE  updateNeighborEntryIdx(table, i, gap) = [table EXCEPT ![i] = Heard(table[i], gap)]
  <1> DEFINE b == [table[i] EXCEPT !.flags = @ \ {"init"}]
             g == IF "init" \in table[i].flags THEN 0 ELSE gap
             c == Counted(b, g)
             counted == [table EXCEPT ![i] = c]
  <1>1. GoodEntry(table[i]) /\ table \in [Idx -> Entry]
    BY DEF GoodTable
  <1>2. /\ b \in Entry /\ b.rcvcnt = table[i].rcvcnt /\ b.ll_addr = table[i].ll_addr
        /\ "valid" \in b.flags
    <2>1. table[i].flags \ {"init"} \in SUBSET Flags
      BY <1>1, EntryFields
    <2> QED BY <1>1, <2>1 DEF Entry
  <1>3. g \in Bytes
    BY Widths
  <1>4. updateNeighborEntryIdx(table, i, gap) =
          IF c.rcvcnt >= BLQ_PKT_WINDOW THEN updateNeighborTableEst(counted, c.ll_addr)
          ELSE counted
    BY DEF updateNeighborEntryIdx
  <1>5. Heard(table[i], gap) = IF c.rcvcnt >= BLQ_PKT_WINDOW THEN Estimated(c) ELSE c
    BY DEF Heard
  <1> HIDE DEF b, g
  <1>6. c \in Entry /\ c.ll_addr = table[i].ll_addr /\ "valid" \in c.flags
    BY <1>1, <1>2, <1>3, CountedEntry DEF GoodEntry
  <1> HIDE DEF c
  <1>7. CASE c.rcvcnt >= BLQ_PKT_WINDOW
    <2>1. ASSUME NEW j \in Idx
          PROVE  (counted[j].ll_addr = c.ll_addr /\ "valid" \in counted[j].flags) <=> j = i
      BY <1>1, <1>6 DEF GoodTable, Single
    <2>2. updateNeighborTableEst(counted, c.ll_addr) =
            [j \in Idx |-> IF j = i THEN Estimated(counted[j]) ELSE counted[j]]
      BY <2>1 DEF updateNeighborTableEst
    <2> QED BY <1>1, <1>4, <1>5, <1>7, <2>2
  <1>8. CASE ~ (c.rcvcnt >= BLQ_PKT_WINDOW)
    BY <1>4, <1>5, <1>8
  <1> QED BY <1>7, <1>8

(* Looking for a neighbour finds its one entry. *)
LEMMA Found ==
  ASSUME GoodTable(NeighborTable), NEW n
  PROVE  /\ findIdx(n) = {i \in Idx : Is(i, "valid") /\ NeighborTable[i].ll_addr = n}
         /\ \A i \in findIdx(n), j \in findIdx(n) : i = j
         /\ findEmptyNeighborIdx \subseteq {i \in Idx : ~ Is(i, "valid")}
         /\ findEmptyNeighborIdx = {} => \A i \in Idx : Is(i, "valid")
  <1> DEFINE S == {i \in Idx : Is(i, "valid") /\ NeighborTable[i].ll_addr = n}
             E == {i \in Idx : ~ Is(i, "valid")}
  <1>1. \A i \in S, j \in S : i = j
    BY DEF GoodTable, Single, Is
  <1>2. First(S) \subseteq S /\ (S # {} => First(S) # {})
    <2>1. S \in SUBSET Idx
      OBVIOUS
    <2> QED BY <2>1, FirstOf
  <1>3. First(E) \subseteq E /\ (E # {} => First(E) # {})
    <2>1. E \in SUBSET Idx
      OBVIOUS
    <2> QED BY <2>1, FirstOf
  <1>4. findIdx(n) = First(S) /\ findEmptyNeighborIdx = First(E)
    BY DEF findIdx, findEmptyNeighborIdx
  <1>5. First(S) = S
    BY <1>1, <1>2
  <1> QED BY <1>1, <1>3, <1>4, <1>5

\* The entry e of n is in slot i now, in its own slot or in one that was another's.
Placed(n, i, e) ==
  /\ i \in Idx /\ GoodEntry(e) /\ e.ll_addr = n /\ "valid" \in e.flags
  /\ findIdx(n) = {} \/ i \in findIdx(n)
  /\ NeighborTable' = [NeighborTable EXCEPT ![i] = e]

(* A table with such an entry is good. *)
LEMMA PlacedTable ==
  ASSUME GoodTable(NeighborTable), world' = world, NEW n, NEW i, NEW e, Placed(n, i, e)
  PROVE  GoodTable(NeighborTable)'
  <1>1. NeighborTable \in [Idx -> Entry] /\ i \in Idx /\ GoodEntry(e) /\ e \in Entry
    BY DEF GoodTable, Placed, GoodEntry
  <1>2. NeighborTable' = [NeighborTable EXCEPT ![i] = e]
    BY DEF Placed
  <1>3. NeighborTable' \in [Idx -> Entry]
    BY <1>1, <1>2
  <1>4. ASSUME NEW j \in Idx
        PROVE  GoodEntry(NeighborTable[j])'
    <2>1. GoodEntry(NeighborTable'[j])
      BY <1>1, <1>2 DEF GoodTable
    <2> QED BY <2>1 DEF GoodEntry, CountsOK, LargestEetx
  <1>5. Single(NeighborTable')
    <2> SUFFICES ASSUME NEW j \in Idx, NEW k \in Idx,
                        "valid" \in NeighborTable'[j].flags, "valid" \in NeighborTable'[k].flags,
                        NeighborTable'[j].ll_addr = NeighborTable'[k].ll_addr
                 PROVE  j = k
      BY DEF Single
    <2>1. \A m \in Idx : Is(m, "valid") /\ NeighborTable[m].ll_addr = n => m = i
      BY Found DEF Placed
    <2>2. CASE j # i /\ k # i
      BY <1>1, <1>2, <2>2 DEF GoodTable, Single
    <2>3. CASE j = i
      BY <1>1, <1>2, <2>1, <2>3 DEF Placed, Is
    <2>4. CASE k = i
      BY <1>1, <1>2, <2>1, <2>4 DEF Placed, Is
    <2> QED BY <2>2, <2>3, <2>4
  <1> QED BY <1>3, <1>4, <1>5 DEF GoodTable, Single

-----------------------------------------------------------------------------
(* The table as its users see it. *)

\* The neighbours with a slot, and what an entry says of its link.
HeldIn(table) == {table[i].ll_addr : i \in {j \in Idx : "valid" \in table[j].flags}}
LinkOf(e) == [mature |-> "mature" \in e.flags, pinned |-> "pinned" \in e.flags, eetx |-> e.eetx]

(* A link is what the one entry of the neighbour says. *)
LEMMA LinksAre ==
  ASSUME NEW table, Single(table)
  PROVE  /\ LinksOf(table) = [n \in HeldIn(table) |-> LinksOf(table)[n]]
         /\ DOMAIN LinksOf(table) = HeldIn(table)
         /\ \A i \in Idx : "valid" \in table[i].flags
                           => LinksOf(table)[table[i].ll_addr] = LinkOf(table[i])
  <1>1. /\ LinksOf(table) = [n \in HeldIn(table) |-> LinksOf(table)[n]]
        /\ DOMAIN LinksOf(table) = HeldIn(table)
    BY DEF LinksOf, HeldIn
  <1>2. ASSUME NEW i \in Idx, "valid" \in table[i].flags
        PROVE  LinksOf(table)[table[i].ll_addr] = LinkOf(table[i])
    <2> DEFINE n == table[i].ll_addr
               S == {j \in Idx : table[j].ll_addr = n /\ "valid" \in table[j].flags}
    <2>1. S = {i}
      BY <1>2 DEF Single
    <2>2. Min(S) = i
      <3>1. {i} \subseteq Nat /\ {i} # {}
        BY Sizes
      <3>2. Min({i}) \in {i}
        BY <3>1, MinOf
      <3> QED BY SMTT(30), <2>1, <3>2
    <2>3. n \in HeldIn(table)
      BY <1>2 DEF HeldIn
    <2>4. LinksOf(table)[n] = LinkOf(table[Min(S)])
      BY <2>3 DEF LinksOf, LinkOf, HeldIn
    <2> QED BY <2>2, <2>4
  <1> QED BY <1>1, <1>2

(* The links are typed as LinkTable has them. *)
LEMMA LinksType ==
  ASSUME GoodTable(NeighborTable), NEW n \in HeldIn(NeighborTable)
  PROVE  /\ n \in Neighbors
         /\ LinksOf(NeighborTable)[n] \in Table!Link
         /\ LinksOf(NeighborTable)[n].mature \in BOOLEAN
         /\ LinksOf(NeighborTable)[n].pinned \in BOOLEAN
         /\ LinksOf(NeighborTable)[n].eetx \in Estimates
  <1>1. PICK i \in Idx : Is(i, "valid") /\ NeighborTable[i].ll_addr = n
    BY DEF HeldIn, Is
  <1>2. GoodEntry(NeighborTable[i]) /\ NeighborTable[i] \in Entry /\ n \in Neighbors
    BY <1>1 DEF GoodTable, GoodEntry, Is
  <1>3. LinksOf(NeighborTable)[n] = LinkOf(NeighborTable[i])
    BY <1>1, LinksAre DEF GoodTable, Is
  <1>4. NeighborTable[i].eetx \in Estimates
    BY <1>2, EntryFields
  <1>5. /\ LinkOf(NeighborTable[i]).mature \in BOOLEAN
        /\ LinkOf(NeighborTable[i]).pinned \in BOOLEAN
        /\ LinkOf(NeighborTable[i]).eetx \in Estimates
        /\ LinkOf(NeighborTable[i]) \in Table!Link
    BY <1>4 DEF LinkOf, Table!Link
  <1> QED BY <1>2, <1>3, <1>5

(* A neighbour is held where it is found. *)
LEMMA HeldFound ==
  ASSUME GoodTable(NeighborTable), NEW n
  PROVE  findIdx(n) # {} <=> n \in HeldIn(NeighborTable)
  BY Found DEF HeldIn, Is

(* A new entry in the neighbour's own slot changes its link only. *)
LEMMA OwnSlot ==
  ASSUME GoodTable(NeighborTable), world' = world,
         NEW n, NEW i, NEW e, Placed(n, i, e), i \in findIdx(n)
  PROVE  LinksOf(NeighborTable)' = [LinksOf(NeighborTable) EXCEPT ![n] = LinkOf(e)]
  <1> DEFINE t == NeighborTable
             u == NeighborTable'
  <1>1. t \in [Idx -> Entry] /\ Single(t) /\ i \in Idx /\ u = [t EXCEPT ![i] = e]
    BY DEF GoodTable, Placed
  <1>2. Single(u)
    BY PlacedTable DEF GoodTable, Single
  <1>3. "valid" \in t[i].flags /\ t[i].ll_addr = n /\ e.ll_addr = n /\ "valid" \in e.flags
    BY Found DEF Placed, Is
  <1>4. \A j \in Idx : ("valid" \in t[j].flags <=> "valid" \in u[j].flags)
                       /\ t[j].ll_addr = u[j].ll_addr
    BY <1>1, <1>3
  <1>5. HeldIn(u) = HeldIn(t) /\ n \in HeldIn(t)
    BY <1>1, <1>3, <1>4 DEF HeldIn
  <1>6. ASSUME NEW m \in HeldIn(t)
        PROVE  LinksOf(u)[m] = [LinksOf(t) EXCEPT ![n] = LinkOf(e)][m]
    <2>1. PICK j \in Idx : "valid" \in t[j].flags /\ t[j].ll_addr = m
      BY DEF HeldIn
    <2>2. LinksOf(t)[m] = LinkOf(t[j])
      BY <1>1, <2>1, LinksAre
    <2>3. LinksOf(u)[m] = LinkOf(u[j])
      BY <1>2, <1>4, <2>1, LinksAre
    <2>4. CASE j = i
      <3>1. m = n /\ u[j] = e
        BY <1>1, <1>3, <2>1, <2>4
      <3>2. n \in DOMAIN LinksOf(t)
        BY <1>1, <1>5, LinksAre
      <3> QED BY <2>3, <3>1, <3>2
    <2>5. CASE j # i
      <3>1. m # n /\ u[j] = t[j]
        BY <1>1, <1>3, <2>1, <2>5 DEF Single
      <3>2. m \in DOMAIN LinksOf(t)
        BY <1>1, LinksAre
      <3> QED BY <2>2, <2>3, <3>1, <3>2
    <2> QED BY <2>4, <2>5
  <1>7. LinksOf(u) = [m \in HeldIn(t) |-> LinksOf(u)[m]]
    BY <1>2, <1>5, LinksAre
  <1>8. [LinksOf(t) EXCEPT ![n] = LinkOf(e)]
          = [m \in HeldIn(t) |-> [LinksOf(t) EXCEPT ![n] = LinkOf(e)][m]]
    BY <1>1, LinksAre
  <1>9. LinksOf(u) = [LinksOf(t) EXCEPT ![n] = LinkOf(e)]
    BY <1>6, <1>7, <1>8
  <1> QED BY <1>9 DEF LinksOf

(* A fresh entry in a slot that was free, or another's: n enters the table and the
   other one is out. *)
LEMMA OthersSlot ==
  ASSUME GoodTable(NeighborTable), world' = world,
         NEW n, NEW i, NEW e, Placed(n, i, e), findIdx(n) = {}, LinkOf(e) = Table!Fresh,
         NEW out, out = IF Is(i, "valid") THEN {NeighborTable[i].ll_addr} ELSE {}
  PROVE  LinksOf(NeighborTable)' = Table!Enter(LinksOf(NeighborTable), n, out)
  <1> DEFINE t == NeighborTable
             u == NeighborTable'
             D == (HeldIn(t) \ out) \union {n}
  <1>1. t \in [Idx -> Entry] /\ Single(t) /\ i \in Idx /\ u = [t EXCEPT ![i] = e]
    BY DEF GoodTable, Placed
  <1>2. Single(u)
    BY PlacedTable DEF GoodTable, Single
  <1>3. e.ll_addr = n /\ "valid" \in e.flags /\ n \notin HeldIn(t)
    BY HeldFound DEF Placed
  <1>4. \A j \in Idx : j # i => u[j] = t[j]
    BY <1>1
  <1>5. u[i] = e
    BY <1>1
  <1>6. HeldIn(u) = D
    <2>1. ASSUME NEW m \in HeldIn(u)
          PROVE  m \in D
      <3>1. PICK j \in Idx : "valid" \in u[j].flags /\ u[j].ll_addr = m
        BY DEF HeldIn
      <3>2. CASE j = i
        BY <1>3, <1>5, <3>1, <3>2
      <3>3. CASE j # i
        <4>1. "valid" \in t[j].flags /\ t[j].ll_addr = m
          BY <1>4, <3>1, <3>3
        <4>2. m \in HeldIn(t)
          BY <4>1 DEF HeldIn
        <4>3. m \notin out
          BY <1>1, <3>3, <4>1 DEF Single, Is
        <4> QED BY <4>2, <4>3
      <3> QED BY <3>2, <3>3
    <2>2. n \in HeldIn(u)
      BY <1>1, <1>3, <1>5 DEF HeldIn
    <2>3. ASSUME NEW m \in HeldIn(t), m \notin out
          PROVE  m \in HeldIn(u)
      <3>1. PICK j \in Idx : "valid" \in t[j].flags /\ t[j].ll_addr = m
        BY DEF HeldIn
      <3>2. j # i
        BY <2>3, <3>1 DEF Is
      <3> QED BY <1>4, <3>1, <3>2 DEF HeldIn
    <2> QED BY <2>1, <2>2, <2>3
  <1>7. ASSUME NEW m \in D
        PROVE  LinksOf(u)[m] = IF m = n THEN Table!Fresh ELSE LinksOf(t)[m]
    <2>1. CASE m = n
      <3>1. LinksOf(u)[n] = LinkOf(e)
        BY <1>1, <1>2, <1>3, <1>5, LinksAre
      <3> QED BY <2>1, <3>1
    <2>2. CASE m # n
      <3>1. m \in HeldIn(t) /\ m \notin out
        BY <2>2
      <3>2. PICK j \in Idx : "valid" \in t[j].flags /\ t[j].ll_addr = m
        BY <3>1 DEF HeldIn
      <3>3. j # i
        BY <3>1, <3>2 DEF Is
      <3>4. u[j] = t[j]
        BY <1>4, <3>3
      <3>5. LinksOf(t)[m] = LinkOf(t[j]) /\ LinksOf(u)[m] = LinkOf(u[j])
        BY <1>1, <1>2, <3>2, <3>4, LinksAre
      <3> QED BY <2>2, <3>4, <3>5
    <2> QED BY <2>1, <2>2
  <1>8. LinksOf(u) = [m \in D |-> LinksOf(u)[m]]
    BY <1>2, <1>6, LinksAre
  <1>9. Table!Enter(LinksOf(t), n, out)
          = [m \in D |-> IF m = n THEN Table!Fresh ELSE LinksOf(t)[m]]
    <2>1. DOMAIN LinksOf(t) = HeldIn(t)
      BY <1>1, LinksAre
    <2> QED BY <2>1 DEF Table!Enter
  <1>10. LinksOf(u) = Table!Enter(LinksOf(t), n, out)
    BY <1>7, <1>8, <1>9
  <1> QED BY <1>10 DEF LinksOf

(* There is room in the table while a slot is free, and no link without a slot. *)
LEMMA RoomIsASlot ==
  ASSUME GoodTable(NeighborTable)
  PROVE  /\ Table!Room(LinksOf(NeighborTable)) <=> findEmptyNeighborIdx # {}
         /\ Table!Cardinality(DOMAIN LinksOf(NeighborTable)) <= NEIGHBOR_TABLE_SIZE
  <1> DEFINE V == {i \in Idx : Is(i, "valid")}
             H == HeldIn(NeighborTable)
             f == [i \in V |-> NeighborTable[i].ll_addr]
  <1>1. IsFiniteSet(Idx) /\ Cardinality(Idx) = NEIGHBOR_TABLE_SIZE
    BY Sizes, FS_Interval DEF Idx
  <1>2. /\ IsFiniteSet(V) /\ Cardinality(V) <= NEIGHBOR_TABLE_SIZE
        /\ Cardinality(V) = NEIGHBOR_TABLE_SIZE => V = Idx
    <2>1. V \in SUBSET Idx
      OBVIOUS
    <2> QED BY <1>1, <2>1, FS_Subset
  <1>3. f \in [V -> H] /\ \A m \in H : \E i \in V : f[i] = m
    BY DEF HeldIn, Is
  <1>4. \A i \in V, j \in V : f[i] = f[j] => i = j
    BY DEF GoodTable, Single, Is
  <1> HIDE DEF f
  <1>5. f \in Surjection(V, H) /\ f \in Injection(V, H)
    BY <1>3, <1>4 DEF Surjection, Injection, IsInjective
  <1>6. Cardinality(H) = Cardinality(V)
    BY <1>2, <1>5, FS_Surjection
  <1>7. Cardinality(V) \in Nat
    BY <1>2, FS_CardinalityType
  <1>8. V = Idx <=> findEmptyNeighborIdx = {}
    BY Found
  <1>9. DOMAIN LinksOf(NeighborTable) = H
    BY LinksAre DEF GoodTable
  <1>10. Table!Cardinality(H) = Cardinality(H)
    BY DEF Table!Cardinality, Cardinality
  <1> HIDE DEF V, H
  <1>11. V = Idx <=> Cardinality(V) = NEIGHBOR_TABLE_SIZE
    BY <1>1, <1>2
  <1>12. Cardinality(V) < NEIGHBOR_TABLE_SIZE <=> Cardinality(V) # NEIGHBOR_TABLE_SIZE
    BY <1>2, <1>7, Sizes
  <1> QED BY <1>2, <1>6, <1>8, <1>9, <1>10, <1>11, <1>12 DEF Table!Room

(* The slots a neighbour may be put in are those of the neighbours LinkTable lets go. *)
LEMMA Victims ==
  ASSUME GoodTable(NeighborTable), NEW threshold \in Nat
  PROVE  LET l == LinksOf(NeighborTable) IN
         /\ findWorstNeighborIdx(threshold) = {} <=> Table!Worst(l, threshold) = {}
         /\ findRandomNeighborIdx = {} <=> Table!Unripe(l) = {}
         /\ \A i \in findWorstNeighborIdx(threshold) :
              i \in Idx /\ Is(i, "valid")
              /\ NeighborTable[i].ll_addr \in Table!Worst(l, threshold)
         /\ \A i \in findRandomNeighborIdx :
              i \in Idx /\ Is(i, "valid") /\ NeighborTable[i].ll_addr \in Table!Unripe(l)
  <1> DEFINE l == LinksOf(NeighborTable)
             t == NeighborTable
             ripe == {i \in Idx : Is(i, "valid") /\ Is(i, "mature") /\ ~ Is(i, "pinned")}
             top == {i \in ripe : \A j \in ripe : t[j].eetx <= t[i].eetx}
             W == findWorstNeighborIdx(threshold)
  <1>1. Single(t) /\ DOMAIN l = HeldIn(t)
    BY LinksAre DEF GoodTable
  <1>2. ASSUME NEW i \in Idx, Is(i, "valid")
        PROVE  /\ t[i].ll_addr \in DOMAIN l
               /\ l[t[i].ll_addr].mature = Is(i, "mature")
               /\ l[t[i].ll_addr].pinned = Is(i, "pinned")
               /\ l[t[i].ll_addr].eetx = t[i].eetx
    <2>1. t[i].ll_addr \in HeldIn(t)
      BY <1>2 DEF HeldIn, Is
    <2>2. l[t[i].ll_addr] = LinkOf(t[i])
      BY <1>1, <1>2, LinksAre DEF Is
    <2> QED BY <1>1, <2>1, <2>2 DEF LinkOf, Is
  <1>3. \A n \in DOMAIN l : \E i \in Idx : Is(i, "valid") /\ t[i].ll_addr = n
    BY <1>1 DEF HeldIn, Is
  <1>4. \A i \in Idx : t[i].eetx \in Nat
    <2> SUFFICES ASSUME NEW i \in Idx PROVE t[i].eetx \in Nat
      OBVIOUS
    <2>1. t[i] \in Entry
      BY DEF GoodTable
    <2> QED BY <2>1, EntryFields, Widths
  <1>5. W = {i \in top : t[i].eetx >= threshold /\ \A j \in top : j <= i}
    BY DEF findWorstNeighborIdx
  <1>6. /\ \A i \in ripe : t[i].ll_addr \in Table!Ripe(l)
        /\ \A n \in Table!Ripe(l) : \E i \in ripe : t[i].ll_addr = n
    BY <1>2, <1>3 DEF Table!Ripe
  <1>7. ASSUME NEW i \in W
        PROVE  t[i].ll_addr \in Table!Worst(l, threshold)
    <2>1. i \in ripe /\ t[i].eetx >= threshold /\ \A j \in ripe : t[j].eetx <= t[i].eetx
      BY <1>5
    <2>2. \A m \in Table!Ripe(l) : l[m].eetx <= l[t[i].ll_addr].eetx
      BY <1>2, <1>6, <2>1
    <2> QED BY <1>2, <1>6, <2>1, <2>2 DEF Table!Worst
  <1>8. ASSUME NEW n \in Table!Worst(l, threshold)
        PROVE  W # {}
    <2>1. n \in Table!Ripe(l) /\ l[n].eetx >= threshold
          /\ \A m \in Table!Ripe(l) : l[m].eetx <= l[n].eetx
      BY DEF Table!Worst
    <2>2. PICK i \in ripe : t[i].ll_addr = n
      BY <1>6, <2>1
    <2>3. t[i].eetx >= threshold /\ \A j \in ripe : t[j].eetx <= t[i].eetx
      BY <1>2, <1>6, <2>1, <2>2
    <2>4. i \in top
      BY <2>3
    <2>5. top \subseteq 0 .. NEIGHBOR_TABLE_SIZE - 1 /\ NEIGHBOR_TABLE_SIZE - 1 \in Nat
      BY Sizes DEF Idx
    <2>6. Max(top) \in top /\ \A y \in top : y <= Max(top)
      BY <2>4, <2>5, MaxOf
    <2>7. t[Max(top)].eetx >= threshold
      BY <1>4, <2>3, <2>4, <2>6
    <2> QED BY <1>5, <2>6, <2>7
  <1>9. ASSUME NEW i \in findRandomNeighborIdx
        PROVE  i \in Idx /\ Is(i, "valid") /\ t[i].ll_addr \in Table!Unripe(l)
    <2>1. i \in Idx /\ Is(i, "valid") /\ ~ Is(i, "pinned") /\ ~ Is(i, "mature")
      BY DEF findRandomNeighborIdx
    <2> QED BY <1>2, <2>1 DEF Table!Unripe
  <1>10. ASSUME NEW n \in Table!Unripe(l)
         PROVE  findRandomNeighborIdx # {}
    <2>1. n \in DOMAIN l /\ ~ l[n].mature /\ ~ l[n].pinned
      BY DEF Table!Unripe
    <2>2. PICK i \in Idx : Is(i, "valid") /\ t[i].ll_addr = n
      BY <1>3, <2>1
    <2> QED BY <1>2, <2>1, <2>2 DEF findRandomNeighborIdx
  <1>11. \A i \in W : i \in Idx /\ Is(i, "valid")
    BY <1>5
  <1> HIDE DEF W, l
  <1>12. /\ W = {} <=> Table!Worst(l, threshold) = {}
         /\ findRandomNeighborIdx = {} <=> Table!Unripe(l) = {}
    BY <1>7, <1>8, <1>9, <1>10
  <1> QED BY <1>7, <1>9, <1>11, <1>12 DEF W, l

-----------------------------------------------------------------------------
(* The steps. *)

\* The table stays, or one entry is placed; nothing else depends on which.
Moved(n) == NeighborTable' = NeighborTable \/ \E i, e : Placed(n, i, e)

(* Links that stay are a step of LinkTable, and so is the change of a link to the
   same link. *)
LEMMA LinksStay ==
  /\ NeighborTable' = NeighborTable => LinksOf(NeighborTable)' = LinksOf(NeighborTable)
  /\ GoodTable(NeighborTable) =>
       \A n : [LinksOf(NeighborTable) EXCEPT ![n] = LinksOf(NeighborTable)[n]]
              = LinksOf(NeighborTable)
  <1>1. NeighborTable' = NeighborTable => LinksOf(NeighborTable)' = LinksOf(NeighborTable)
    BY DEF LinksOf
  <1>2. ASSUME NEW l, NEW D, l = [m \in D |-> l[m]], NEW n
        PROVE  [l EXCEPT ![n] = l[n]] = l
    <2>1. DOMAIN l = D
      BY <1>2
    <2>2. [l EXCEPT ![n] = l[n]] = [m \in D |-> IF m = n THEN l[n] ELSE l[m]]
      BY <1>2, <2>1
    <2> QED BY <1>2, <2>2
  <1>3. GoodTable(NeighborTable) =>
          LinksOf(NeighborTable) = [n \in HeldIn(NeighborTable) |-> LinksOf(NeighborTable)[n]]
    BY LinksAre DEF GoodTable
  <1> QED BY <1>1, <1>2, <1>3

(* A new estimate of the link of n, or none. *)
LEMMA OwnEstimate ==
  ASSUME world \in Worlds, world' = world, GoodTable(NeighborTable),
         NEW n, NEW i \in findIdx(n), NEW e, Placed(n, i, e),
         "pinned" \in e.flags <=> Is(i, "pinned")
  PROVE  /\ "mature" \in e.flags => Table!Estimated(n, TRUE)
         /\ ("mature" \in e.flags <=> Is(i, "mature"))
            => Table!Estimated(n, LinksOf(NeighborTable)[n].mature)
         /\ ("mature" \in e.flags <=> Is(i, "mature")) /\ e.eetx = NeighborTable[i].eetx
            => LinksOf(NeighborTable)' = LinksOf(NeighborTable)
  <1> DEFINE l == LinksOf(NeighborTable)
             k == LinksOf(NeighborTable)'
  <1>1. i \in Idx /\ Is(i, "valid") /\ NeighborTable[i].ll_addr = n
    BY Found
  <1>2. n \in DOMAIN l /\ l[n] = LinkOf(NeighborTable[i])
    <2>1. DOMAIN l = HeldIn(NeighborTable) /\ n \in HeldIn(NeighborTable)
      BY <1>1, LinksAre DEF GoodTable, HeldIn, Is
    <2> QED BY <1>1, <2>1, LinksAre DEF GoodTable, Is
  <1>3. k = [l EXCEPT ![n] = LinkOf(e)]
    BY OwnSlot
  <1>4. [l EXCEPT ![n] = l[n]] = l
    BY LinksStay
  <1>5. e.eetx \in Estimates
    BY EntryFields DEF Placed, GoodEntry
  <1> HIDE DEF l, k
  <1>6. n \in DOMAIN k /\ k[n] = LinkOf(e) /\ k[n].eetx = e.eetx
    BY <1>2, <1>3 DEF LinkOf
  <1>7. ASSUME NEW m, m = ("mature" \in e.flags)
        PROVE  Table!Estimated(n, m)
    <2>1. LinkOf(e) = [[LinkOf(NeighborTable[i]) EXCEPT !.mature = m] EXCEPT !.eetx = e.eetx]
      <3> DEFINE p == "pinned" \in e.flags
                 p0 == "pinned" \in NeighborTable[i].flags
                 m0 == "mature" \in NeighborTable[i].flags
                 q0 == NeighborTable[i].eetx
      <3>1. p = p0
        BY DEF Is
      <3>2. LinkOf(e) = [mature |-> m, pinned |-> p, eetx |-> e.eetx]
        BY <1>7 DEF LinkOf
      <3>3. LinkOf(NeighborTable[i]) = [mature |-> m0, pinned |-> p0, eetx |-> q0]
        BY DEF LinkOf
      <3> DEFINE r == [LinkOf(NeighborTable[i]) EXCEPT !.mature = m]
      <3> HIDE DEF p, p0, m0, q0
      <3>4. r = [mature |-> m, pinned |-> p0, eetx |-> q0]
        BY <3>3
      <3> HIDE DEF r
      <3>5. [r EXCEPT !.eetx = e.eetx] = [mature |-> m, pinned |-> p0, eetx |-> e.eetx]
        BY <3>4
      <3>6. LinkOf(e) = [r EXCEPT !.eetx = e.eetx]
        BY <3>1, <3>2, <3>5
      <3> QED BY <3>6 DEF r
    <2>2. k = [l EXCEPT ![n].mature = m, ![n].eetx = k[n].eetx]
      BY <1>2, <1>3, <1>6, <2>1
    <2>3. n \in DOMAIN l \intersect DOMAIN k /\ k[n].eetx \in Estimates
      BY <1>2, <1>5, <1>6
    <2> QED BY <2>2, <2>3 DEF Table!Estimated, l, k
  <1>8. "mature" \in e.flags => Table!Estimated(n, TRUE)
    <2> SUFFICES ASSUME "mature" \in e.flags PROVE Table!Estimated(n, TRUE)
      OBVIOUS
    <2>1. ("mature" \in e.flags) = TRUE
      OBVIOUS
    <2> QED BY <1>7, <2>1
  <1>9. ("mature" \in e.flags <=> Is(i, "mature")) => Table!Estimated(n, l[n].mature)
    <2> SUFFICES ASSUME "mature" \in e.flags <=> Is(i, "mature")
                 PROVE  Table!Estimated(n, l[n].mature)
      OBVIOUS
    <2>1. l[n].mature = ("mature" \in e.flags)
      BY <1>2 DEF LinkOf, Is
    <2> QED BY <1>7, <2>1
  <1>10. ("mature" \in e.flags <=> Is(i, "mature")) /\ e.eetx = NeighborTable[i].eetx
         => k = l
    <2> SUFFICES ASSUME "mature" \in e.flags <=> Is(i, "mature"),
                        e.eetx = NeighborTable[i].eetx
                 PROVE  k = l
      OBVIOUS
    <2>1. LinkOf(e) = l[n]
      BY <1>2 DEF LinkOf, Is
    <2> QED BY <1>3, <1>4, <2>1
  <1> QED BY <1>8, <1>9, <1>10 DEF l, k

(* A fresh entry is a fresh link, before and after its first beacon. *)
LEMMA FreshLink ==
  ASSUME NEW e, e.eetx = 0, e.flags \subseteq {"init", "valid"}
  PROVE  LinkOf(e) = Table!Fresh
  <1>1. ("mature" \in e.flags) = FALSE /\ ("pinned" \in e.flags) = FALSE
    OBVIOUS
  <1> QED BY <1>1 DEF LinkOf, Table!Fresh

(* The entry that initNeighborIdx leaves. *)
LEMMA Initialised ==
  ASSUME world \in Worlds, GoodTable(NeighborTable), NEW n \in Neighbors, NEW i \in Idx
  PROVE  \E e : /\ GoodEntry(e) /\ e.ll_addr = n /\ e.flags = {"init", "valid"}
                /\ e.eetx = 0 /\ e.rcvcnt = 0
                /\ initNeighborIdx(i, n) = [NeighborTable EXCEPT ![i] = e]
  <1> DEFINE e == Renewed(NeighborTable[i], n)
  <1>1. NeighborTable[i] \in Entry /\ CountsOK(NeighborTable[i])
    BY DEF GoodTable, GoodEntry
  <1>2. initNeighborIdx(i, n) = [NeighborTable EXCEPT ![i] = e]
    BY DEF initNeighborIdx, Renewed
  <1>3. /\ GoodEntry(e) /\ e.ll_addr = n /\ e.flags = {"init", "valid"}
        /\ e.eetx = 0 /\ e.rcvcnt = 0
    BY <1>1, FreshEntry
  <1> HIDE DEF e
  <1> QED BY <1>2, <1>3

(* A neighbour without an entry gets one, which has heard no beacon or one. *)
LEMMA Entered ==
  ASSUME world \in Worlds, world' = world, GoodTable(NeighborTable),
         NEW n \in Neighbors, findIdx(n) = {}, NEW i \in Idx, NEW gap \in Bytes,
         \/ NeighborTable' = initNeighborIdx(i, n)
         \/ NeighborTable' = updateNeighborEntryIdx(initNeighborIdx(i, n), i, gap),
         NEW out, out = IF Is(i, "valid") THEN {NeighborTable[i].ll_addr} ELSE {}
  PROVE  /\ \E e : Placed(n, i, e)
         /\ LinksOf(NeighborTable)' = Table!Enter(LinksOf(NeighborTable), n, out)
  <1> DEFINE t == NeighborTable
  <1>1. PICK e : /\ GoodEntry(e) /\ e.ll_addr = n /\ e.flags = {"init", "valid"}
                 /\ e.eetx = 0 /\ e.rcvcnt = 0
                 /\ initNeighborIdx(i, n) = [t EXCEPT ![i] = e]
    BY Initialised
  <1>2. \A j \in Idx : ~ ("valid" \in t[j].flags /\ t[j].ll_addr = n)
    BY Found DEF Is
  <1>3. GoodTable([t EXCEPT ![i] = e])
    <2> DEFINE u == [t EXCEPT ![i] = e]
    <2>1. t \in [Idx -> Entry] /\ e \in Entry
      BY <1>1 DEF GoodTable, GoodEntry
    <2>2. u \in [Idx -> Entry] /\ u[i] = e /\ \A j \in Idx : j # i => u[j] = t[j]
      BY <2>1
    <2>3. \A j \in Idx : GoodEntry(u[j])
      BY <1>1, <2>2 DEF GoodTable
    <2>4. Single(u)
      <3> SUFFICES ASSUME NEW j \in Idx, NEW k \in Idx, "valid" \in u[j].flags,
                          "valid" \in u[k].flags, u[j].ll_addr = u[k].ll_addr
                   PROVE  j = k
        BY DEF Single
      <3>1. CASE j # i /\ k # i
        BY <2>2, <3>1 DEF GoodTable, Single
      <3>2. CASE j = i \/ k = i
        BY <1>1, <1>2, <2>2, <3>2
      <3> QED BY <3>1, <3>2
    <2> QED BY <2>2, <2>3, <2>4 DEF GoodTable
  <1>4. PICK f : /\ GoodEntry(f) /\ f.ll_addr = n /\ "valid" \in f.flags
                 /\ f.flags \subseteq {"init", "valid"} /\ f.eetx = 0
                 /\ NeighborTable' = [t EXCEPT ![i] = f]
    <2>1. CASE NeighborTable' = initNeighborIdx(i, n)
      BY <1>1, <2>1
    <2>2. CASE NeighborTable' = updateNeighborEntryIdx(initNeighborIdx(i, n), i, gap)
      <3> DEFINE u == [t EXCEPT ![i] = e]
                 f == Heard(e, gap)
      <3>1. t \in [Idx -> Entry]
        BY DEF GoodTable
      <3>2. u[i] = e
        BY <3>1
      <3>3. updateNeighborEntryIdx(u, i, gap) = [u EXCEPT ![i] = f]
        <4>1. "valid" \in u[i].flags
          BY <1>1, <3>2
        <4>2. GoodTable(u)
          BY <1>3
        <4> HIDE DEF u
        <4>3. updateNeighborEntryIdx(u, i, gap) = [u EXCEPT ![i] = Heard(u[i], gap)]
          BY <4>1, <4>2, UpdatedSlot
        <4> QED BY <3>2, <4>3
      <3>4. [u EXCEPT ![i] = f] = [t EXCEPT ![i] = f]
        BY <3>1
      <3>5. NeighborTable' = [t EXCEPT ![i] = f]
        BY <1>1, <2>2, <3>3, <3>4
      <3>6. GoodEntry(f) /\ f.ll_addr = n /\ f.flags = e.flags \ {"init"} /\ f.eetx = 0
        BY <1>1, HeardEntry
      <3> HIDE DEF f
      <3> QED BY <1>1, <3>5, <3>6
    <2> QED BY <2>1, <2>2
  <1>5. Placed(n, i, f)
    BY <1>4 DEF Placed
  <1>6. LinkOf(f) = Table!Fresh
    BY <1>4, FreshLink
  <1> QED BY <1>5, <1>6, OthersSlot

(* A beacon. *)
LEMMA ReceiveStep ==
  ASSUME world \in Worlds, world' = world, GoodTable(NeighborTable),
         NEW n \in Neighbors, NEW gap \in Bytes, NEW recommended \in BOOLEAN,
         processReceivedMessage(n, gap, recommended)
  PROVE  Moved(n) /\ Becomes(NeighborTable') /\ Table!BeaconHeard(n)
  <1> DEFINE t == NeighborTable
             l == LinksOf(t)
             Known == findIdx(n) # {}
             Free  == findEmptyNeighborIdx # {}
             Worse == findWorstNeighborIdx(EVICT_EETX_THRESHOLD)
  <1>1. DOMAIN l = HeldIn(t) /\ (n \in DOMAIN l <=> Known)
    BY LinksAre, HeldFound DEF GoodTable
  <1>2. EVICT_EETX_THRESHOLD \in Nat
    BY Sizes
  <1>3. Table!Room(l) <=> Free
    BY RoomIsASlot
  <1>4. CASE Known
    <2>1. PICK i \in findIdx(n) : Becomes(updateNeighborEntryIdx(t, i, gap))
      BY <1>4 DEF processReceivedMessage
    <2>2. i \in Idx /\ Is(i, "valid") /\ t[i].ll_addr = n
      BY Found
    <2>3. NeighborTable' = [t EXCEPT ![i] = Heard(t[i], gap)]
      BY <2>1, <2>2, UpdatedSlot DEF Becomes, Is
    <2> DEFINE h == Heard(t[i], gap)
    <2>4. /\ GoodEntry(h) /\ h.ll_addr = n
          /\ \/ h.flags = t[i].flags \ {"init"} /\ h.eetx = t[i].eetx
             \/ h.flags = (t[i].flags \ {"init"}) \union {"mature"}
      BY <2>2, HeardEntry DEF GoodTable
    <2> HIDE DEF h
    <2>5. Placed(n, i, h)
      BY <2>2, <2>3, <2>4 DEF Placed, Is, h
    <2>6. "pinned" \in h.flags <=> Is(i, "pinned")
      BY <2>4 DEF Is
    <2>7. LinksOf(t)' = l \/ Table!Estimated(n, TRUE)
      <3>1. CASE h.flags = t[i].flags \ {"init"} /\ h.eetx = t[i].eetx
        <4>1. "mature" \in h.flags <=> Is(i, "mature")
          BY <3>1 DEF Is
        <4> QED BY <2>5, <2>6, <3>1, <4>1, OwnEstimate
      <3>2. CASE h.flags = (t[i].flags \ {"init"}) \union {"mature"}
        BY <2>5, <2>6, <3>2, OwnEstimate
      <3> QED BY <2>4, <3>1, <3>2
    <2> QED BY <1>1, <1>4, <2>1, <2>5, <2>7 DEF Moved, Becomes, Table!BeaconHeard
  <1>5. ASSUME ~ Known, NEW o \in Table!Admitted(l, n, recommended), LinksOf(t)' = o.links
        PROVE  Table!BeaconHeard(n)
    BY <1>1, <1>5 DEF Table!BeaconHeard
  <1>6. CASE ~ Known /\ Free
    <2>1. PICK i \in findEmptyNeighborIdx :
            Becomes(updateNeighborEntryIdx(initNeighborIdx(i, n), i, gap))
      BY <1>6 DEF processReceivedMessage
    <2>2. i \in Idx /\ ~ Is(i, "valid")
      BY <2>1, Found
    <2>3. (\E e : Placed(n, i, e)) /\ LinksOf(t)' = Table!Enter(l, n, {})
      BY <1>6, <2>1, <2>2, Entered DEF Becomes
    <2>4. Table!Outcome(Table!Enter(l, n, {}), {}) \in Table!Admitted(l, n, recommended)
      BY <1>3, <1>6 DEF Table!Admitted
    <2>5. Table!Outcome(Table!Enter(l, n, {}), {}).links = Table!Enter(l, n, {})
      BY DEF Table!Outcome
    <2> QED BY <1>5, <1>6, <2>1, <2>3, <2>4, <2>5 DEF Moved, Becomes
  <1>7. ASSUME ~ Known, ~ Free, NEW i \in Idx, Is(i, "valid"), Becomes(initNeighborIdx(i, n)),
               NEW V, t[i].ll_addr \in V,
               Table!Admitted(l, n, recommended) = Table!Replacing(l, n, V)
        PROVE  Moved(n) /\ Becomes(NeighborTable') /\ Table!BeaconHeard(n)
    <2> DEFINE v == t[i].ll_addr
               o == Table!Outcome(Table!Enter(l, n, {v}), {v})
    <2>1. (\E e : Placed(n, i, e)) /\ LinksOf(t)' = Table!Enter(l, n, {v})
      BY <1>7, Entered, Widths DEF Becomes
    <2>2. o \in Table!Admitted(l, n, recommended) /\ o.links = Table!Enter(l, n, {v})
      BY <1>7 DEF Table!Replacing, Table!Outcome
    <2> QED BY <1>5, <1>7, <2>1, <2>2 DEF Moved, Becomes
  <1>8. CASE ~ Known /\ ~ Free /\ Worse # {}
    <2>1. PICK i \in Worse : Becomes(initNeighborIdx(i, n))
      BY <1>8 DEF processReceivedMessage
    <2>2. /\ i \in Idx /\ Is(i, "valid")
          /\ t[i].ll_addr \in Table!Worst(l, EVICT_EETX_THRESHOLD)
      BY <1>2, <2>1, Victims
    <2>3. Table!Admitted(l, n, recommended)
            = Table!Replacing(l, n, Table!Worst(l, EVICT_EETX_THRESHOLD))
      BY <1>3, <1>8, <2>2 DEF Table!Admitted
    <2> QED BY <1>7, <1>8, <2>1, <2>2, <2>3
  <1>9. CASE ~ Known /\ ~ Free /\ Worse = {} /\ recommended /\ findRandomNeighborIdx # {}
    <2>1. PICK i \in findRandomNeighborIdx : Becomes(initNeighborIdx(i, n))
      BY <1>9 DEF processReceivedMessage
    <2>2. i \in Idx /\ Is(i, "valid") /\ t[i].ll_addr \in Table!Unripe(l)
      BY <1>2, <2>1, Victims
    <2>3. Table!Worst(l, EVICT_EETX_THRESHOLD) = {}
      BY <1>2, <1>9, Victims
    <2>4. Table!Admitted(l, n, recommended) = Table!Replacing(l, n, Table!Unripe(l))
      BY <1>3, <1>9, <2>2, <2>3 DEF Table!Admitted
    <2> QED BY <1>7, <1>9, <2>1, <2>2, <2>4
  <1>10. CASE ~ Known /\ ~ Free /\ Worse = {} /\ ~ (recommended /\ findRandomNeighborIdx # {})
    <2>1. Becomes(t)
      BY <1>10 DEF processReceivedMessage
    <2>2. LinksOf(t)' = l
      BY <2>1, LinksStay DEF Becomes
    <2>3. Table!Worst(l, EVICT_EETX_THRESHOLD) = {}
          /\ ~ (recommended /\ Table!Unripe(l) # {})
      BY <1>2, <1>10, Victims
    <2>4. Table!Outcome(l, {}) \in Table!Admitted(l, n, recommended)
      BY <1>3, <1>10, <2>3 DEF Table!Admitted
    <2>5. Table!Outcome(l, {}).links = l
      BY DEF Table!Outcome
    <2> QED BY <1>5, <1>10, <2>1, <2>2, <2>4, <2>5 DEF Moved, Becomes
  <1> QED BY <1>4, <1>6, <1>8, <1>9, <1>10

(* A forced insertion. *)
LEMMA InsertStep ==
  ASSUME world \in Worlds, world' = world, GoodTable(NeighborTable),
         NEW n \in Neighbors, insertNeighbor(n)
  PROVE  Moved(n) /\ Becomes(NeighborTable') /\ Table!insertNeighbor(n)
  <1> DEFINE t == NeighborTable
             l == LinksOf(t)
             Known == findIdx(n) # {}
             Free  == findEmptyNeighborIdx # {}
             Worse == findWorstNeighborIdx(0)
  <1>1. DOMAIN l = HeldIn(t) /\ (n \in DOMAIN l <=> Known)
    BY LinksAre, HeldFound DEF GoodTable
  <1>2. BEST_EETX = 0 /\ 0 \in Nat /\ 0 \in Bytes
    BY Widths DEF BEST_EETX
  <1>3. Table!Room(l) <=> Free
    BY RoomIsASlot
  <1>4. ASSUME NEW o \in Table!Inserted(l, n), LinksOf(t)' = o.links
        PROVE  Table!insertNeighbor(n)
    BY <1>4 DEF Table!insertNeighbor
  <1>5. ASSUME Becomes(t), Table!Inserted(l, n) = {Table!Outcome(l, {})}
        PROVE  Moved(n) /\ Becomes(NeighborTable') /\ Table!insertNeighbor(n)
    <2>1. LinksOf(t)' = l
      BY <1>5, LinksStay DEF Becomes
    <2>2. Table!Outcome(l, {}).links = l
      BY DEF Table!Outcome
    <2> QED BY <1>4, <1>5, <2>1, <2>2 DEF Moved, Becomes
  <1>6. CASE Known
    <2>1. Becomes(t)
      BY <1>6 DEF insertNeighbor
    <2>2. Table!Inserted(l, n) = {Table!Outcome(l, {})}
      BY <1>1, <1>6 DEF Table!Inserted
    <2> QED BY <1>5, <2>1, <2>2
  <1>7. CASE ~ Known /\ Free
    <2>1. PICK i \in findEmptyNeighborIdx : Becomes(initNeighborIdx(i, n))
      BY <1>7 DEF insertNeighbor
    <2>2. i \in Idx /\ ~ Is(i, "valid")
      BY <2>1, Found
    <2>3. (\E e : Placed(n, i, e)) /\ LinksOf(t)' = Table!Enter(l, n, {})
      BY <1>2, <1>7, <2>1, <2>2, Entered DEF Becomes
    <2>4. Table!Outcome(Table!Enter(l, n, {}), {}) \in Table!Inserted(l, n)
      BY <1>1, <1>3, <1>7 DEF Table!Inserted
    <2>5. Table!Outcome(Table!Enter(l, n, {}), {}).links = Table!Enter(l, n, {})
      BY DEF Table!Outcome
    <2> QED BY <1>4, <2>1, <2>3, <2>4, <2>5 DEF Moved, Becomes
  <1>8. CASE ~ Known /\ ~ Free /\ Worse # {}
    <2>1. PICK i \in Worse : Becomes(initNeighborIdx(i, n))
      BY <1>2, <1>8 DEF insertNeighbor
    <2> DEFINE v == t[i].ll_addr
               o == Table!Outcome(Table!Enter(l, n, {v}), {v})
    <2>2. i \in Idx /\ Is(i, "valid") /\ v \in Table!Worst(l, 0)
      BY <1>2, <2>1, Victims
    <2>3. (\E e : Placed(n, i, e)) /\ LinksOf(t)' = Table!Enter(l, n, {v})
      BY <1>2, <1>8, <2>1, <2>2, Entered DEF Becomes
    <2>4. Table!Inserted(l, n) = Table!Replacing(l, n, Table!Worst(l, 0))
      BY <1>1, <1>3, <1>8, <2>2 DEF Table!Inserted
    <2>5. o \in Table!Inserted(l, n) /\ o.links = Table!Enter(l, n, {v})
      BY <2>2, <2>4 DEF Table!Replacing, Table!Outcome
    <2> QED BY <1>4, <2>1, <2>3, <2>5 DEF Moved, Becomes
  <1>9. CASE ~ Known /\ ~ Free /\ Worse = {}
    <2>1. Becomes(t)
      BY <1>2, <1>9 DEF insertNeighbor
    <2>2. Table!Worst(l, 0) = {}
      BY <1>2, <1>9, Victims
    <2>3. Table!Inserted(l, n) = {Table!Outcome(l, {})}
      BY <1>1, <1>3, <1>9, <2>2 DEF Table!Inserted
    <2> QED BY <1>5, <2>1, <2>3
  <1> QED BY <1>6, <1>7, <1>8, <1>9

(* A command on a neighbour's entry: f[i] is what it makes of the entry in slot i. *)
LEMMA OnOneEntry ==
  ASSUME GoodTable(NeighborTable), NEW n, NEW f,
         NeighborTable' = [i \in Idx |-> IF i \in findIdx(n) THEN f[i] ELSE NeighborTable[i]]
  PROVE  \/ NeighborTable' = NeighborTable
         \/ \E i \in findIdx(n) : /\ i \in Idx /\ Is(i, "valid")
                                  /\ GoodEntry(NeighborTable[i]) /\ NeighborTable[i].ll_addr = n
                                  /\ NeighborTable' = [NeighborTable EXCEPT ![i] = f[i]]
  <1>1. NeighborTable \in [Idx -> Entry] /\ \A i \in Idx : GoodEntry(NeighborTable[i])
    BY DEF GoodTable
  <1>2. CASE findIdx(n) = {}
    BY <1>1, <1>2
  <1>3. CASE findIdx(n) # {}
    <2>1. PICK i \in findIdx(n) : \A j \in findIdx(n) : j = i
      BY <1>3, Found
    <2>2. i \in Idx /\ Is(i, "valid") /\ NeighborTable[i].ll_addr = n
      BY Found
    <2>3. NeighborTable' = [NeighborTable EXCEPT ![i] = f[i]]
      BY <1>1, <2>1, <2>2
    <2> QED BY <1>1, <2>2, <2>3
  <1> QED BY <1>2, <1>3

(* The commands on an entry: a pin, and the outcome of a data packet. *)
LEMMA CommandStep ==
  ASSUME world \in Worlds, world' = world, GoodTable(NeighborTable), NEW n \in Neighbors,
         \/ pinNeighbor(n) \/ unpinNeighbor(n)
         \/ txAck(n) \/ txNoAck(n) \/ clearDLQ(n)
  PROVE  /\ Moved(n) /\ Becomes(NeighborTable')
         /\ \/ LinksOf(NeighborTable)' = LinksOf(NeighborTable)
            \/ Table!pinNeighbor(n) \/ Table!unpinNeighbor(n) \/ Table!Transmitted(n)
  <1> DEFINE t == NeighborTable
             l == LinksOf(t)
  <1>1. Becomes(NeighborTable')
    BY DEF pinNeighbor, unpinNeighbor, txAck, txNoAck, clearDLQ, OnEntry, Becomes
  <1>2. ASSUME NeighborTable' = t
        PROVE  Moved(n) /\ LinksOf(t)' = l
    BY <1>2, LinksStay DEF Moved
  <1>3. ASSUME NEW i \in findIdx(n), NEW e, e \in Entry, CountsOK(e),
               i \in Idx, Is(i, "valid"), GoodEntry(t[i]), t[i].ll_addr = n,
               NeighborTable' = [t EXCEPT ![i] = e], e.ll_addr = n,
               e.rcvcnt = t[i].rcvcnt, "valid" \in e.flags
        PROVE  Placed(n, i, e)
    BY <1>3 DEF Placed, GoodEntry
  <1>4. ASSUME NEW i \in findIdx(n)
        PROVE  n \in DOMAIN l /\ l[n] = LinkOf(t[i])
    <2>1. i \in Idx /\ Is(i, "valid") /\ t[i].ll_addr = n
      BY Found
    <2>2. n \in HeldIn(t)
      BY <2>1 DEF HeldIn, Is
    <2>3. GoodTable(t) /\ "valid" \in t[i].flags
      BY <2>1 DEF Is
    <2>4. Single(t)
      BY <2>3 DEF GoodTable
    <2> HIDE DEF t
    <2> QED BY <2>1, <2>2, <2>3, <2>4, LinksAre
  <1>5. ASSUME NEW p \in BOOLEAN, NEW i \in findIdx(n), NEW e, Placed(n, i, e),
               e.eetx = t[i].eetx, e.flags = IF p THEN t[i].flags \union {"pinned"}
                                             ELSE t[i].flags \ {"pinned"}
        PROVE  LinksOf(t)' = Table!Repinned(l, n, p)
    <2>1. LinksOf(t)' = [l EXCEPT ![n] = LinkOf(e)]
      BY <1>5, OwnSlot
    <2>2. ("mature" \in e.flags) = ("mature" \in t[i].flags) /\ ("pinned" \in e.flags) = p
      BY <1>5
    <2>3. LinkOf(e) = [LinkOf(t[i]) EXCEPT !.pinned = p]
      BY <1>5, <2>2 DEF LinkOf
    <2> QED BY <1>4, <2>1, <2>3 DEF Table!Repinned
  <1>6. ASSUME NEW i \in findIdx(n), NEW e, Placed(n, i, e), e.flags = t[i].flags
        PROVE  Table!Transmitted(n)
    <2>1. ("pinned" \in e.flags <=> Is(i, "pinned")) /\ ("mature" \in e.flags <=> Is(i, "mature"))
      BY <1>6 DEF Is
    <2>2. Table!Estimated(n, l[n].mature)
      BY <1>6, <2>1, OwnEstimate
    <2> QED BY <1>4, <1>6, <2>2 DEF Table!Transmitted
  <1>7. ASSUME NEW p \in BOOLEAN, NEW f, f = [i \in Idx |-> IF p THEN Pinned(t[i]) ELSE Unpinned(t[i])],
               NeighborTable' = [i \in Idx |-> IF i \in findIdx(n) THEN f[i] ELSE t[i]]
        PROVE  Moved(n) /\ (LinksOf(t)' = l \/ LinksOf(t)' = Table!Repinned(l, n, p))
    <2>1. CASE NeighborTable' = t
      BY <1>2, <2>1
    <2>2. CASE NeighborTable' # t
      <3>1. PICK i \in findIdx(n) : /\ i \in Idx /\ Is(i, "valid") /\ GoodEntry(t[i])
                                    /\ t[i].ll_addr = n /\ NeighborTable' = [t EXCEPT ![i] = f[i]]
        <4>1. NeighborTable' = [i \in Idx |-> IF i \in findIdx(n) THEN f[i] ELSE NeighborTable[i]]
          BY <1>7
        <4> QED BY ZenonT(40), <2>2, <4>1, OnOneEntry
      <3> DEFINE e == f[i]
      <3>2. t[i] \in Entry /\ CountsOK(t[i]) /\ e = IF p THEN Pinned(t[i]) ELSE Unpinned(t[i])
        BY <1>7, <3>1 DEF GoodEntry
      <3> HIDE DEF e
      <3>3. /\ e \in Entry /\ CountsOK(e) /\ e.rcvcnt = t[i].rcvcnt /\ e.ll_addr = t[i].ll_addr
            /\ e.eetx = t[i].eetx
            /\ e.flags = IF p THEN t[i].flags \union {"pinned"} ELSE t[i].flags \ {"pinned"}
        BY <3>2, PinnedEntry
      <3>4. "valid" \in e.flags
        BY <3>1, <3>3 DEF Is
      <3>5. Placed(n, i, e)
        BY <1>3, <3>1, <3>3, <3>4 DEF e
      <3> QED BY <1>5, <3>3, <3>5 DEF Moved
    <2> QED BY <2>1, <2>2
  <1>8. CASE pinNeighbor(n)
    <2> DEFINE f == [i \in Idx |-> Pinned(t[i])]
    <2>1. NeighborTable' = [i \in Idx |-> IF i \in findIdx(n) THEN f[i] ELSE t[i]]
      BY <1>8 DEF pinNeighbor, OnEntry, Becomes
    <2>2. PICK p \in BOOLEAN : p = TRUE
      OBVIOUS
    <2>3. f = [i \in Idx |-> IF p THEN Pinned(t[i]) ELSE Unpinned(t[i])]
      BY <2>2
    <2>4. Moved(n) /\ (LinksOf(t)' = l \/ LinksOf(t)' = Table!Repinned(l, n, p))
      BY ZenonT(40), <1>7, <2>1, <2>3
    <2> QED BY <1>1, <2>2, <2>4 DEF Table!pinNeighbor
  <1>9. CASE unpinNeighbor(n)
    <2> DEFINE f == [i \in Idx |-> Unpinned(t[i])]
    <2>1. NeighborTable' = [i \in Idx |-> IF i \in findIdx(n) THEN f[i] ELSE t[i]]
      BY <1>9 DEF unpinNeighbor, OnEntry, Becomes
    <2>2. PICK p \in BOOLEAN : p = FALSE
      OBVIOUS
    <2>3. f = [i \in Idx |-> IF p THEN Pinned(t[i]) ELSE Unpinned(t[i])]
      BY <2>2
    <2>4. Moved(n) /\ (LinksOf(t)' = l \/ LinksOf(t)' = Table!Repinned(l, n, p))
      BY ZenonT(40), <1>7, <2>1, <2>3
    <2> QED BY <1>1, <2>2, <2>4 DEF Table!unpinNeighbor
  <1>10. ASSUME NEW f, world.data,
                \A i \in Idx : f[i] \in {Acked(t[i]), Unacked(t[i]), Cleared(t[i])},
                NeighborTable' = [i \in Idx |-> IF i \in findIdx(n) THEN f[i] ELSE t[i]]
         PROVE  Moved(n) /\ (LinksOf(t)' = l \/ Table!Transmitted(n))
    <2>1. CASE NeighborTable' = t
      BY <1>2, <2>1
    <2>2. CASE NeighborTable' # t
      <3>1. PICK i \in findIdx(n) : /\ i \in Idx /\ Is(i, "valid") /\ GoodEntry(t[i])
                                    /\ t[i].ll_addr = n /\ NeighborTable' = [t EXCEPT ![i] = f[i]]
        BY ZenonT(40), <1>10, <2>2, OnOneEntry
      <3> DEFINE e == f[i]
      <3>2. t[i] \in Entry /\ CountsOK(t[i])
            /\ (e = Acked(t[i]) \/ e = Unacked(t[i]) \/ e = Cleared(t[i]))
        BY <1>10, <3>1 DEF GoodEntry
      <3> HIDE DEF e
      <3>3. /\ e \in Entry /\ CountsOK(e) /\ e.rcvcnt = t[i].rcvcnt /\ e.ll_addr = t[i].ll_addr
            /\ e.flags = t[i].flags
        BY <1>10, <3>2, AckedEntry, UnackedEntry, ClearedEntry
      <3>4. "valid" \in e.flags
        BY <3>1, <3>3 DEF Is
      <3>5. Placed(n, i, e)
        BY <1>3, <3>1, <3>3, <3>4 DEF e
      <3> QED BY <1>6, <3>3, <3>5 DEF Moved
    <2> QED BY <2>1, <2>2
  <1>11. CASE txAck(n)
    <2> DEFINE f == [i \in Idx |-> Acked(t[i])]
    <2>1. world.data /\ NeighborTable' = [i \in Idx |-> IF i \in findIdx(n) THEN f[i] ELSE t[i]]
      BY <1>11 DEF txAck, OnEntry, Becomes
    <2>2. \A i \in Idx : f[i] \in {Acked(t[i]), Unacked(t[i]), Cleared(t[i])}
      OBVIOUS
    <2> QED BY <1>1, <1>10, <2>1, <2>2
  <1>12. CASE txNoAck(n)
    <2> DEFINE f == [i \in Idx |-> Unacked(t[i])]
    <2>1. world.data /\ NeighborTable' = [i \in Idx |-> IF i \in findIdx(n) THEN f[i] ELSE t[i]]
      BY <1>12 DEF txNoAck, OnEntry, Becomes
    <2>2. \A i \in Idx : f[i] \in {Acked(t[i]), Unacked(t[i]), Cleared(t[i])}
      OBVIOUS
    <2> QED BY <1>1, <1>10, <2>1, <2>2
  <1>13. CASE clearDLQ(n)
    <2> DEFINE f == [i \in Idx |-> Cleared(t[i])]
    <2>1. world.data /\ NeighborTable' = [i \in Idx |-> IF i \in findIdx(n) THEN f[i] ELSE t[i]]
      BY <1>13 DEF clearDLQ, OnEntry, Becomes
    <2>2. \A i \in Idx : f[i] \in {Acked(t[i]), Unacked(t[i]), Cleared(t[i])}
      OBVIOUS
    <2> QED BY <1>1, <1>10, <2>1, <2>2
  <1> QED BY <1>8, <1>9, <1>11, <1>12, <1>13

-----------------------------------------------------------------------------
(* The round of the footer. *)

(* The k-th slot of the round is the one with k slots ahead of it. *)
LEMMA FooterSlots ==
  ASSUME prevSentIdx \in Idx
  PROVE  /\ \A k \in Idx : FooterOrder(k) \in Idx /\ Ahead(FooterOrder(k)) = k
         /\ \A i \in Idx : Ahead(i) \in Idx /\ FooterOrder(Ahead(i)) = i
  <1> DEFINE N == NEIGHBOR_TABLE_SIZE
  <1>1. N \in Nat /\ N > 0 /\ prevSentIdx \in Nat /\ prevSentIdx < N
        /\ \A k : k \in Idx <=> k \in Nat /\ k < N
    BY Sizes DEF Idx
  <1>2. ASSUME NEW M \in Nat, M > 0, NEW x \in Nat, x < M
        PROVE  x % M = x /\ (x + M) % M = x
    BY <1>2, Z3
  <1>3. ASSUME NEW k \in Idx
        PROVE  FooterOrder(k) = IF prevSentIdx + k + 1 < N THEN prevSentIdx + k + 1
                                ELSE prevSentIdx + k + 1 - N
    <2>1. CASE prevSentIdx + k + 1 < N
      BY <1>1, <1>2, <2>1 DEF FooterOrder
    <2>2. CASE ~ prevSentIdx + k + 1 < N
      <3> DEFINE x == prevSentIdx + k + 1 - N
      <3>1. x \in Nat /\ x < N /\ prevSentIdx + k + 1 = x + N
        BY <1>1, <2>2
      <3> HIDE DEF x
      <3>2. (x + N) % N = x
        BY <1>1, <1>2, <3>1
      <3>3. FooterOrder(k) = (prevSentIdx + k + 1) % N
        BY DEF FooterOrder
      <3>4. FooterOrder(k) = x
        BY <3>1, <3>2, <3>3
      <3> QED BY <2>2, <3>4 DEF x
    <2> QED BY <2>1, <2>2
  <1>4. ASSUME NEW k \in Idx
        PROVE  FooterOrder(k) \in Idx /\ Ahead(FooterOrder(k)) = k
    BY <1>1, <1>3 DEF Ahead
  <1>5. ASSUME NEW i \in Idx
        PROVE  Ahead(i) \in Idx /\ FooterOrder(Ahead(i)) = i
    <2>1. Ahead(i) \in Idx
      BY <1>1 DEF Ahead
    <2>2. Ahead(i) = IF i > prevSentIdx THEN i - prevSentIdx - 1 ELSE i + N - prevSentIdx - 1
      BY DEF Ahead
    <2> DEFINE a == Ahead(i)
    <2> HIDE DEF a
    <2>3. a \in Idx /\ a = IF i > prevSentIdx THEN i - prevSentIdx - 1 ELSE i + N - prevSentIdx - 1
      BY <2>1, <2>2 DEF a
    <2>4. FooterOrder(a) = i
      BY <1>1, <1>3, <2>3
    <2> QED BY <2>1, <2>4 DEF a
  <1> QED BY <1>4, <1>5

(* A beacon is sent: the slots that are in its footer start to wait again, and those
   that found no room come closer to the head of the round. *)
LEMMA SendStep ==
  ASSUME world \in Worlds, prevSentIdx \in Idx, waits \in [Idx -> Nat], Round, Send
  PROVE  prevSentIdx' \in Idx /\ waits' \in [Idx -> Nat] /\ Round'
  <1> DEFINE N == NEIGHBOR_TABLE_SIZE
             M == Min({world.room, NUM_ENTRIES_FLAG})
             B(k)  == {j \in 0 .. k : FooterOrder(j) \in Reportable}
             steps == {k \in Idx : FooterOrder(k) \in Reportable /\ Cardinality(B(k)) <= M}
             sent  == {FooterOrder(k) : k \in steps}
  <1>1. /\ prevSentIdx' = IF steps = {} THEN 0 ELSE FooterOrder(Max(steps))
        /\ waits' = [i \in Idx |-> IF i \in Reportable \ sent THEN waits[i] + 1 ELSE 0]
        /\ world' = world
    BY DEF Send
  <1>2. /\ N \in Nat /\ N > 0 /\ prevSentIdx \in Nat /\ prevSentIdx < N /\ Idx = 0 .. N - 1
        /\ N - 1 \in Nat
    BY Sizes DEF Idx
  <1>3. M \in Nat /\ (world.room > 0 => M >= 1)
    <2>1. world.room \in Nat /\ NUM_ENTRIES_FLAG = 15
      BY Fields DEF NUM_ENTRIES_FLAG
    <2>2. M = world.room \/ M = NUM_ENTRIES_FLAG
      BY <2>1, MinMaxOfTwo
    <2> QED BY <2>1, <2>2
  <1>4. \A k \in Idx : IsFiniteSet(B(k)) /\ Cardinality(B(k)) \in Nat
    <2> TAKE k \in Idx
    <2>1. IsFiniteSet(0 .. k)
      BY <1>2, FS_Interval
    <2>2. IsFiniteSet(B(k))
      <3>1. B(k) \in SUBSET (0 .. k)
        OBVIOUS
      <3> HIDE DEF B
      <3> QED BY <2>1, <3>1, FS_Subset
    <2> HIDE DEF B
    <2> QED BY <2>2, FS_CardinalityType
  <1>5. waits' \in [Idx -> Nat]
    BY <1>1
  <1>6. CASE steps = {}
    <2>1. prevSentIdx' = 0 /\ 0 \in Idx
      BY <1>1, <1>6, Sizes
    <2>2. ASSUME world.room > 0, NEW i \in Reportable
          PROVE  FALSE
      <3> DEFINE K == {k \in Idx : FooterOrder(k) \in Reportable}
                 m == Min(K)
      <3>1. i \in Idx /\ Ahead(i) \in Idx /\ FooterOrder(Ahead(i)) = i
        BY FooterSlots DEF Reportable
      <3>2. K # {} /\ K \subseteq Nat
        BY <3>1, Sizes
      <3> HIDE DEF K
      <3>3. m \in K /\ \A y \in K : m <= y
        BY <3>2, MinOf
      <3> HIDE DEF m
      <3>4. m \in Idx /\ m \in Nat /\ m < N /\ FooterOrder(m) \in Reportable
        BY <1>2, <3>3 DEF K
      <3>5. B(m) = {m}
        <4>1. ASSUME NEW j \in B(m) PROVE j = m
          <5>1. j \in Idx /\ j <= m /\ FooterOrder(j) \in Reportable
            BY <1>2, <3>4
          <5>2. m <= j
            BY <3>3, <5>1 DEF K
          <5> QED BY <1>2, <3>4, <5>1, <5>2
        <4> QED BY <3>4, <4>1
      <3>6. Cardinality(B(m)) = 1
        BY <3>5, FS_Singleton
      <3> HIDE DEF B
      <3>7. m \in steps
        BY <1>3, <2>2, <3>4, <3>6
      <3> QED BY <1>6, <3>7
    <2>3. ASSUME world.room > 0, NEW i \in Idx
          PROVE  waits'[i] + Ahead(i)' < N
      <3>1. waits'[i] = 0
        BY <1>1, <2>2, <2>3
      <3>2. Ahead(i)' \in Idx
        BY <1>2, <2>1 DEF Ahead
      <3> QED BY <1>2, <3>1, <3>2
    <2> QED BY <1>1, <1>5, <2>1, <2>3 DEF Round
  <1>7. CASE steps # {}
    <2> DEFINE x == Max(steps)
    <2>1. x \in steps /\ \A y \in steps : y <= x
      <3>1. steps \subseteq 0 .. N - 1
        BY <1>2
      <3> HIDE DEF steps
      <3> QED BY <1>2, <1>7, <3>1, MaxOf
    <2>2. prevSentIdx' = FooterOrder(x)
      BY <1>1, <1>7
    <2> HIDE DEF x
    <2>3. x \in Idx /\ x \in Nat /\ x < N /\ Cardinality(B(x)) <= M
      BY <1>2, <2>1
    <2>4. FooterOrder(x) \in Idx /\ Ahead(FooterOrder(x)) = x
      BY <2>3, FooterSlots
    <2>5. ASSUME world.room > 0, NEW i \in Idx
          PROVE  waits'[i] + Ahead(i)' < N
      <3>1. CASE i \notin Reportable \ sent
        <4>1. waits'[i] = 0
          BY <1>1, <3>1
        <4>2. prevSentIdx' \in Idx
          BY <2>2, <2>4
        <4>3. \A p \in Idx : (IF i > p THEN i - p - 1 ELSE i + N - p - 1) \in Idx
          BY <1>2
        <4>4. Ahead(i)' \in Idx
          BY <4>2, <4>3 DEF Ahead
        <4> QED BY <1>2, <4>1, <4>4
      <3>2. CASE i \in Reportable \ sent
        <4> DEFINE a == Ahead(i)
        <4>1. waits'[i] = waits[i] + 1 /\ waits[i] \in Nat /\ waits[i] + a < N
          BY <1>1, <2>5, <3>2 DEF Round
        <4>2. a \in Idx /\ FooterOrder(a) = i
          BY FooterSlots
        <4>3. ~ Cardinality(B(a)) <= M
          <5>1. a \notin steps
            BY <3>2, <4>2
          <5> HIDE DEF a, B
          <5> QED BY <3>2, <4>2, <5>1
        <4>4. a > x
          <5>1. SUFFICES ASSUME a <= x PROVE FALSE
            BY <1>2, <2>3, <4>2
          <5>2. B(a) \subseteq B(x)
            <6> HIDE DEF a
            <6> QED BY <1>2, <2>3, <4>2, <5>1
          <5>3. IsFiniteSet(B(x)) /\ Cardinality(B(x)) \in Nat /\ Cardinality(B(a)) \in Nat
            BY <1>4, <2>3, <4>2
          <5> HIDE DEF B, a
          <5>4. Cardinality(B(a)) <= Cardinality(B(x))
            BY <5>2, <5>3, FS_Subset
          <5> QED BY <1>3, <2>3, <4>3, <5>3, <5>4
        <4>5. Ahead(i)' = a - x - 1
          <5> DEFINE f == FooterOrder(x)
          <5>1. f \in Nat /\ f < N
                /\ x = IF f > prevSentIdx THEN f - prevSentIdx - 1 ELSE f + N - prevSentIdx - 1
            BY <1>2, <2>4 DEF Ahead
          <5>2. a = IF i > prevSentIdx THEN i - prevSentIdx - 1 ELSE i + N - prevSentIdx - 1
            BY DEF Ahead
          <5>3. Ahead(i)' = IF i > f THEN i - f - 1 ELSE i + N - f - 1
            BY <2>2 DEF Ahead
          <5> HIDE DEF f, a
          <5> QED BY <1>2, <2>3, <4>2, <4>4, <5>1, <5>2, <5>3
        <4> HIDE DEF a
        <4> QED BY <1>2, <2>3, <4>1, <4>2, <4>4, <4>5
      <3> QED BY <3>1, <3>2
    <2> QED BY <1>1, <1>5, <2>2, <2>4, <2>5 DEF Round
  <1> QED BY <1>6, <1>7

(* A new table lets every slot wait on, or starts again. *)
LEMMA RoundKept ==
  ASSUME prevSentIdx \in Idx, waits \in [Idx -> Nat], Round, NEW table, Becomes(table)
  PROVE  prevSentIdx' \in Idx /\ waits' \in [Idx -> Nat] /\ Round'
  <1>1. /\ waits' = [i \in Idx |-> IF table[i].ll_addr = NeighborTable[i].ll_addr
                                   THEN waits[i] ELSE 0]
        /\ prevSentIdx' = prevSentIdx /\ world' = world
    BY DEF Becomes, Waiting
  <1>2. waits' \in [Idx -> Nat]
    BY <1>1
  <1>3. ASSUME world.room > 0, NEW i \in Idx
        PROVE  waits'[i] + Ahead(i)' < NEIGHBOR_TABLE_SIZE
    <2>1. waits[i] + Ahead(i) < NEIGHBOR_TABLE_SIZE /\ Ahead(i) \in Idx /\ Ahead(i)' = Ahead(i)
      BY <1>1, <1>3, FooterSlots DEF Round, Ahead
    <2>2. waits'[i] = waits[i] \/ waits'[i] = 0
      BY <1>1
    <2>3. Ahead(i) \in Nat /\ Ahead(i) < NEIGHBOR_TABLE_SIZE /\ NEIGHBOR_TABLE_SIZE \in Nat
      BY <2>1, Sizes
    <2> QED BY <2>1, <2>2, <2>3
  <1> QED BY <1>1, <1>2, <1>3 DEF Round

-----------------------------------------------------------------------------
(* The invariant holds, and every step is a step of LinkTable or a stutter. *)

(* What a changed entry keeps of the invariant. *)
LEMMA MovedTable ==
  ASSUME world' = world, GoodTable(NeighborTable), NEW n, Moved(n)
  PROVE  GoodTable(NeighborTable)'
  <1>1. CASE NeighborTable' = NeighborTable
    BY <1>1 DEF GoodTable, GoodEntry, CountsOK, Single, LargestEetx
  <1>2. CASE \E i, e : Placed(n, i, e)
    BY <1>2, PlacedTable
  <1> QED BY <1>1, <1>2 DEF Moved

LEMMA InitInv == Init => IInv
  <1> SUFFICES ASSUME Init PROVE IInv
    OBVIOUS
  <1>1. /\ world \in Worlds /\ prevSentIdx = 0 /\ heard = 0
        /\ NeighborTable = [i \in Idx |-> Blank] /\ waits = [i \in Idx |-> 0]
    BY DEF Init
  <1>2. prevSentIdx \in Idx /\ heard \in Nat /\ waits \in [Idx -> Nat]
    BY <1>1, Sizes
  <1>3. Blank \in Entry
    <2>1. 0 \in Bytes /\ 0 \in Estimates
      BY Widths
    <2> QED BY <2>1 DEF Blank, Entry
  <1>4. /\ Blank.rcvcnt = 0 /\ Blank.data_success = 0 /\ Blank.data_total = 0
        /\ Blank.eetx = 0 /\ Blank.flags = {}
    BY DEF Blank
  <1>5. GoodEntry(Blank)
    <2>1. 0 <= LargestEetx
      BY DEF LargestEetx, VERY_LARGE_EETX_VALUE
    <2>2. CountsOK(Blank)
      BY <1>4, <2>1 DEF CountsOK, DLQ_PKT_WINDOW
    <2> QED BY <1>3, <1>4, <2>2 DEF GoodEntry, BLQ_PKT_WINDOW
  <1>6. GoodTable(NeighborTable)
    <2>1. \A i \in Idx : NeighborTable[i] = Blank
      BY <1>1
    <2> QED BY <1>1, <1>3, <1>4, <1>5, <2>1 DEF GoodTable, Single
  <1>7. Round
    <2>1. \A i \in Idx : waits[i] = 0 /\ Ahead(i) \in Idx
      BY <1>1, <1>2, FooterSlots
    <2>2. \A k \in Idx : k \in Nat /\ k < NEIGHBOR_TABLE_SIZE
      BY Sizes
    <2> QED BY <2>1, <2>2 DEF Round
  <1> QED BY <1>1, <1>2, <1>6, <1>7 DEF IInv

(* A step is a step of LinkTable, by a neighbour of the world, or leaves its links alone. *)
LinkStep == \/ LinksOf(NeighborTable)' = LinksOf(NeighborTable)
            \/ \E n \in Neighbors :
                 \/ Table!BeaconHeard(n) \/ Table!insertNeighbor(n)
                 \/ Table!pinNeighbor(n) \/ Table!unpinNeighbor(n)
                 \/ Table!Transmitted(n)

LEMMA StepInv == IInv /\ [Next]_vars => IInv' /\ LinkStep
  <1> SUFFICES ASSUME IInv, [Next]_vars PROVE IInv' /\ LinkStep
    OBVIOUS
  <1>1. /\ world \in Worlds /\ prevSentIdx \in Idx /\ heard \in Nat /\ waits \in [Idx -> Nat]
        /\ GoodTable(NeighborTable) /\ Round
    BY DEF IInv
  <1>2. world.neighbors \subseteq Neighbors /\ world.gaps \subseteq Bytes
    BY <1>1, Fields
  <1>3. ASSUME NEW n, Moved(n), Becomes(NeighborTable'), heard' \in Nat
        PROVE  IInv'
    <2>1. world' = world
      BY <1>3 DEF Becomes
    <2>2. prevSentIdx' \in Idx /\ waits' \in [Idx -> Nat] /\ Round'
      BY <1>1, <1>3, RoundKept
    <2>3. GoodTable(NeighborTable)'
      BY <1>1, <1>3, <2>1, MovedTable
    <2> QED BY <1>1, <1>3, <2>1, <2>2, <2>3 DEF IInv
  <1>4. CASE Receive
    <2>1. PICK n \in world.neighbors, gap \in world.gaps, recommended \in BOOLEAN :
            /\ heard' = IF world.beacons # Unbounded THEN heard + 1 ELSE 0
            /\ processReceivedMessage(n, gap, recommended)
      BY <1>4 DEF Receive
    <2>2. heard' \in Nat
      BY <1>1, <2>1
    <2>3. world' = world
      BY <2>1 DEF processReceivedMessage, Becomes
    <2>4. n \in Neighbors /\ gap \in Bytes
      BY <1>2
    <2>5. Moved(n) /\ Becomes(NeighborTable') /\ Table!BeaconHeard(n)
      BY <1>1, <2>1, <2>3, <2>4, ReceiveStep
    <2> QED BY <1>3, <2>2, <2>4, <2>5 DEF LinkStep
  <1>5. ASSUME NEW n \in world.neighbors, insertNeighbor(n)
        PROVE  IInv' /\ LinkStep
    <2>1. world' = world /\ heard' = heard
      BY <1>5 DEF insertNeighbor, Becomes
    <2>2. n \in Neighbors
      BY <1>2
    <2>3. Moved(n) /\ Becomes(NeighborTable') /\ Table!insertNeighbor(n)
      BY <1>1, <1>5, <2>1, <2>2, InsertStep
    <2> QED BY <1>1, <1>3, <2>1, <2>2, <2>3 DEF LinkStep
  <1>6. ASSUME NEW n \in world.neighbors,
               \/ pinNeighbor(n) \/ unpinNeighbor(n)
               \/ txAck(n) \/ txNoAck(n) \/ clearDLQ(n)
        PROVE  IInv' /\ LinkStep
    <2>1. world' = world /\ heard' = heard
      BY <1>6 DEF pinNeighbor, unpinNeighbor, txAck, txNoAck, clearDLQ, OnEntry, Becomes
    <2>2. n \in Neighbors
      BY <1>2
    <2>3. /\ Moved(n) /\ Becomes(NeighborTable')
          /\ \/ LinksOf(NeighborTable)' = LinksOf(NeighborTable)
             \/ Table!pinNeighbor(n) \/ Table!unpinNeighbor(n) \/ Table!Transmitted(n)
      BY <1>1, <1>6, <2>1, <2>2, CommandStep
    <2>4. LinkStep
      BY <2>2, <2>3 DEF LinkStep
    <2> QED BY <1>1, <1>3, <2>1, <2>3, <2>4
  <1>7. ASSUME NeighborTable' = NeighborTable, world' = world
        PROVE  GoodTable(NeighborTable)' /\ LinkStep
    <2>1. GoodTable(NeighborTable)'
      BY <1>1, <1>7, MovedTable DEF Moved
    <2> QED BY <1>7, <2>1, LinksStay DEF LinkStep
  <1>8. CASE Send
    <2>1. prevSentIdx' \in Idx /\ waits' \in [Idx -> Nat] /\ Round'
      BY <1>1, <1>8, SendStep
    <2>2. world' = world /\ NeighborTable' = NeighborTable /\ heard' = heard
      BY <1>8 DEF Send
    <2> QED BY <1>1, <1>7, <2>1, <2>2 DEF IInv
  <1>9. CASE UNCHANGED vars
    <2>1. /\ world' = world /\ NeighborTable' = NeighborTable /\ prevSentIdx' = prevSentIdx
          /\ heard' = heard /\ waits' = waits
      BY <1>9 DEF vars
    <2>2. Round'
      BY <1>1, <2>1 DEF Round, Ahead
    <2> QED BY <1>1, <1>7, <2>1, <2>2 DEF IInv
  <1> QED BY <1>4, <1>5, <1>6, <1>8, <1>9 DEF Next

LEMMA InvKept == Spec => []IInv
  BY InitInv, StepInv, PTL DEF Spec

-----------------------------------------------------------------------------
(* Type correctness: every field of every entry keeps its width, and no    *)
(* window of beacons outgrows its length (BLQ_PKT_WINDOW,                  *)
(* LinkEstimatorP.nc:403).                                                 *)
THEOREM TypesKept == Spec => []TypeOK
  <1>1. IInv => TypeOK
    BY DEF IInv, GoodTable, GoodEntry, TypeOK
  <1> QED BY <1>1, InvKept, PTL

(* No neighbour has two slots, whatever is evicted, inserted or aged       *)
(* (findIdx, LinkEstimatorP.nc:190).                                       *)
THEOREM OneSlot == Spec => []OneSlotEach
  <1>1. IInv => OneSlotEach
    BY DEF IInv, GoodTable, Single, OneSlotEach, Is
  <1> QED BY <1>1, InvKept, PTL

(* Estimates stay in range at both widths of int: with 32 bits because an  *)
(* estimate that a wrapped count made too large has decayed before the     *)
(* counts can wrap again (updateDEETX, LinkEstimatorP.nc:295).             *)
THEOREM EstimatesBounded == Spec => []EetxBounded
  <1>1. IInv => EetxBounded
    BY DEF IInv, GoodTable, GoodEntry, CountsOK, EetxBounded
  <1> QED BY <1>1, InvKept, PTL

(* Every mature neighbour is in a footer at least once in as many beacons  *)
(* as there are slots (the round robin of LinkEstimatorP.nc:103).          *)
THEOREM RoundRobin == Spec => []FooterFair
  <1>1. IInv => FooterFair
    <2> SUFFICES ASSUME IInv, world.room > 0, NEW i \in Idx
                 PROVE  waits[i] < NEIGHBOR_TABLE_SIZE
      BY DEF FooterFair
    <2>1. waits[i] \in Nat /\ waits[i] + Ahead(i) < NEIGHBOR_TABLE_SIZE
      BY DEF IInv, Round
    <2>2. Ahead(i) \in Nat /\ NEIGHBOR_TABLE_SIZE \in Nat
      BY FooterSlots, Sizes DEF IInv
    <2> QED BY <2>1, <2>2
  <1> QED BY <1>1, InvKept, PTL

(* On a mote an acknowledgement that completes a window without a loss     *)
(* never makes a link look worse (updateDEETX, LinkEstimatorP.nc:295).     *)
THEOREM AcksHelp == Spec => AckNeverHurts
  <1> DEFINE Kind == ~ world.wide =>
               \A n \in world.neighbors : \A i \in findIdx(n) :
                 LET e == NeighborTable[i]
                 IN /\ txAck(n)
                    /\ e.data_success = e.data_total
                       \/ (e.data_success > e.data_total /\ e.eetx > 0)
                    => NeighborTable'[i].eetx <= e.eetx
  <1>1. IInv => Kind
    <2> SUFFICES ASSUME IInv, ~ world.wide, NEW n, NEW i \in findIdx(n), txAck(n),
                        \/ NeighborTable[i].data_success = NeighborTable[i].data_total
                        \/ /\ NeighborTable[i].data_success > NeighborTable[i].data_total
                           /\ NeighborTable[i].eetx > 0
                 PROVE  NeighborTable'[i].eetx <= NeighborTable[i].eetx
      OBVIOUS
    <2>1. world \in Worlds /\ GoodTable(NeighborTable)
      BY DEF IInv
    <2>2. i \in Idx
      BY <2>1, Found
    <2>3. NeighborTable[i] \in Entry /\ CountsOK(NeighborTable[i])
      BY <2>1, <2>2 DEF GoodTable, GoodEntry
    <2>4. world.data /\ NeighborTable'[i] = Acked(NeighborTable[i])
      BY <2>2 DEF txAck, OnEntry, Becomes
    <2> QED BY <2>1, <2>3, <2>4, AckedEntry
  <1>2. IInv => [Kind]_vars
    BY <1>1
  <1> QED BY <1>2, InvKept, PTL DEF AckNeverHurts

(* The estimator implements LinkTable: a neighbour leaves only when        *)
(* another takes its slot, and never while it is pinned                    *)
(* (LinkEstimatorP.nc:216, :330).                                          *)
THEOREM EstimatorRefines == Spec => ImplementsLinkTable
  <1>1. Init => Table!Init
    <2> SUFFICES ASSUME Init PROVE LinksOf(NeighborTable) = << >>
      BY DEF Table!Init
    <2>1. \A i \in Idx : NeighborTable[i].flags = {}
      BY DEF Init, Blank
    <2>2. HeldIn(NeighborTable) = {}
      BY <2>1 DEF HeldIn
    <2>3. LinksOf(NeighborTable) = [n \in {} |-> LinksOf(NeighborTable)[n]]
      BY <2>1, <2>2, LinksAre DEF Single
    <2> QED BY <2>3
  <1>2. IInv /\ [Next]_vars => [Table!Next]_(LinksOf(NeighborTable))
    BY StepInv DEF LinkStep, Table!Next
  <1> QED BY <1>1, <1>2, InvKept, PTL DEF Spec, ImplementsLinkTable, Table!Spec

(* The table holds neighbours only, and never more of them than it has     *)
(* slots (findEmptyNeighborIdx, LinkEstimatorP.nc:203).                    *)
THEOREM LinksKept == Spec => []Table!LinksOK
  <1>1. IInv => Table!LinksOK
    <2> SUFFICES ASSUME IInv PROVE Table!LinksOK
      OBVIOUS
    <2> DEFINE l == LinksOf(NeighborTable)
    <2>1. GoodTable(NeighborTable)
      BY DEF IInv
    <2>2. l = [n \in HeldIn(NeighborTable) |-> l[n]] /\ DOMAIN l = HeldIn(NeighborTable)
      BY <2>1, LinksAre DEF GoodTable
    <2>3. \A n \in HeldIn(NeighborTable) : n \in Neighbors /\ l[n] \in Table!Link
      BY <2>1, LinksType
    <2>4. Table!Cardinality(DOMAIN l) <= NEIGHBOR_TABLE_SIZE
      BY <2>1, RoomIsASlot
    <2> HIDE DEF l
    <2>5. DOMAIN l \subseteq Neighbors /\ l \in [DOMAIN l -> Table!Link]
      BY <2>2, <2>3
    <2> QED BY <2>4, <2>5 DEF Table!LinksOK, l
  <1> QED BY <1>1, InvKept, PTL

(* A neighbour that is pinned is still there after any step: no beacon, no *)
(* forced insertion and no estimate takes its slot (PINNED_ENTRY,          *)
(* LinkEstimator.h:79).                                                    *)
THEOREM PinsHold == Spec => Table!PinnedStay
  <1> DEFINE l == LinksOf(NeighborTable)
             k == LinksOf(NeighborTable)'
  <1>1. ASSUME LinkStep, NEW m \in DOMAIN l, l[m].pinned
        PROVE  m \in DOMAIN k
    <2>1. ASSUME NEW n, NEW out, m \notin out, k = Table!Enter(l, n, out)
          PROVE  m \in DOMAIN k
      BY <2>1 DEF Table!Enter
    <2>2. ASSUME NEW n, NEW S, \A v \in S : ~ l[v].pinned,
                 NEW o \in Table!Replacing(l, n, S), k = o.links
          PROVE  m \in DOMAIN k
      <3>1. PICK v \in S : o = Table!Outcome(Table!Enter(l, n, {v}), {v})
        BY <2>2 DEF Table!Replacing
      <3>2. k = Table!Enter(l, n, {v}) /\ m \notin {v}
        BY <1>1, <2>2, <3>1 DEF Table!Outcome
      <3> QED BY <2>1, <3>2
    <2>3. \A x : \A v \in Table!Worst(l, x) \union Table!Unripe(l) : ~ l[v].pinned
      BY DEF Table!Worst, Table!Ripe, Table!Unripe
    <2>4. ASSUME NEW n, NEW o \in {Table!Outcome(Table!Enter(l, n, {}), {}),
                                            Table!Outcome(l, {})}, k = o.links
          PROVE  m \in DOMAIN k
      <3>1. k = Table!Enter(l, n, {}) \/ k = l
        BY <2>4 DEF Table!Outcome
      <3> QED BY <2>1, <3>1
    <2>5. ASSUME NEW n, NEW recommended \in BOOLEAN,
                 NEW o \in Table!Admitted(l, n, recommended), k = o.links
          PROVE  m \in DOMAIN k
      <3>1. \/ o \in Table!Replacing(l, n, Table!Worst(l, EVICT_EETX_THRESHOLD))
            \/ o \in Table!Replacing(l, n, Table!Unripe(l))
            \/ o = Table!Outcome(Table!Enter(l, n, {}), {}) \/ o = Table!Outcome(l, {})
        BY DEF Table!Admitted
      <3> QED BY <2>2, <2>3, <2>4, <2>5, <3>1
    <2>6. ASSUME NEW n, NEW o \in Table!Inserted(l, n), k = o.links
          PROVE  m \in DOMAIN k
      <3>1. \/ o \in Table!Replacing(l, n, Table!Worst(l, 0))
            \/ o = Table!Outcome(Table!Enter(l, n, {}), {}) \/ o = Table!Outcome(l, {})
        BY DEF Table!Inserted
      <3> QED BY <2>2, <2>3, <2>4, <2>6, <3>1
    <2>7. ASSUME NEW n, NEW mature, Table!Estimated(n, mature)
          PROVE  m \in DOMAIN k
      BY <2>7 DEF Table!Estimated
    <2>8. ASSUME NEW n, NEW p, k = Table!Repinned(l, n, p)
          PROVE  m \in DOMAIN k
      BY <2>8 DEF Table!Repinned
    <2>9. CASE k = l
      BY <2>9
    <2>10. CASE \E n \in Neighbors : Table!BeaconHeard(n)
      BY <2>5, <2>7, <2>9, <2>10 DEF Table!BeaconHeard
    <2>11. CASE \E n \in Neighbors : Table!insertNeighbor(n)
      BY <2>6, <2>11 DEF Table!insertNeighbor
    <2>12. CASE \E n \in Neighbors : Table!pinNeighbor(n) \/ Table!unpinNeighbor(n)
      BY <2>8, <2>12 DEF Table!pinNeighbor, Table!unpinNeighbor
    <2>13. CASE \E n \in Neighbors : Table!Transmitted(n)
      BY <2>7, <2>13 DEF Table!Transmitted
    <2> QED BY <1>1, <2>9, <2>10, <2>11, <2>12, <2>13 DEF LinkStep
  <1>2. IInv /\ [Next]_vars
          => [\A n \in DOMAIN l : l[n].pinned => n \in DOMAIN k]_l
    BY <1>1, StepInv
  <1> QED BY <1>2, InvKept, PTL DEF Spec, Table!PinnedStay
=============================================================================
