-------------------------- MODULE EDFQueue_proofs --------------------------
(***************************************************************************)
(* Proofs about EDFQueue for every queue size, set of deadlines and number *)
(* of arrivals: the queue is always sorted, and the circular arrays        *)
(* implement DeadlineQueue.                                                *)
(***************************************************************************)
EXTENDS EDFQueue, FiniteSetTheorems, WellFoundedInduction, TLAPS

-----------------------------------------------------------------------------
(* Arithmetic of the circular arrays. *)

(* The capacity is a positive number. *)
LEMMA SizeType == QUEUE_SIZE \in Nat /\ QUEUE_SIZE > 0
  BY QueueAssumption

(* Deadlines are numbers, and so is what a slot never written holds. *)
LEMMA DeadlineType == ASSUME NEW d \in Deadlines \union {0} PROVE d \in Nat
  BY QueueAssumption

(* A single subtraction computes the remainder of an index below two rounds. *)
LEMMA ModWrap ==
  \A x \in 0 .. 2 * QUEUE_SIZE - 1 :
    x % QUEUE_SIZE = IF x < QUEUE_SIZE THEN x ELSE x - QUEUE_SIZE
  <1> SUFFICES ASSUME NEW x \in 0 .. 2 * QUEUE_SIZE - 1
               PROVE  x % QUEUE_SIZE = IF x < QUEUE_SIZE THEN x ELSE x - QUEUE_SIZE
    OBVIOUS
  <1>1. CASE x < QUEUE_SIZE
    BY <1>1, SizeType
  <1>2. CASE x >= QUEUE_SIZE
    BY <1>2, SizeType
  <1> QED BY <1>1, <1>2, SizeType

(* The slot of the i-th position, without the remainder. *)
LEMMA SlotValue ==
  ASSUME NEW h \in Slots, NEW i \in 0 .. QUEUE_SIZE
  PROVE  /\ SlotFrom(h, i) = IF h + i < QUEUE_SIZE THEN h + i ELSE h + i - QUEUE_SIZE
         /\ SlotFrom(h, i) \in Slots
  <1>1. PICK x \in 0 .. 2 * QUEUE_SIZE - 1 : x = h + i
    BY SizeType DEF Slots
  <1>2. x % QUEUE_SIZE = IF x < QUEUE_SIZE THEN x ELSE x - QUEUE_SIZE
    BY ModWrap
  <1> QED BY <1>1, <1>2, SizeType DEF SlotFrom, Slots

(* The position of a slot, without the remainder. *)
LEMMA RankValue ==
  ASSUME NEW h \in Slots, NEW s \in Slots
  PROVE  /\ Rank(h, s) = IF s >= h THEN s - h ELSE s - h + QUEUE_SIZE
         /\ Rank(h, s) \in Slots
  <1>1. PICK x \in 0 .. 2 * QUEUE_SIZE - 1 : x = s - h + QUEUE_SIZE
    BY SizeType DEF Slots
  <1>2. x % QUEUE_SIZE = IF x < QUEUE_SIZE THEN x ELSE x - QUEUE_SIZE
    BY ModWrap
  <1> QED BY <1>1, <1>2, SizeType DEF Rank, Slots

(* Moving the head back by one position wraps at slot 0. *)
LEMMA HeadBackValue ==
  ASSUME NEW h \in Slots
  PROVE  /\ HeadBack(h) = IF h = 0 THEN QUEUE_SIZE - 1 ELSE h - 1
         /\ HeadBack(h) \in Slots
  <1>1. PICK x \in 0 .. 2 * QUEUE_SIZE - 1 : x = h + QUEUE_SIZE - 1
    BY SizeType DEF Slots
  <1>2. x % QUEUE_SIZE = IF x < QUEUE_SIZE THEN x ELSE x - QUEUE_SIZE
    BY ModWrap
  <1> QED BY <1>1, <1>2, SizeType DEF HeadBack, Slots

(* Positions and slots are in one-to-one correspondence. *)
LEMMA RankOfSlot ==
  ASSUME NEW h \in Slots, NEW i \in Slots
  PROVE  Rank(h, SlotFrom(h, i)) = i
  <1>1. /\ SlotFrom(h, i) = IF h + i < QUEUE_SIZE THEN h + i ELSE h + i - QUEUE_SIZE
        /\ SlotFrom(h, i) \in Slots
    BY SlotValue, SizeType DEF Slots
  <1>2. Rank(h, SlotFrom(h, i)) = IF SlotFrom(h, i) >= h
                                  THEN SlotFrom(h, i) - h
                                  ELSE SlotFrom(h, i) - h + QUEUE_SIZE
    BY <1>1, RankValue
  <1>3. h \in Nat /\ i \in Nat /\ h < QUEUE_SIZE /\ i < QUEUE_SIZE /\ QUEUE_SIZE \in Nat
    BY SizeType DEF Slots
  <1> QED BY <1>1, <1>2, <1>3

(* A non-empty set of numbers has a least member. *)
LEMMA LeastNat ==
  ASSUME NEW T \in SUBSET Nat, T # {}
  PROVE  \E x \in T : \A y \in T : x <= y
  <1>1. \E x \in T : \A y \in T : ~ (<<y, x>> \in OpToRel(<, Nat))
    BY NatLessThanWellFounded, WFMin
  <1>2. PICK x \in T : \A y \in T : ~ (<<y, x>> \in OpToRel(<, Nat))
    BY <1>1
  <1>3. \A y \in T : ~ (y < x)
    BY <1>2 DEF OpToRel
  <1> QED BY <1>3

(* The insertion position separates the deadlines that are not later from
   the first one that is. *)
LEMMA PositionProperties ==
  ASSUME TypeOK, NEW d \in Deadlines
  PROVE  /\ Position(d) \in 0 .. size
         /\ \A i \in 0 .. Position(d) - 1 : deadlines[Slot(i)] <= d
         /\ Position(d) < size => d < deadlines[Slot(Position(d))]
  <1>1. size \in Nat /\ size <= QUEUE_SIZE
    BY SizeType DEF TypeOK
  <1>2. Later(d) \in SUBSET Nat /\ Later(d) # {}
    BY <1>1 DEF Later
  <1>3. Position(d) \in Later(d) /\ \A i \in Later(d) : Position(d) <= i
    BY <1>2, LeastNat DEF Position
  <1>4. Position(d) \in 0 .. size
    BY <1>1, <1>3 DEF Later
  <1>5. Position(d) < size => d < deadlines[Slot(Position(d))]
    BY <1>1, <1>3 DEF Later
  <1>6. ASSUME NEW i \in 0 .. Position(d) - 1
        PROVE  deadlines[Slot(i)] <= d
    <2>1. i \in 0 .. size - 1 /\ i \notin Later(d)
      BY <1>1, <1>3, <1>4
    <2>2. ~ (d < deadlines[Slot(i)])
      BY <2>1 DEF Later
    <2>3. Slot(i) \in Slots
      BY <1>1, <2>1, SlotValue, SizeType DEF Slot, TypeOK
    <2>4. deadlines \in [Slots -> Deadlines \union {0}]
      BY DEF TypeOK
    <2>5. deadlines[Slot(i)] \in Nat /\ d \in Nat
      BY <2>3, <2>4, DeadlineType
    <2> QED BY <2>2, <2>5
  <1> QED BY <1>4, <1>5, <1>6

-----------------------------------------------------------------------------
(* The effect of each command on the elements, position by position. *)

(* Enqueue puts the new element at the insertion position; the elements from
   there on are one position further, whichever way they were moved. *)
LEMMA EnqueueElements ==
  ASSUME TypeOK, NEW v, NEW d \in Deadlines, Enqueue(v, d)
  PROVE  \A i \in 0 .. size :
           Element(i)' = IF i < Position(d) THEN Element(i)
                         ELSE IF i = Position(d) THEN [val |-> v, deadline |-> d]
                         ELSE Element(i - 1)
  <1> DEFINE p == Position(d)
  <1>1. size \in Nat /\ size < QUEUE_SIZE /\ p \in 0 .. size /\ head \in Slots
    BY SizeType, PositionProperties DEF TypeOK, Enqueue
  <1>2. queue \in [Slots -> 0 .. arrivals - 1 \union {NULL}]
        /\ deadlines \in [Slots -> Deadlines \union {0}]
    BY DEF TypeOK
  <1> HIDE DEF p
  <1> SUFFICES ASSUME NEW i \in 0 .. size
               PROVE  Element(i)' = IF i < p THEN Element(i)
                                    ELSE IF i = p THEN [val |-> v, deadline |-> d]
                                    ELSE Element(i - 1)
    BY DEF p
  <1>3. i \in Slots /\ i \in 0 .. QUEUE_SIZE /\ Slot(i) \in Slots
    BY <1>1, SizeType, SlotValue DEF Slots, Slot
  <1>4. CASE EnqueueFront(v, d)
    <2>1. p = 0 /\ head' = HeadBack(head) /\ HeadBack(head) \in Slots
          /\ head' = IF head = 0 THEN QUEUE_SIZE - 1 ELSE head - 1
      BY <1>1, <1>4, HeadBackValue DEF EnqueueFront, p
    <2>2. /\ queue' = [queue EXCEPT ![head'] = v]
          /\ deadlines' = [deadlines EXCEPT ![head'] = d]
      BY <1>4, <2>1 DEF EnqueueFront
    <2>3. Slot(i)' = IF head' + i < QUEUE_SIZE THEN head' + i ELSE head' + i - QUEUE_SIZE
      BY <1>3, <2>1, SlotValue DEF Slot
    <2>4. CASE i = 0
      <3>1. Slot(i)' = head'
        BY <1>1, <2>1, <2>3, <2>4, SizeType DEF Slots
      <3> QED BY <1>2, <2>1, <2>2, <2>4, <3>1 DEF Element
    <2>5. CASE i # 0
      <3>1. i - 1 \in 0 .. QUEUE_SIZE
        BY <1>1, <2>5, SizeType
      <3>2. /\ Slot(i - 1) = IF head + (i - 1) < QUEUE_SIZE THEN head + (i - 1)
                             ELSE head + (i - 1) - QUEUE_SIZE
            /\ Slot(i - 1) \in Slots
        BY <1>1, <3>1, SlotValue DEF Slot
      <3>3. Slot(i)' = Slot(i - 1) /\ Slot(i - 1) # head'
        BY <1>1, <2>1, <2>3, <2>5, <3>2, SizeType DEF Slots
      <3>4. queue'[Slot(i - 1)] = queue[Slot(i - 1)]
            /\ deadlines'[Slot(i - 1)] = deadlines[Slot(i - 1)]
        BY <1>2, <2>2, <3>2, <3>3
      <3> QED BY <1>1, <2>1, <2>5, <3>3, <3>4 DEF Element
    <2> QED BY <2>4, <2>5
  <1>5. CASE EnqueueBehind(v, d)
    <2>1. Slot(i)' = Slot(i)
      BY <1>5 DEF EnqueueBehind, Slot
    <2>2. Rank(head, Slot(i)) = i
      BY <1>1, <1>3, RankOfSlot DEF Slot
    <2>3. /\ queue' = Shifted(queue, p, v)
          /\ deadlines' = Shifted(deadlines, p, d)
      BY <1>5 DEF EnqueueBehind, p
    <2>4. queue'[Slot(i)] = IF i = p THEN v ELSE IF p < i /\ i <= size
                            THEN queue[Slot(i - 1)] ELSE queue[Slot(i)]
      BY <1>3, <2>2, <2>3 DEF Shifted
    <2>5. deadlines'[Slot(i)] = IF i = p THEN d ELSE IF p < i /\ i <= size
                                THEN deadlines[Slot(i - 1)] ELSE deadlines[Slot(i)]
      BY <1>3, <2>2, <2>3 DEF Shifted
    <2> QED BY <1>1, <2>1, <2>4, <2>5 DEF Element
  <1> QED BY <1>4, <1>5 DEF Enqueue

(* Dequeue drops the first element; the others move one position up. *)
LEMMA DequeueElements ==
  ASSUME TypeOK, Dequeue, size > 0
  PROVE  /\ ret' = Element(0).val
         /\ \A i \in 0 .. size - 2 : Element(i)' = Element(i + 1)
  <1>1. size \in Nat /\ size <= QUEUE_SIZE /\ head \in Slots
    BY SizeType DEF TypeOK
  <1>2. Slot(0) = head
    BY <1>1, SlotValue, SizeType DEF Slot, Slots
  <1>3. head' = SlotFrom(head, 1) /\ UNCHANGED <<queue, deadlines>> /\ ret' = queue[head]
    BY DEF Dequeue, SlotFrom
  <1>4. /\ head' = IF head + 1 < QUEUE_SIZE THEN head + 1 ELSE head + 1 - QUEUE_SIZE
        /\ head' \in Slots
    BY <1>1, <1>3, SlotValue, SizeType
  <1>5. ASSUME NEW i \in 0 .. size - 2
        PROVE  Element(i)' = Element(i + 1)
    <2>1. i \in 0 .. QUEUE_SIZE /\ i + 1 \in 0 .. QUEUE_SIZE
      BY <1>1, SizeType
    <2>2. Slot(i)' = IF head' + i < QUEUE_SIZE THEN head' + i ELSE head' + i - QUEUE_SIZE
      BY <1>4, <2>1, SlotValue DEF Slot
    <2>3. Slot(i + 1) = IF head + (i + 1) < QUEUE_SIZE THEN head + (i + 1)
                        ELSE head + (i + 1) - QUEUE_SIZE
      BY <1>1, <2>1, SlotValue DEF Slot
    <2>4. Slot(i)' = Slot(i + 1)
      BY <1>1, <1>4, <2>2, <2>3, SizeType DEF Slots
    <2> QED BY <1>3, <2>4 DEF Element
  <1> QED BY <1>2, <1>3, <1>5 DEF Element

-----------------------------------------------------------------------------
(* The inductive invariant: the types, the order of the elements, and that
   every live position holds an element that arrived. *)
Live == \A i \in 0 .. size - 1 : Element(i).val \in 0 .. arrivals - 1

Inv == TypeOK /\ Live /\ Sorted

(* The empty queue satisfies the invariant. *)
LEMMA InitInv == Init => Inv
  <1> SUFFICES ASSUME Init PROVE Inv
    OBVIOUS
  <1>1. size = 0 /\ head = 0 /\ arrivals = 0 /\ ret = NULL
        /\ queue = [s \in Slots |-> NULL] /\ deadlines = [s \in Slots |-> 0]
    BY DEF Init
  <1>2. TypeOK
    BY <1>1, QueueAssumption, SizeType DEF TypeOK, Slots
  <1>3. Live /\ Sorted
    BY <1>1 DEF Live, Sorted
  <1> QED BY <1>2, <1>3 DEF Inv

(* Enqueue keeps the arrays, the indices and the arrival numbers well-typed. *)
LEMMA EnqueueTypeOK ==
  ASSUME TypeOK, NEW d \in Deadlines, Enqueue(arrivals, d),
         arrivals < MaxArrivals, arrivals' = arrivals + 1
  PROVE  TypeOK'
  <1>1. arrivals \in Nat /\ arrivals' \in 0 .. MaxArrivals /\ MaxArrivals \in Nat
    BY QueueAssumption DEF TypeOK
  <1>2. 0 .. arrivals - 1 \subseteq 0 .. arrivals' - 1 /\ arrivals \in 0 .. arrivals' - 1
    BY <1>1
  <1>3. size \in Nat /\ size < QUEUE_SIZE /\ Position(d) \in 0 .. size /\ head \in Slots
        /\ size' = size + 1
    BY SizeType, PositionProperties DEF TypeOK, Enqueue
  <1>4. size' \in 0 .. QUEUE_SIZE
    BY <1>3, SizeType
  <1>5. queue \in [Slots -> 0 .. arrivals' - 1 \union {NULL}]
        /\ deadlines \in [Slots -> Deadlines \union {0}]
    BY <1>2 DEF TypeOK
  <1>6. CASE EnqueueFront(arrivals, d)
    <2>1. head' \in Slots
      BY <1>3, <1>6, HeadBackValue DEF EnqueueFront
    <2>2. queue' \in [Slots -> 0 .. arrivals' - 1 \union {NULL}]
          /\ deadlines' \in [Slots -> Deadlines \union {0}]
      BY <1>2, <1>5, <1>6 DEF EnqueueFront
    <2> QED BY <1>1, <1>4, <2>1, <2>2 DEF TypeOK, Enqueue
  <1>7. CASE EnqueueBehind(arrivals, d)
    <2>1. ASSUME NEW s \in Slots, NEW S, NEW f \in [Slots -> S], NEW v \in S
          PROVE  Shifted(f, Position(d), v)[s] \in S
      <3>1. Rank(head, s) \in Slots
        BY <1>3, RankValue
      <3>2. CASE Position(d) < Rank(head, s) /\ Rank(head, s) <= size
        <4>1. Rank(head, s) - 1 \in 0 .. QUEUE_SIZE
          BY <1>3, <3>1, <3>2, SizeType DEF Slots
        <4>2. Slot(Rank(head, s) - 1) \in Slots
          BY <1>3, <4>1, SlotValue DEF Slot
        <4> QED BY <4>2 DEF Shifted
      <3> QED BY <3>2 DEF Shifted
    <2>2. Shifted(queue, Position(d), arrivals) \in [Slots -> 0 .. arrivals' - 1 \union {NULL}]
      BY <1>2, <1>5, <2>1 DEF Shifted
    <2>3. Shifted(deadlines, Position(d), d) \in [Slots -> Deadlines \union {0}]
      BY <1>5, <2>1 DEF Shifted
    <2> QED BY <1>1, <1>3, <1>4, <1>7, <2>2, <2>3 DEF TypeOK, Enqueue, EnqueueBehind
  <1> QED BY <1>6, <1>7 DEF Enqueue

(* Enqueue keeps the elements sorted: the insertion position has no later
   deadline before it and no deadline that is not later from it on. *)
LEMMA EnqueueSorted ==
  ASSUME Inv, NEW d \in Deadlines, Enqueue(arrivals, d),
         arrivals < MaxArrivals, arrivals' = arrivals + 1
  PROVE  Live' /\ Sorted'
  <1> DEFINE p == Position(d)
             new == [val |-> arrivals, deadline |-> d]
  <1>1. /\ size \in Nat /\ size' = size + 1 /\ size < QUEUE_SIZE
        /\ p \in 0 .. size /\ arrivals \in Nat /\ d \in Nat /\ head \in Slots
    BY SizeType, PositionProperties, DeadlineType DEF Inv, TypeOK, Enqueue
  <1>2. \A i \in 0 .. size : Element(i)' = IF i < p THEN Element(i)
                                           ELSE IF i = p THEN new ELSE Element(i - 1)
    BY EnqueueElements DEF Inv
  <1>3. \A i \in 0 .. size - 1 : Element(i).val \in 0 .. arrivals - 1
    BY DEF Inv, Live
  <1>4. \A i \in 0 .. size - 1 : Element(i).deadline \in Nat
    <2> SUFFICES ASSUME NEW i \in 0 .. size - 1
                 PROVE  Element(i).deadline \in Nat
      OBVIOUS
    <2>1. Slot(i) \in Slots
      BY <1>1, SlotValue, SizeType DEF Slot
    <2>2. deadlines[Slot(i)] \in Deadlines \union {0}
      BY <2>1 DEF Inv, TypeOK
    <2> QED BY <2>2, DeadlineType DEF Element
  <1>5. \A i \in 0 .. p - 1 : Element(i).deadline <= d
    BY PositionProperties DEF Inv, Element
  <1>6. p < size => d < Element(p).deadline
    BY PositionProperties DEF Inv, Element
  <1>7. \A i, j \in 0 .. size - 1 : i < j => DQ!Before(Element(i), Element(j))
    BY DEF Inv, Sorted
  <1> HIDE DEF p
  <1>8. \A j \in p .. size - 1 : d < Element(j).deadline
    <2> SUFFICES ASSUME NEW j \in p .. size - 1 PROVE d < Element(j).deadline
      OBVIOUS
    <2>1. CASE j = p
      BY <1>1, <1>6, <2>1
    <2>2. CASE j # p
      <3>1. p \in 0 .. size - 1 /\ j \in 0 .. size - 1 /\ p < j
        BY <1>1, <2>2
      <3>2. DQ!Before(Element(p), Element(j))
        BY <1>7, <3>1
      <3> QED BY <1>1, <1>4, <1>6, <3>1, <3>2 DEF DQ!Before
    <2> QED BY <2>1, <2>2
  <1>9. Live'
    <2> SUFFICES ASSUME NEW i \in 0 .. size
                 PROVE  Element(i)'.val \in 0 .. arrivals
      BY <1>1 DEF Live
    <2> QED BY <1>1, <1>2, <1>3
  <1>10. Sorted'
    <2> SUFFICES ASSUME NEW i \in 0 .. size, NEW j \in 0 .. size, i < j
                 PROVE  DQ!Before(Element(i)', Element(j)')
      BY <1>1 DEF Sorted, DQ!Before
    <2>1. CASE j < p
      <3>1. i \in 0 .. size - 1 /\ j \in 0 .. size - 1 /\ i < p
        BY <1>1, <2>1
      <3> QED BY <1>2, <1>7, <2>1, <3>1
    <2>2. CASE j = p
      <3>1. i \in 0 .. size - 1 /\ i \in 0 .. p - 1 /\ i < p
        BY <1>1, <2>2
      <3>2. Element(i)' = Element(i) /\ Element(j)' = new
        BY <1>1, <1>2, <2>2, <3>1
      <3>3. Element(i).val < arrivals /\ Element(i).deadline <= d
            /\ Element(i).deadline \in Nat
        BY <1>1, <1>3, <1>4, <1>5, <3>1
      <3> QED BY <1>1, <3>2, <3>3 DEF DQ!Before
    <2>3. CASE p < j /\ i < p
      <3>1. i \in 0 .. size - 1 /\ j - 1 \in 0 .. size - 1 /\ i < j - 1 /\ ~ (j < p) /\ j # p
        BY <1>1, <2>3
      <3>2. Element(i)' = Element(i) /\ Element(j)' = Element(j - 1)
        BY <1>2, <2>3, <3>1
      <3> QED BY <1>7, <3>1, <3>2
    <2>4. CASE p < j /\ i = p
      <3>1. j - 1 \in p .. size - 1 /\ ~ (j < p) /\ j # p /\ ~ (i < p)
        BY <1>1, <2>4
      <3>2. Element(i)' = new /\ Element(j)' = Element(j - 1)
        BY <1>2, <2>4, <3>1
      <3>3. d < Element(j - 1).deadline
        BY <1>8, <3>1
      <3> QED BY <3>2, <3>3 DEF DQ!Before
    <2>5. CASE p < j /\ p < i
      <3>1. i - 1 \in 0 .. size - 1 /\ j - 1 \in 0 .. size - 1 /\ i - 1 < j - 1
            /\ ~ (j < p) /\ j # p /\ ~ (i < p) /\ i # p
        BY <1>1, <2>5
      <3>2. Element(i)' = Element(i - 1) /\ Element(j)' = Element(j - 1)
        BY <1>2, <3>1
      <3> QED BY <1>7, <3>1, <3>2
    <2> QED BY <1>1, <2>1, <2>2, <2>3, <2>4, <2>5
  <1> QED BY <1>9, <1>10

(* Dequeue keeps the invariant: the elements that stay keep their order. *)
LEMMA DequeueInv ==
  ASSUME Inv, Dequeue
  PROVE  Inv'
  <1>1. /\ size \in 0 .. QUEUE_SIZE /\ head \in Slots /\ arrivals \in Nat
        /\ UNCHANGED <<queue, deadlines, arrivals>>
    BY DEF Inv, TypeOK, Dequeue
  <1>2. ret' \in 0 .. arrivals - 1 \union {NULL}
    BY <1>1 DEF Inv, TypeOK, Dequeue
  <1>3. CASE size > 0
    <2>1. head' \in Slots /\ size' = size - 1 /\ size' \in 0 .. QUEUE_SIZE
      <3>1. head' = SlotFrom(head, 1) /\ size' = size - 1
        BY <1>3 DEF Dequeue, SlotFrom
      <3> QED BY <1>1, <1>3, <3>1, SlotValue, SizeType
    <2>2. TypeOK'
      BY <1>1, <1>2, <2>1 DEF Inv, TypeOK
    <2>3. \A i \in 0 .. size - 2 : Element(i)' = Element(i + 1)
      BY <1>3, DequeueElements DEF Inv
    <2>4. Live'
      <3> SUFFICES ASSUME NEW i \in 0 .. size - 2
                   PROVE  Element(i)'.val \in 0 .. arrivals - 1
        BY <1>1, <2>1 DEF Live
      <3>1. i + 1 \in 0 .. size - 1
        BY <1>1, SizeType
      <3> QED BY <2>3, <3>1 DEF Inv, Live
    <2>5. Sorted'
      <3> SUFFICES ASSUME NEW i \in 0 .. size - 2, NEW j \in 0 .. size - 2, i < j
                   PROVE  DQ!Before(Element(i)', Element(j)')
        BY <1>1, <2>1 DEF Sorted, DQ!Before
      <3>1. i + 1 \in 0 .. size - 1 /\ j + 1 \in 0 .. size - 1 /\ i + 1 < j + 1
        BY <1>1, SizeType
      <3> QED BY <2>3, <3>1 DEF Inv, Sorted
    <2> QED BY <2>2, <2>4, <2>5 DEF Inv
  <1>4. CASE size = 0
    <2>1. UNCHANGED <<head, size>>
      BY <1>4 DEF Dequeue
    <2> QED BY <1>1, <1>2, <1>4, <2>1 DEF Inv, TypeOK, Live, Sorted
  <1> QED BY <1>1, <1>3, <1>4, SizeType

(* Every command of the queue keeps the invariant. *)
LEMMA NextInv == Inv /\ [Next]_vars => Inv'
  <1> SUFFICES ASSUME Inv, [Next]_vars PROVE Inv'
    OBVIOUS
  <1>1. CASE Arrive
    <2>1. ASSUME NEW d \in Deadlines, Enqueue(arrivals, d) PROVE Inv'
      BY <1>1, <2>1, EnqueueTypeOK, EnqueueSorted DEF Arrive, Inv
    <2>2. CASE EnqueueFull
      <3>1. arrivals' \in 0 .. MaxArrivals /\ arrivals \in Nat /\ arrivals' = arrivals + 1
        BY <1>1, QueueAssumption DEF Arrive, Inv, TypeOK
      <3>2. 0 .. arrivals - 1 \subseteq 0 .. arrivals' - 1
        BY <3>1
      <3>3. ret' = FAIL /\ UNCHANGED <<queue, deadlines, head, size>>
        BY <2>2 DEF EnqueueFull
      <3>4. TypeOK'
        BY <3>1, <3>2, <3>3 DEF Inv, TypeOK
      <3>5. \A i : Element(i)' = Element(i)
        BY <3>3 DEF Element, Slot
      <3>6. Live' /\ Sorted'
        BY <3>2, <3>3, <3>5 DEF Inv, Live, Sorted
      <3> QED BY <3>4, <3>6 DEF Inv
    <2> QED BY <1>1, <2>1, <2>2 DEF Arrive
  <1>2. CASE Dequeue
    BY <1>2, DequeueInv
  <1>3. CASE UNCHANGED vars
    BY <1>3 DEF vars, Inv, TypeOK, Live, Sorted, Element, Slot
  <1> QED BY <1>1, <1>2, <1>3 DEF Next

(* The head of the ring buffer of EDFQueueC.nc always names a slot, its size never
   exceeds the arrays, and dequeue answers with an element that was enqueued. *)
THEOREM TypesKept == Spec => []TypeOK
  <1>1. Inv => TypeOK
    BY DEF Inv
  <1> QED BY <1>1, InitInv, NextInv, PTL DEF Spec

(* The send queue of EDFQueueC.nc is sorted by deadline, first come first served
   among equals, whatever its capacity. *)
THEOREM QueueSorted == Spec => []Sorted
  <1>1. Inv => Sorted
    BY DEF Inv
  <1> QED BY <1>1, InitInv, NextInv, PTL DEF Spec

-----------------------------------------------------------------------------
(* Refinement of DeadlineQueue. *)

(* Distinct positions hold distinct elements. *)
LEMMA ElementsDistinct ==
  ASSUME Inv, NEW i \in 0 .. size - 1, NEW j \in 0 .. size - 1, Element(i) = Element(j)
  PROVE  i = j
  <1>1. size \in Nat
    BY SizeType DEF Inv, TypeOK
  <1>2. \A k \in 0 .. size - 1 : /\ Element(k).val \in Nat
                                 /\ Element(k).deadline \in Nat
    <2> SUFFICES ASSUME NEW k \in 0 .. size - 1
                 PROVE  Element(k).val \in Nat /\ Element(k).deadline \in Nat
      OBVIOUS
    <2>1. Slot(k) \in Slots
      BY <1>1, SlotValue, SizeType DEF Slot, Inv, TypeOK
    <2>2. deadlines[Slot(k)] \in Deadlines \union {0}
      BY <2>1 DEF Inv, TypeOK
    <2>3. Element(k).val \in 0 .. arrivals - 1
      BY DEF Inv, Live
    <2> QED BY <2>2, <2>3, DeadlineType DEF Element
  <1>3. ~ DQ!Before(Element(i), Element(j))
    BY <1>2 DEF DQ!Before
  <1>4. ~ DQ!Before(Element(j), Element(i))
    BY <1>2 DEF DQ!Before
  <1> QED BY <1>1, <1>3, <1>4 DEF Inv, Sorted

(* The abstract queue holds as many elements as the code counts. *)
LEMMA ContentSize ==
  ASSUME Inv
  PROVE  Cardinality(Content) = size
  <1> DEFINE S == 0 .. size - 1
             f == [i \in S |-> Element(i)]
  <1>1. size \in Nat
    BY SizeType DEF Inv, TypeOK
  <1>2. IsFiniteSet(S) /\ Cardinality(S) = size
    BY <1>1, FS_Interval
  <1>3. f \in Surjection(S, Content)
    BY DEF Surjection, Content
  <1>4. f \in Injection(S, Content)
    BY <1>3, ElementsDistinct DEF Injection, IsInjective, Surjection
  <1> HIDE DEF S, f
  <1> QED BY <1>2, <1>3, <1>4, FS_Surjection

(* The two modules mean the same by Cardinality. *)
LEMMA SameCardinality == \A S : DQ!Cardinality(S) = Cardinality(S)
  BY DEF DQ!Cardinality, Cardinality

(* The empty queue is the empty abstract queue. *)
LEMMA InitRefines == Init => DQ!Init
  BY DEF Init, DQ!Init, Content

(* An enqueue of the code adds exactly the new element to the abstract queue. *)
LEMMA EnqueueRefines ==
  ASSUME Inv, NEW d \in Deadlines, Enqueue(arrivals, d),
         arrivals < MaxArrivals, arrivals' = arrivals + 1
  PROVE  DQ!Enqueue(d)
  <1> DEFINE p == Position(d)
             new == [val |-> arrivals, deadline |-> d]
  <1>1. size \in Nat /\ size' = size + 1 /\ size < QUEUE_SIZE /\ p \in 0 .. size
    BY SizeType, PositionProperties DEF Inv, TypeOK, Enqueue
  <1>2. \A i \in 0 .. size : Element(i)' = IF i < p THEN Element(i)
                                           ELSE IF i = p THEN new ELSE Element(i - 1)
    BY EnqueueElements DEF Inv
  <1> HIDE DEF p
  <1>3. Content' = {Element(i)' : i \in 0 .. size}
    BY <1>1 DEF Content
  <1>4. Content' \subseteq Content \union {new}
    <2> SUFFICES ASSUME NEW i \in 0 .. size
                 PROVE  Element(i)' \in Content \union {new}
      BY <1>3
    <2>1. CASE i < p
      BY <1>1, <1>2, <2>1 DEF Content
    <2>2. CASE i > p
      <3>1. i - 1 \in 0 .. size - 1 /\ ~ (i < p) /\ i # p
        BY <1>1, <2>2
      <3> QED BY <1>2, <3>1 DEF Content
    <2>3. CASE i = p
      BY <1>1, <1>2, <2>3
    <2> QED BY <1>1, <2>1, <2>2, <2>3
  <1>5. Content \subseteq Content'
    <2> SUFFICES ASSUME NEW i \in 0 .. size - 1
                 PROVE  Element(i) \in Content'
      BY DEF Content
    <2>1. CASE i < p
      <3>1. i \in 0 .. size /\ Element(i)' = Element(i)
        BY <1>1, <1>2, <2>1
      <3> QED BY <1>3, <3>1
    <2>2. CASE ~ (i < p)
      <3>1. i + 1 \in 0 .. size /\ ~ (i + 1 < p) /\ i + 1 # p /\ (i + 1) - 1 = i
        BY <1>1, <2>2
      <3>2. Element(i + 1)' = Element(i)
        BY <1>2, <3>1
      <3> QED BY <1>3, <3>1, <3>2
    <2> QED BY <2>1, <2>2
  <1>6. new \in Content'
    <2>1. PICK k \in 0 .. size : k = p
      BY <1>1
    <2>2. Element(k)' = new
      BY <1>1, <1>2, <2>1
    <2> QED BY <1>3, <2>2
  <1>7. Content' = Content \union {new}
    BY <1>4, <1>5, <1>6
  <1>8. DQ!Cardinality(Content) < QUEUE_SIZE
    BY <1>1, ContentSize, SameCardinality
  <1>9. ret' = SUCCESS
    BY DEF Enqueue
  <1> QED BY <1>7, <1>8, <1>9 DEF DQ!Enqueue

(* A dequeue of the code takes the abstract queue's earliest element. *)
LEMMA DequeueRefines ==
  ASSUME Inv, Dequeue
  PROVE  DQ!DequeueFirst \/ DQ!DequeueEmpty
  <1>1. /\ size \in Nat /\ head \in Slots /\ arrivals \in Nat
        /\ UNCHANGED <<queue, deadlines, arrivals>>
    BY SizeType DEF Inv, TypeOK, Dequeue
  <1>2. CASE size > 0
    <2> DEFINE x == Element(0)
    <2>1. size' = size - 1 /\ ret' = x.val
      BY <1>2, DequeueElements DEF Inv, Dequeue
    <2>2. \A i \in 0 .. size - 2 : Element(i)' = Element(i + 1)
      BY <1>2, DequeueElements DEF Inv
    <2>3. x \in Content
      BY <1>1, <1>2 DEF Content
    <2>4. Content' = {Element(i)' : i \in 0 .. size - 2}
      BY <1>1, <2>1 DEF Content
    <2>5. ASSUME NEW y \in Content \ {x}
          PROVE  DQ!Before(x, y) /\ y \in Content'
      <3>1. PICK i \in 0 .. size - 1 : y = Element(i)
        BY DEF Content
      <3>2. i # 0
        BY <3>1
      <3>3. 0 \in 0 .. size - 1 /\ 0 < i /\ i - 1 \in 0 .. size - 2 /\ (i - 1) + 1 = i
        BY <1>1, <1>2, <3>2
      <3>4. DQ!Before(x, y)
        BY <3>1, <3>3 DEF Inv, Sorted
      <3>5. Element(i - 1)' = y
        BY <2>2, <3>1, <3>3
      <3> QED BY <2>4, <3>3, <3>4, <3>5
    <2>6. Content' \subseteq Content \ {x}
      <3> SUFFICES ASSUME NEW i \in 0 .. size - 2
                   PROVE  Element(i)' \in Content \ {x}
        BY <2>4
      <3>1. i + 1 \in 0 .. size - 1 /\ 0 \in 0 .. size - 1 /\ i + 1 # 0
        BY <1>1
      <3>2. Element(i + 1) # x
        BY <3>1, ElementsDistinct
      <3> QED BY <2>2, <3>1, <3>2 DEF Content
    <2> HIDE DEF x
    <2>7. Content' = Content \ {x}
      BY <2>5, <2>6
    <2> QED BY <1>1, <2>1, <2>3, <2>5, <2>7 DEF DQ!DequeueFirst
  <1>3. CASE size = 0
    <2>1. UNCHANGED <<head, size>> /\ ret' \in 0 .. arrivals - 1 \union {NULL}
      BY <1>1, <1>3 DEF Inv, TypeOK, Dequeue
    <2>2. Content = {} /\ Content' = {}
      BY <1>3, <2>1 DEF Content
    <2> QED BY <1>1, <2>1, <2>2 DEF DQ!DequeueEmpty
  <1> QED BY <1>1, <1>2, <1>3

(* Every command of the code is a command of the abstract queue, or no change. *)
LEMMA NextRefines == Inv /\ [Next]_vars => [DQ!Next]_(DQ!vars)
  <1> SUFFICES ASSUME Inv, [Next]_vars PROVE DQ!Next \/ UNCHANGED DQ!vars
    OBVIOUS
  <1>1. CASE Arrive
    <2>1. ASSUME NEW d \in Deadlines, Enqueue(arrivals, d) PROVE DQ!Next
      BY <1>1, <2>1, EnqueueRefines DEF Arrive, DQ!Next
    <2>2. CASE EnqueueFull
      <3>1. /\ size >= QUEUE_SIZE /\ ret' = FAIL /\ arrivals' = arrivals + 1
            /\ UNCHANGED <<queue, deadlines, head, size>> /\ arrivals < MaxArrivals
        BY <1>1, <2>2 DEF EnqueueFull, Arrive
      <3>2. Content' = Content
        BY <3>1 DEF Content, Element, Slot
      <3>3. DQ!Cardinality(Content) >= QUEUE_SIZE
        BY <3>1, ContentSize, SameCardinality
      <3>4. PICK d \in Deadlines : TRUE
        BY <1>1 DEF Arrive
      <3> QED BY <3>1, <3>2, <3>3 DEF DQ!Enqueue, DQ!Next
    <2> QED BY <1>1, <2>1, <2>2 DEF Arrive
  <1>2. CASE Dequeue
    BY <1>2, DequeueRefines DEF DQ!Next
  <1>3. CASE UNCHANGED vars
    BY <1>3 DEF vars, DQ!vars, Content, Element, Slot
  <1> QED BY <1>1, <1>2, <1>3 DEF Next

(* The circular arrays of EDFQueueC.nc implement the abstract queue for every
   capacity: earliest deadline first, arrival order among equals, no loss, no
   refusal before the queue is full. *)
THEOREM QueueRefines == Spec => ServesEarliestDeadline
  BY InitInv, NextInv, InitRefines, NextRefines, PTL
     DEF Spec, ServesEarliestDeadline, DQ!Spec
=============================================================================
