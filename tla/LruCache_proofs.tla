-------------------------- MODULE LruCache_proofs --------------------------
(***************************************************************************)
(* Proofs about LruCache, the history of sent packets, for every capacity, *)
(* set of origins and set of sequence numbers: the signature of each of    *)
(* the last CACHE_SIZE packets inserted is there, so that a packet whose   *)
(* number fits the eight bits of a signature is found, and the circular    *)
(* array implements RecencyList.                                           *)
(***************************************************************************)
EXTENDS LruCache, DistinctSeqs

-----------------------------------------------------------------------------
(* The circular array. *)

(* What a slot holds once it was written. *)
Signatures == [origin : Origins, seqno : 0 .. 255]

(* What the i-th oldest entry holds. *)
Entry(i) == cache[Slot(i)]

(* The capacity is a positive number. *)
LEMMA SizeType == CACHE_SIZE \in Nat /\ CACHE_SIZE > 0
  <1>1. CACHE_SIZE \in Nat \ {0}
    BY CacheAssumption DEF CacheAssumption
  <1> QED BY <1>1

(* A single subtraction computes the remainder of an index below two rounds. *)
LEMMA ModWrap ==
  ASSUME NEW x \in 0 .. 2 * CACHE_SIZE - 1
  PROVE  x % CACHE_SIZE = IF x < CACHE_SIZE THEN x ELSE x - CACHE_SIZE
  <1>1. CASE x < CACHE_SIZE
    BY <1>1, SizeType
  <1>2. CASE x >= CACHE_SIZE
    BY <1>2, SizeType
  <1> QED BY <1>1, <1>2, SizeType

(* A slot counted from a first one, without the remainder. *)
LEMMA SlotValue ==
  ASSUME NEW f \in Slots, NEW i \in 0 .. CACHE_SIZE
  PROVE  /\ (f + i) % CACHE_SIZE = IF f + i < CACHE_SIZE THEN f + i ELSE f + i - CACHE_SIZE
         /\ (f + i) % CACHE_SIZE \in Slots
  <1>1. f \in Nat /\ f < CACHE_SIZE /\ i \in Nat /\ i <= CACHE_SIZE
    BY SizeType DEF Slots
  <1>2. PICK x \in 0 .. 2 * CACHE_SIZE - 1 : x = f + i
    BY <1>1, SizeType
  <1>3. x % CACHE_SIZE = IF x < CACHE_SIZE THEN x ELSE x - CACHE_SIZE
    BY ModWrap
  <1> QED BY <1>1, <1>2, <1>3, SizeType DEF Slots

(* Different positions are different slots. *)
LEMMA SlotsDiffer ==
  ASSUME NEW f \in Slots, NEW i \in 0 .. CACHE_SIZE - 1, NEW j \in 0 .. CACHE_SIZE - 1,
         (f + i) % CACHE_SIZE = (f + j) % CACHE_SIZE
  PROVE  i = j
  <1>1. f \in Nat /\ f < CACHE_SIZE /\ i \in 0 .. CACHE_SIZE /\ j \in 0 .. CACHE_SIZE
    BY SizeType DEF Slots
  <1>2. PICK x \in Int : x = (f + i) % CACHE_SIZE
    BY <1>1, SlotValue DEF Slots
  <1>3. x = IF f + i < CACHE_SIZE THEN f + i ELSE f + i - CACHE_SIZE
    BY <1>1, <1>2, SlotValue
  <1>4. x = IF f + j < CACHE_SIZE THEN f + j ELSE f + j - CACHE_SIZE
    BY <1>1, <1>2, SlotValue
  <1> QED BY <1>1, <1>3, <1>4, SizeType

(* The slot behind a slot is the one of the next position. *)
LEMMA NextSlot ==
  ASSUME NEW f \in Slots, NEW i \in 0 .. CACHE_SIZE - 1
  PROVE  (((f + i) % CACHE_SIZE) + 1) % CACHE_SIZE = (f + (i + 1)) % CACHE_SIZE
  <1>1. f \in Nat /\ f < CACHE_SIZE /\ i \in 0 .. CACHE_SIZE /\ i + 1 \in 0 .. CACHE_SIZE
    BY SizeType DEF Slots
  <1>2. 1 \in 0 .. CACHE_SIZE
    BY SizeType
  <1>3. PICK x \in Slots : x = (f + i) % CACHE_SIZE
    BY <1>1, SlotValue
  <1>4. x = IF f + i < CACHE_SIZE THEN f + i ELSE f + i - CACHE_SIZE
    BY <1>1, <1>3, SlotValue
  <1>5. PICK y \in Slots : y = (x + 1) % CACHE_SIZE
    BY <1>2, SlotValue
  <1>6. y = IF x + 1 < CACHE_SIZE THEN x + 1 ELSE x + 1 - CACHE_SIZE
    BY <1>2, <1>5, SlotValue
  <1>7. PICK z \in Slots : z = (f + (i + 1)) % CACHE_SIZE
    BY <1>1, SlotValue
  <1>8. z = IF f + (i + 1) < CACHE_SIZE THEN f + (i + 1) ELSE f + (i + 1) - CACHE_SIZE
    BY <1>1, <1>7, SlotValue
  <1>9. y = z
    BY <1>1, <1>4, <1>6, <1>8, SizeType DEF Slots
  <1> QED BY <1>3, <1>5, <1>7, <1>9

(* Seen from the next slot, every position is one less. *)
LEMMA TurnedSlot ==
  ASSUME NEW f \in Slots, NEW i \in 0 .. CACHE_SIZE - 1
  PROVE  (((f + 1) % CACHE_SIZE) + i) % CACHE_SIZE = (f + (i + 1)) % CACHE_SIZE
  <1>1. f \in Nat /\ f < CACHE_SIZE /\ i \in 0 .. CACHE_SIZE /\ i + 1 \in 0 .. CACHE_SIZE
    BY SizeType DEF Slots
  <1>2. 1 \in 0 .. CACHE_SIZE
    BY SizeType
  <1>3. PICK x \in Slots : x = (f + 1) % CACHE_SIZE
    BY <1>2, SlotValue
  <1>4. x = IF f + 1 < CACHE_SIZE THEN f + 1 ELSE f + 1 - CACHE_SIZE
    BY <1>2, <1>3, SlotValue
  <1>5. PICK y \in Slots : y = (x + i) % CACHE_SIZE
    BY <1>1, SlotValue
  <1>6. y = IF x + i < CACHE_SIZE THEN x + i ELSE x + i - CACHE_SIZE
    BY <1>1, <1>5, SlotValue
  <1>7. PICK z \in Slots : z = (f + (i + 1)) % CACHE_SIZE
    BY <1>1, SlotValue
  <1>8. z = IF f + (i + 1) < CACHE_SIZE THEN f + (i + 1) ELSE f + (i + 1) - CACHE_SIZE
    BY <1>1, <1>7, SlotValue
  <1>9. y = z
    BY <1>1, <1>4, <1>6, <1>8, SizeType DEF Slots
  <1> QED BY <1>3, <1>5, <1>7, <1>9

(* A whole turn leads back. *)
LEMMA WholeTurn ==
  ASSUME NEW f \in Slots
  PROVE  (f + CACHE_SIZE) % CACHE_SIZE = f
  <1>1. CACHE_SIZE \in 0 .. CACHE_SIZE /\ f \in Nat /\ f < CACHE_SIZE
    BY SizeType DEF Slots
  <1> QED BY <1>1, SlotValue, SizeType

-----------------------------------------------------------------------------
(* lookup. *)

(* lookup answers with the first matching position, count if there is none. *)
LEMMA FindProperties ==
  ASSUME count \in 0 .. CACHE_SIZE, NEW m
  PROVE  /\ Find(m) \in 0 .. count
         /\ \A j \in 0 .. Find(m) - 1 : ~ Matches(m, j)
         /\ Find(m) < count => Matches(m, Find(m))
  <1> DEFINE T == {i \in 0 .. count : i < count => Matches(m, i)}
  <1>1. count \in Nat
    BY SizeType
  <1>2. T \subseteq Nat /\ T # {}
    BY <1>1
  <1>3. Min(T) \in T /\ \A y \in T : Min(T) <= y
    BY <1>2, MinOf
  <1>4. PICK x \in T : \A y \in T : x <= y
    BY <1>3
  <1>5. x \in 0 .. count /\ (x < count => Matches(m, x))
    OBVIOUS
  <1>6. ASSUME NEW j \in 0 .. x - 1, Matches(m, j)
        PROVE  FALSE
    <2>1. j \in 0 .. count /\ j < x
      BY <1>1, <1>5
    <2>2. j \in T
      BY <1>6, <2>1
    <2> QED BY <1>1, <1>4, <2>1, <2>2
  <1> QED BY <1>5, <1>6 DEF Find

(* A matching position is enough for a packet to be found. *)
LEMMA FoundIfThere ==
  ASSUME count \in 0 .. CACHE_SIZE, NEW m, NEW i \in 0 .. count - 1, Matches(m, i)
  PROVE  Find(m) < count
  <1>1. /\ Find(m) \in 0 .. count
        /\ \A j \in 0 .. Find(m) - 1 : ~ Matches(m, j)
    BY FindProperties
  <1>2. count \in Nat
    BY SizeType
  <1>3. ~ (i \in 0 .. Find(m) - 1)
    BY <1>1
  <1> QED BY <1>1, <1>2, <1>3

-----------------------------------------------------------------------------
(* insert. *)

(* The position a packet takes another entry from, count if the array is not full. *)
Victim(m) == IF count = CACHE_SIZE THEN Find(m) % count ELSE count

(* The victim's position is closed by the younger entries, and the packet is the youngest. *)
MovedUp(m) ==
  \E last \in 0 .. CACHE_SIZE - 1 :
    /\ count' = last + 1
    /\ last = IF count = CACHE_SIZE THEN count - 1 ELSE count
    /\ \A i \in 0 .. last - 1 : Entry(i)' = IF i < Victim(m) THEN Entry(i) ELSE Entry(i + 1)
    /\ Entry(last)' = Signature(m)

(* The types of the array and of its two indices. *)
ArrayOK == /\ cache \in [Slots -> Signatures \union {None}]
           /\ first \in Slots
           /\ count \in 0 .. CACHE_SIZE

(* Sequence numbers are numbers. *)
LEMMA SeqNoType == ASSUME NEW n \in SeqNos PROVE n \in Nat
  <1>1. SeqNos \subseteq uint16_t
    BY SMTT(30), CacheAssumption DEF CacheAssumption
  <1>2. \A k \in uint16_t : k \in Nat
    BY DEF uint16_t
  <1> QED BY <1>1, <1>2

(* A signature keeps eight bits of the number. *)
LEMMA SignatureType ==
  ASSUME NEW m \in Messages
  PROVE  Signature(m) \in Signatures
  <1>1. m.origin \in Origins /\ m.seqno \in SeqNos
    BY DEF Messages
  <1>2. m.seqno \in Nat
    BY <1>1, SeqNoType
  <1>3. m.seqno % 256 \in 0 .. 255
    BY <1>2
  <1> QED BY <1>1, <1>3 DEF Signature, Signatures

(* The victim is an entry if the array is full. *)
LEMMA VictimIsEntry ==
  ASSUME count \in 0 .. CACHE_SIZE, NEW m
  PROVE  /\ Victim(m) \in 0 .. count
         /\ count = CACHE_SIZE => /\ Victim(m) < count
                                  /\ Victim(m) = IF Find(m) < count THEN Find(m) ELSE 0
  <1>1. PICK n \in 0 .. count : n = Find(m)
    BY FindProperties
  <1>2. CASE count = CACHE_SIZE
    <2>1. n \in 0 .. 2 * CACHE_SIZE - 1
      BY <1>2, SizeType
    <2>2. n % CACHE_SIZE = IF n < CACHE_SIZE THEN n ELSE n - CACHE_SIZE
      BY <2>1, ModWrap
    <2> QED BY <1>1, <1>2, <2>2, SizeType DEF Victim
  <1>3. CASE count # CACHE_SIZE
    BY <1>3, SizeType DEF Victim
  <1> QED BY <1>2, <1>3

(* An insertion into an array that is not full appends. *)
LEMMA InsertAppends ==
  ASSUME ArrayOK, NEW m \in Messages, Insert(m), count # CACHE_SIZE
  PROVE  /\ cache' = [cache EXCEPT ![Slot(count)] = Signature(m)]
         /\ first' = first /\ count' = count + 1
  <1>1. count \in Nat
    BY SizeType DEF ArrayOK
  <1> QED BY <1>1 DEF Insert, Slot

(* An insertion into a full array that gives up the oldest entry writes over it. *)
LEMMA InsertTurns ==
  ASSUME ArrayOK, NEW m \in Messages, Insert(m), count = CACHE_SIZE, Victim(m) = 0
  PROVE  /\ cache' = [cache EXCEPT ![first] = Signature(m)]
         /\ first' = (first + 1) % CACHE_SIZE /\ count' = count
  <1>1. Find(m) % count = 0
    BY DEF Victim
  <1>2. /\ cache' = [cache EXCEPT ![(((first + 1) % CACHE_SIZE) + (count - 1)) % CACHE_SIZE]
                                      = Signature(m)]
        /\ first' = (first + 1) % CACHE_SIZE /\ count' = count - 1 + 1
    BY <1>1 DEF Insert, Removed
  <1>3. first \in Slots /\ first \in Nat /\ first < CACHE_SIZE
    BY SizeType DEF ArrayOK, Slots
  <1>4. PICK f \in Slots : /\ f = (first + 1) % CACHE_SIZE
                           /\ f = IF first + 1 < CACHE_SIZE THEN first + 1
                                  ELSE first + 1 - CACHE_SIZE
    <2>1. 1 \in 0 .. CACHE_SIZE
      BY SizeType
    <2> QED BY <1>3, <2>1, SlotValue
  <1>5. (f + (count - 1)) % CACHE_SIZE = IF f + (count - 1) < CACHE_SIZE THEN f + (count - 1)
                                         ELSE f + (count - 1) - CACHE_SIZE
    <2>1. count - 1 \in 0 .. CACHE_SIZE
      BY SizeType
    <2> QED BY <2>1, SlotValue
  <1>6. (f + (count - 1)) % CACHE_SIZE = first
    BY <1>3, <1>4, <1>5, SizeType
  <1>7. (((first + 1) % CACHE_SIZE) + (count - 1)) % CACHE_SIZE = first
    BY <1>4, <1>6
  <1>8. count - 1 + 1 = count
    BY SizeType
  <1> QED BY <1>2, <1>7, <1>8

(* An insertion into a full array that gives up a younger entry moves the ones behind it. *)
LEMMA InsertShifts ==
  ASSUME ArrayOK, NEW m \in Messages, Insert(m), count = CACHE_SIZE, Victim(m) # 0
  PROVE  LET shifted == [s \in Slots |->
                           IF \E j \in Victim(m) .. count - 1 : s = Slot(j)
                           THEN cache[(s + 1) % CACHE_SIZE] ELSE cache[s]]
         IN  /\ cache' = [shifted EXCEPT ![Slot(count - 1)] = Signature(m)]
             /\ first' = first /\ count' = count
  <1>1. Find(m) % count # 0 /\ Victim(m) = Find(m) % count
    BY DEF Victim
  <1>2. count - 1 + 1 = count
    BY SizeType
  <1> QED BY <1>1, <1>2 DEF Insert, Removed, Slot

(* Whatever an insertion gives up, the order of the other entries stays. *)
LEMMA InsertKeepsOrder ==
  ASSUME ArrayOK, NEW m \in Messages, Insert(m)
  PROVE  MovedUp(m) /\ ArrayOK'
  <1> DEFINE N == CACHE_SIZE
             sig == Signature(m)
             p == Victim(m)
  <1>1. /\ first \in Slots /\ count \in 0 .. N /\ N \in Nat /\ N > 0 /\ count \in Nat
        /\ cache \in [Slots -> Signatures \union {None}]
        /\ p \in 0 .. count /\ sig \in Signatures
    BY SizeType, SignatureType, VictimIsEntry DEF ArrayOK
  <1> HIDE DEF sig, p
  <1>2. ASSUME NEW i \in 0 .. N PROVE Slot(i) \in Slots
    BY <1>1, SlotValue DEF Slot
  <1>3. ASSUME NEW i \in 0 .. N - 1, NEW j \in 0 .. N - 1, Slot(i) = Slot(j) PROVE i = j
    BY <1>1, <1>3, SlotsDiffer DEF Slot
  <1>4. CASE count # N
    <2>1. cache' = [cache EXCEPT ![Slot(count)] = sig] /\ first' = first /\ count' = count + 1
      BY <1>4, InsertAppends DEF sig
    <2>2. Slot(count) \in Slots /\ count \in 0 .. N - 1
      BY <1>1, <1>2, <1>4
    <2>3. ASSUME NEW i \in 0 .. count - 1 PROVE Entry(i)' = Entry(i) /\ i < p
      <3>1. i \in 0 .. N - 1 /\ i # count /\ i < count
        BY <1>1, <2>1, <2>2
      <3>2. Slot(i)' = Slot(i) /\ Slot(i) \in Slots /\ Slot(i) # Slot(count)
        BY <1>1, <1>2, <1>3, <2>1, <2>2, <3>1 DEF Slot
      <3> QED BY <1>1, <1>4, <2>1, <3>1, <3>2 DEF Entry, p, Victim
    <2>4. PICK last \in 0 .. N - 1 : last = count
      BY <2>2
    <2>5. Entry(last)' = sig
      <3>1. Slot(last)' = Slot(count)
        BY <2>1, <2>4 DEF Slot
      <3> QED BY <1>1, <2>1, <2>2, <3>1 DEF Entry
    <2>6. MovedUp(m)
      BY <1>4, <2>1, <2>3, <2>4, <2>5 DEF MovedUp, p, sig
    <2>7. cache' \in [Slots -> Signatures \union {None}] /\ first' \in Slots /\ count' \in 0 .. N
      BY <1>1, <2>1, <2>2
    <2> QED BY <2>6, <2>7 DEF ArrayOK
  <1>5. CASE count = N /\ p = 0
    <2>1. cache' = [cache EXCEPT ![first] = sig] /\ first' = (first + 1) % N /\ count' = count
      BY <1>5, InsertTurns DEF p, sig
    <2>2. ASSUME NEW i \in 0 .. N - 1
          PROVE  Slot(i)' = Slot(i + 1)
      BY <1>1, <2>1, TurnedSlot DEF Slot
    <2>3. Slot(0) = first
      <3>1. first \in Nat /\ first < N
        BY <1>1 DEF Slots
      <3> QED BY <1>1, <3>1 DEF Slot
    <2>4. ASSUME NEW i \in 0 .. N - 2 PROVE Entry(i)' = Entry(i + 1) /\ ~ (i < p)
      <3>1. i \in 0 .. N - 1 /\ i + 1 \in 0 .. N - 1 /\ i + 1 # 0 /\ 0 \in 0 .. N - 1
        BY <1>1, <1>5, <2>1
      <3>2. Slot(i + 1) \in Slots /\ Slot(i + 1) # first /\ Slot(i)' = Slot(i + 1)
        BY <1>1, <1>2, <1>3, <2>2, <2>3, <3>1
      <3> QED BY <1>1, <1>5, <2>1, <3>1, <3>2 DEF Entry
    <2>5. PICK last \in 0 .. N - 1 : last = N - 1
      BY <1>1
    <2>6. Entry(last)' = sig
      <3>1. Slot(last)' = Slot(last + 1) /\ last + 1 = N
        BY <1>1, <2>2, <2>5
      <3>2. Slot(N) = first
        BY <1>1, WholeTurn DEF Slot
      <3> QED BY <1>1, <2>1, <3>1, <3>2 DEF Entry
    <2>7. MovedUp(m)
      <3>1. last = count - 1 /\ count' = last + 1
        BY <1>1, <1>5, <2>1, <2>5
      <3>2. \A i \in 0 .. last - 1 : i \in 0 .. N - 2
        BY <1>1, <2>5
      <3> QED BY <1>5, <2>4, <2>6, <3>1, <3>2 DEF MovedUp, p, sig
    <2>8. cache' \in [Slots -> Signatures \union {None}] /\ first' \in Slots /\ count' \in 0 .. N
      <3>1. 1 \in 0 .. N
        BY <1>1
      <3> QED BY <1>1, <2>1, <3>1, SlotValue
    <2> QED BY <2>7, <2>8 DEF ArrayOK
  <1>6. CASE count = N /\ p # 0
    <2> DEFINE shifted == [s \in Slots |-> IF \E j \in p .. count - 1 : s = Slot(j)
                                           THEN cache[(s + 1) % N] ELSE cache[s]]
    <2>1. cache' = [shifted EXCEPT ![Slot(count - 1)] = sig] /\ first' = first /\ count' = count
      BY <1>6, InsertShifts DEF p, sig
    <2>2. count - 1 \in 0 .. N - 1 /\ Slot(count - 1) \in Slots
      BY <1>1, <1>2, <1>6
    <2>3. shifted \in [Slots -> Signatures \union {None}]
      <3>1. ASSUME NEW s \in Slots PROVE (s + 1) % N \in Slots
        <4>1. 1 \in 0 .. N
          BY <1>1
        <4> QED BY <4>1, SlotValue
      <3> QED BY <1>1, <3>1
    <2>4. \A s \in Slots : s # Slot(count - 1) => cache'[s] = shifted[s]
      BY <2>1
    <2>5. cache'[Slot(count - 1)] = sig
      BY <2>1, <2>2, <2>3
    <2>6. ASSUME NEW i \in 0 .. N - 2
          PROVE  Entry(i)' = IF i < p THEN Entry(i) ELSE Entry(i + 1)
      <3>1. i \in 0 .. N - 1 /\ i # count - 1 /\ i + 1 \in 0 .. N - 1 /\ i <= count - 1
        BY <1>1, <1>6, <2>1
      <3>2. Slot(i)' = Slot(i) /\ Slot(i) \in Slots /\ Slot(i) # Slot(count - 1)
        BY <1>1, <1>2, <1>3, <2>1, <2>2, <3>1 DEF Slot
      <3>3. Entry(i)' = shifted[Slot(i)]
        BY <2>4, <3>2 DEF Entry
      <3>4. CASE i < p
        <4>1. ASSUME NEW j \in p .. count - 1 PROVE Slot(i) # Slot(j)
          <5>1. j \in 0 .. N - 1 /\ i # j
            BY <1>1, <1>6, <3>4
          <5> QED BY <1>3, <3>1, <5>1
        <4> QED BY <3>2, <3>3, <3>4, <4>1 DEF Entry
      <3>5. CASE ~ (i < p)
        <4>1. i \in p .. count - 1
          BY <1>1, <3>1, <3>5
        <4>2. shifted[Slot(i)] = cache[(Slot(i) + 1) % N]
          BY <3>2, <4>1
        <4>3. (Slot(i) + 1) % N = Slot(i + 1)
          BY <1>1, <3>1, NextSlot DEF Slot
        <4> QED BY <3>3, <3>5, <4>2, <4>3 DEF Entry
      <3> QED BY <3>4, <3>5
    <2>7. PICK last \in 0 .. N - 1 : last = N - 1
      BY <1>1
    <2>8. Entry(last)' = sig
      <3>1. Slot(last)' = Slot(count - 1)
        BY <1>6, <2>1, <2>7 DEF Slot
      <3> QED BY <2>5, <3>1 DEF Entry
    <2>9. MovedUp(m)
      <3>1. last = count - 1 /\ count' = last + 1
        BY <1>1, <1>6, <2>1, <2>7
      <3>2. \A i \in 0 .. last - 1 : i \in 0 .. N - 2
        BY <1>1, <2>7
      <3> QED BY <1>6, <2>6, <2>8, <3>1, <3>2 DEF MovedUp, p, sig
    <2>10. cache' \in [Slots -> Signatures \union {None}] /\ first' \in Slots /\ count' \in 0 .. N
      BY <1>1, <2>1, <2>2, <2>3
    <2> QED BY <2>9, <2>10 DEF ArrayOK
  <1> QED BY <1>4, <1>5, <1>6

-----------------------------------------------------------------------------
(* What is remembered. *)

(* What is between the first and the last index was written. *)
Written == \A i \in 0 .. count - 1 : Entry(i) \in Signatures

(* Of the last packets inserted each has an entry, and at most as many younger ones
   as packets were inserted after it. *)
Young == \A h \in 1 .. Len(history) : \E i \in 0 .. count - 1 :
           /\ count - i <= Len(history) - h + 1
           /\ Entry(i) = Signature(history[h])

Inv == /\ ArrayOK /\ Written /\ Young
       /\ answer \in BOOLEAN
       /\ history \in Seq(Messages) /\ Len(history) <= CACHE_SIZE

(* The empty cache satisfies the invariant. *)
LEMMA InitInv == Init => Inv
  <1> SUFFICES ASSUME Init PROVE Inv
    OBVIOUS
  <1>1. 0 \in Slots /\ 0 \in 0 .. CACHE_SIZE
    BY SizeType DEF Slots
  <1>2. ArrayOK
    BY <1>1 DEF Init, ArrayOK
  <1>3. history = <<>> /\ Len(history) = 0 /\ history \in Seq(Messages) /\ count = 0
    BY DEF Init
  <1>4. Written /\ Young
    BY <1>3 DEF Written, Young
  <1>5. answer \in BOOLEAN
    BY DEF Init
  <1> QED BY <1>2, <1>3, <1>4, <1>5, SizeType DEF Inv

(* A matching entry is the signature of the packet. *)
LEMMA MatchIsSignature ==
  ASSUME Written, NEW m \in Messages, NEW i \in 0 .. count - 1, Matches(m, i)
  PROVE  Entry(i) = Signature(m)
  <1>1. PICK e \in Signatures : e = Entry(i)
    BY DEF Written
  <1>2. e.origin = m.origin /\ e.seqno = m.seqno
    BY <1>1 DEF Matches, Entry
  <1>3. m.seqno % 256 = m.seqno
    <2>1. m.seqno \in 0 .. 255
      BY <1>2 DEF Signatures
    <2> QED BY <2>1
  <1>4. e = [origin |-> e.origin, seqno |-> e.seqno]
    BY DEF Signatures
  <1> QED BY <1>1, <1>2, <1>3, <1>4 DEF Signature

(* The history after an insertion. *)
LEMMA HistoryGrows ==
  ASSUME Inv, NEW m \in Messages, Insert(m)
  PROVE  /\ history' \in Seq(Messages) /\ Len(history') <= CACHE_SIZE /\ Len(history') > 0
         /\ history'[Len(history')] = m
         /\ \A h \in 1 .. Len(history') - 1 : \E k \in 1 .. Len(history) :
              /\ history'[h] = history[k]
              /\ Len(history) - k = Len(history') - 1 - h
              /\ Len(history) = CACHE_SIZE => k > 1
  <1> DEFINE kept == IF Len(history) < CACHE_SIZE THEN history ELSE Tail(history)
  <1>1. history \in Seq(Messages) /\ Len(history) \in Nat /\ Len(history) <= CACHE_SIZE
        /\ CACHE_SIZE \in Nat /\ CACHE_SIZE > 0
    BY SizeType DEF Inv
  <1>2. history' = Append(kept, m)
    BY DEF Insert
  <1>3. PICK d \in {0, 1} : d = IF Len(history) < CACHE_SIZE THEN 0 ELSE 1
    OBVIOUS
  <1>4. /\ kept \in Seq(Messages) /\ Len(kept) = Len(history) - d
        /\ \A h \in 1 .. Len(kept) : kept[h] = history[h + d]
    BY <1>1, <1>3
  <1> HIDE DEF kept
  <1>5. /\ history' \in Seq(Messages) /\ Len(history') = Len(kept) + 1
        /\ history'[Len(kept) + 1] = m
        /\ \A h \in 1 .. Len(kept) : history'[h] = kept[h]
    BY <1>2, <1>4
  <1>6. Len(history') <= CACHE_SIZE /\ Len(history') > 0
    BY <1>1, <1>3, <1>4, <1>5
  <1>7. ASSUME NEW h \in 1 .. Len(history') - 1
        PROVE  \E k \in 1 .. Len(history) :
                 /\ history'[h] = history[k]
                 /\ Len(history) - k = Len(history') - 1 - h
                 /\ Len(history) = CACHE_SIZE => k > 1
    <2>1. h \in 1 .. Len(kept) /\ h + d \in 1 .. Len(history)
      BY <1>1, <1>3, <1>4, <1>5
    <2>2. history'[h] = history[h + d]
      BY <1>4, <1>5, <2>1
    <2>3. Len(history) - (h + d) = Len(history') - 1 - h
      BY <1>1, <1>3, <1>4, <1>5, <2>1
    <2>4. Len(history) = CACHE_SIZE => h + d > 1
      BY <1>1, <1>3, <2>1
    <2> QED BY <2>1, <2>2, <2>3, <2>4
  <1> QED BY <1>5, <1>6, <1>7

(* An insertion forgets none of the last packets. *)
LEMMA InsertInv ==
  ASSUME Inv, NEW m \in Messages, Insert(m)
  PROVE  Inv'
  <1> DEFINE N == CACHE_SIZE
  <1>1. ArrayOK /\ ArrayOK' /\ MovedUp(m) /\ Written /\ Young
    BY InsertKeepsOrder DEF Inv
  <1>2. N \in Nat /\ N > 0 /\ count \in Nat /\ count <= N
    BY <1>1, SizeType DEF ArrayOK
  <1>3. PICK p \in 0 .. count :
          /\ p = Victim(m)
          /\ count = N => p < count /\ p = IF Find(m) < count THEN Find(m) ELSE 0
          /\ count # N => p = count
    BY <1>1, VictimIsEntry DEF ArrayOK, Victim
  <1>4. PICK last \in 0 .. N - 1 :
          /\ count' = last + 1
          /\ last = IF count = N THEN count - 1 ELSE count
          /\ \A i \in 0 .. last - 1 : Entry(i)' = IF i < p THEN Entry(i) ELSE Entry(i + 1)
          /\ Entry(last)' = Signature(m)
    BY <1>1, <1>3 DEF MovedUp
  <1>5. Written'
    <2> SUFFICES ASSUME NEW i \in 0 .. last PROVE Entry(i)' \in Signatures
      BY <1>4 DEF Written
    <2>1. CASE i = last
      BY <1>4, <2>1, SignatureType
    <2>2. CASE i # last
      <3>1. i \in 0 .. last - 1 /\ (i < p => i \in 0 .. count - 1)
            /\ (~ (i < p) => i + 1 \in 0 .. count - 1)
        BY <1>2, <1>3, <1>4, <2>2
      <3> QED BY <1>1, <1>4, <3>1 DEF Written
    <2> QED BY <2>1, <2>2
  <1>6. /\ history' \in Seq(Messages) /\ Len(history') <= N /\ Len(history') > 0
        /\ history'[Len(history')] = m
        /\ \A h \in 1 .. Len(history') - 1 : \E k \in 1 .. Len(history) :
             /\ history'[h] = history[k]
             /\ Len(history) - k = Len(history') - 1 - h
             /\ Len(history) = CACHE_SIZE => k > 1
    BY HistoryGrows
  <1>7. Len(history') \in Nat /\ Len(history) \in Nat /\ Len(history) <= N
    BY <1>6 DEF Inv
  <1>8. Young'
    <2> SUFFICES ASSUME NEW h \in 1 .. Len(history')
                 PROVE  \E i \in 0 .. last : /\ last + 1 - i <= Len(history') - h + 1
                                             /\ Entry(i)' = Signature(history'[h])
      BY SMTT(30), <1>4 DEF Young, Signature
    <2>1. last \in 0 .. last /\ last + 1 - last <= Len(history') - h + 1
      BY <1>2, <1>7
    <2>2. CASE h = Len(history')
      BY <1>4, <1>6, <2>1, <2>2
    <2>3. CASE h # Len(history')
      <3>1. h \in 1 .. Len(history') - 1
        BY <1>7, <2>3
      <3>2. PICK k \in 1 .. Len(history) : /\ history'[h] = history[k]
                                           /\ Len(history) - k = Len(history') - 1 - h
                                           /\ Len(history) = N => k > 1
        BY <1>6, <3>1
      <3>3. PICK i \in 0 .. count - 1 : /\ count - i <= Len(history) - k + 1
                                        /\ Entry(i) = Signature(history[k])
        BY <1>1 DEF Young
      <3>4. CASE i < p
        <4>1. i \in 0 .. last - 1 \/ i = last
          BY <1>2, <1>3, <1>4, <3>3, <3>4
        <4>2. i # last
          BY <1>2, <1>3, <1>4, <3>3, <3>4
        <4>3. Entry(i)' = Signature(history'[h])
          BY <1>4, <3>2, <3>3, <3>4, <4>1, <4>2
        <4>4. last + 1 - i <= Len(history') - h + 1
          BY SMTT(30), <1>2, <1>4, <1>7, <3>2, <3>3
        <4> QED BY <4>1, <4>2, <4>3, <4>4
      <3>5. CASE i > p
        <4>1. i - 1 \in 0 .. last - 1 /\ ~ (i - 1 < p) /\ i - 1 + 1 = i
          BY <1>2, <1>3, <1>4, <3>3, <3>5
        <4>2. PICK l \in 0 .. last - 1 : l = i - 1
          BY <4>1
        <4>3. Entry(l)' = Entry(l + 1)
          BY <1>4, <4>1, <4>2
        <4>4. Entry(l)' = Signature(history'[h])
          BY <3>2, <3>3, <4>1, <4>2, <4>3
        <4>5. last + 1 - l <= Len(history') - h + 1
          BY <1>2, <1>3, <1>4, <1>7, <3>2, <3>3, <3>5, <4>2
        <4>6. l \in 0 .. last
          BY <1>4, <4>2
        <4> QED BY <4>4, <4>5, <4>6
      <3>6. CASE i = p
        <4>1. count = N
          BY <1>2, <1>3, <3>3, <3>6
        <4>2. CASE Find(m) < count
          <5>1. Matches(m, p)
            BY <1>1, <1>3, <4>1, <4>2, FindProperties DEF ArrayOK
          <5>2. Entry(p) = Signature(m)
            BY <1>1, <3>3, <3>6, <5>1, MatchIsSignature
          <5> QED BY <1>4, <2>1, <3>2, <3>3, <3>6, <5>2
        <4>3. CASE ~ (Find(m) < count)
          <5>1. p = 0
            BY <1>3, <4>1, <4>3
          <5>2. N <= Len(history) - k + 1
            BY <1>2, <3>3, <3>6, <4>1, <5>1
          <5> QED BY <1>2, <1>7, <3>2, <5>2
        <4> QED BY <4>2, <4>3
      <3> QED BY <1>3, <3>3, <3>4, <3>5, <3>6
    <2> QED BY <2>2, <2>3
  <1>9. answer' = answer
    BY DEF Insert
  <1> QED BY <1>1, <1>5, <1>6, <1>8, <1>9 DEF Inv

(* Each command keeps the invariant. *)
LEMMA NextInv == Inv /\ [Next]_vars => Inv'
  <1> SUFFICES ASSUME Inv, [Next]_vars PROVE Inv'
    OBVIOUS
  <1>1. CASE \E m \in Messages : Insert(m)
    BY <1>1, InsertInv
  <1>2. ASSUME NEW m \in Messages, Lookup(m) PROVE Inv'
    <2>1. UNCHANGED <<cache, first, count, history>> /\ answer' \in BOOLEAN
      BY <1>2 DEF Lookup
    <2> QED BY <2>1 DEF Inv, ArrayOK, Written, Young, Entry, Slot
  <1>3. CASE Flush
    <2>1. /\ first' = 0 /\ count' = 0 /\ history' = <<>> /\ Len(history') = 0
          /\ history' \in Seq(Messages) /\ UNCHANGED <<cache, answer>>
      BY <1>3 DEF Flush
    <2>2. 0 \in Slots /\ 0 \in 0 .. CACHE_SIZE
      BY SizeType DEF Slots
    <2>3. ArrayOK'
      BY <2>1, <2>2 DEF Inv, ArrayOK
    <2>4. Written' /\ Young'
      BY <2>1 DEF Written, Young
    <2> QED BY <2>1, <2>3, <2>4, SizeType DEF Inv
  <1>4. CASE UNCHANGED vars
    BY <1>4 DEF vars, Inv, ArrayOK, Written, Young, Entry, Slot
  <1> QED BY <1>1, <1>2, <1>3, <1>4 DEF Next

(* The array of LruCtpMsgCacheP.nc is well typed, its indices name slots. *)
THEOREM TypesKept == Spec => []TypeOK
  <1>1. Inv => TypeOK
    BY DEF Inv, TypeOK, ArrayOK, Signatures
  <1> QED BY <1>1, InitInv, NextInv, PTL DEF Spec

(* The signature of a packet of the history is found. *)
LEMMA SignatureFound ==
  ASSUME Inv, NEW m \in ToSet(history)
  PROVE  Find(Signature(m)) < count
  <1>1. PICK h \in 1 .. Len(history) : m = history[h]
    BY DEF Inv, ToSet
  <1>2. PICK i \in 0 .. count - 1 : Entry(i) = Signature(m)
    BY <1>1 DEF Inv, Young
  <1>3. Matches(Signature(m), i)
    BY <1>2 DEF Matches, Entry
  <1>4. count \in 0 .. CACHE_SIZE
    BY DEF Inv, ArrayOK
  <1> QED BY <1>3, <1>4, FoundIfThere

(* A packet whose number fits eight bits is its own signature. *)
LEMMA NarrowSignature ==
  ASSUME NEW m \in Messages, m.seqno \in 0 .. 255
  PROVE  Signature(m) = m
  <1>1. \A n \in 0 .. 255 : n % 256 = n
    OBVIOUS
  <1>2. m.seqno % 256 = m.seqno
    BY <1>1
  <1> QED BY <1>2 DEF Signature, Messages

(* Whatever 16-bit sequence numbers are inserted, the signature of each of the last
   CACHE_SIZE packets is found: neither the moves within the array nor a number that
   is cut takes away an entry that is still due (LruCtpMsgCacheP.nc:116-133). *)
THEOREM AllRemembered == Spec => []KeepsLast
  <1>1. Inv => KeepsLast
    BY SignatureFound DEF KeepsLast
  <1> QED BY <1>1, InitInv, NextInv, PTL DEF Spec

(* So each of the last CACHE_SIZE packets is found whose number fits the eight bits of a
   signature, with wide numbers among the others or not (LruCtpMsgCacheP.nc:88-94). *)
THEOREM NarrowRemembered ==
  Spec => [](\A m \in ToSet(history) : m.seqno \in 0 .. 255 => Find(m) < count)
  <1>1. ASSUME Inv PROVE \A m \in ToSet(history) : m.seqno \in 0 .. 255 => Find(m) < count
    <2> SUFFICES ASSUME NEW m \in ToSet(history), m.seqno \in 0 .. 255 PROVE Find(m) < count
      OBVIOUS
    <2>1. m \in Messages
      BY <1>1 DEF Inv, ToSet
    <2> QED BY <1>1, <2>1, SignatureFound, NarrowSignature
  <1> QED BY <1>1, InitInv, NextInv, PTL DEF Spec

-----------------------------------------------------------------------------
(* Refinement of RecencyList. *)

(* The content is a sequence of signatures. *)
LEMMA ContentType ==
  ASSUME Inv
  PROVE  /\ Content \in Seq(Signatures) /\ Len(Content) = count
         /\ \A i \in 1 .. count : Content[i] = Entry(i - 1)
  <1>1. count \in Nat
    BY SizeType DEF Inv, ArrayOK
  <1>2. ASSUME NEW i \in 1 .. count PROVE cache[Slot(i - 1)] \in Signatures
    <2>1. i - 1 \in 0 .. count - 1
      BY <1>1
    <2> QED BY <2>1 DEF Inv, Written, Entry
  <1>3. Content \in [1 .. count -> Signatures]
    BY <1>2 DEF Content
  <1> QED BY <1>1, <1>3 DEF Content, Entry

(* A position matches a packet if it holds it: what is compared are all fields, the number
   in its full width. *)
LEMMA MatchIsEntry ==
  ASSUME Inv, NEW m \in Messages, NEW i \in 0 .. count - 1
  PROVE  Matches(m, i) <=> Entry(i) = m
  <1>1. PICK e \in Signatures : e = Entry(i)
    BY DEF Inv, Written
  <1>2. e = [origin |-> e.origin, seqno |-> e.seqno] /\ m = [origin |-> m.origin, seqno |-> m.seqno]
    BY DEF Signatures, Messages
  <1>3. Matches(m, i) <=> e.origin = m.origin /\ e.seqno = m.seqno
    BY <1>1 DEF Matches, Entry
  <1> QED BY <1>1, <1>2, <1>3

(* What lookup answers is whether the packet is remembered. *)
LEMMA FoundIsMember ==
  ASSUME Inv, NEW m \in Messages
  PROVE  Find(m) < count <=> m \in ToSet(Content)
  <1>1. /\ Len(Content) = count /\ Content \in Seq(Signatures) /\ count \in Nat
        /\ \A i \in 1 .. count : Content[i] = Entry(i - 1)
        /\ count \in 0 .. CACHE_SIZE
    BY ContentType, SizeType DEF Inv, ArrayOK
  <1>2. ASSUME Find(m) < count PROVE m \in ToSet(Content)
    <2>1. PICK i \in 0 .. count - 1 : i = Find(m)
      BY <1>1, <1>2, FindProperties
    <2>2. Entry(i) = m
      BY <1>1, <1>2, <2>1, FindProperties, MatchIsEntry
    <2>3. PICK k \in 1 .. count : k = i + 1
      BY <1>1
    <2>4. Content[k] = m
      BY <1>1, <2>2, <2>3
    <2> QED BY <1>1, <2>4 DEF ToSet
  <1>3. ASSUME m \in ToSet(Content) PROVE Find(m) < count
    <2>1. PICK k \in 1 .. count : Content[k] = m
      BY <1>1, <1>3 DEF ToSet
    <2>2. PICK i \in 0 .. count - 1 : i = k - 1
      BY <1>1
    <2>3. Matches(m, i)
      BY <1>1, <2>1, <2>2, MatchIsEntry
    <2> QED BY <1>1, <2>3, FoundIfThere
  <1> QED BY <1>2, <1>3

(* The list without the victim's entry. *)
LEMMA VictimLeaves ==
  ASSUME Inv, NEW m \in Messages, count = CACHE_SIZE
  PROVE  LET left == IF m \in ToSet(Content) THEN RemoveFirst(Content, m) ELSE Tail(Content)
         IN  /\ left \in Seq(Signatures) /\ Len(left) = count - 1
             /\ \A j \in 1 .. count - 1 :
                  left[j] = IF j - 1 < Victim(m) THEN Entry(j - 1) ELSE Entry(j)
  <1>1. /\ Len(Content) = count /\ Content \in Seq(Signatures) /\ count \in Nat /\ count > 0
        /\ \A i \in 1 .. count : Content[i] = Entry(i - 1)
        /\ count \in 0 .. CACHE_SIZE
    BY ContentType, SizeType DEF Inv, ArrayOK
  <1>2. PICK p \in 0 .. count - 1 : /\ p = Victim(m)
                                    /\ p = IF Find(m) < count THEN Find(m) ELSE 0
    BY <1>1, VictimIsEntry
  <1>3. Find(m) < count <=> m \in ToSet(Content)
    BY FoundIsMember
  <1>4. ASSUME NEW j \in 1 .. count - 1
        PROVE  /\ Content[j] = Entry(j - 1) /\ Content[j + 1] = Entry(j)
               /\ j < p + 1 <=> j - 1 < p
    <2>1. j \in 1 .. count /\ j + 1 \in 1 .. count /\ j + 1 - 1 = j /\ j \in Nat /\ p \in Nat
      BY <1>1
    <2> QED BY <1>1, <2>1
  <1>5. CASE m \in ToSet(Content)
    <2>1. p = Find(m) /\ p < count
      BY <1>1, <1>2, <1>3, <1>5
    <2>2. Matches(m, p) /\ \A j \in 0 .. p - 1 : ~ Matches(m, j)
      BY <1>1, <2>1, FindProperties
    <2>3. PICK k \in 1 .. Len(Content) : k = p + 1
      BY <1>1
    <2>4. Content[k] = m
      <3>1. Entry(p) = m
        BY <2>2, MatchIsEntry
      <3>2. k - 1 = p
        BY <2>3
      <3> QED BY <1>1, <2>3, <3>1, <3>2
    <2>5. \A j \in 1 .. k - 1 : Content[j] # Content[k]
      <3> SUFFICES ASSUME NEW j \in 1 .. k - 1 PROVE Content[j] # m
        BY <2>4
      <3>1. j \in 1 .. count /\ j - 1 \in 0 .. p - 1 /\ j - 1 \in 0 .. count - 1
        BY <1>1, <2>3
      <3>2. Entry(j - 1) # m
        BY <2>2, <3>1, MatchIsEntry
      <3> QED BY <1>1, <3>1, <3>2
    <2>6. /\ RemoveFirst(Content, m) \in Seq(Signatures)
          /\ Len(RemoveFirst(Content, m)) = count - 1
          /\ \A j \in 1 .. count - 1 :
               RemoveFirst(Content, m)[j] = IF j < k THEN Content[j] ELSE Content[j + 1]
      <3>1. /\ RemoveFirst(Content, Content[k]) \in Seq(Signatures)
            /\ Len(RemoveFirst(Content, Content[k])) = Len(Content) - 1
            /\ \A j \in 1 .. Len(Content) - 1 : RemoveFirst(Content, Content[k])[j]
                 = IF j < k THEN Content[j] ELSE Content[j + 1]
        BY ZenonT(40), <1>1, <2>5, RemoveFirstMembers
      <3> QED BY <1>1, <2>4, <3>1
    <2>7. \A j \in 1 .. count - 1 :
            RemoveFirst(Content, m)[j] = IF j - 1 < p THEN Entry(j - 1) ELSE Entry(j)
      BY <1>4, <2>3, <2>6
    <2> QED BY <1>2, <1>5, <2>6, <2>7
  <1>6. CASE m \notin ToSet(Content)
    <2>1. p = 0
      BY <1>2, <1>3, <1>6
    <2>2. /\ Tail(Content) \in Seq(Signatures) /\ Len(Tail(Content)) = count - 1
          /\ \A j \in 1 .. count - 1 : Tail(Content)[j] = Content[j + 1]
      <3>1. Content # <<>>
        BY <1>1
      <3> QED BY <1>1, <3>1, HeadTailProperties
    <2>3. \A j \in 1 .. count - 1 :
            Tail(Content)[j] = IF j - 1 < p THEN Entry(j - 1) ELSE Entry(j)
      BY <1>4, <2>1, <2>2
    <2> QED BY <1>2, <1>6, <2>2, <2>3
  <1> QED BY <1>5, <1>6

(* An insertion into the array is one into the list. *)
LEMMA InsertRefines ==
  ASSUME Inv, Inv', NEW m \in Messages, Insert(m)
  PROVE  RL!Insert(m)
  <1>1. /\ Len(Content) = count /\ Content \in Seq(Signatures) /\ count \in Nat
        /\ \A i \in 1 .. count : Content[i] = Entry(i - 1)
        /\ count <= CACHE_SIZE /\ CACHE_SIZE \in Nat /\ count \in 0 .. CACHE_SIZE
    BY ContentType, SizeType DEF Inv, ArrayOK
  <1>2. PICK last \in 0 .. CACHE_SIZE - 1 :
          /\ count' = last + 1
          /\ last = IF count = CACHE_SIZE THEN count - 1 ELSE count
          /\ \A i \in 0 .. last - 1 :
               Entry(i)' = IF i < Victim(m) THEN Entry(i) ELSE Entry(i + 1)
          /\ Entry(last)' = Signature(m)
    BY InsertKeepsOrder DEF Inv, MovedUp
  <1>3. /\ Content' \in Seq(Signatures) /\ Len(Content') = count' /\ count' \in Nat
        /\ \A i \in 1 .. count' : Content'[i] = Entry(i - 1)'
    <2>1. PICK n \in Nat : n = last + 1 /\ n = count'
      BY <1>2
    <2>2. ASSUME NEW i \in 1 .. n PROVE Entry(i - 1)' \in Signatures
      <3>1. PICK k \in 0 .. n - 1 : k = i - 1
        BY <2>1
      <3>2. \A j \in 0 .. count' - 1 : Entry(j)' \in Signatures
        BY DEF Inv, Written
      <3> QED BY <2>1, <3>1, <3>2 DEF Entry, Slot
    <2>3. Content' = [i \in 1 .. n |-> Entry(i - 1)']
      BY <2>1 DEF Content, Entry
    <2>4. Content' \in [1 .. n -> Signatures]
      BY <2>2, <2>3
    <2> QED BY <2>1, <2>3, <2>4
  <1>4. PICK sig \in Signatures : sig = Signature(m)
    BY SignatureType
  <1>5. PICK left : left = IF Len(Content) < CACHE_SIZE THEN Content
                           ELSE IF m \in ToSet(Content) THEN RemoveFirst(Content, m)
                           ELSE Tail(Content)
    OBVIOUS
  <1>6. /\ left \in Seq(Signatures) /\ Len(left) = last
        /\ \A j \in 1 .. last : left[j] = Entry(j - 1)'
    <2>1. CASE count = CACHE_SIZE
      <3>1. /\ left \in Seq(Signatures) /\ Len(left) = count - 1
            /\ \A j \in 1 .. count - 1 :
                 left[j] = IF j - 1 < Victim(m) THEN Entry(j - 1) ELSE Entry(j)
        BY <1>1, <1>5, <2>1, VictimLeaves
      <3>2. ASSUME NEW j \in 1 .. last PROVE left[j] = Entry(j - 1)'
        <4>1. PICK k \in 0 .. last - 1 : k = j - 1 /\ k + 1 = j
          BY <1>2
        <4>2. Entry(k)' = IF k < Victim(m) THEN Entry(k) ELSE Entry(k + 1)
          BY <1>2
        <4>3. left[j] = IF j - 1 < Victim(m) THEN Entry(j - 1) ELSE Entry(j)
          BY <1>2, <2>1, <3>1
        <4>4. left[j] = Entry(k)'
          BY <4>1, <4>2, <4>3
        <4> QED BY <4>1, <4>4 DEF Entry, Slot
      <3> QED BY <1>2, <2>1, <3>1, <3>2
    <2>2. CASE count # CACHE_SIZE
      <3>1. left = Content /\ last = count /\ Victim(m) = count
        BY <1>1, <1>2, <1>5, <2>2 DEF Victim
      <3>2. ASSUME NEW j \in 1 .. last PROVE left[j] = Entry(j - 1)'
        <4>1. PICK k \in 0 .. last - 1 : k = j - 1 /\ k < count
          BY <1>1, <1>2, <3>1
        <4>2. Entry(k)' = Entry(k)
          BY <1>2, <3>1, <4>1
        <4>3. left[j] = Entry(k)
          BY <1>1, <3>1, <4>1
        <4> QED BY <4>1, <4>2, <4>3 DEF Entry, Slot
      <3> QED BY <1>1, <3>1, <3>2
    <2> QED BY <2>1, <2>2
  <1>7. Content' = Append(left, sig)
    <2>1. /\ Append(left, sig) \in Seq(Signatures) /\ Len(Append(left, sig)) = last + 1
          /\ \A j \in 1 .. last : Append(left, sig)[j] = left[j]
          /\ Append(left, sig)[last + 1] = sig
      BY <1>4, <1>6
    <2>2. ASSUME NEW i \in 1 .. last + 1 PROVE Content'[i] = Append(left, sig)[i]
      <3>1. CASE i = last + 1
        <4>1. PICK k \in 0 .. CACHE_SIZE - 1 : k = last /\ k = i - 1
          BY <1>2, <3>1
        <4>2. Content'[i] = Entry(i - 1)'
          BY <1>2, <1>3
        <4>3. Entry(i - 1)' = Entry(last)'
          BY <4>1 DEF Entry, Slot
        <4> QED BY <1>2, <1>4, <2>1, <3>1, <4>2, <4>3
      <3>2. CASE i # last + 1
        <4>1. i \in 1 .. last
          BY <1>2, <3>2
        <4> QED BY <1>3, <1>2, <1>6, <2>1, <4>1
      <3> QED BY <3>1, <3>2
    <2> QED BY ZenonT(40), <1>3, <1>2, <2>1, <2>2, SeqEqual
  <1>8. RL!InsertRecent(Content, m, sig) = Append(left, sig)
    <2>1. RL!ToSet(Content) = ToSet(Content)
      BY DEF RL!ToSet, ToSet
    <2>2. RL!RemoveFirst(Content, m) = RemoveFirst(Content, m)
      BY DEF RL!RemoveFirst, RL!RemoveAt, RL!SelectInSeq, RL!Min,
             RemoveFirst, RemoveAt, SelectInSeq, Min
    <2> QED BY <1>5, <2>1, <2>2 DEF RL!InsertRecent
  <1>9. answer' = answer
    BY DEF Insert
  <1>10. [n \in Messages |-> Signature(n)][m] = sig
    BY <1>4
  <1> QED BY <1>7, <1>8, <1>9, <1>10 DEF RL!Insert

(* Each command of the code is the command of the list with its name. *)
LEMMA NextRefines ==
  ASSUME Inv, Inv', [Next]_vars
  PROVE  [RL!Next]_<<Content, answer>>
  <1>1. ASSUME NEW m \in Messages, Insert(m) PROVE RL!Next
    BY <1>1, InsertRefines DEF RL!Next
  <1>2. ASSUME NEW m \in Messages, Lookup(m) PROVE RL!Next
    <2>1. UNCHANGED <<cache, first, count>> /\ answer' = (Find(m) < count)
      BY <1>2 DEF Lookup
    <2>2. answer' = (m \in ToSet(Content))
      BY <2>1, FoundIsMember
    <2>3. Content' = Content
      BY <2>1 DEF Content, Slot
    <2>4. RL!ToSet(Content) = ToSet(Content)
      BY DEF RL!ToSet, ToSet
    <2>5. RL!Lookup(m)
      BY <2>2, <2>3, <2>4 DEF RL!Lookup
    <2> QED BY <2>5 DEF RL!Next
  <1>3. CASE Flush
    <2>1. count' = 0 /\ answer' = answer
      BY <1>3 DEF Flush
    <2>2. Content' = <<>>
      BY <2>1 DEF Content
    <2> QED BY <2>1, <2>2 DEF RL!Next, RL!Flush
  <1>4. CASE UNCHANGED vars
    BY <1>4 DEF vars, Content, Slot
  <1> QED BY <1>1, <1>2, <1>3, <1>4 DEF Next

(* The circular array of LruCtpMsgCacheP.nc is the bounded recency list of signatures, for
   every capacity and whatever 16-bit sequence numbers are inserted: an insertion into a
   full list gives up the entry that is the packet, else the oldest one, and all others
   keep their order. *)
THEOREM CacheRefines == Spec => IsRecencyList
  <1>1. Init => RL!Init
    BY DEF Init, RL!Init, Content
  <1>2. Inv /\ Inv' /\ [Next]_vars => [RL!Next]_<<Content, answer>>
    BY NextRefines
  <1> QED BY <1>1, <1>2, InitInv, NextInv, PTL DEF Spec, IsRecencyList, RL!Spec
===========================================================================
