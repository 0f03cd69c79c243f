------------------------------ MODULE LruCache ------------------------------
(***************************************************************************)
(* The history of sent packets, LruCtpMsgCacheP.nc: a circular array of    *)
(* packet signatures.  The code keeps the sequence number of a signature   *)
(* in eight bits and compares it with the sixteen bits of the packet, so   *)
(* the two are kept apart here.                                            *)
(***************************************************************************)
EXTENDS Integers, FiniteSets, Sequences, SequencesExt

CONSTANTS
  Origins,     \* origins of packets
  SeqNos,      \* their sequence numbers, uint16_t in the packet header
  CACHE_SIZE,  \* the size of the array
  None         \* the content of a slot never written

uint16_t == 0 .. 65535

ASSUME CacheAssumption == CACHE_SIZE \in Nat \ {0} /\ SeqNos \subseteq uint16_t

VARIABLES
  cache, first, count,  \* the variables of the component
  answer,               \* the answer of the last Cache.lookup
  history               \* the packets inserted since the last flush, at most CACHE_SIZE

vars == <<cache, first, count, answer, history>>

Slots == 0 .. CACHE_SIZE - 1

\* The fields of a packet that make it a packet instance; type and thl, which
\* the signature also holds in full width, are part of origin here.
Messages == [origin : Origins, seqno : SeqNos]

\* What a slot keeps of a packet: uint8_t seqno.
Signature(m) == [origin |-> m.origin, seqno |-> m.seqno % 256]

Slot(i) == (first + i) % CACHE_SIZE

Matches(m, i) == /\ cache[Slot(i)].origin = m.origin
                 /\ cache[Slot(i)].seqno = m.seqno

\* The first matching position, count if there is none.
Find(m) == CHOOSE i \in 0 .. count :
             /\ \A j \in 0 .. i - 1 : ~ Matches(m, j)
             /\ i < count => Matches(m, i)

Init == /\ cache = [s \in Slots |-> None]
        /\ first = 0
        /\ count = 0
        /\ answer = FALSE
        /\ history = <<>>

\* Faulty: the shift starts one too late.
Removed_ShiftsLate(i) ==
  [cache |-> [s \in Slots |-> IF \E j \in i + 1 .. count - 1 : s = Slot(j)
                             THEN cache[(s + 1) % CACHE_SIZE] ELSE cache[s]],
   first |-> IF i = 0 THEN (first + 1) % CACHE_SIZE ELSE first,
   count |-> count - 1]

\* The array, the first index and the count after remove(i), i < count.
Removed(i) ==
  IF i = 0
  THEN [cache |-> cache, first |-> (first + 1) % CACHE_SIZE, count |-> count - 1]
  ELSE [cache |-> [s \in Slots |->
                    IF \E j \in i .. count - 1 : s = Slot(j)
                    THEN cache[(s + 1) % CACHE_SIZE] ELSE cache[s]],
        first |-> first,
        count |-> count - 1]

\* Faulty: a full cache gives up the oldest entry also when m is in it.
Insert_Fifo(m) ==
  LET c == IF count = CACHE_SIZE THEN Removed(0)
           ELSE [cache |-> cache, first |-> first, count |-> count]
  IN  /\ cache' = [c.cache EXCEPT ![(c.first + c.count) % CACHE_SIZE] = Signature(m)]
      /\ first' = c.first
      /\ count' = c.count + 1
      /\ history' = Append(IF Len(history) < CACHE_SIZE THEN history ELSE Tail(history), m)
      /\ UNCHANGED answer

Insert(m) ==
  LET c == IF count = CACHE_SIZE THEN Removed(Find(m) % count)
           ELSE [cache |-> cache, first |-> first, count |-> count]
  IN  /\ cache' = [c.cache EXCEPT ![(c.first + c.count) % CACHE_SIZE] = Signature(m)]
      /\ first' = c.first
      /\ count' = c.count + 1
      /\ history' = Append(IF Len(history) < CACHE_SIZE THEN history ELSE Tail(history), m)
      /\ UNCHANGED answer

Lookup(m) == /\ answer' = (Find(m) < count)
             /\ UNCHANGED <<cache, first, count, history>>

Flush == /\ first' = 0
         /\ count' = 0
         /\ history' = <<>>
         /\ UNCHANGED <<cache, answer>>

Next == \/ \E m \in Messages : Insert(m) \/ Lookup(m)
        \/ Flush

Spec == Init /\ [][Next]_vars

-----------------------------------------------------------------------------
Content == [i \in 1 .. count |-> cache[Slot(i - 1)]]

RL == INSTANCE RecencyList WITH recent <- Content,
                               Kept <- [m \in Messages |-> Signature(m)]

(* Types of the array and its indices in LruCtpMsgCacheP. *)
TypeOK ==
  /\ cache \in [Slots -> [origin : Origins, seqno : 0 .. 255] \union {None}]
  /\ first \in Slots
  /\ count \in 0 .. CACHE_SIZE
  /\ answer \in BOOLEAN
  /\ Len(history) <= CACHE_SIZE

(* Of every one of the last CACHE_SIZE packets inserted the signature is still there,
   whatever was inserted again and whatever the sequence numbers are: a packet that is
   like its signature, with a number below 256, is found (LruCtpMsgCacheP.nc:116-133). *)
KeepsLast == \A m \in ToSet(history) : Find(Signature(m)) < count

(* What duplicate suppression in SubReceive.receive relies on: every one of the last
   CACHE_SIZE packets is found ("in case we recently forwarded this packet"). *)
RemembersLast == \A m \in ToSet(history) : Find(m) < count

(* The circular array behaves as the bounded recency list of signatures, for all
   sequence numbers. *)
IsRecencyList == RL!Spec
=============================================================================
