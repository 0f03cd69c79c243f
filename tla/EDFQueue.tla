------------------------------ MODULE EDFQueue ------------------------------
(***************************************************************************)
(* The earliest-deadline-first send queue, EDFQueueC.nc: two parallel      *)
(* circular arrays kept sorted by deadline by insertion.  The caller is    *)
(* single-threaded (TinyOS tasks and events run to completion), so each    *)
(* command is one action.                                                  *)
(*                                                                         *)
(* An element is represented by its arrival number; the code stores        *)
(* pointers and never looks at them.                                       *)
(***************************************************************************)
EXTENDS Integers, FiniteSets

CONSTANTS
  QUEUE_SIZE,   \* uint8_t QUEUE_SIZE, the size of the arrays
  Deadlines,    \* the absolute deadlines (uint32_t) that callers use
  MaxArrivals,  \* bound on the number of calls of enqueue
  NULL,         \* the initial content of a slot
  SUCCESS, FAIL \* the error codes (error_t) enqueue answers with

ASSUME QueueAssumption ==
  /\ QUEUE_SIZE \in Nat \ {0}
  /\ Deadlines \subseteq Nat
  /\ MaxArrivals \in Nat
  /\ {NULL, SUCCESS, FAIL} \intersect Nat = {}

VARIABLES queue, deadlines, head, size, arrivals, ret

vars == <<queue, deadlines, head, size, arrivals, ret>>

Slots == 0 .. QUEUE_SIZE - 1

\* The slot of the i-th element of a queue whose head is h.
SlotFrom(h, i) == (h + i) % QUEUE_SIZE

Slot(i) == SlotFrom(head, i)

\* The position, relative to a head h, of slot s.
Rank(h, s) == (s - h + QUEUE_SIZE) % QUEUE_SIZE

\* Faulty: equal deadlines are served last come first served.
Later_OrEqual(d) == {i \in 0 .. size - 1 : d <= deadlines[Slot(i)]} \union {size}

\* The first position whose deadline is later than d; size if there is none.
Later(d) == {i \in 0 .. size - 1 : d < deadlines[Slot(i)]} \union {size}

Position(d) == CHOOSE p \in Later(d) : \A i \in Later(d) : p <= i

\* Faulty: the head does not wrap.
HeadBack_NoWrap(h) == h - 1

\* "adjust head only if new element has smallest deadline"
HeadBack(h) == (h + QUEUE_SIZE - 1) % QUEUE_SIZE

\* The array f after the elements at positions p .. size - 1 have moved back
\* by one and v has been stored at position p.
Shifted(f, p, v) ==
  [s \in Slots |-> LET r == Rank(head, s)
                   IN  IF r = p THEN v
                       ELSE IF p < r /\ r <= size THEN f[Slot(r - 1)]
                       ELSE f[s]]

Init ==
  /\ queue = [s \in Slots |-> NULL]
  /\ deadlines = [s \in Slots |-> 0]
  /\ head = 0
  /\ size = 0
  /\ arrivals = 0
  /\ ret = NULL

\* The new element has the smallest deadline: no element moves, the head does.
EnqueueFront(v, d) ==
  /\ size > 0
  /\ Position(d) = 0
  /\ head' = HeadBack(head)
  /\ queue' = [queue EXCEPT ![HeadBack(head)] = v]
  /\ deadlines' = [deadlines EXCEPT ![HeadBack(head)] = d]

EnqueueBehind(v, d) ==
  /\ size = 0 \/ Position(d) > 0
  /\ queue' = Shifted(queue, Position(d), v)
  /\ deadlines' = Shifted(deadlines, Position(d), d)
  /\ UNCHANGED head

Enqueue(v, d) ==
  /\ size < QUEUE_SIZE
  /\ EnqueueFront(v, d) \/ EnqueueBehind(v, d)
  /\ size' = size + 1
  /\ ret' = SUCCESS

\* Faulty: the last slot is never used.
EnqueueFull_Early ==
  /\ size >= QUEUE_SIZE - 1
  /\ ret' = FAIL
  /\ UNCHANGED <<queue, deadlines, head, size>>

EnqueueFull ==
  /\ size >= QUEUE_SIZE
  /\ ret' = FAIL
  /\ UNCHANGED <<queue, deadlines, head, size>>

Dequeue ==
  /\ ret' = queue[head]
  /\ IF size > 0 THEN /\ head' = (head + 1) % QUEUE_SIZE
                      /\ size' = size - 1
                 ELSE UNCHANGED <<head, size>>
  /\ UNCHANGED <<queue, deadlines, arrivals>>

Arrive ==
  /\ arrivals < MaxArrivals
  /\ arrivals' = arrivals + 1
  /\ \E d \in Deadlines : Enqueue(arrivals, d) \/ EnqueueFull

Next == Arrive \/ Dequeue

Spec == Init /\ [][Next]_vars

-----------------------------------------------------------------------------
(* What the queue holds, in the terms of DeadlineQueue. *)
Element(i) == [val |-> queue[Slot(i)], deadline |-> deadlines[Slot(i)]]

Content == {Element(i) : i \in 0 .. size - 1}

DQ == INSTANCE DeadlineQueue WITH content <- Content

-----------------------------------------------------------------------------
(* Types of the two arrays, the two indices and the history variables of
   EDFQueueC: head always names a slot, size never exceeds the arrays. *)
TypeOK ==
  /\ queue \in [Slots -> 0 .. arrivals - 1 \union {NULL}]
  /\ deadlines \in [Slots -> Deadlines \union {0}]
  /\ head \in Slots
  /\ size \in 0 .. QUEUE_SIZE
  /\ arrivals \in 0 .. MaxArrivals
  /\ ret \in 0 .. arrivals - 1 \union {NULL, SUCCESS, FAIL}

(* The elements lie from the head on in the order in which they will be
   served: by deadline, and by arrival among equal deadlines (the insertion
   loop of enqueue stops at the first strictly later deadline). *)
Sorted ==
  \A i, j \in 0 .. size - 1 :
    i < j => DQ!Before(Element(i), Element(j))

(* The circular arrays implement the abstract queue: dequeue answers with the
   earliest deadline, first come first served among equals, an enqueue into a
   queue that is not full always succeeds, and no element is lost. *)
ServesEarliestDeadline == DQ!Spec
=============================================================================
