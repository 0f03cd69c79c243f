--------------------------- MODULE DeadlineQueue ---------------------------
(***************************************************************************)
(* What the send queue of the forwarding engine promises to its caller: a  *)
(* bounded collection from which dequeue takes the element with the        *)
(* earliest deadline and, among equal deadlines, the one that arrived      *)
(* first.  Nothing is said about how the elements are stored.              *)
(*                                                                         *)
(* An element is named by its arrival number, so that "arrived first" can  *)
(* be stated; the code stores pointers and never compares them.            *)
(***************************************************************************)
EXTENDS Naturals, FiniteSets

CONSTANTS
  QUEUE_SIZE,   \* capacity of the queue
  Deadlines,    \* the absolute deadlines that callers use
  MaxArrivals,  \* bound on the number of calls of enqueue
  NULL,         \* what an unused slot holds, and no answer yet
  SUCCESS, FAIL \* the error codes enqueue answers with

VARIABLES
  content,      \* the queued elements
  arrivals,     \* how many times enqueue was called
  ret           \* the answer of the last call

vars == <<content, arrivals, ret>>

Before(x, y) == \/ x.deadline < y.deadline
                \/ x.deadline = y.deadline /\ x.val < y.val

Init == /\ content = {}
        /\ arrivals = 0
        /\ ret = NULL

Enqueue(d) ==
  /\ arrivals < MaxArrivals
  /\ arrivals' = arrivals + 1
  /\ \/ /\ Cardinality(content) < QUEUE_SIZE
        /\ content' = content \union {[val |-> arrivals, deadline |-> d]}
        /\ ret' = SUCCESS
     \/ /\ Cardinality(content) >= QUEUE_SIZE
        /\ ret' = FAIL
        /\ UNCHANGED content

DequeueFirst ==
  \E x \in content :
    /\ \A y \in content \ {x} : Before(x, y)
    /\ content' = content \ {x}
    /\ ret' = x.val
    /\ UNCHANGED arrivals

\* On an empty queue dequeue answers with whatever was stored before.
DequeueEmpty ==
  /\ content = {}
  /\ ret' \in 0 .. arrivals \union {NULL}
  /\ UNCHANGED <<content, arrivals>>

Next == \/ \E d \in Deadlines : Enqueue(d)
        \/ DequeueFirst
        \/ DequeueEmpty

Spec == Init /\ [][Next]_vars
=============================================================================
