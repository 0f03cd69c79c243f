---------------------------- MODULE RecencyList ----------------------------
(***************************************************************************)
(* What the history of sent packets is, apart from its layout: a bounded   *)
(* list of what is kept of each packet, oldest first.  An insertion goes   *)
(* to the young end; when the list is full it first gives up the entry     *)
(* that is the packet itself, if there is one, or else the oldest.  A      *)
(* packet is remembered if it is in the list as it is, so one of which     *)
(* only a part is kept is not.                                             *)
(*                                                                         *)
(* InsertRecent is also the sent cache of the forwarding engine in module  *)
(* Forwarder, which keeps whole packets.                                   *)
(***************************************************************************)
EXTENDS Naturals, Sequences, SequencesExt

CONSTANTS
  Messages,    \* the packet instances that are inserted and looked up
  Kept,        \* what the list keeps of each of them, a function
  CACHE_SIZE   \* capacity of the list

VARIABLES
  recent,      \* what is kept, oldest first
  answer       \* the answer of the last lookup

InsertRecent(c, m, kept) ==
  Append(IF Len(c) < CACHE_SIZE THEN c
         ELSE IF m \in ToSet(c) THEN RemoveFirst(c, m)
         ELSE Tail(c), kept)

Init == recent = <<>> /\ answer = FALSE

Insert(m) == /\ recent' = InsertRecent(recent, m, Kept[m])
             /\ UNCHANGED answer

Lookup(m) == /\ answer' = (m \in ToSet(recent))
             /\ UNCHANGED recent

Flush == recent' = <<>> /\ UNCHANGED answer

Next == \/ \E m \in Messages : Insert(m) \/ Lookup(m)
        \/ Flush

Spec == Init /\ [][Next]_<<recent, answer>>
=============================================================================
