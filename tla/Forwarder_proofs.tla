-------------------------- MODULE Forwarder_proofs --------------------------
(***************************************************************************)
(* Proofs about Forwarder for every number of clients, entries, packets,   *)
(* next hops and transmissions, and for every world.                       *)
(***************************************************************************)
EXTENDS Forwarder, DistinctSeqs

-----------------------------------------------------------------------------
(* The inductive invariant. *)

Queued == [entry : Entries \union Clients, deadline : Nat]

\* The entries whose contents the engine may still look at.
Used == InQueue \union ({fqe, inflight} \ {None})

\* What an entry in use holds.  Deadlines in the past are never copied in
\* MMSPEED builds; in the others a client's packet is in the client's entry.
Good(e) ==
  /\ entry[e] \in Content
  /\ entry[e].client = None => entry[e].pkt \in Packets
  /\ Variant = "MMSPEED" => e \in Entries /\ entry[e].deadline > 0
  /\ Variant # "MMSPEED" => entry[e].client = IF e \in Clients THEN e ELSE None

Types ==
  /\ world \in Worlds
  /\ fqe \in Entries \union Clients \union {None}
  /\ inflight \in Entries \union Clients \union {None}
  /\ isRetx => fqe # None
  /\ queue \in Seq(Queued)
  /\ pool \in Seq(Entries)
  /\ entry \in [Entries \union Clients -> Content \union {None}]
  /\ now \in Nat /\ txTime \in 0 .. now
  /\ Variant = "MMSPEED" => txTime = 0
  /\ \A e \in Used : Good(e)

\* sending is cleared by a timer that runs after SubSend.sendDone only.
LinkFree ==
  Variant # "CTP" /\ ~ Loops =>
    /\ inflight # None => sending /\ ~ retxTimer
    /\ retxTimer => sending

\* Every entry is in one place, and what waits can still be transmitted.
Counted == Sound =>
  /\ IsInjective(pool) /\ IsInjective(Line)
  /\ ToSet(pool) \intersect Waiting = {}
  /\ InQueue \intersect InHand = {}
  /\ Entries \subseteq ToSet(pool) \union Waiting
  /\ \A e \in Waiting : /\ entry[e].retries \in 1 .. MAX_RETRIES
                        /\ e \in Clients => e \in sendBusy \/ Variant = "MMSPEED"

Inv == Types /\ LinkFree /\ InflightIsOurs /\ Counted

-----------------------------------------------------------------------------
(* Basic facts. *)

(* The assumptions on the constants, without those on worlds. *)
LEMMA Constants ==
  /\ FORWARD_COUNT \in Nat /\ FORWARD_COUNT > 0
  /\ MAX_RETRIES \in 1 .. 255
  /\ Clients \intersect Entries = {}
  /\ None \notin Entries \union Clients /\ None \notin Parents
  BY ForwarderAssumption

(* Every world is of one of the three builds. *)
LEMMA Builds ==
  ASSUME world \in Worlds
  PROVE  /\ Variant \in {"MTA", "MMSPEED", "CTP"}
         /\ Loops \in BOOLEAN
         /\ world.absolute \subseteq Nat /\ world.relative \subseteq Nat \ {0}
  BY ForwarderAssumption DEF Variant, Loops

(* The pools have FORWARD_COUNT entries. *)
LEMMA EntriesCount == IsFiniteSet(Entries) /\ Cardinality(Entries) = FORWARD_COUNT
  BY Constants, FS_Interval DEF Entries

(* A world does not change. *)
LEMMA SameWorld ==
  ASSUME world' = world
  PROVE  Variant' = Variant /\ Loops' = Loops /\ Sound' = Sound
  BY DEF Variant, Loops, Sound

\* The entries of a queue, and the queue of a run of entries.
LineOf(q) == [i \in DOMAIN q |-> q[i].entry]
WithDeadline(es, d) == [i \in DOMAIN es |-> [entry |-> es[i], deadline |-> d]]

(* The queued entries in terms of the queue. *)
LEMMA LineType ==
  ASSUME NEW q \in Seq(Queued)
  PROVE  /\ LineOf(q) \in Seq(Entries \union Clients)
         /\ Len(LineOf(q)) = Len(q)
         /\ \A i \in 1 .. Len(q) : LineOf(q)[i] = q[i].entry
  <1>1. /\ Len(q) \in Nat /\ DOMAIN q = 1 .. Len(q)
        /\ \A i \in 1 .. Len(q) : q[i] \in Queued
    BY LenProperties
  <1>2. \A i \in 1 .. Len(q) : q[i].entry \in Entries \union Clients
    BY <1>1 DEF Queued
  <1>3. [i \in 1 .. Len(q) |-> q[i].entry] \in Seq(Entries \union Clients)
    BY <1>1, <1>2, IsASeq
  <1>4. LineOf(q) = [i \in 1 .. Len(q) |-> q[i].entry]
    BY <1>1 DEF LineOf
  <1>5. /\ LineOf(q) \in Seq(Entries \union Clients)
        /\ DOMAIN LineOf(q) = 1 .. Len(q)
        /\ \A i \in 1 .. Len(q) : LineOf(q)[i] = q[i].entry
    BY <1>3, <1>4
  <1> QED BY <1>1, <1>5, LenProperties

(* A run of entries with a deadline. *)
LEMMA WithDeadlineType ==
  ASSUME NEW es \in Seq(Entries \union Clients), NEW d \in Nat
  PROVE  /\ WithDeadline(es, d) \in Seq(Queued)
         /\ Len(WithDeadline(es, d)) = Len(es)
         /\ \A i \in 1 .. Len(es) : WithDeadline(es, d)[i].entry = es[i]
  <1>1. /\ Len(es) \in Nat /\ DOMAIN es = 1 .. Len(es)
        /\ \A i \in 1 .. Len(es) : es[i] \in Entries \union Clients
    BY LenProperties
  <1>2. \A i \in 1 .. Len(es) : [entry |-> es[i], deadline |-> d] \in Queued
    BY <1>1 DEF Queued
  <1>3. [i \in 1 .. Len(es) |-> [entry |-> es[i], deadline |-> d]] \in Seq(Queued)
    BY <1>1, <1>2, IsASeq
  <1>4. WithDeadline(es, d) = [i \in 1 .. Len(es) |-> [entry |-> es[i], deadline |-> d]]
    BY <1>1 DEF WithDeadline
  <1>5. /\ WithDeadline(es, d) \in Seq(Queued)
        /\ DOMAIN WithDeadline(es, d) = 1 .. Len(es)
        /\ \A i \in 1 .. Len(es) : WithDeadline(es, d)[i].entry = es[i]
    BY <1>3, <1>4
  <1> QED BY <1>1, <1>5, LenProperties

(* What waits and what is in the air is in use, and is an entry. *)
LEMMA UsedEntries ==
  ASSUME Types
  PROVE  /\ Used \subseteq Entries \union Clients
         /\ Waiting \subseteq Used
  <1>1. InQueue \subseteq Entries \union Clients
    <2>1. Line \in Seq(Entries \union Clients)
      BY LineType DEF Types, Line, LineOf
    <2> QED BY <2>1, LenProperties DEF InQueue, ToSet
  <1> QED BY <1>1 DEF Types, Used, Waiting, InHand

-----------------------------------------------------------------------------
(* Steps that leave the entries where they are. *)

(* Inv looks only at the entries, at what holds them and at the link. *)
LEMMA FrameInv ==
  ASSUME Inv, now' \in Nat, now <= now', LinkFree',
         UNCHANGED <<world, isRetx, fqe, queue, pool, entry, inflight, sendBusy, txTime>>
  PROVE  Inv'
  <1>1. Variant' = Variant /\ Loops' = Loops /\ Sound' = Sound
    BY SameWorld
  <1>2. Line' = Line /\ InQueue' = InQueue /\ InHand' = InHand /\ Waiting' = Waiting
    BY DEF Line, InQueue, InHand, Waiting
  <1>3. Used' = Used /\ \A e : Good(e)' <=> Good(e)
    BY <1>1, <1>2 DEF Used, Good
  <1>4. Types'
    BY <1>1, <1>3 DEF Inv, Types
  <1>5. InflightIsOurs' /\ Counted'
    BY <1>1, <1>2 DEF Inv, InflightIsOurs, DoneIsOurs, Counted
  <1> QED BY <1>4, <1>5 DEF Inv

-----------------------------------------------------------------------------
(* Entering the queue. *)

(* Inserting a run of entries es into a queue q. *)
LEMMA InsertedLine ==
  ASSUME NEW es \in Seq(Entries \union Clients), NEW d \in Nat,
         NEW q \in Seq(Queued), NEW p \in 0 .. Len(q),
         NEW q1, q1 = Insertion(q, WithDeadline(es, d), p)
  PROVE  /\ q1 \in Seq(Queued) /\ Len(q1) = Len(q) + Len(es)
         /\ ToSet(LineOf(q1)) = ToSet(LineOf(q)) \union ToSet(es)
         /\ IsInjective(LineOf(q)) /\ IsInjective(es) /\ ToSet(LineOf(q)) \intersect ToSet(es) = {}
              => IsInjective(LineOf(q1))
  <1>1. Len(es) \in Nat /\ Len(q) \in Nat /\ p \in Nat
    BY LenProperties
  <1>2. PICK new \in Seq(Queued) :
          /\ new = WithDeadline(es, d) /\ Len(new) = Len(es)
          /\ \A i \in 1 .. Len(es) : new[i].entry = es[i]
    BY WithDeadlineType
  <1>5. /\ q1 \in Seq(Queued) /\ Len(q1) = Len(q) + Len(es)
        /\ \A i \in 1 .. Len(q) + Len(es) :
             q1[i] = IF i <= p THEN q[i]
                     ELSE IF i <= p + Len(es) THEN new[i - p] ELSE q[i - Len(es)]
    <2>1. q1 = Insertion(q, new, p)
      BY <1>2
    <2>2. q1 \in Seq(Queued) /\ IsInsertion(q1, q, new, p)
      BY <2>1, Inserted
    <2> QED BY <1>2, <2>2 DEF IsInsertion
  <1>6. PICK l \in Seq(Entries \union Clients) :
          /\ l = LineOf(q) /\ Len(l) = Len(q)
          /\ \A i \in 1 .. Len(q) : l[i] = q[i].entry
    BY LineType
  <1>7. PICK l1 \in Seq(Entries \union Clients) :
          /\ l1 = LineOf(q1) /\ Len(l1) = Len(l) + Len(es)
          /\ \A i \in 1 .. Len(l) + Len(es) : l1[i] = q1[i].entry
    BY <1>5, <1>6, LineType
  <1>8. ASSUME NEW i \in 1 .. Len(l) + Len(es)
        PROVE  l1[i] = IF i <= p THEN l[i]
                       ELSE IF i <= p + Len(es) THEN es[i - p] ELSE l[i - Len(es)]
    <2>1. l1[i] = q1[i].entry /\ i \in 1 .. Len(q) + Len(es)
      BY <1>6, <1>7
    <2>2. CASE i <= p
      <3>1. i \in 1 .. Len(q) /\ q1[i] = q[i]
        BY <1>1, <1>5, <2>1, <2>2
      <3> QED BY <1>6, <2>1, <2>2, <3>1
    <2>3. CASE ~ (i <= p) /\ i <= p + Len(es)
      <3>1. i - p \in 1 .. Len(es)
        BY <1>1, <2>1, <2>3
      <3>2. q1[i] = new[i - p]
        BY <1>5, <2>1, <2>3
      <3>3. new[i - p].entry = es[i - p]
        BY <1>2, <3>1
      <3> QED BY <2>1, <2>3, <3>2, <3>3
    <2>4. CASE ~ (i <= p) /\ ~ (i <= p + Len(es))
      <3>1. i - Len(es) \in 1 .. Len(q)
        BY <1>1, <2>1, <2>4
      <3>2. q1[i] = q[i - Len(es)]
        BY <1>5, <2>1, <2>4
      <3>3. l[i - Len(es)] = q[i - Len(es)].entry
        BY <1>6, <3>1
      <3> QED BY <2>1, <2>4, <3>2, <3>3
    <2> QED BY <2>2, <2>3, <2>4
  <1>9. p \in 0 .. Len(l)
    BY <1>6
  <1>10. IsInsertion(l1, l, es, p)
    BY <1>7, <1>8 DEF IsInsertion
  <1>11. ToSet(l1) = ToSet(l) \union ToSet(es)
    BY <1>9, <1>10, InsertedMembers
  <1>12. IsInjective(l) /\ IsInjective(es) /\ ToSet(l) \intersect ToSet(es) = {}
           => IsInjective(l1)
    BY <1>9, <1>10, InsertedDistinct
  <1> QED BY <1>5, <1>6, <1>7, <1>11, <1>12

(* Enqueueing the entries es keeps the others. *)
LEMMA EnqueuedLine ==
  ASSUME Types, NEW es \in Seq(Entries \union Clients), NEW d \in Nat,
         queue' = Enqueued(es, d)
  PROVE  /\ queue' \in Seq(Queued) /\ Len(queue') = Len(queue) + Len(es)
         /\ InQueue' = InQueue \union ToSet(es)
         /\ IsInjective(Line) /\ IsInjective(es) /\ InQueue \intersect ToSet(es) = {}
              => IsInjective(Line')
  <1>1. queue \in Seq(Queued) /\ Len(queue) \in Nat /\ DOMAIN queue = 1 .. Len(queue)
    BY LenProperties DEF Types
  <1>2. PICK p \in 0 .. Len(queue) : queue' = Insertion(queue, WithDeadline(es, d), p)
    <2> DEFINE earlier == {i \in DOMAIN queue : queue[i].deadline <= d}
               place   == IF Variant = "CTP" THEN Len(queue) ELSE Cardinality(earlier)
    <2>1. IsFiniteSet(DOMAIN queue) /\ Cardinality(DOMAIN queue) = Len(queue)
      <3>1. PICK n \in Nat : n = Len(queue) /\ DOMAIN queue = 1 .. n
        BY <1>1
      <3>2. IsFiniteSet(1 .. n) /\ Cardinality(1 .. n) = n
        BY FS_Interval
      <3> QED BY SMTT(30), <3>1, <3>2
    <2>2. Cardinality(earlier) \in 0 .. Len(queue)
      <3>1. earlier \in SUBSET (DOMAIN queue)
        OBVIOUS
      <3> HIDE DEF earlier
      <3>2. IsFiniteSet(earlier) /\ Cardinality(earlier) <= Cardinality(DOMAIN queue)
        BY <2>1, <3>1, FS_Subset
      <3>3. Cardinality(earlier) \in Nat
        BY <3>2, FS_CardinalityType
      <3> QED BY <1>1, <2>1, <3>2, <3>3
    <2>3. queue' = Insertion(queue, WithDeadline(es, d), place)
      BY DEF Enqueued, Insertion, WithDeadline
    <2> HIDE DEF earlier
    <2>4. place \in 0 .. Len(queue)
      BY <1>1, <2>2
    <2> QED BY <2>3, <2>4
  <1>3. /\ Line = LineOf(queue) /\ Line' = LineOf(queue')
        /\ InQueue = ToSet(Line) /\ InQueue' = ToSet(Line')
    BY DEF Line, InQueue, LineOf
  <1>4. PICK q1 : q1 = queue'
    OBVIOUS
  <1>5. /\ q1 \in Seq(Queued) /\ Len(q1) = Len(queue) + Len(es)
        /\ ToSet(LineOf(q1)) = ToSet(LineOf(queue)) \union ToSet(es)
        /\ IsInjective(LineOf(queue)) /\ IsInjective(es)
             /\ ToSet(LineOf(queue)) \intersect ToSet(es) = {}
             => IsInjective(LineOf(q1))
    BY <1>1, <1>2, <1>4, InsertedLine
  <1> QED BY <1>3, <1>4, <1>5

(* What a packet's entry is filled with is fit for use. *)
LEMMA NewEntryGood ==
  ASSUME Types, NEW e \in Entries \union Clients, NEW m \in Packets \union Clients,
         NEW c \in Clients \union {None}, NEW p \in Parents \union {None}, NEW d \in Nat,
         c = None => m \in Packets
  PROVE  LET x == NewEntry(m, c, p, d)
         IN  /\ x \in Content /\ x.retries \in 1 .. MAX_RETRIES
             /\ x.client = c /\ x.deadline = d
             /\ x.client = None => x.pkt \in Packets
  BY Constants DEF NewEntry, Content

-----------------------------------------------------------------------------
(* In the first states everything is in the pools. *)
LEMMA InitInv == Init => Inv
  <1> SUFFICES ASSUME Init PROVE Inv
    OBVIOUS
  <1>1. /\ world \in Worlds /\ sending = FALSE /\ retxTimer = FALSE /\ isRetx = FALSE
        /\ fqe = None /\ inflight = None /\ queue = <<>> /\ now = 0 /\ txTime = 0
        /\ pool = [i \in Entries |-> i]
        /\ entry = [e \in Entries \union Clients |-> None]
    BY DEF Init
  <1>2. Line = <<>> /\ InQueue = {} /\ InHand = {} /\ Waiting = {} /\ Used = {}
    <2>1. Line = <<>>
      BY <1>1 DEF Line
    <2>2. InQueue = {}
      BY <2>1 DEF InQueue, ToSet
    <2> QED BY <1>1, <2>1, <2>2 DEF InHand, Waiting, Used
  <1>3. pool \in Seq(Entries) /\ IsInjective(pool) /\ ToSet(pool) = Entries
    <2>1. FORWARD_COUNT \in Nat /\ Entries = 1 .. FORWARD_COUNT
      BY Constants DEF Entries
    <2>2. [i \in 1 .. FORWARD_COUNT |-> i] \in Seq(Entries)
      BY <2>1, IsASeq
    <2>3. pool \in Seq(Entries)
      BY <1>1, <2>1, <2>2
    <2>4. DOMAIN pool = Entries /\ \A i \in Entries : pool[i] = i
      BY <1>1
    <2> QED BY <2>3, <2>4 DEF IsInjective, ToSet
  <1>4. Types
    BY <1>1, <1>2, <1>3 DEF Types
  <1>5. Counted
    <2>1. IsInjective(<<>>)
      BY DEF IsInjective
    <2> QED BY <1>2, <1>3, <2>1 DEF Counted
  <1> QED BY <1>1, <1>4, <1>5 DEF Inv, LinkFree, InflightIsOurs, DoneIsOurs

-----------------------------------------------------------------------------
(* sending, RetxmitTimer and the packet the data-link layer holds. *)

(* What keeps the link free keeps it free. *)
LEMMA LinkFrame ==
  ASSUME LinkFree, UNCHANGED <<world, sending, inflight, retxTimer>>
  PROVE  LinkFree'
  BY SameWorld DEF LinkFree

(* A packet that is copied touches the timer in builds with loops only. *)
LEMMA LinkEnter ==
  ASSUME LinkFree, UNCHANGED <<world, sending, inflight>>,
         ~ Loops => (retxTimer' => retxTimer)
  PROVE  LinkFree'
  BY SameWorld DEF LinkFree

(* Where no loop is detected a timer runs, or the link is held, only while
   sending is set. *)
LEMMA LinkStep ==
  ASSUME LinkFree, [Next]_vars
  PROVE  LinkFree'
  <1>1. CASE Start \/ Stop \/ RadioStop \/ StopDone \/ StartDone
    BY <1>1, LinkFrame DEF Start, Stop, RadioStop, StopDone, StartDone, env, hand, ctl, pipe
  <1>2. ASSUME NEW c \in Clients, Send(c)
        PROVE  LinkFree'
    <2>1. UNCHANGED <<world, sending, inflight>>
      BY <1>2 DEF Send, env
    <2>2. ASSUME ~ Loops, retxTimer' PROVE retxTimer
      <3>1. CASE Variant = "MMSPEED"
        <4>1. PICK r \in world.relative : SendCopies(c, now + r)
          BY <1>2, <3>1 DEF Send
        <4>2. PICK ps \in ParentChoices(now + r) :
                \/ \E loop \in {FALSE, Loops} : Copied(c, c, ps, now + r, loop)
                \/ Refused(c, c, ps, now + r)
          BY <4>1 DEF SendCopies
        <4>3. CASE Refused(c, c, ps, now + r)
          BY <2>2, <4>3 DEF Refused, NotEnqueued, NoCopy
        <4>4. ASSUME NEW loop \in {FALSE, Loops}, Copied(c, c, ps, now + r, loop)
              PROVE  retxTimer
          <5>1. retxTimer' = (retxTimer \/ loop)
            BY <4>4 DEF Copied
          <5> QED BY <2>2, <5>1
        <4> QED BY <4>2, <4>3, <4>4
      <3>2. CASE Variant # "MMSPEED"
        BY <1>2, <2>2, <3>2 DEF Send, SendOwn
      <3> QED BY <3>1, <3>2
    <2> QED BY <2>1, <2>2, LinkEnter
  <1>3. CASE RouteFound \/ TasksDone \/ CongestionTimerFired \/ Tick
    BY <1>3, LinkFrame DEF RouteFound, TasksDone, CongestionTimerFired, Tick, env, hand, ctl, pipe
  <1>4. CASE RetxmitTimerFired
    BY <1>4, SameWorld DEF RetxmitTimerFired, LinkFree, env
  <1>5. CASE SendDone
    <2>1. UNCHANGED <<world, sending>> /\ inflight # None /\ inflight' = None
      BY <1>5 DEF SendDone, env
    <2> QED BY <2>1, SameWorld DEF LinkFree
  <1>6. ASSUME NEW m \in Packets, Receive(m)
        PROVE  LinkFree'
    <2>1. UNCHANGED <<world, sending, inflight>>
      BY <1>6 DEF Receive, env
    <2>2. ASSUME ~ Loops, retxTimer' PROVE retxTimer
      <3>1. PICK d \in world.absolute : \E ps \in ParentChoices(d), loop \in {FALSE, Loops} :
              Copied(m, None, ps, d, loop) \/ Refused(m, None, ps, d)
        BY <1>6 DEF Receive
      <3>2. PICK ps \in ParentChoices(d), loop \in {FALSE, Loops} :
              Copied(m, None, ps, d, loop) \/ Refused(m, None, ps, d)
        BY <3>1
      <3>3. CASE Refused(m, None, ps, d)
        BY <2>2, <3>3 DEF Refused, NotEnqueued, NoCopy
      <3>4. CASE Copied(m, None, ps, d, loop)
        <4>1. retxTimer' = (retxTimer \/ loop)
          BY <3>4 DEF Copied
        <4> QED BY <2>2, <4>1
      <3> QED BY <3>2, <3>3, <3>4
    <2> QED BY <2>1, <2>2, LinkEnter
  <1>7. CASE SendTask
    <2>1. UNCHANGED world
      BY <1>7 DEF SendTask, env
    <2>2. CASE TaskIdle \/ TaskDefer \/ TaskSelect \/ TaskReject
      BY <2>1, <2>2, LinkFrame DEF TaskIdle, TaskDefer, TaskSelect, TaskReject
    <2>3. CASE TaskNoRoute
      BY <2>1, <2>3, SameWorld DEF TaskNoRoute, LinkFree
    <2>4. CASE TaskTransmit
      <3>1. ~ sending /\ UNCHANGED retxTimer
        BY <2>4 DEF TaskTransmit
      <3>2. PICK answer : Sent(Chosen, answer)
        BY <2>4 DEF TaskTransmit
      <3>3. (inflight' # None => inflight # None \/ sending')
        BY <3>2 DEF Sent
      <3> QED BY <2>1, <3>1, <3>3, SameWorld DEF LinkFree
    <2> QED BY <1>7, <2>2, <2>3, <2>4 DEF SendTask
  <1>8. CASE UNCHANGED vars
    BY <1>8, LinkFrame DEF vars, env
  <1> QED BY <1>1, <1>2, <1>3, <1>4, <1>5, <1>6, <1>7, <1>8 DEF Next, Calls, Events

(* The radio holds a packet only while "sending" is set, where no loop is
   detected. *)
THEOREM LinkGuarded == Spec => []GuardsLink
  <1>1. Init => LinkFree
    BY InitInv DEF Inv
  <1>2. LinkFree /\ [Next]_vars => LinkFree'
    BY LinkStep
  <1>3. LinkFree => GuardsLink
    BY DEF LinkFree, GuardsLink
  <1> QED BY <1>1, <1>2, <1>3, PTL DEF Spec

-----------------------------------------------------------------------------
(* Packets that arrive. *)

(* What forward may choose from: in MMSPEED nothing once the deadline passed. *)
LEMMA ParentsChosen ==
  ASSUME Types, NEW d \in Nat, NEW ps \in ParentChoices(d)
  PROVE  /\ ps \in Seq(Parents \union {None})
         /\ Variant = "MMSPEED" /\ ps # <<>> => d > 0
  <1>1. CASE Variant # "MMSPEED"
    <2>1. ps = <<None>>
      BY <1>1 DEF ParentChoices
    <2>2. <<None>> \in Seq(Parents \union {None})
      OBVIOUS
    <2> QED BY <1>1, <2>1, <2>2
  <1>2. CASE Variant = "MMSPEED" /\ d > now
    <2>1. ps \in Seq(Parents)
      BY <1>2, ForwarderAssumption DEF ParentChoices
    <2>2. ps \in Seq(Parents \union {None})
      BY <2>1
    <2>3. d > 0
      BY <1>2 DEF Types
    <2> QED BY <2>2, <2>3
  <1>3. CASE Variant = "MMSPEED" /\ ~ (d > now)
    <2>1. ps = <<>>
      BY <1>3 DEF ParentChoices
    <2> QED BY <2>1
  <1> QED BY <1>1, <1>2, <1>3

\* A packet as forward or Send.send gets it, and the client it comes from.
Arrival(m, c, d) ==
  /\ m \in Packets \union Clients /\ c \in Clients \union {None}
  /\ c = None => m \in Packets
  /\ Variant # "MMSPEED" => c = None
  /\ Variant = "MMSPEED" => d > 0

(* An entry that a packet was copied into is fit for use. *)
LEMMA CopyGood ==
  ASSUME Types, world' = world, NEW m, NEW c, NEW d \in Nat, Arrival(m, c, d),
         NEW p \in Parents \union {None}, NEW e \in Entries,
         entry'[e] = NewEntry(m, c, p, d)
  PROVE  Good(e)' /\ entry'[e] \in Content /\ entry'[e].retries \in 1 .. MAX_RETRIES
  <1>1. m \in Packets \union Clients /\ c \in Clients \union {None} /\ (c = None => m \in Packets)
    BY DEF Arrival
  <1>2. PICK x : x = NewEntry(m, c, p, d)
    OBVIOUS
  <1>3. /\ x \in Content /\ x.retries \in 1 .. MAX_RETRIES
        /\ x.client = c /\ x.deadline = d
        /\ x.client = None => x.pkt \in Packets
    BY <1>1, <1>2, NewEntryGood
  <1>4. entry'[e] = x /\ Variant' = Variant
    BY <1>2, SameWorld
  <1>5. e \notin Clients
    BY Constants
  <1> QED BY <1>3, <1>4, <1>5 DEF Good, Arrival

\* A packet copied into the run es of pool entries, one per member of ps.
CopiedInto(es, m, c, ps, d) ==
  /\ es \in Seq(Entries)
  /\ Len(es) <= Len(ps) /\ Len(es) <= Len(pool) /\ es = SubSeq(pool, 1, Len(es))
  /\ pool' = SubSeq(pool, Len(es) + 1, Len(pool))
  /\ queue' \in Seq(Queued) /\ InQueue' = InQueue \union ToSet(es)
  /\ IsInjective(Line) /\ IsInjective(es) /\ InQueue \intersect ToSet(es) = {}
       => IsInjective(Line')
  /\ ToSet(es) \subseteq ToSet(pool)
  /\ \A e \in ToSet(es) : \E i \in DOMAIN es : es[i] = e /\ entry'[e] = NewEntry(m, c, ps[i], d)
  /\ \A e \in (Entries \union Clients) \ ToSet(es) : entry'[e] = entry[e]

(* Taking a run es of entries from the pool, copying a packet into each and
   enqueueing them. *)
LEMMA CopiedLine ==
  ASSUME Types, NEW m, NEW c, NEW d \in Nat, NEW loop,
         NEW ps \in Seq(Parents \union {None}), Copied(m, c, ps, d, loop)
  PROVE  \E es : CopiedInto(es, m, c, ps, d)
  <1>1. pool \in Seq(Entries) /\ Len(pool) \in Nat /\ Len(ps) \in Nat
    BY LenProperties DEF Types
  <1>2. PICK k \in 0 .. Len(pool) : k = Min2(Len(ps), Len(pool)) /\ k <= Len(ps)
    BY <1>1 DEF Min2
  <1>3. PICK es : es = SubSeq(pool, 1, k)
    OBVIOUS
  <1>4. /\ pool' = SubSeq(pool, k + 1, Len(pool))
        /\ entry' = [e \in DOMAIN entry |->
                       IF \E i \in 1 .. k : es[i] = e
                       THEN NewEntry(m, c, ps[CHOOSE i \in 1 .. k : es[i] = e], d)
                       ELSE entry[e]]
        /\ queue' = Enqueued(es, d)
    BY <1>2, <1>3 DEF Copied
  <1>5. /\ es \in Seq(Entries) /\ Len(es) = k /\ ToSet(es) \subseteq ToSet(pool)
        /\ \A i \in 1 .. k : es[i] = pool[i]
    <2>1. /\ es \in Seq(Entries) /\ Len(es) = k
          /\ \A i \in 1 .. k : es[i] = pool[i]
      BY <1>1, <1>3, SubSeqProperties, LenProperties
    <2>2. DOMAIN es = 1 .. k /\ DOMAIN pool = 1 .. Len(pool)
      BY <1>1, <2>1, LenProperties
    <2> QED BY <1>1, <2>1, <2>2 DEF ToSet
  <1>6. es \in Seq(Entries \union Clients)
    BY <1>5
  <1>7. /\ queue' \in Seq(Queued) /\ InQueue' = InQueue \union ToSet(es)
        /\ IsInjective(Line) /\ IsInjective(es) /\ InQueue \intersect ToSet(es) = {}
             => IsInjective(Line')
    BY <1>4, <1>6, EnqueuedLine
  <1>8. DOMAIN es = 1 .. k
    BY <1>5, LenProperties
  <1>9. ASSUME NEW e \in ToSet(es)
        PROVE  \E i \in DOMAIN es : es[i] = e /\ entry'[e] = NewEntry(m, c, ps[i], d)
    <2>1. PICK i \in 1 .. k : i = CHOOSE j \in 1 .. k : es[j] = e
      BY <1>8, <1>9 DEF ToSet
    <2>2. \E j \in 1 .. k : es[j] = e
      BY <1>8, <1>9 DEF ToSet
    <2>3. es[i] = e
      BY <2>1, <2>2
    <2>4. e \in DOMAIN entry
      BY <1>5, <1>8, <2>3, LenProperties DEF Types
    <2>5. entry'[e] = NewEntry(m, c, ps[i], d)
      BY <1>4, <2>1, <2>2, <2>4
    <2> QED BY <1>8, <2>3, <2>5
  <1>10. ASSUME NEW e \in (Entries \union Clients) \ ToSet(es)
         PROVE  entry'[e] = entry[e]
    <2>1. e \in DOMAIN entry
      BY DEF Types
    <2>2. ~ \E i \in 1 .. k : es[i] = e
      BY <1>8, <1>10 DEF ToSet
    <2> QED BY <1>4, <2>1, <2>2
  <1>11. Len(es) <= Len(ps) /\ Len(es) <= Len(pool) /\ es = SubSeq(pool, 1, Len(es))
         /\ pool' = SubSeq(pool, Len(es) + 1, Len(pool))
    BY SMTT(30), <1>1, <1>2, <1>3, <1>4, <1>5
  <1> QED BY <1>5, <1>7, <1>9, <1>10, <1>11 DEF CopiedInto

(* Copying a packet into entries of the pool keeps the invariant. *)
LEMMA CopiedInv ==
  ASSUME Inv, LinkFree', NEW m, NEW c, NEW d \in Nat, NEW loop,
         NEW ps \in Seq(Parents \union {None}), Arrival(m, c, d), Copied(m, c, ps, d, loop),
         UNCHANGED <<world, isRetx, fqe, inflight, now, txTime>>, sendBusy \subseteq sendBusy'
  PROVE  Inv'
  <1>1. Types /\ pool \in Seq(Entries) /\ Len(pool) \in Nat /\ Len(ps) \in Nat
    BY LenProperties DEF Inv, Types
  <1>2. PICK es : CopiedInto(es, m, c, ps, d)
    BY <1>1, CopiedLine
  <1>3. /\ es \in Seq(Entries) /\ Len(es) \in 0 .. Len(pool) /\ DOMAIN es = 1 .. Len(es)
        /\ \A i \in 1 .. Len(es) : ps[i] \in Parents \union {None}
    BY <1>1, <1>2, LenProperties DEF CopiedInto
  <1>4. pool' \in Seq(Entries)
    BY <1>1, <1>2, <1>3, RestOfSeq DEF CopiedInto
  <1>5. ASSUME NEW e \in ToSet(es)
        PROVE  /\ e \in Entries /\ Good(e)'
               /\ entry'[e] \in Content /\ entry'[e].retries \in 1 .. MAX_RETRIES
    <2>1. e \in Entries
      BY <1>2, <1>3, <1>5, LenProperties DEF CopiedInto, ToSet
    <2>2. PICK i \in 1 .. Len(es) : entry'[e] = NewEntry(m, c, ps[i], d)
      BY <1>2, <1>3 DEF CopiedInto
    <2>3. PICK p \in Parents \union {None} : p = ps[i]
      BY <1>3
    <2> QED BY <1>1, <2>1, <2>2, <2>3, CopyGood
  <1>6. \A e \in Entries \union Clients : e \notin ToSet(es) => entry'[e] = entry[e]
    BY <1>2 DEF CopiedInto
  <1>7. entry' \in [Entries \union Clients -> Content \union {None}]
    <2>1. DOMAIN entry' = Entries \union Clients /\ entry' = [e \in DOMAIN entry' |-> entry'[e]]
      BY <1>1 DEF Types, Copied
    <2>2. ASSUME NEW e \in Entries \union Clients PROVE entry'[e] \in Content \union {None}
      <3>1. CASE e \in ToSet(es)
        BY <1>5, <3>1
      <3>2. CASE e \notin ToSet(es)
        BY <1>1, <1>6, <3>2 DEF Types
      <3> QED BY <3>1, <3>2
    <2> QED BY <2>1, <2>2
  <1>8. Used' = Used \union ToSet(es) /\ Used \subseteq Entries \union Clients
    BY <1>1, <1>2, UsedEntries DEF CopiedInto, Used
  <1>9. ASSUME NEW e \in Used' PROVE Good(e)'
    <2>1. CASE e \in ToSet(es)
      BY <1>5, <2>1
    <2>2. CASE e \notin ToSet(es)
      <3>1. e \in Used /\ entry'[e] = entry[e] /\ Good(e)
        BY <1>1, <1>6, <1>8, <2>2 DEF Types
      <3> QED BY <3>1, SameWorld DEF Good
    <2> QED BY <2>1, <2>2
  <1>10. Types'
    BY <1>1, <1>2, <1>4, <1>7, <1>9, SameWorld DEF CopiedInto, Types
  <1>11. InHand' = InHand /\ Waiting' = Waiting \union ToSet(es)
    BY <1>2 DEF CopiedInto, InHand, Waiting
  <1>12. Counted'
    <2> SUFFICES ASSUME Sound'
                 PROVE  /\ IsInjective(pool') /\ IsInjective(Line')
                        /\ ToSet(pool') \intersect Waiting' = {}
                        /\ InQueue' \intersect InHand' = {}
                        /\ Entries \subseteq ToSet(pool') \union Waiting'
                        /\ \A e \in Waiting' :
                             /\ entry'[e].retries \in 1 .. MAX_RETRIES
                             /\ e \in Clients => e \in sendBusy' \/ Variant' = "MMSPEED"
      BY DEF Counted
    <2>1. /\ IsInjective(pool) /\ IsInjective(Line)
          /\ ToSet(pool) \intersect Waiting = {}
          /\ InQueue \intersect InHand = {}
          /\ Entries \subseteq ToSet(pool) \union Waiting
          /\ \A e \in Waiting : /\ entry[e].retries \in 1 .. MAX_RETRIES
                                /\ e \in Clients => e \in sendBusy \/ Variant = "MMSPEED"
      BY SameWorld DEF Inv, Counted
    <2>2. /\ IsInjective(es) /\ IsInjective(pool')
          /\ ToSet(es) \union ToSet(pool') = ToSet(pool)
          /\ ToSet(es) \intersect ToSet(pool') = {}
      <3>1. PICK k \in 0 .. Len(pool) :
              k = Len(es) /\ es = SubSeq(pool, 1, k) /\ pool' = SubSeq(pool, k + 1, Len(pool))
        BY <1>2, <1>3 DEF CopiedInto
      <3> QED BY <1>1, <2>1, <3>1, SplitSeq
    <2>3. IsInjective(Line')
      BY <1>2, <2>1, <2>2 DEF CopiedInto, Waiting
    <2>4. ASSUME NEW e \in Waiting'
          PROVE  /\ entry'[e].retries \in 1 .. MAX_RETRIES
                 /\ e \in Clients => e \in sendBusy' \/ Variant' = "MMSPEED"
      <3>1. CASE e \in ToSet(es)
        BY <1>5, <3>1, Constants
      <3>2. CASE e \notin ToSet(es)
        <4>1. e \in Waiting /\ e \in Entries \union Clients
          BY <1>1, <1>11, <3>2, UsedEntries
        <4> QED BY <1>6, <2>1, <3>2, <4>1, SameWorld
      <3> QED BY <3>1, <3>2
    <2> QED BY <1>2, <1>11, <2>1, <2>2, <2>3, <2>4 DEF CopiedInto, Waiting
  <1>13. InflightIsOurs'
    BY SameWorld DEF Inv, InflightIsOurs, DoneIsOurs
  <1> QED BY <1>10, <1>12, <1>13 DEF Inv

(* An entry outside the queue and outside the hand may be filled: the pool
   entry that found no room, and the client's own entry that found none. *)
LEMMA FilledInv ==
  ASSUME Inv, LinkFree', NEW e \in Entries \union Clients, NEW x \in Content,
         entry' = [entry EXCEPT ![e] = x], Good(e)', Sound => e \notin Waiting,
         pool' \in Seq(Entries), ToSet(pool') = ToSet(pool),
         IsInjective(pool) => IsInjective(pool'),
         UNCHANGED <<world, isRetx, fqe, queue, inflight, now, txTime, sendBusy>>
  PROVE  Inv'
  <1>1. Types /\ Variant' = Variant /\ Loops' = Loops /\ Sound' = Sound
    BY SameWorld DEF Inv
  <1>2. Line' = Line /\ InQueue' = InQueue /\ InHand' = InHand /\ Waiting' = Waiting
    BY DEF Line, InQueue, InHand, Waiting
  <1>3. Used' = Used
    BY <1>2 DEF Used
  <1>4. \A f \in Entries \union Clients : f # e => entry'[f] = entry[f]
    BY <1>1 DEF Types
  <1>5. ASSUME NEW f \in Used' PROVE Good(f)'
    <2>1. f \in Used /\ f \in Entries \union Clients /\ Good(f)
      BY <1>1, <1>3, UsedEntries DEF Types
    <2>2. CASE f # e
      BY <1>1, <1>4, <2>1, <2>2 DEF Good
    <2> QED BY <2>2
  <1>6. entry' \in [Entries \union Clients -> Content \union {None}]
    BY <1>1 DEF Types
  <1>7. Types'
    BY <1>1, <1>5, <1>6 DEF Types
  <1>8. Counted'
    <2>1. \A f \in Waiting : Sound => entry'[f] = entry[f]
      BY <1>1, <1>4, UsedEntries
    <2> QED BY <1>1, <1>2, <2>1 DEF Inv, Counted
  <1>9. InflightIsOurs'
    BY <1>1 DEF Inv, InflightIsOurs, DoneIsOurs
  <1> QED BY <1>7, <1>8, <1>9 DEF Inv

(* The queue was full: the pool entry goes back at the other end. *)
LEMMA NotEnqueuedInv ==
  ASSUME Inv, LinkFree', NEW m, NEW c, NEW d \in Nat,
         NEW ps \in Seq(Parents \union {None}), Arrival(m, c, d), NotEnqueued(m, c, ps, d),
         UNCHANGED <<world, isRetx, fqe, inflight, now, txTime, sendBusy>>
  PROVE  Inv'
  <1>1. Types /\ pool \in Seq(Entries) /\ pool # <<>> /\ ps # <<>>
    BY DEF Inv, Types, NotEnqueued
  <1>2. PICK e, t : e = Head(pool) /\ t = Tail(pool)
    OBVIOUS
  <1>3. /\ e \in Entries /\ e \in ToSet(pool) /\ t \in Seq(Entries)
        /\ ToSet(t) \union {e} = ToSet(pool)
    BY <1>1, <1>2, HeadAndTail
  <1>4. PICK x : x = NewEntry(m, c, Head(ps), d)
    OBVIOUS
  <1>5. /\ entry' = [entry EXCEPT ![e] = x] /\ pool' = Append(t, e)
        /\ UNCHANGED queue
    BY <1>2, <1>4 DEF NotEnqueued
  <1>6. x \in Content /\ Good(e)'
    <2>1. Head(ps) \in Parents \union {None}
      BY <1>1, HeadTailProperties
    <2>2. entry'[e] = x
      BY <1>1, <1>3, <1>5 DEF Types
    <2> QED BY <1>1, <1>3, <1>4, <2>1, <2>2, CopyGood
  <1>7. pool' \in Seq(Entries) /\ ToSet(pool') = ToSet(pool)
    <2>1. Append(t, e) \in Seq(Entries) /\ ToSet(Append(t, e)) = ToSet(t) \union {e}
      BY <1>3, AppendMembers
    <2> QED BY <1>3, <1>5, <2>1
  <1>8. IsInjective(pool) => IsInjective(pool')
    <2> SUFFICES ASSUME IsInjective(pool) PROVE IsInjective(pool')
      OBVIOUS
    <2>1. IsInjective(t) /\ e \notin ToSet(t)
      BY <1>1, <1>2, TailDistinct
    <2> QED BY <1>3, <1>5, <2>1, AppendNew
  <1>9. Sound => e \notin Waiting
    BY <1>3 DEF Inv, Counted
  <1> QED BY <1>3, <1>5, <1>6, <1>7, <1>8, <1>9, FilledInv

(* A client that waits for Send.sendDone never sends again in the worlds that
   count, so its own entry is not in use. *)
LEMMA OwnEntryFree ==
  ASSUME Inv, NEW c \in Clients, Variant # "MMSPEED", world.polite => c \notin sendBusy
  PROVE  Sound => c \notin Waiting
  BY DEF Inv, Counted, Sound

(* What Send.send fills the client's own entry with is fit for use. *)
LEMMA OwnGood ==
  ASSUME Types, world' = world, NEW c \in Clients, NEW d \in Nat, NEW x,
         Variant # "MMSPEED", x = NewEntry(c, c, None, d),
         entry' = [entry EXCEPT ![c] = x]
  PROVE  x \in Content /\ x.retries \in 1 .. MAX_RETRIES /\ Good(c)'
  <1>1. /\ x \in Content /\ x.retries \in 1 .. MAX_RETRIES /\ x.client = c
        /\ x.client = None => x.pkt \in Packets
    <2>1. c # None
      BY Constants
    <2> QED BY <2>1, NewEntryGood
  <1>2. entry'[c] = x
    BY DEF Types
  <1>3. Variant' = Variant
    BY SameWorld
  <1> QED BY <1>1, <1>2, <1>3 DEF Good

(* A client's packet in the client's own entry. *)
LEMMA SendOwnInv ==
  ASSUME Inv, LinkFree', NEW c \in Clients, NEW d \in Nat,
         Variant # "MMSPEED", world.polite => c \notin sendBusy,
         entry' = [entry EXCEPT ![c] = NewEntry(c, c, None, d)], SendOwn(c, d),
         UNCHANGED <<world, isRetx, fqe, inflight, now, txTime>>
  PROVE  Inv'
  <1>1. Types /\ Variant' = Variant /\ Loops' = Loops /\ Sound' = Sound
    BY SameWorld DEF Inv
  <1>2. PICK x : x = NewEntry(c, c, None, d)
    OBVIOUS
  <1>3. entry' = [entry EXCEPT ![c] = x]
    BY <1>2
  <1>4. x \in Content /\ x.retries \in 1 .. MAX_RETRIES /\ Good(c)'
    BY <1>1, <1>2, <1>3, OwnGood
  <1>5. Sound => c \notin Waiting
    BY OwnEntryFree
  <1>6. PICK es \in Seq(Entries \union Clients) :
          es = <<c>> /\ ToSet(es) = {c} /\ IsInjective(es)
    <2>1. <<c>> \in Seq(Entries \union Clients) /\ DOMAIN <<c>> = {1} /\ <<c>>[1] = c
      OBVIOUS
    <2> QED BY <2>1 DEF ToSet, IsInjective
  <1>7. /\ queue' \in Seq(Queued) /\ InQueue' = InQueue \union {c}
        /\ IsInjective(Line) /\ InQueue \intersect {c} = {} => IsInjective(Line')
    <2>1. queue' = Enqueued(es, d)
      BY <1>6 DEF SendOwn
    <2> QED BY <1>1, <1>6, <2>1, EnqueuedLine
  <1>8. /\ entry'[c] = x /\ entry' \in [Entries \union Clients -> Content \union {None}]
        /\ \A f \in Entries \union Clients : f # c => entry'[f] = entry[f]
    BY <1>1, <1>3, <1>4 DEF Types
  <1>9. Used' = Used \union {c} /\ Used \subseteq Entries \union Clients
    BY <1>1, <1>7, UsedEntries DEF Used
  <1>10. ASSUME NEW f \in Used' PROVE Good(f)'
    <2>1. CASE f # c
      <3>1. f \in Used /\ entry'[f] = entry[f] /\ Good(f)
        BY <1>1, <1>8, <1>9, <2>1 DEF Types
      <3> QED BY <1>1, <3>1 DEF Good
    <2> QED BY <1>4, <2>1
  <1>11. Types'
    BY <1>1, <1>7, <1>8, <1>10 DEF Types, SendOwn
  <1>12. InHand' = InHand /\ Waiting' = Waiting \union {c}
    BY <1>7 DEF InHand, Waiting
  <1>13. Counted'
    <2> SUFFICES ASSUME Sound
                 PROVE  /\ IsInjective(pool') /\ IsInjective(Line')
                        /\ ToSet(pool') \intersect Waiting' = {}
                        /\ InQueue' \intersect InHand' = {}
                        /\ Entries \subseteq ToSet(pool') \union Waiting'
                        /\ \A e \in Waiting' :
                             /\ entry'[e].retries \in 1 .. MAX_RETRIES
                             /\ e \in Clients => e \in sendBusy' \/ Variant' = "MMSPEED"
      BY <1>1 DEF Counted
    <2>1. /\ IsInjective(pool) /\ IsInjective(Line)
          /\ ToSet(pool) \intersect Waiting = {}
          /\ InQueue \intersect InHand = {}
          /\ Entries \subseteq ToSet(pool) \union Waiting
          /\ \A e \in Waiting : /\ entry[e].retries \in 1 .. MAX_RETRIES
                                /\ e \in Clients => e \in sendBusy \/ Variant = "MMSPEED"
      BY DEF Inv, Counted
    <2>2. pool' = pool /\ sendBusy' = sendBusy \union {c}
      BY DEF SendOwn
    <2>3. c \notin ToSet(pool)
      <3>1. ToSet(pool) \subseteq Entries
        BY <1>1, LenProperties DEF Types, ToSet
      <3> QED BY <3>1, Constants
    <2>4. c \notin InQueue /\ c \notin InHand
      BY <1>5 DEF Waiting
    <2>5. ASSUME NEW e \in Waiting'
          PROVE  /\ entry'[e].retries \in 1 .. MAX_RETRIES
                 /\ e \in Clients => e \in sendBusy' \/ Variant' = "MMSPEED"
      <3>1. CASE e = c
        BY <1>4, <1>8, <2>2, <3>1
      <3>2. CASE e # c
        <4>1. e \in Waiting /\ entry'[e] = entry[e]
          BY <1>1, <1>8, <1>12, <3>2, UsedEntries
        <4> QED BY <1>1, <2>1, <2>2, <4>1
      <3> QED BY <3>1, <3>2
    <2> QED BY <1>7, <1>12, <2>1, <2>2, <2>3, <2>4, <2>5
  <1>14. InflightIsOurs'
    BY <1>1 DEF Inv, InflightIsOurs, DoneIsOurs
  <1> QED BY <1>11, <1>13, <1>14 DEF Inv

-----------------------------------------------------------------------------
(* Changing an entry that is in use. *)

\* What sendTask and SubSend.sendDone leave of an entry they change.
Touched(e, x) ==
  /\ entry' = [entry EXCEPT ![e] = x]
  /\ x \in Content
  /\ x.pkt = entry[e].pkt /\ x.client = entry[e].client /\ x.deadline = entry[e].deadline

(* Retries and next hop aside, entries keep what they hold. *)
LEMMA TouchedGood ==
  ASSUME Types, world' = world, NEW e \in Used, NEW x, Touched(e, x)
  PROVE  /\ entry' \in [Entries \union Clients -> Content \union {None}]
         /\ entry'[e] = x
         /\ \A f \in Entries \union Clients : f # e => entry'[f] = entry[f]
         /\ \A f \in Used : Good(f)'
  <1>1. e \in Entries \union Clients /\ Used \subseteq Entries \union Clients
    BY UsedEntries
  <1>2. /\ entry' \in [Entries \union Clients -> Content \union {None}]
        /\ entry'[e] = x
        /\ \A f \in Entries \union Clients : f # e => entry'[f] = entry[f]
    BY <1>1 DEF Types, Touched
  <1>3. ASSUME NEW f \in Used PROVE Good(f)'
    <2>1. Good(f) /\ Variant' = Variant
      BY SameWorld DEF Types
    <2>2. CASE f = e
      BY <1>2, <2>1, <2>2 DEF Good, Touched
    <2>3. CASE f # e
      BY <1>1, <1>2, <2>1, <2>3 DEF Good
    <2> QED BY <2>2, <2>3
  <1> QED BY <1>2, <1>3

(* A counter of transmissions that is not yet 0 goes down by one. *)
LEMMA CountedDown ==
  ASSUME NEW r \in 0 .. 255
  PROVE  (r + 255) % 256 \in 0 .. 255 /\ (r > 0 => (r + 255) % 256 = r - 1)
  OBVIOUS

-----------------------------------------------------------------------------
(* sendTask takes an entry in hand. *)

(* The entry sendTask works on is in use. *)
LEMMA ChosenUsed ==
  ASSUME Types, HasWork
  PROVE  /\ Chosen \in Used /\ Chosen \in Waiting /\ Chosen # None
         /\ Chosen \in Entries \union Clients /\ Good(Chosen)
  <1>1. CASE isRetx
    <2>1. Chosen = fqe /\ fqe # None
      BY <1>1 DEF Chosen, Types
    <2> QED BY <1>1, <2>1, UsedEntries DEF Used, Waiting, InHand, Types
  <1>2. CASE ~ isRetx
    <2>1. queue \in Seq(Queued) /\ queue # <<>>
      BY <1>2 DEF HasWork, Types
    <2>2. Chosen = Head(queue).entry /\ Line = LineOf(queue) /\ InQueue = ToSet(Line)
      BY <1>2 DEF Chosen, Line, LineOf, InQueue
    <2>3. Len(queue) \in Nat /\ Len(queue) > 0 /\ Head(queue) = queue[1]
      BY <2>1, LenProperties, EmptySeq
    <2>4. Line \in Seq(Entries \union Clients) /\ Len(Line) = Len(queue) /\ Line[1] = queue[1].entry
      BY <2>1, <2>2, <2>3, LineType
    <2>5. 1 \in DOMAIN Line
      BY <2>3, <2>4, LenProperties
    <2>6. Chosen \in InQueue
      BY <2>2, <2>3, <2>4, <2>5 DEF ToSet
    <2>7. Chosen \in Used /\ Chosen \in Waiting
      BY <2>6 DEF Used, Waiting
    <2> QED BY <2>7, UsedEntries, Constants DEF Types
  <1> QED BY <1>1, <1>2

(* The rest of the queue once its first entry has been taken out. *)
LEMMA LineTail ==
  ASSUME NEW q \in Seq(Queued), q # <<>>
  PROVE  /\ LineOf(q) # <<>> /\ Tail(q) \in Seq(Queued)
         /\ LineOf(Tail(q)) = Tail(LineOf(q)) /\ Head(LineOf(q)) = Head(q).entry
  <1>1. PICK l \in Seq(Entries \union Clients) :
          /\ l = LineOf(q) /\ Len(l) = Len(q)
          /\ \A i \in 1 .. Len(q) : l[i] = q[i].entry
    BY LineType
  <1>2. Len(q) \in Nat /\ Len(q) > 0 /\ Head(q) = q[1]
    BY LenProperties, EmptySeq
  <1>3. l # <<>> /\ Head(l) = l[1]
    BY <1>1, <1>2, LenProperties, EmptySeq
  <1>4. PICK t \in Seq(Queued) : /\ t = Tail(q) /\ Len(t) = Len(q) - 1
                                /\ \A i \in 1 .. Len(t) : t[i] = q[i + 1]
    BY HeadTailProperties
  <1>5. PICK u \in Seq(Entries \union Clients) :
          /\ u = Tail(l) /\ Len(u) = Len(l) - 1
          /\ \A i \in 1 .. Len(u) : u[i] = l[i + 1]
    <2>1. /\ Tail(l) \in Seq(Entries \union Clients) /\ Len(Tail(l)) = Len(l) - 1
          /\ \A i \in 1 .. Len(Tail(l)) : Tail(l)[i] = l[i + 1]
      BY <1>3, HeadTailProperties
    <2> QED BY <2>1
  <1>6. PICK v \in Seq(Entries \union Clients) :
          /\ v = LineOf(t) /\ Len(v) = Len(t)
          /\ \A i \in 1 .. Len(t) : v[i] = t[i].entry
    BY LineType
  <1>7. u = v
    <2>1. Len(u) = Len(v) /\ Len(u) \in Nat
      BY <1>1, <1>2, <1>4, <1>5, <1>6
    <2>2. ASSUME NEW i \in 1 .. Len(u) PROVE u[i] = v[i]
      <3>1. i \in 1 .. Len(t) /\ i + 1 \in 1 .. Len(q)
        BY <1>1, <1>2, <1>4, <1>5
      <3>2. u[i] = l[i + 1] /\ l[i + 1] = q[i + 1].entry
        BY <1>1, <1>5, <3>1
      <3>3. v[i] = t[i].entry /\ t[i] = q[i + 1]
        BY <1>4, <1>6, <3>1
      <3> QED BY <3>2, <3>3
    <2>3. u = [i \in 1 .. Len(u) |-> u[i]] /\ v = [i \in 1 .. Len(u) |-> v[i]]
      BY <1>5, <1>6, <2>1, LenProperties
    <2> QED BY <2>2, <2>3
  <1> QED BY <1>1, <1>2, <1>3, <1>4, <1>5, <1>6, <1>7

(* Taking the first entry out of the queue, or keeping the one in hand: what
   waits still waits. *)
LEMMA TakenOut ==
  ASSUME Types, HasWork, TakeOut
  PROVE  /\ fqe' = Chosen /\ isRetx' = TRUE /\ InHand' = {Chosen} /\ Waiting' = Waiting
         /\ queue' \in Seq(Queued) /\ InQueue' \union {Chosen} = InQueue \union InHand
         /\ IsInjective(Line) => IsInjective(Line')
         /\ IsInjective(Line) /\ InQueue \intersect InHand = {} => Chosen \notin InQueue'
  <1>1. PICK e : e = Chosen
    OBVIOUS
  <1>2. /\ queue' \in Seq(Queued) /\ InQueue' \union {e} = InQueue \union InHand
        /\ IsInjective(Line) => IsInjective(Line')
        /\ IsInjective(Line) /\ InQueue \intersect InHand = {} => e \notin InQueue'
    <2>1. CASE isRetx
      <3>1. queue' = queue /\ e = fqe
        BY <1>1, <2>1 DEF TakeOut, Chosen
      <3>2. Line' = Line /\ InQueue' = InQueue /\ InHand = {e}
        BY <2>1, <3>1 DEF Line, InQueue, InHand
      <3> QED BY <3>1, <3>2 DEF Types
    <2>2. CASE ~ isRetx
      <3>1. queue \in Seq(Queued) /\ queue # <<>> /\ queue' = Tail(queue) /\ e = Head(queue).entry
        BY <1>1, <2>2 DEF Types, HasWork, TakeOut, Chosen
      <3>2. PICK l \in Seq(Entries \union Clients) : l = LineOf(queue)
        BY <3>1, LineType
      <3>3. /\ l # <<>> /\ Tail(queue) \in Seq(Queued)
            /\ LineOf(Tail(queue)) = Tail(l) /\ Head(l) = e
        BY <3>1, <3>2, LineTail
      <3>4. Line = l /\ Line' = Tail(l)
        BY <3>1, <3>2, <3>3 DEF Line, LineOf
      <3>5. InQueue = ToSet(l) /\ InQueue' = ToSet(Tail(l)) /\ InHand = {}
        BY <2>2, <3>4 DEF InQueue, InHand
      <3>6. ToSet(l) = {e} \union ToSet(Tail(l))
        BY <3>3, HeadAndTail
      <3>7. IsInjective(l) => IsInjective(Tail(l)) /\ e \notin ToSet(Tail(l))
        BY <3>3, TailDistinct
      <3> QED BY <3>1, <3>3, <3>4, <3>5, <3>6, <3>7
    <2> QED BY <2>1, <2>2
  <1>3. fqe' = e /\ isRetx' = TRUE /\ InHand' = {e}
    BY <1>1 DEF TakeOut, InHand
  <1> QED BY <1>1, <1>2, <1>3 DEF Waiting

(* Taking the first entry out of the queue, or keeping the one in hand,
   whatever becomes of its retries and of the radio. *)
LEMMA TakeOutInv ==
  ASSUME Inv, LinkFree', HasWork, TakeOut, NEW x, Touched(Chosen, x),
         Sound => x.retries \in 1 .. MAX_RETRIES,
         inflight' \in {inflight, Chosen},
         txTime' \in 0 .. now, Variant = "MMSPEED" => txTime' = 0,
         UNCHANGED <<world, pool, sendBusy, now>>
  PROVE  Inv'
  <1>1. Types /\ Variant' = Variant /\ Loops' = Loops /\ Sound' = Sound
    BY SameWorld DEF Inv
  <1>2. PICK e : e = Chosen
    OBVIOUS
  <1>3. e \in Used /\ e \in Waiting /\ e # None /\ e \in Entries \union Clients
    BY <1>1, <1>2, ChosenUsed
  <1>4. /\ entry' \in [Entries \union Clients -> Content \union {None}]
        /\ entry'[e] = x
        /\ \A f \in Entries \union Clients : f # e => entry'[f] = entry[f]
        /\ \A f \in Used : Good(f)'
    BY <1>1, <1>2, <1>3, TouchedGood
  <1>5. fqe' = e /\ isRetx' = TRUE /\ InHand' = {e}
    BY <1>2 DEF TakeOut, InHand
  <1>6. /\ queue' \in Seq(Queued) /\ InQueue' \union {e} = InQueue \union InHand
        /\ IsInjective(Line) => IsInjective(Line')
        /\ IsInjective(Line) /\ InQueue \intersect InHand = {} => e \notin InQueue'
    BY <1>1, <1>2, TakenOut
  <1>7. Waiting' = Waiting
    BY <1>5, <1>6 DEF Waiting
  <1>8. Used' \subseteq Used
    <2>1. InQueue' \subseteq Used
      BY <1>1, <1>6, UsedEntries DEF Waiting
    <2>2. fqe' \in Used
      BY <1>3, <1>5
    <2>3. inflight' # None => inflight' \in Used
      <3>1. inflight # None => inflight \in Used
        BY DEF Used
      <3> QED BY <1>2, <1>3, <3>1
    <2> QED BY <2>1, <2>2, <2>3 DEF Used
  <1>9. Types'
    BY <1>1, <1>2, <1>3, <1>4, <1>5, <1>6, <1>8 DEF Types
  <1>10. Counted'
    <2> SUFFICES ASSUME Sound
                 PROVE  /\ IsInjective(pool') /\ IsInjective(Line')
                        /\ ToSet(pool') \intersect Waiting' = {}
                        /\ InQueue' \intersect InHand' = {}
                        /\ Entries \subseteq ToSet(pool') \union Waiting'
                        /\ \A f \in Waiting' :
                             /\ entry'[f].retries \in 1 .. MAX_RETRIES
                             /\ f \in Clients => f \in sendBusy' \/ Variant' = "MMSPEED"
      BY <1>1 DEF Counted
    <2>1. /\ IsInjective(pool) /\ IsInjective(Line)
          /\ ToSet(pool) \intersect Waiting = {}
          /\ InQueue \intersect InHand = {}
          /\ Entries \subseteq ToSet(pool) \union Waiting
          /\ \A f \in Waiting : /\ entry[f].retries \in 1 .. MAX_RETRIES
                                /\ f \in Clients => f \in sendBusy \/ Variant = "MMSPEED"
      BY DEF Inv, Counted
    <2>2. ASSUME NEW f \in Waiting PROVE entry'[f].retries \in 1 .. MAX_RETRIES
      <3>1. CASE f = e
        BY <1>4, <3>1
      <3>2. CASE f # e
        <4>1. entry'[f] = entry[f]
          BY <1>1, <1>4, <3>2, UsedEntries
        <4> QED BY <2>1, <4>1
      <3> QED BY <3>1, <3>2
    <2> QED BY <1>1, <1>5, <1>6, <1>7, <2>1, <2>2
  <1>11. InflightIsOurs'
    <2> SUFFICES ASSUME Sound, inflight' # None PROVE inflight' = e
      BY <1>1, <1>5 DEF InflightIsOurs, DoneIsOurs
    <2>1. CASE inflight' = inflight
      <3>1. isRetx /\ fqe = inflight
        BY <2>1 DEF Inv, InflightIsOurs, DoneIsOurs
      <3> QED BY <1>2, <2>1, <3>1 DEF Chosen
    <2>2. CASE inflight' = Chosen
      BY <1>2, <2>2
    <2> QED BY <2>1, <2>2
  <1> QED BY <1>9, <1>10, <1>11 DEF Inv

-----------------------------------------------------------------------------
(* An entry is let go. *)

(* A pool that lacks an entry takes it back. *)
LEMMA PutBack ==
  ASSUME pool \in Seq(Entries), IsInjective(pool), NEW e \in Entries, e \notin ToSet(pool)
  PROVE  /\ Len(pool) < FORWARD_COUNT
         /\ IsInjective(Put(pool, e)) /\ ToSet(Put(pool, e)) = ToSet(pool) \union {e}
  <1>1. Len(pool) < FORWARD_COUNT
    BY EntriesCount, MissingMember
  <1>2. Put(pool, e) = Append(pool, e)
    BY <1>1 DEF Put
  <1> QED BY <1>1, <1>2, AppendNew

(* The entry in hand goes back to its pool, or stays with its client, who is
   told; the radio has nothing of ours any more. *)
LEMMA LetGoInv ==
  ASSUME Inv, LinkFree', fqe # None, Sound => isRetx, isRetx' = FALSE, NEW x, Touched(fqe, x),
         pool' = IF entry[fqe].client # None /\ Variant # "MMSPEED" THEN pool ELSE Put(pool, fqe),
         sendBusy \ {entry[fqe].client} \subseteq sendBusy',
         inflight' \in {inflight, None}, Sound => inflight' = None,
         UNCHANGED <<world, fqe, queue, now, txTime>>
  PROVE  Inv'
  <1>1. Types /\ Variant' = Variant /\ Loops' = Loops /\ Sound' = Sound
    BY SameWorld DEF Inv
  <1>2. PICK e : e = fqe
    OBVIOUS
  <1>3. e # None /\ e \in Used /\ e \in Entries \union Clients /\ Good(e)
    BY <1>1, <1>2 DEF Types, Used
  <1>4. /\ entry' \in [Entries \union Clients -> Content \union {None}]
        /\ \A f \in Entries \union Clients : f # e => entry'[f] = entry[f]
        /\ \A f \in Used : Good(f)'
    BY <1>1, <1>2, <1>3, TouchedGood
  <1>5. Line' = Line /\ InQueue' = InQueue /\ (Sound => InHand = {e}) /\ InHand' = {}
    BY <1>2 DEF Line, InQueue, InHand
  <1>6. Used' \subseteq Used
    BY <1>5 DEF Used
  <1>7. \/ e \in Clients /\ e \notin Entries /\ pool' = pool /\ entry[e].client = e
        \/ e \in Entries /\ pool' = Put(pool, e) /\ Variant = "MMSPEED"
        \/ e \in Entries /\ pool' = Put(pool, e) /\ entry[e].client = None
    BY <1>2, <1>3, Constants DEF Good
  <1>8. pool' \in Seq(Entries)
    <2>1. e \in Entries => Put(pool, e) \in Seq(Entries)
      BY <1>1, AppendMembers DEF Types, Put
    <2> QED BY <1>1, <1>7, <2>1 DEF Types
  <1>9. Types'
    BY <1>1, <1>4, <1>6, <1>8 DEF Types
  <1>10. Counted'
    <2> SUFFICES ASSUME Sound
                 PROVE  /\ IsInjective(pool') /\ IsInjective(Line')
                        /\ ToSet(pool') \intersect Waiting' = {}
                        /\ InQueue' \intersect InHand' = {}
                        /\ Entries \subseteq ToSet(pool') \union Waiting'
                        /\ \A f \in Waiting' :
                             /\ entry'[f].retries \in 1 .. MAX_RETRIES
                             /\ f \in Clients => f \in sendBusy' \/ Variant' = "MMSPEED"
      BY <1>1 DEF Counted
    <2>1. /\ IsInjective(pool) /\ IsInjective(Line)
          /\ ToSet(pool) \intersect Waiting = {}
          /\ InQueue \intersect InHand = {}
          /\ Entries \subseteq ToSet(pool) \union Waiting
          /\ \A f \in Waiting : /\ entry[f].retries \in 1 .. MAX_RETRIES
                                /\ f \in Clients => f \in sendBusy \/ Variant = "MMSPEED"
      BY DEF Inv, Counted
    <2>2. Waiting' = InQueue /\ Waiting = InQueue \union {e} /\ e \notin InQueue
      BY <1>5, <2>1 DEF Waiting
    <2>3. /\ IsInjective(pool') /\ ToSet(pool') \intersect Waiting' = {}
          /\ Entries \subseteq ToSet(pool') \union Waiting'
      <3>1. CASE e \notin Entries
        BY <1>7, <2>1, <2>2, <3>1
      <3>2. CASE e \in Entries
        <4>1. pool' = Put(pool, e)
          BY <1>7, <3>2
        <4>2. IsInjective(Put(pool, e)) /\ ToSet(Put(pool, e)) = ToSet(pool) \union {e}
          BY <1>1, <2>1, <2>2, <3>2, PutBack DEF Types
        <4> QED BY <2>1, <2>2, <4>1, <4>2
      <3> QED BY <3>1, <3>2
    <2>4. ASSUME NEW f \in Waiting'
          PROVE  /\ entry'[f].retries \in 1 .. MAX_RETRIES
                 /\ f \in Clients => f \in sendBusy' \/ Variant' = "MMSPEED"
      <3>1. f \in Waiting /\ f # e /\ entry'[f] = entry[f]
        BY <1>1, <1>4, <2>2, UsedEntries
      <3>2. f \in Clients /\ Variant # "MMSPEED" => f # entry[e].client
        BY <1>7, <3>1, Constants
      <3> QED BY <1>1, <1>2, <2>1, <3>1, <3>2
    <2> QED BY <1>5, <2>1, <2>3, <2>4
  <1>11. InflightIsOurs'
    BY <1>1 DEF InflightIsOurs, DoneIsOurs
  <1> QED BY <1>9, <1>10, <1>11 DEF Inv

(* The radio has nothing of ours any more, and an entry in use may have been
   tried once more. *)
LEMMA InflightGone ==
  ASSUME Inv, LinkFree', NEW e \in Used, NEW x, Touched(e, x),
         Sound => e \in Waiting /\ x.retries \in 1 .. MAX_RETRIES,
         inflight' = None,
         UNCHANGED <<world, isRetx, fqe, queue, pool, sendBusy, now, txTime>>
  PROVE  Inv'
  <1>1. Types /\ Variant' = Variant /\ Loops' = Loops /\ Sound' = Sound
    BY SameWorld DEF Inv
  <1>2. /\ entry' \in [Entries \union Clients -> Content \union {None}]
        /\ entry'[e] = x
        /\ \A f \in Entries \union Clients : f # e => entry'[f] = entry[f]
        /\ \A f \in Used : Good(f)'
    BY <1>1, TouchedGood
  <1>3. Line' = Line /\ InQueue' = InQueue /\ InHand' = InHand /\ Waiting' = Waiting
    BY DEF Line, InQueue, InHand, Waiting
  <1>4. Used' \subseteq Used
    BY <1>3 DEF Used
  <1>5. Types'
    BY <1>1, <1>2, <1>4, Constants DEF Types
  <1>6. Counted'
    <2>1. ASSUME Sound, NEW f \in Waiting, entry[f].retries \in 1 .. MAX_RETRIES
          PROVE  entry'[f].retries \in 1 .. MAX_RETRIES
      <3>1. CASE f = e
        BY <1>2, <2>1, <3>1
      <3>2. CASE f # e
        BY <1>1, <1>2, <2>1, <3>2, UsedEntries
      <3> QED BY <3>1, <3>2
    <2> QED BY <1>1, <1>3, <2>1 DEF Inv, Counted
  <1>7. InflightIsOurs'
    BY <1>1 DEF InflightIsOurs, DoneIsOurs
  <1> QED BY <1>5, <1>6, <1>7 DEF Inv

-----------------------------------------------------------------------------
(* Every step. *)

(* Copying takes at least one next hop. *)
LEMMA CopiedFor ==
  ASSUME Types, NEW m, NEW c, NEW d, NEW loop, NEW ps \in Seq(Parents \union {None}),
         Copied(m, c, ps, d, loop)
  PROVE  ps # <<>>
  <1>1. Min2(Len(ps), Len(pool)) > 0
    BY DEF Copied
  <1>2. Len(ps) \in Nat /\ Len(pool) \in Nat
    BY LenProperties DEF Types
  <1>3. Len(ps) > 0
    BY <1>1, <1>2 DEF Min2
  <1> QED BY <1>3

(* Send.send. *)
LEMMA SendInv ==
  ASSUME Inv, LinkFree', NEW c \in Clients, Send(c)
  PROVE  Inv'
  <1>1. UNCHANGED <<world, isRetx, fqe, inflight, now, txTime>>
    BY DEF Send, env, hand
  <1>2. Types /\ c # None /\ (world.polite => c \notin sendBusy)
    BY Constants DEF Inv, Send
  <1>3. PICK r \in world.relative :
          IF Variant = "MMSPEED" THEN SendCopies(c, now + r)
          ELSE /\ entry' = [entry EXCEPT ![c] = NewEntry(c, c, None, now + r)]
               /\ \/ SendOwn(c, now + r)
                  \/ /\ Len(queue) = QUEUE_SIZE
                     /\ UNCHANGED <<queue, pool, retxTimer, taskPosted, sendBusy>>
    BY DEF Send
  <1>4. PICK d \in Nat : d = now + r /\ d > 0
    <2>1. now \in Nat /\ r \in Nat \ {0}
      BY <1>2, <1>3, Builds DEF Types
    <2> QED BY <2>1
  <1>5. CASE Variant = "MMSPEED"
    <2>1. PICK ps \in ParentChoices(d) :
            \/ /\ \E loop \in {FALSE, Loops} : Copied(c, c, ps, d, loop)
               /\ sendBusy' = sendBusy \union {c}
            \/ Refused(c, c, ps, d) /\ UNCHANGED sendBusy
      BY <1>3, <1>4, <1>5 DEF SendCopies
    <2>2. ps \in Seq(Parents \union {None}) /\ Arrival(c, c, d)
      BY <1>2, <1>4, <1>5, ParentsChosen DEF Arrival
    <2>3. ASSUME NEW loop \in {FALSE, Loops}, Copied(c, c, ps, d, loop), sendBusy \subseteq sendBusy'
          PROVE  Inv'
      BY <1>1, <2>2, <2>3, CopiedInv
    <2>4. CASE NotEnqueued(c, c, ps, d) /\ UNCHANGED sendBusy
      BY <1>1, <2>2, <2>4, NotEnqueuedInv
    <2>5. CASE NoCopy(ps) /\ UNCHANGED sendBusy
      BY <1>1, <1>2, <2>5, FrameInv DEF NoCopy, Types
    <2> QED BY <2>1, <2>3, <2>4, <2>5 DEF Refused
  <1>6. CASE Variant # "MMSPEED"
    <2>1. PICK x : x = NewEntry(c, c, None, d)
      OBVIOUS
    <2>2. entry' = [entry EXCEPT ![c] = x]
      BY <1>3, <1>4, <1>6, <2>1
    <2>3. CASE SendOwn(c, d)
      BY <1>1, <1>2, <1>6, <2>1, <2>2, <2>3, SendOwnInv
    <2>4. CASE UNCHANGED <<queue, pool, retxTimer, taskPosted, sendBusy>>
      <3>1. x \in Content /\ Good(c)'
        BY <1>1, <1>2, <1>6, <2>1, <2>2, OwnGood
      <3>2. Sound => c \notin Waiting
        BY <1>2, <1>6, OwnEntryFree
      <3>3. pool' \in Seq(Entries) /\ ToSet(pool') = ToSet(pool)
            /\ (IsInjective(pool) => IsInjective(pool'))
        BY <1>2, <2>4 DEF Types
      <3> QED BY <1>1, <2>2, <2>4, <3>1, <3>2, <3>3, FilledInv
    <2> QED BY <1>3, <1>4, <1>6, <2>3, <2>4
  <1> QED BY <1>5, <1>6

(* SubReceive.receive. *)
LEMMA ReceiveInv ==
  ASSUME Inv, LinkFree', NEW m \in Packets, Receive(m)
  PROVE  Inv'
  <1>1. UNCHANGED <<world, isRetx, fqe, inflight, now, txTime, sendBusy>>
    BY DEF Receive, env, hand
  <1>2. PICK d \in world.absolute : \E ps \in ParentChoices(d), loop \in {FALSE, Loops} :
          Copied(m, None, ps, d, loop) \/ Refused(m, None, ps, d)
    BY DEF Receive
  <1>3. PICK ps \in ParentChoices(d), loop \in {FALSE, Loops} :
          Copied(m, None, ps, d, loop) \/ Refused(m, None, ps, d)
    BY <1>2
  <1>4. Types /\ d \in Nat
    BY <1>2, Builds DEF Inv, Types
  <1>5. /\ ps \in Seq(Parents \union {None})
        /\ Variant = "MMSPEED" /\ ps # <<>> => d > 0
    BY <1>3, <1>4, ParentsChosen
  <1>6. ps # <<>> => Arrival(m, None, d)
    BY <1>5 DEF Arrival
  <1>7. CASE Copied(m, None, ps, d, loop)
    <2>1. ps # <<>>
      BY <1>4, <1>5, <1>7, CopiedFor
    <2>2. Arrival(m, None, d) /\ sendBusy \subseteq sendBusy'
      BY <1>1, <1>6, <2>1
    <2> QED BY <1>1, <1>4, <1>5, <1>7, <2>2, CopiedInv
  <1>8. CASE NotEnqueued(m, None, ps, d)
    <2>1. Arrival(m, None, d)
      BY <1>6, <1>8 DEF NotEnqueued
    <2> QED BY <1>1, <1>4, <1>5, <1>8, <2>1, NotEnqueuedInv
  <1>9. CASE NoCopy(ps)
    BY <1>1, <1>4, <1>9, FrameInv DEF NoCopy, Types
  <1> QED BY <1>3, <1>7, <1>8, <1>9 DEF Refused

(* Every attempt touches only the entry in hand. *)
LEMMA NextHopTouched ==
  ASSUME Inv, HasWork, NEW dest \in Parents, NextHop(Chosen, dest)
  PROVE  \E x : Touched(Chosen, x) /\ (Sound => x.retries \in 1 .. MAX_RETRIES)
  <1>1. PICK e : e = Chosen
    OBVIOUS
  <1>2. /\ e \in Entries \union Clients /\ entry[e] \in Content
        /\ Sound => entry[e].retries \in 1 .. MAX_RETRIES
        /\ entry \in [Entries \union Clients -> Content \union {None}]
    BY <1>1, ChosenUsed DEF Inv, Types, Counted, Good
  <1>3. MAX_RETRIES \in 0 .. 255 /\ MAX_RETRIES \in 1 .. MAX_RETRIES
    BY Constants
  <1>4. CASE Variant = "CTP"
    <2>1. PICK n : n = IF dest # lastParent THEN MAX_RETRIES ELSE entry[e].retries
      OBVIOUS
    <2>2. PICK p : p = IF n = MAX_RETRIES THEN dest ELSE entry[e].parent
      OBVIOUS
    <2>3. entry' = [entry EXCEPT ![e] = [entry[e] EXCEPT !.retries = n, !.parent = p]]
      BY ZenonT(40), <1>1, <1>2, <1>4, <2>1, <2>2 DEF NextHop, Content
    <2>4. n \in 0 .. 255 /\ p \in Parents \union {None} /\ (Sound => n \in 1 .. MAX_RETRIES)
      BY <1>2, <1>3, <2>1, <2>2 DEF Content
    <2>5. PICK x : x = [entry[e] EXCEPT !.retries = n, !.parent = p]
      OBVIOUS
    <2>6. /\ x \in Content /\ x.retries = n
          /\ x.pkt = entry[e].pkt /\ x.client = entry[e].client /\ x.deadline = entry[e].deadline
      BY <1>2, <2>4, <2>5 DEF Content
    <2> QED BY <1>1, <2>3, <2>4, <2>5, <2>6 DEF Touched
  <1>5. CASE Variant = "MTA"
    <2>1. PICK x : x = [entry[e] EXCEPT !.parent = dest]
      OBVIOUS
    <2>2. entry' = [entry EXCEPT ![e] = x]
      BY <1>1, <1>2, <1>5, <2>1 DEF NextHop, Content
    <2>3. /\ x \in Content /\ x.retries = entry[e].retries
          /\ x.pkt = entry[e].pkt /\ x.client = entry[e].client /\ x.deadline = entry[e].deadline
      BY <1>2, <2>1 DEF Content
    <2> QED BY <1>1, <1>2, <2>2, <2>3 DEF Touched
  <1>6. CASE Variant # "CTP" /\ Variant # "MTA"
    <2>1. entry' = entry
      BY <1>6 DEF NextHop
    <2>2. entry' = [entry EXCEPT ![e] = entry[e]]
      BY <1>2, <2>1
    <2> QED BY <1>1, <1>2, <2>2 DEF Touched
  <1> QED BY <1>4, <1>5, <1>6

(* sendTask. *)
LEMMA SendTaskInv ==
  ASSUME Inv, LinkFree', SendTask
  PROVE  Inv'
  <1>1. UNCHANGED <<world, now>> /\ Types
    BY DEF SendTask, env, Inv
  <1>2. ASSUME HasWork
        PROVE  /\ Chosen \in Entries \union Clients /\ entry[Chosen] \in Content
               /\ entry = [entry EXCEPT ![Chosen] = entry[Chosen]]
               /\ Sound => entry[Chosen].retries \in 1 .. MAX_RETRIES
    BY <1>1, <1>2, ChosenUsed DEF Inv, Types, Counted, Good
  <1>3. CASE TaskIdle \/ TaskNoRoute
    BY <1>1, <1>3, FrameInv DEF TaskIdle, TaskNoRoute, hand, Types
  <1>4. ASSUME TaskDefer \/ TaskSelect
        PROVE  Inv'
    <2>1. /\ HasWork /\ TakeOut /\ txTime' \in {txTime, now}
          /\ Variant = "MMSPEED" => UNCHANGED txTime
          /\ UNCHANGED <<pool, entry, sendBusy, inflight>>
      BY <1>4 DEF TaskDefer, TaskSelect, HasWork
    <2>2. txTime' \in 0 .. now /\ (Variant = "MMSPEED" => txTime' = 0)
      BY <1>1, <2>1 DEF Types
    <2>3. PICK x : x = entry[Chosen]
      OBVIOUS
    <2>4. Touched(Chosen, x) /\ (Sound => x.retries \in 1 .. MAX_RETRIES)
      BY <1>2, <2>1, <2>3 DEF Touched
    <2>5. inflight' \in {inflight, Chosen}
      BY <2>1
    <2> QED BY <1>1, <2>1, <2>2, <2>4, <2>5, TakeOutInv
  <1>5. ASSUME TaskReject
        PROVE  Inv'
    <2>1. Variant = "MTA"
      <3> SUFFICES ASSUME Variant # "MTA" PROVE FALSE
        OBVIOUS
      <3>1. Variant = "MMSPEED" /\ HasWork /\ Expired(Chosen)
        BY <1>1, <1>5, Builds DEF TaskReject, Types
      <3>2. entry[Chosen].deadline > 0 /\ entry[Chosen].deadline \in Nat
        BY <1>1, <1>2, <3>1, ChosenUsed DEF Good, Content
      <3>3. txTime = 0
        BY <1>1, <3>1 DEF Types
      <3> QED BY <3>1, <3>2, <3>3 DEF Expired
    <2>2. /\ isRetx /\ HasWork /\ Chosen = fqe /\ ~ sending
          /\ Release(fqe, TRUE) /\ isRetx' = FALSE
          /\ UNCHANGED <<fqe, queue, txTime, entry, inflight>>
      BY <1>5, <2>1 DEF TaskReject, Chosen
    <2>3. /\ pool' = IF entry[fqe].client # None /\ Variant # "MMSPEED" THEN pool ELSE Put(pool, fqe)
          /\ sendBusy \ {entry[fqe].client} \subseteq sendBusy'
      BY <2>2 DEF Release
    <2>4. Sound => inflight' = None
      BY <2>1, <2>2 DEF Inv, LinkFree, Sound
    <2>5. Touched(fqe, entry[fqe]) /\ fqe # None
      BY <1>1, <1>2, <2>2 DEF Touched, Types
    <2>6. PICK x : x = entry[fqe]
      OBVIOUS
    <2>7. Touched(fqe, x) /\ inflight' \in {inflight, None}
      BY <2>2, <2>5, <2>6
    <2> QED BY <1>1, <2>2, <2>3, <2>4, <2>5, <2>7, LetGoInv
  <1>6. ASSUME TaskTransmit
        PROVE  Inv'
    <2>1. /\ HasWork /\ TakeOut /\ UNCHANGED <<txTime, pool, sendBusy>>
          /\ \E dest \in Parents : NextHop(Chosen, dest)
      BY <1>6 DEF TaskTransmit
    <2>2. PICK answer : Sent(Chosen, answer)
      BY <1>6 DEF TaskTransmit
    <2>3. inflight' \in {inflight, Chosen}
      BY <2>2 DEF Sent
    <2>4. PICK x : Touched(Chosen, x) /\ (Sound => x.retries \in 1 .. MAX_RETRIES)
      BY <2>1, NextHopTouched
    <2>5. txTime' \in 0 .. now /\ (Variant = "MMSPEED" => txTime' = 0)
      BY <1>1, <2>1 DEF Types
    <2> QED BY <1>1, <2>1, <2>3, <2>4, <2>5, TakeOutInv
  <1> QED BY <1>3, <1>4, <1>5, <1>6 DEF SendTask

(* SubSend.sendDone. *)
LEMMA SendDoneInv ==
  ASSUME Inv, LinkFree', SendDone
  PROVE  Inv'
  <1>1. /\ UNCHANGED <<world, now, fqe, queue, txTime>> /\ Types
        /\ inflight # None /\ inflight' = None
    BY DEF SendDone, env, Inv
  <1>2. PICK e : e = inflight
    OBVIOUS
  <1>3. /\ e \in Used /\ e \in Entries \union Clients /\ entry[e] \in Content
        /\ entry \in [Entries \union Clients -> Content \union {None}]
        /\ entry = [entry EXCEPT ![e] = entry[e]]
    BY <1>1, <1>2 DEF Used, Types, Good
  <1>4. Sound => isRetx /\ e = fqe /\ e \in Waiting /\ entry[e].retries \in 1 .. MAX_RETRIES
    <2>1. Sound => isRetx /\ e = fqe
      BY <1>1, <1>2 DEF Inv, InflightIsOurs, DoneIsOurs
    <2>2. Sound => e \in Waiting
      BY <2>1 DEF Waiting, InHand
    <2> QED BY <2>1, <2>2 DEF Inv, Counted
  <1>5. ASSUME UNCHANGED <<isRetx, pool, entry, sendBusy>>
        PROVE  Inv'
    <2>1. PICK x : x = entry[e]
      OBVIOUS
    <2>2. Touched(e, x) /\ (Sound => e \in Waiting /\ x.retries \in 1 .. MAX_RETRIES)
      BY <1>3, <1>4, <1>5, <2>1 DEF Touched
    <2> QED BY <1>1, <1>3, <1>5, <2>2, InflightGone
  <1>6. CASE DoneNotOurs \/ DoneFailed \/ DonePoolFull
    BY <1>5, <1>6 DEF DoneNotOurs, DoneFailed, DonePoolFull
  <1>7. ASSUME e = fqe, isRetx' = FALSE, UNCHANGED entry,
               pool' = IF entry[fqe].client # None /\ Variant # "MMSPEED"
                       THEN pool ELSE Put(pool, fqe),
               sendBusy \ {entry[fqe].client} \subseteq sendBusy'
        PROVE  Inv'
    <2>1. PICK x : x = entry[fqe]
      OBVIOUS
    <2>2. Touched(fqe, x)
      BY <1>3, <1>7, <2>1 DEF Touched
    <2> QED BY <1>1, <1>2, <1>4, <1>7, <2>2, LetGoInv
  <1>8. CASE DoneOwn
    BY <1>2, <1>7, <1>8 DEF DoneOwn
  <1>9. CASE DoneForwarded
    BY <1>2, <1>7, <1>9 DEF DoneForwarded
  <1>10. ASSUME DoneNoAck PROVE Inv'
    <2>1. e = fqe /\ entry[e].retries \in 0 .. 255
      BY <1>2, <1>3, <1>10 DEF DoneNoAck, Content
    <2>2. PICK n \in 0 .. 255 : n = (entry[e].retries + 255) % 256
                               /\ (entry[e].retries > 0 => n = entry[e].retries - 1)
      BY <2>1, CountedDown
    <2>3. PICK x : x = [entry[e] EXCEPT !.retries = n]
      OBVIOUS
    <2>4. entry' = [entry EXCEPT ![e] = x]
      BY SMTT(30), <1>3, <1>10, <2>1, <2>2, <2>3 DEF DoneNoAck, Content
    <2>5. Touched(e, x) /\ x.retries = n
      BY <1>3, <2>2, <2>3, <2>4 DEF Touched, Content
    <2>6. CASE entry[e].retries # 1
      <3>1. UNCHANGED <<isRetx, pool, sendBusy>>
        BY <1>10, <2>1, <2>6 DEF DoneNoAck
      <3>2. Sound => e \in Waiting /\ x.retries \in 1 .. MAX_RETRIES
        BY <1>4, <2>2, <2>5, <2>6, Constants
      <3> QED BY <1>1, <1>3, <2>5, <3>1, <3>2, InflightGone
    <2>7. CASE entry[e].retries = 1
      <3>1. isRetx' = FALSE /\ Release(fqe, FALSE)
        BY <1>10, <2>1, <2>7 DEF DoneNoAck
      <3>2. /\ pool' = IF entry[fqe].client # None /\ Variant # "MMSPEED"
                       THEN pool ELSE Put(pool, fqe)
            /\ sendBusy \ {entry[fqe].client} \subseteq sendBusy'
        BY <3>1 DEF Release
      <3> QED BY <1>1, <1>2, <1>4, <2>1, <2>5, <3>1, <3>2, LetGoInv
    <2> QED BY <2>6, <2>7
  <1> QED BY <1>6, <1>8, <1>9, <1>10 DEF SendDone

(* Every step keeps the invariant. *)
LEMMA InvStep == Inv /\ [Next]_vars => Inv'
  <1> SUFFICES ASSUME Inv, [Next]_vars PROVE Inv'
    OBVIOUS
  <1>1. LinkFree'
    BY LinkStep DEF Inv
  <1>2. now \in Nat
    BY DEF Inv, Types
  <1>3. CASE Start \/ Stop \/ RadioStop \/ StopDone \/ StartDone
    BY <1>1, <1>2, <1>3, FrameInv DEF Start, Stop, RadioStop, StopDone, StartDone, env, hand, ctl, pipe
  <1>4. CASE RouteFound \/ TasksDone \/ CongestionTimerFired \/ RetxmitTimerFired
    <2>1. UNCHANGED <<world, now, isRetx, fqe, queue, pool, entry, inflight, sendBusy, txTime>>
      BY <1>4 DEF RouteFound, TasksDone, CongestionTimerFired, RetxmitTimerFired, env, hand
    <2>2. now' \in Nat /\ now <= now'
      BY <1>2, <2>1
    <2> QED BY <1>1, <2>1, <2>2, FrameInv
  <1>5. CASE Tick
    <2>1. now' = now + 1 /\ now' \in Nat /\ now <= now'
      BY <1>2, <1>5 DEF Tick
    <2> QED BY <1>1, <1>5, <2>1, FrameInv DEF Tick, hand
  <1>6. CASE UNCHANGED vars
    BY <1>1, <1>2, <1>6, FrameInv DEF vars, env, hand
  <1>7. CASE SendDone \/ SendTask
    BY <1>1, <1>7, SendDoneInv, SendTaskInv
  <1>8. ASSUME NEW c \in Clients, Send(c) PROVE Inv'
    BY <1>1, <1>8, SendInv
  <1>9. ASSUME NEW m \in Packets, Receive(m) PROVE Inv'
    BY <1>1, <1>9, ReceiveInv
  <1> QED BY <1>3, <1>4, <1>5, <1>6, <1>7, <1>8, <1>9 DEF Next, Calls, Events

(* The inductive invariant holds in every reachable state. *)
THEOREM Invariance == Spec => []Inv
  BY InitInv, InvStep, PTL DEF Spec

(* What the radio holds is the packet in hand. *)
THEOREM Ours == Spec => []InflightIsOurs
  <1>1. Inv => InflightIsOurs
    BY DEF Inv
  <1> QED BY <1>1, Invariance, PTL

(* Every entry is in the pool, in the queue or in hand, and only once. *)
THEOREM Owned == Spec => []Ownership
  <1>1. Inv => Ownership
    BY DEF Inv, Counted, Ownership
  <1> QED BY <1>1, Invariance, PTL

(* The pool and the queue together never outgrow the queue's place, so the
   entry drawn by forward is never refused. *)
THEOREM Room == Spec => []RoomForEveryEntry
  <1>1. Inv => RoomForEveryEntry
    <2> SUFFICES ASSUME Inv, Sound PROVE Len(queue) + Len(pool) <= QUEUE_SIZE
      BY DEF RoomForEveryEntry
    <2>1. /\ pool \in Seq(Entries) /\ IsInjective(pool) /\ queue \in Seq(Queued)
          /\ IsInjective(Line) /\ ToSet(pool) \intersect ToSet(Line) = {}
      BY DEF Inv, Types, Counted, Waiting, InQueue
    <2>2. PICK l \in Seq(Entries \union Clients) : l = Line /\ Len(l) = Len(queue)
      BY <2>1, LineType DEF Line, LineOf
    <2>3. IsFiniteSet(Entries) /\ Cardinality(Entries) = FORWARD_COUNT
      BY EntriesCount
    <2>4. IsFiniteSet(Clients) /\ Entries \intersect Clients = {}
      BY ForwarderAssumption
    <2>5. PICK all : all = Entries \union Clients
      OBVIOUS
    <2>6. IsFiniteSet(all) /\ Cardinality(all) = FORWARD_COUNT + Cardinality(Clients)
      <3>1. Cardinality(Entries \intersect Clients) = 0
        BY <2>4, FS_EmptySet
      <3>2. Cardinality(Clients) \in Nat /\ FORWARD_COUNT \in Nat
        BY <2>4, FS_CardinalityType, Constants
      <3>3. /\ IsFiniteSet(Entries \union Clients)
            /\ Cardinality(Entries \union Clients)
                 = Cardinality(Entries) + Cardinality(Clients) - Cardinality(Entries \intersect Clients)
        BY <2>3, <2>4, FS_Union
      <3> QED BY <2>3, <2>5, <3>1, <3>2, <3>3
    <2>7. pool \in Seq(all) /\ l \in Seq(all)
      BY <2>1, <2>2, <2>5
    <2>8. Cardinality(ToSet(pool)) = Len(pool) /\ Cardinality(ToSet(l)) = Len(l)
      BY <2>1, <2>2, <2>6, <2>7, DistinctLength
    <2>9. ToSet(pool) \subseteq all /\ ToSet(l) \subseteq all
      BY <2>7, LenProperties DEF ToSet
    <2>10. IsFiniteSet(ToSet(pool)) /\ IsFiniteSet(ToSet(l))
      BY <2>6, <2>9, FS_Subset
    <2>11. Cardinality(ToSet(pool) \union ToSet(l)) = Len(pool) + Len(l)
      <3>1. Cardinality(ToSet(pool) \intersect ToSet(l)) = 0
        BY <2>1, <2>2, FS_EmptySet
      <3>2. Cardinality(ToSet(pool) \union ToSet(l))
              = Cardinality(ToSet(pool)) + Cardinality(ToSet(l))
                  - Cardinality(ToSet(pool) \intersect ToSet(l))
        BY <2>10, FS_Union
      <3>3. Len(pool) \in Nat /\ Len(l) \in Nat
        BY <2>7, LenProperties
      <3> QED BY <2>8, <3>1, <3>2, <3>3
    <2>12. Cardinality(ToSet(pool) \union ToSet(l)) <= Cardinality(all)
      <3>1. ToSet(pool) \union ToSet(l) \in SUBSET all
        BY <2>9
      <3> QED BY <2>6, <3>1, FS_Subset
    <2>13. QUEUE_SIZE = Cardinality(Clients) + FORWARD_COUNT
      BY DEF QUEUE_SIZE
    <2>14. Len(pool) \in Nat /\ Len(queue) \in Nat /\ Cardinality(Clients) \in Nat /\ FORWARD_COUNT \in Nat
      BY <2>1, <2>4, LenProperties, FS_CardinalityType, Constants
    <2> QED BY <2>2, <2>6, <2>11, <2>12, <2>13, <2>14
  <1> QED BY <1>1, Invariance, PTL

-----------------------------------------------------------------------------
(* The types of the remaining variables. *)

Flags == {running, radioOn, sending, isRetx, pipeDone, pipeBusy,
          taskPosted, retxTimer, congTimer} \subseteq BOOLEAN

Others == /\ cache \in Seq(Packets) /\ Len(cache) <= CACHE_SIZE
          /\ lastParent \in Parents \union {None}
          /\ radio \in {"on", "off", "stopping"}
          /\ sendBusy \subseteq Clients

(* What is copied or refused changes one timer and one task. *)
LEMMA EnterFlags ==
  ASSUME Flags, NEW m, NEW c, NEW ps, NEW d, NEW loop \in BOOLEAN,
         Copied(m, c, ps, d, loop) \/ Refused(m, c, ps, d)
  PROVE  retxTimer' \in BOOLEAN /\ taskPosted' \in BOOLEAN
  BY DEF Flags, Copied, Refused, NotEnqueued, NoCopy, Posted, MayPost

(* Flags stay flags. *)
LEMMA FlagsStep ==
  ASSUME Inv, Flags, [Next]_vars
  PROVE  Flags'
  <1>1. Loops \in BOOLEAN
    BY Builds DEF Inv, Types
  <1>2. CASE Start \/ Stop \/ RadioStop \/ StopDone \/ StartDone
    BY <1>2 DEF Flags, Start, Stop, RadioStop, StopDone, StartDone, Posted, MayPost, hand, pipe
  <1>3. CASE RouteFound \/ TasksDone
    BY <1>3 DEF Flags, RouteFound, TasksDone, Posted, MayPost, hand, pipe, ctl
  <1>4. CASE CongestionTimerFired \/ RetxmitTimerFired
    BY <1>4 DEF Flags, CongestionTimerFired, RetxmitTimerFired, Posted, MayPost, hand, pipe, ctl
  <1>5. CASE Tick \/ UNCHANGED vars
    BY <1>5 DEF Flags, Tick, vars, hand, pipe, ctl
  <1>6. ASSUME NEW c \in Clients, Send(c)
        PROVE  Flags'
    <2>1. UNCHANGED <<running, radioOn, sending, isRetx, pipeDone, pipeBusy, congTimer>>
      BY <1>6 DEF Send, hand, pipe, ctl
    <2>2. retxTimer' \in BOOLEAN /\ taskPosted' \in BOOLEAN
      <3>1. CASE Variant = "MMSPEED"
        <4>1. PICK r \in world.relative : SendCopies(c, now + r)
          BY <1>6, <3>1 DEF Send
        <4>2. PICK ps \in ParentChoices(now + r) :
                \/ \E loop \in {FALSE, Loops} : Copied(c, c, ps, now + r, loop)
                \/ Refused(c, c, ps, now + r)
          BY <4>1 DEF SendCopies
        <4>3. PICK loop \in BOOLEAN : Copied(c, c, ps, now + r, loop) \/ Refused(c, c, ps, now + r)
          BY <1>1, <4>2
        <4> QED BY <4>3, EnterFlags
      <3>2. CASE Variant # "MMSPEED"
        BY <1>6, <3>2 DEF Send, SendOwn, Flags, Posted, MayPost
      <3> QED BY <3>1, <3>2
    <2> QED BY <2>1, <2>2 DEF Flags
  <1>7. ASSUME NEW m \in Packets, Receive(m)
        PROVE  Flags'
    <2>1. UNCHANGED <<running, radioOn, sending, isRetx, pipeDone, pipeBusy, congTimer>>
      BY <1>7 DEF Receive, hand, pipe, ctl
    <2>2. PICK d \in world.absolute : \E ps \in ParentChoices(d), loop \in {FALSE, Loops} :
            Copied(m, None, ps, d, loop) \/ Refused(m, None, ps, d)
      BY <1>7 DEF Receive
    <2>3. PICK ps \in ParentChoices(d), loop \in BOOLEAN :
            Copied(m, None, ps, d, loop) \/ Refused(m, None, ps, d)
      BY <1>1, <2>2
    <2>4. retxTimer' \in BOOLEAN /\ taskPosted' \in BOOLEAN
      BY <2>3, EnterFlags
    <2> QED BY <2>1, <2>4 DEF Flags
  <1>8. CASE SendTask
    <2>1. UNCHANGED running
      BY <1>8 DEF SendTask
    <2>2. CASE TaskIdle \/ TaskNoRoute \/ TaskDefer \/ TaskSelect
      BY <2>1, <2>2 DEF Flags, TaskIdle, TaskNoRoute, TaskDefer, TaskSelect, TakeOut, hand, pipe
    <2>3. CASE TaskReject
      BY <2>1, <2>3 DEF Flags, TaskReject, MayPost, pipe
    <2>4. CASE TaskTransmit
      <3>1. PICK answer : Sent(Chosen, answer)
        BY <2>4 DEF TaskTransmit
      <3>2. sending' \in BOOLEAN /\ radioOn' \in BOOLEAN /\ taskPosted' \in BOOLEAN
        BY <3>1 DEF Flags, Sent, MayPost
      <3> QED BY <2>1, <2>4, <3>2 DEF Flags, TaskTransmit, TakeOut, pipe
    <2> QED BY <1>8, <2>2, <2>3, <2>4 DEF SendTask
  <1>9. CASE SendDone
    <2>1. UNCHANGED <<running, radioOn, sending, pipeDone, pipeBusy, taskPosted, congTimer>>
      BY <1>9 DEF SendDone, ctl, pipe
    <2>2. isRetx' \in {isRetx, FALSE} /\ retxTimer' \in {retxTimer, TRUE}
      BY <1>9 DEF SendDone, DoneNotOurs, DoneFailed, DoneNoAck, DoneOwn, DoneForwarded, DonePoolFull
    <2> QED BY <2>1, <2>2 DEF Flags
  <1> QED BY <1>2, <1>3, <1>4, <1>5, <1>6, <1>7, <1>8, <1>9 DEF Next, Calls, Events

(* The history of sent packets stays within its capacity. *)
LEMMA RecentType ==
  ASSUME NEW c \in Seq(Packets), Len(c) <= CACHE_SIZE, NEW m \in Packets
  PROVE  /\ RL!InsertRecent(c, m, m) \in Seq(Packets)
         /\ Len(RL!InsertRecent(c, m, m)) <= CACHE_SIZE
  <1>1. PICK r : r = IF Len(c) < CACHE_SIZE THEN c
                     ELSE IF m \in ToSet(c) THEN RemoveFirst(c, m) ELSE Tail(c)
    OBVIOUS
  <1>2. CACHE_SIZE \in Nat /\ CACHE_SIZE > 0 /\ Len(c) \in Nat
    BY ForwarderAssumption, LenProperties
  <1>3. r \in Seq(Packets) /\ Len(r) < CACHE_SIZE
    <2>1. CASE Len(c) < CACHE_SIZE
      BY <1>1, <2>1
    <2>2. CASE ~ (Len(c) < CACHE_SIZE) /\ m \in ToSet(c)
      <3>1. RemoveFirst(c, m) \in Seq(Packets) /\ Len(RemoveFirst(c, m)) = Len(c) - 1
        BY <2>2, RemoveFirstType
      <3> QED BY <1>1, <1>2, <2>2, <3>1
    <2>3. CASE ~ (Len(c) < CACHE_SIZE) /\ m \notin ToSet(c)
      <3>1. c # <<>>
        BY <1>2, <2>3
      <3>2. Tail(c) \in Seq(Packets) /\ Len(Tail(c)) = Len(c) - 1
        BY <3>1, HeadTailProperties
      <3> QED BY <1>1, <1>2, <2>3, <3>2
    <2> QED BY <2>1, <2>2, <2>3
  <1>4. RL!InsertRecent(c, m, m) = Append(r, m)
    <2>1. RL!ToSet(c) = ToSet(c)
      BY DEF RL!ToSet, ToSet
    <2>2. RL!RemoveFirst(c, m) = RemoveFirst(c, m)
      BY DEF RL!RemoveFirst, RL!RemoveAt, RL!SelectInSeq, RL!Min,
             RemoveFirst, RemoveAt, SelectInSeq, Min
    <2> QED BY <1>1, <2>1, <2>2 DEF RL!InsertRecent
  <1>5. Append(r, m) \in Seq(Packets) /\ Len(Append(r, m)) = Len(r) + 1 /\ Len(r) \in Nat
    BY <1>3, LenProperties
  <1> QED BY <1>2, <1>3, <1>4, <1>5

(* Only packets of other nodes are remembered, and only clients wait. *)
LEMMA OthersStep ==
  ASSUME Inv, Others, [Next]_vars
  PROVE  Others'
  <1>1. Types
    BY DEF Inv
  <1>2. CASE Start \/ Stop \/ RadioStop \/ StopDone \/ StartDone
    BY <1>2 DEF Others, Start, Stop, RadioStop, StopDone, StartDone, hand
  <1>3. CASE RouteFound \/ TasksDone \/ CongestionTimerFired
    BY <1>3 DEF Others, RouteFound, TasksDone, CongestionTimerFired, hand, ctl
  <1>4. CASE RetxmitTimerFired \/ Tick \/ UNCHANGED vars
    BY <1>4 DEF Others, RetxmitTimerFired, Tick, vars, hand, ctl
  <1>5. ASSUME NEW c \in Clients, Send(c)
        PROVE  Others'
    <2>1. UNCHANGED <<cache, lastParent, radio>>
      BY <1>5 DEF Send, hand, ctl
    <2>2. sendBusy' \in {sendBusy, sendBusy \union {c}}
      BY <1>5 DEF Send, SendCopies, SendOwn
    <2> QED BY <2>1, <2>2 DEF Others
  <1>6. ASSUME NEW m \in Packets, Receive(m)
        PROVE  Others'
    BY <1>6 DEF Others, Receive, hand, ctl
  <1>7. ASSUME NEW e \in Used, NEW success, Release(e, success)
        PROVE  /\ cache' \in Seq(Packets) /\ Len(cache') <= CACHE_SIZE
               /\ sendBusy' \subseteq Clients
    <2>1. entry[e].client = None => entry[e].pkt \in Packets
      BY <1>1 DEF Types, Good
    <2>2. CASE entry[e].client = None /\ success
      BY <1>7, <2>1, <2>2, RecentType DEF Release, Others
    <2>3. CASE ~ (entry[e].client = None /\ success)
      BY <1>7, <2>3 DEF Release, Others
    <2> QED BY <1>7, <2>2, <2>3 DEF Release, Others
  <1>8. CASE SendTask
    <2>1. UNCHANGED radio
      BY <1>8 DEF SendTask
    <2>2. CASE TaskIdle \/ TaskNoRoute \/ TaskDefer \/ TaskSelect
      BY <2>1, <2>2 DEF Others, TaskIdle, TaskNoRoute, TaskDefer, TaskSelect, hand
    <2>3. CASE TaskReject
      <3>1. Chosen \in Used /\ Release(Chosen, TRUE) /\ UNCHANGED lastParent
        BY <1>1, <2>3, ChosenUsed DEF TaskReject
      <3> QED BY <1>7, <2>1, <3>1 DEF Others
    <2>4. CASE TaskTransmit
      <3>1. PICK dest \in Parents : NextHop(Chosen, dest)
        BY <2>4 DEF TaskTransmit
      <3>2. lastParent' \in {lastParent, dest}
        BY <3>1 DEF NextHop
      <3>3. UNCHANGED <<cache, sendBusy>>
        BY <2>4 DEF TaskTransmit
      <3> QED BY <2>1, <3>2, <3>3 DEF Others
    <2> QED BY <1>8, <2>2, <2>3, <2>4 DEF SendTask
  <1>9. CASE SendDone
    <2>1. UNCHANGED <<lastParent, radio>> /\ inflight \in Used
      BY <1>9 DEF SendDone, ctl, Used
    <2>2. CASE DoneNotOurs \/ DoneFailed \/ DonePoolFull
      BY <2>1, <2>2 DEF Others, DoneNotOurs, DoneFailed, DonePoolFull
    <2>3. CASE DoneNoAck
      <3>1. fqe \in Used /\ (UNCHANGED <<cache, sendBusy>> \/ Release(fqe, FALSE))
        BY <2>1, <2>3 DEF DoneNoAck
      <3> QED BY <1>7, <2>1, <3>1 DEF Others
    <2>4. CASE DoneOwn
      BY <2>1, <2>4 DEF Others, DoneOwn
    <2>5. CASE DoneForwarded
      <3>1. /\ entry[fqe].pkt \in Packets
            /\ cache' = RL!InsertRecent(cache, entry[fqe].pkt, entry[fqe].pkt)
            /\ UNCHANGED sendBusy
        BY <1>1, <2>1, <2>5 DEF DoneForwarded, Types, Good
      <3> QED BY <2>1, <3>1, RecentType DEF Others
    <2> QED BY <1>9, <2>2, <2>3, <2>4, <2>5 DEF SendDone
  <1> QED BY <1>2, <1>3, <1>4, <1>5, <1>6, <1>8, <1>9 DEF Next, Calls, Events

(* The variables keep their types, retries of waiting packets included. *)
THEOREM TypesKept == Spec => []TypeOK
  <1>1. Init => Flags /\ Others
    <2> SUFFICES ASSUME Init PROVE Flags /\ Others
      OBVIOUS
    <2>1. Flags
      BY DEF Init, Flags
    <2>2. cache = <<>> /\ <<>> \in Seq(Packets) /\ Len(<<>>) = 0
      BY DEF Init
    <2>3. CACHE_SIZE \in Nat
      BY ForwarderAssumption
    <2>4. cache \in Seq(Packets) /\ Len(cache) <= CACHE_SIZE
      BY <2>2, <2>3
    <2> QED BY <2>1, <2>4 DEF Init, Others
  <1>2. Inv /\ Flags /\ Others /\ [Next]_vars => Flags' /\ Others'
    BY FlagsStep, OthersStep
  <1>3. Inv /\ Flags /\ Others => TypeOK
    <2> SUFFICES ASSUME Inv, Flags, Others PROVE TypeOK
      OBVIOUS
    <2>1. \A e \in Waiting : Sound => entry[e] \in Content /\ entry[e].retries \in 1 .. MAX_RETRIES
      BY UsedEntries DEF Inv, Types, Good, Counted
    <2> QED BY <2>1 DEF Inv, Types, Queued, Flags, Others, TypeOK
  <1> QED BY <1>1, <1>2, <1>3, Invariance, PTL DEF Spec

-----------------------------------------------------------------------------
(* What a step can do to the packets that wait here. *)

Kept == Sound => \A e \in Waiting : entry'[e] = entry[e]

\* Nothing waits that did not, and nothing that waited was touched.
Resting == /\ UNCHANGED <<isRetx, fqe, queue, sendBusy, lastParent, txTime>>
           /\ inflight' \in {inflight, None}
           /\ Kept

\* The entries new enter the queue with packet m of client c.
EnteringWith(new, m, c) ==
  /\ UNCHANGED <<isRetx, fqe, lastParent, txTime, inflight>>
  /\ Kept
  /\ new # {} /\ InQueue' = InQueue \union new
  /\ Sound => new \intersect Waiting = {}
  /\ \A e \in new : /\ entry'[e].pkt = m /\ entry'[e].client = c
                    /\ entry'[e].retries = MAX_RETRIES
  /\ \A e, f \in new : e # f => Variant = "MMSPEED" /\ entry'[e].parent # entry'[f].parent
  /\ sendBusy' \subseteq sendBusy \union {c}
  /\ c = None => ~ Duplicate(m)

Entering == \E new, m, c : EnteringWith(new, m, c)

\* The radio failed to deliver the packet in hand, which will be tried again.
Retrying == /\ UNCHANGED <<isRetx, fqe, queue, sendBusy, lastParent, txTime>>
            /\ inflight # None /\ fqe = inflight /\ inflight' = None
            /\ \E n : entry' = [entry EXCEPT ![inflight].retries = n]

\* The packet in hand is let go, and its client is told.
LettingGo == /\ UNCHANGED <<fqe, queue, lastParent, txTime>>
             /\ fqe \in Used /\ (Sound => isRetx) /\ isRetx' = FALSE
             /\ sendBusy' \subseteq sendBusy
             /\ entry[fqe].client # None => entry[fqe].client \notin sendBusy'
             /\ Sound => inflight' = None /\ \A e \in InQueue : entry'[e] = entry[e]

Kinds == \/ Resting \/ Entering
         \/ TaskDefer \/ TaskSelect \/ TaskTransmit
         \/ Retrying \/ LettingGo

(* What waits is an entry, and its contents are known. *)
LEMMA WaitingType ==
  ASSUME Inv, NEW e \in Waiting
  PROVE  e \in Used /\ e \in Entries \union Clients /\ entry[e] \in Content /\ Good(e)
  BY UsedEntries DEF Inv, Types, Good

(* A packet that forward copies. *)
LEMMA CopiedEnters ==
  ASSUME Inv, NEW m, NEW c, NEW d \in Nat, NEW loop, NEW ps \in ParentChoices(d),
         Copied(m, c, ps, d, loop), c = None => ~ Duplicate(m),
         sendBusy' \subseteq sendBusy \union {c},
         UNCHANGED <<world, isRetx, fqe, inflight, lastParent, txTime>>
  PROVE  Entering
  <1>1. Types /\ pool \in Seq(Entries)
    BY DEF Inv, Types
  <1>2. ps \in Seq(Parents \union {None})
    BY <1>1, ParentsChosen
  <1>3. PICK es : CopiedInto(es, m, c, ps, d)
    BY <1>1, <1>2, CopiedLine
  <1>4. PICK new : new = ToSet(es)
    OBVIOUS
  <1>5. /\ es \in Seq(Entries) /\ Len(es) \in Nat /\ DOMAIN es = 1 .. Len(es)
        /\ Len(ps) \in Nat /\ DOMAIN ps = 1 .. Len(ps) /\ Len(es) <= Len(ps)
        /\ new \subseteq ToSet(pool) /\ InQueue' = InQueue \union new
    BY <1>2, <1>3, <1>4, LenProperties DEF CopiedInto
  <1>6. new # {}
    <2>1. Len(es) > 0
      <3>1. PICK k : k = Min2(Len(ps), Len(pool)) /\ k > 0
        BY DEF Copied
      <3>2. Len(pool) \in Nat
        BY <1>1, LenProperties
      <3>3. k \in Nat /\ k <= Len(ps) /\ k <= Len(pool)
        BY <1>5, <3>1, <3>2 DEF Min2
      <3>4. pool' = SubSeq(pool, k + 1, Len(pool)) /\ pool' = SubSeq(pool, Len(es) + 1, Len(pool))
        BY <1>3, <3>1 DEF Copied, CopiedInto
      <3>5. k \in 0 .. Len(pool) /\ Len(es) \in 0 .. Len(pool)
        BY <1>3, <1>5, <3>2, <3>3 DEF CopiedInto
      <3>6. Len(pool') = Len(pool) - k
        BY <1>1, <3>4, <3>5, RestOfSeq
      <3>7. Len(pool') = Len(pool) - Len(es)
        BY <1>1, <3>4, <3>5, RestOfSeq
      <3> QED BY <1>5, <3>1, <3>2, <3>3, <3>6, <3>7
    <2>2. 1 \in DOMAIN es
      BY <1>5, <2>1
    <2> QED BY <1>4, <2>2 DEF ToSet
  <1>7. Sound => new \intersect Waiting = {}
    BY <1>5 DEF Inv, Counted
  <1>8. ASSUME NEW e \in new
        PROVE  \E i \in DOMAIN es : es[i] = e /\ entry'[e] = NewEntry(m, c, ps[i], d)
    BY <1>3, <1>4 DEF CopiedInto
  <1>9. ASSUME NEW e \in new
        PROVE  /\ entry'[e].pkt = m /\ entry'[e].client = c
               /\ entry'[e].retries = MAX_RETRIES
    <2>1. PICK i \in DOMAIN es : entry'[e] = NewEntry(m, c, ps[i], d)
      BY <1>8
    <2> QED BY <2>1 DEF NewEntry
  <1>10. ASSUME NEW e \in new, NEW f \in new, e # f
         PROVE  Variant = "MMSPEED" /\ entry'[e].parent # entry'[f].parent
    <2>1. PICK i \in DOMAIN es : es[i] = e /\ entry'[e] = NewEntry(m, c, ps[i], d)
      BY <1>8
    <2>2. PICK j \in DOMAIN es : es[j] = f /\ entry'[f] = NewEntry(m, c, ps[j], d)
      BY <1>8
    <2>3. i # j /\ i \in DOMAIN ps /\ j \in DOMAIN ps
      BY <1>5, <1>10, <2>1, <2>2
    <2>4. Variant = "MMSPEED"
      <3>1. Variant # "MMSPEED" => DOMAIN ps = {1}
        BY DEF ParentChoices
      <3> QED BY <2>3, <3>1
    <2>5. ps \in ParentLists
      <3>1. ps # <<>>
        BY <2>3
      <3> QED BY <2>4, <3>1 DEF ParentChoices
    <2>6. ps[i] # ps[j]
      BY <2>3, <2>5, ForwarderAssumption DEF IsInjective
    <2> QED BY <2>1, <2>2, <2>4, <2>6 DEF NewEntry
  <1>11. Kept
    BY <1>3, <1>4, <1>7, WaitingType DEF Kept, CopiedInto
  <1>12. EnteringWith(new, m, c)
    BY <1>5, <1>6, <1>7, <1>9, <1>10, <1>11 DEF EnteringWith
  <1> QED BY <1>12 DEF Entering

(* A packet for which there is no place. *)
LEMMA RefusedRests ==
  ASSUME Inv, NEW m, NEW c, NEW d, NEW ps, Refused(m, c, ps, d),
         UNCHANGED <<isRetx, fqe, sendBusy, lastParent, txTime, inflight>>
  PROVE  Resting
  <1>1. CASE NoCopy(ps)
    BY <1>1 DEF NoCopy, Resting, Kept
  <1>2. CASE NotEnqueued(m, c, ps, d)
    <2>1. PICK e : /\ e = Head(pool) /\ entry' = [entry EXCEPT ![e] = NewEntry(m, c, Head(ps), d)]
                   /\ UNCHANGED queue
      BY <1>2 DEF NotEnqueued
    <2>2. e \in ToSet(pool)
      BY <1>2, <2>1, HeadAndTail DEF NotEnqueued, Inv, Types
    <2>3. Sound => e \notin Waiting
      BY <2>2 DEF Inv, Counted
    <2>4. \A f : f # e /\ f \in Entries \union Clients => entry'[f] = entry[f]
      BY <2>1 DEF Inv, Types
    <2>5. Kept
      BY <2>3, <2>4, WaitingType DEF Kept
    <2> QED BY <2>1, <2>5 DEF Resting
  <1> QED BY <1>1, <1>2 DEF Refused

(* Send.send. *)
LEMMA SendKind ==
  ASSUME Inv, NEW c \in Clients, Send(c)
  PROVE  Resting \/ Entering
  <1>1. UNCHANGED <<world, isRetx, fqe, inflight, lastParent, txTime>>
    BY DEF Send, env, hand
  <1>2. Types /\ c # None /\ (world.polite => c \notin sendBusy)
    BY Constants DEF Inv, Send
  <1>3. PICK r \in world.relative :
          IF Variant = "MMSPEED" THEN SendCopies(c, now + r)
          ELSE /\ entry' = [entry EXCEPT ![c] = NewEntry(c, c, None, now + r)]
               /\ \/ SendOwn(c, now + r)
                  \/ /\ Len(queue) = QUEUE_SIZE
                     /\ UNCHANGED <<queue, pool, retxTimer, taskPosted, sendBusy>>
    BY DEF Send
  <1>4. PICK d \in Nat : d = now + r
    <2>1. now \in Nat /\ r \in Nat \ {0}
      BY <1>2, <1>3, Builds DEF Types
    <2> QED BY <2>1
  <1>5. CASE Variant = "MMSPEED"
    <2>1. PICK ps \in ParentChoices(d) :
            \/ /\ \E loop \in {FALSE, Loops} : Copied(c, c, ps, d, loop)
               /\ sendBusy' = sendBusy \union {c}
            \/ Refused(c, c, ps, d) /\ UNCHANGED sendBusy
      BY <1>3, <1>4, <1>5 DEF SendCopies
    <2>2. ASSUME NEW loop \in {FALSE, Loops}, Copied(c, c, ps, d, loop),
                 sendBusy' = sendBusy \union {c}
          PROVE  Entering
      BY <1>1, <1>2, <2>2, CopiedEnters
    <2>3. CASE Refused(c, c, ps, d) /\ UNCHANGED sendBusy
      BY <1>1, <2>3, RefusedRests
    <2> QED BY <2>1, <2>2, <2>3
  <1>6. CASE Variant # "MMSPEED"
    <2>1. /\ entry'[c] = NewEntry(c, c, None, d)
          /\ \A f \in Entries \union Clients : f # c => entry'[f] = entry[f]
      BY <1>2, <1>3, <1>4, <1>6 DEF Types
    <2>2. Sound => c \notin Waiting
      BY <1>2, <1>6, OwnEntryFree
    <2>3. Kept
      BY <2>1, <2>2, WaitingType DEF Kept
    <2>4. CASE SendOwn(c, d)
      <3>1. PICK es \in Seq(Entries \union Clients) : es = <<c>> /\ ToSet(es) = {c}
        <4>1. <<c>> \in Seq(Entries \union Clients) /\ DOMAIN <<c>> = {1} /\ <<c>>[1] = c
          OBVIOUS
        <4> QED BY <4>1 DEF ToSet
      <3>2. queue' = Enqueued(es, d) /\ sendBusy' = sendBusy \union {c}
        BY <2>4, <3>1 DEF SendOwn
      <3>3. InQueue' = InQueue \union {c}
        BY <1>2, <3>1, <3>2, EnqueuedLine
      <3>4. entry'[c].pkt = c /\ entry'[c].client = c /\ entry'[c].retries = MAX_RETRIES
        BY <2>1 DEF NewEntry
      <3>5. EnteringWith({c}, c, c)
        BY <1>1, <1>2, <2>2, <2>3, <3>2, <3>3, <3>4 DEF EnteringWith
      <3> QED BY <3>5 DEF Entering
    <2>5. CASE UNCHANGED <<queue, pool, retxTimer, taskPosted, sendBusy>>
      BY <1>1, <2>3, <2>5 DEF Resting
    <2> QED BY <1>3, <1>4, <1>6, <2>4, <2>5
  <1> QED BY <1>5, <1>6

(* SubReceive.receive. *)
LEMMA ReceiveKind ==
  ASSUME Inv, NEW m \in Packets, Receive(m)
  PROVE  Resting \/ Entering
  <1>1. UNCHANGED <<world, isRetx, fqe, inflight, lastParent, txTime, sendBusy>> /\ ~ Duplicate(m)
    BY DEF Receive, env, hand
  <1>2. PICK d \in world.absolute : \E ps \in ParentChoices(d), loop \in {FALSE, Loops} :
          Copied(m, None, ps, d, loop) \/ Refused(m, None, ps, d)
    BY DEF Receive
  <1>3. PICK ps \in ParentChoices(d), loop \in {FALSE, Loops} :
          Copied(m, None, ps, d, loop) \/ Refused(m, None, ps, d)
    BY <1>2
  <1>4. d \in Nat
    BY <1>2, Builds DEF Inv, Types
  <1>5. CASE Copied(m, None, ps, d, loop)
    <2>1. sendBusy' \subseteq sendBusy \union {None}
      BY <1>1
    <2> QED BY <1>1, <1>4, <1>5, <2>1, CopiedEnters
  <1>6. CASE Refused(m, None, ps, d)
    BY <1>1, <1>6, RefusedRests
  <1> QED BY <1>3, <1>5, <1>6

(* An entry is released by dequeue. *)
LEMMA ReleaseTells ==
  ASSUME NEW e, NEW success, Release(e, success)
  PROVE  sendBusy' = sendBusy \ {entry[e].client}
  BY DEF Release

(* SubSend.sendDone. *)
LEMMA SendDoneKind ==
  ASSUME Inv, SendDone
  PROVE  Resting \/ Retrying \/ LettingGo
  <1>1. /\ UNCHANGED <<fqe, queue, lastParent, txTime>>
        /\ inflight # None /\ inflight' = None
    BY DEF SendDone, env
  <1>2. CASE DoneNotOurs \/ DoneFailed \/ DonePoolFull
    BY <1>1, <1>2 DEF DoneNotOurs, DoneFailed, DonePoolFull, Resting, Kept
  <1>3. ASSUME fqe = inflight
        PROVE  fqe \in Used /\ (Sound => isRetx)
    BY <1>1, <1>3 DEF Used, Inv, InflightIsOurs, DoneIsOurs
  <1>4. CASE DoneOwn
    BY <1>1, <1>3, <1>4 DEF DoneOwn, LettingGo
  <1>5. CASE DoneForwarded
    BY <1>1, <1>3, <1>5 DEF DoneForwarded, LettingGo
  <1>6. CASE DoneNoAck
    <2>1. fqe = inflight /\ entry' = [entry EXCEPT ![inflight].retries = (@ + 255) % 256]
      BY <1>6 DEF DoneNoAck
    <2>2. CASE entry[fqe].retries # 1
      <3>1. UNCHANGED <<isRetx, sendBusy>>
        BY <1>6, <2>2 DEF DoneNoAck
      <3>2. \E n : entry' = [entry EXCEPT ![inflight].retries = n]
        BY <2>1
      <3> QED BY <1>1, <2>1, <3>1, <3>2 DEF Retrying
    <2>3. CASE entry[fqe].retries = 1
      <3>1. isRetx' = FALSE /\ sendBusy' = sendBusy \ {entry[fqe].client}
        BY <1>6, <2>3, ReleaseTells DEF DoneNoAck
      <3>2. ASSUME Sound, NEW e \in InQueue
            PROVE  entry'[e] = entry[e]
        <4>1. e # fqe
          BY <1>3, <2>1, <3>2 DEF Inv, Counted, InHand
        <4>2. e \in Entries \union Clients
          BY WaitingType DEF Waiting
        <4> QED BY <2>1, <4>1, <4>2 DEF Inv, Types
      <3> QED BY <1>1, <1>3, <2>1, <3>1, <3>2 DEF LettingGo
    <2> QED BY <2>2, <2>3
  <1> QED BY <1>2, <1>4, <1>5, <1>6 DEF SendDone

(* sendTask. *)
LEMMA SendTaskKind ==
  ASSUME Inv, SendTask
  PROVE  Resting \/ TaskDefer \/ TaskSelect \/ TaskTransmit \/ LettingGo
  <1>1. CASE TaskIdle \/ TaskNoRoute
    BY <1>1 DEF TaskIdle, TaskNoRoute, Resting, Kept, hand
  <1>2. CASE TaskReject
    <2>1. Variant = "MTA"
      <3> SUFFICES ASSUME Variant # "MTA" PROVE FALSE
        OBVIOUS
      <3>1. Variant = "MMSPEED" /\ HasWork /\ Expired(Chosen)
        BY <1>2, Builds DEF TaskReject, Inv, Types
      <3>2. entry[Chosen].deadline > 0 /\ entry[Chosen].deadline \in Nat /\ txTime = 0
        BY <3>1, ChosenUsed DEF Good, Content, Inv, Types
      <3> QED BY <3>1, <3>2 DEF Expired
    <2>2. /\ isRetx /\ HasWork /\ Chosen = fqe /\ ~ sending
          /\ Release(fqe, TRUE) /\ isRetx' = FALSE
          /\ UNCHANGED <<fqe, queue, txTime, lastParent, entry, inflight>>
      BY <1>2, <2>1 DEF TaskReject, Chosen
    <2>3. Sound => inflight' = None
      BY <2>1, <2>2 DEF Inv, LinkFree, Sound
    <2>4. fqe \in Used
      BY <2>2, ChosenUsed DEF Inv
    <2> QED BY <2>2, <2>3, <2>4, ReleaseTells DEF LettingGo
  <1> QED BY <1>1, <1>2 DEF SendTask

(* There are no other steps. *)
LEMMA StepKinds ==
  ASSUME Inv, [Next]_vars
  PROVE  Kinds
  <1>1. CASE Start \/ Stop \/ RadioStop \/ StopDone \/ StartDone
    BY <1>1 DEF Start, Stop, RadioStop, StopDone, StartDone, hand, Resting, Kept, Kinds
  <1>2. CASE RouteFound \/ TasksDone \/ CongestionTimerFired \/ RetxmitTimerFired
    BY <1>2 DEF RouteFound, TasksDone, CongestionTimerFired, RetxmitTimerFired, hand,
                Resting, Kept, Kinds
  <1>3. CASE Tick \/ UNCHANGED vars
    BY <1>3 DEF Tick, vars, hand, Resting, Kept, Kinds
  <1>4. CASE SendDone \/ SendTask
    BY <1>4, SendDoneKind, SendTaskKind DEF Kinds
  <1>5. ASSUME NEW c \in Clients, Send(c) PROVE Kinds
    BY <1>5, SendKind DEF Kinds
  <1>6. ASSUME NEW m \in Packets, Receive(m) PROVE Kinds
    BY <1>6, ReceiveKind DEF Kinds
  <1> QED BY <1>1, <1>2, <1>3, <1>4, <1>5, <1>6 DEF Next, Calls, Events

(* The world never changes. *)
LEMMA OneWorld ==
  ASSUME [Next]_vars
  PROVE  world' = world
  <1>1. CASE Start \/ Stop \/ RadioStop \/ StopDone \/ StartDone
    BY <1>1 DEF Start, Stop, RadioStop, StopDone, StartDone, env
  <1>2. CASE RouteFound \/ TasksDone \/ CongestionTimerFired \/ RetxmitTimerFired
    BY <1>2 DEF RouteFound, TasksDone, CongestionTimerFired, RetxmitTimerFired, env
  <1>3. CASE Tick \/ UNCHANGED vars
    BY <1>3 DEF Tick, vars, env
  <1>4. CASE SendDone \/ SendTask
    BY <1>4 DEF SendDone, SendTask, env
  <1>5. ASSUME NEW c \in Clients, Send(c) PROVE world' = world
    BY <1>5 DEF Send, env
  <1>6. ASSUME NEW m \in Packets, Receive(m) PROVE world' = world
    BY <1>6 DEF Receive, env
  <1> QED BY <1>1, <1>2, <1>3, <1>4, <1>5, <1>6 DEF Next, Calls, Events

-----------------------------------------------------------------------------
(* The attempts to send the packet in hand. *)

\* The packet in hand has been handed to the data-link layer before.
Tried == isRetx /\ (entry[fqe].retries # MAX_RETRIES \/ inflight # None)

\* What the queue holds was never tried.  What was tried is bound for the last
\* next hop in CTP builds, and was in time when it was taken out in MTA builds.
Attempts == Sound =>
  /\ \A e \in InQueue : entry[e].retries = MAX_RETRIES
  /\ Tried /\ Variant = "CTP" => entry[fqe].parent = lastParent
  /\ Tried /\ Variant = "MTA" => entry[fqe].deadline > txTime

(* A packet that is about to be sent was tried or was in the queue. *)
LEMMA ChosenTried ==
  ASSUME Inv, Attempts, Sound, HasWork
  PROVE  \/ isRetx /\ Chosen = fqe
         \/ ~ isRetx /\ Chosen \in InQueue /\ entry[Chosen].retries = MAX_RETRIES /\ inflight = None
  <1>1. CASE isRetx
    BY <1>1 DEF Chosen
  <1>2. CASE ~ isRetx
    <2>1. Chosen \in InQueue
      BY <1>2, ChosenUsed DEF Inv, Waiting, InHand
    <2> QED BY <1>2, <2>1 DEF Attempts, Inv, InflightIsOurs, DoneIsOurs
  <1> QED BY <1>1, <1>2

(* Every attempt is bound for the tree parent of the moment in CTP builds, and
   in time in MTA builds; the queue is not touched. *)
LEMMA TransmitRight ==
  ASSUME Inv, Attempts, Sound, TaskTransmit
  PROVE  /\ HasWork /\ TakeOut /\ inflight' \in {inflight, Chosen}
         /\ Variant = "CTP" => entry'[Chosen].parent = lastParent'
         /\ Variant = "MTA" => entry'[Chosen].deadline > txTime'
         /\ \A e \in Entries \union Clients : e # Chosen => entry'[e] = entry[e]
  <1>1. HasWork /\ TakeOut /\ txTime' = txTime
    BY DEF TaskTransmit
  <1>2. PICK dest \in Parents : NextHop(Chosen, dest)
    BY DEF TaskTransmit
  <1>3. PICK e : e = Chosen
    OBVIOUS
  <1>4. /\ e \in Entries \union Clients /\ entry[e] \in Content
        /\ entry \in [Entries \union Clients -> Content \union {None}]
    BY <1>1, <1>3, ChosenUsed DEF Inv, Types, Good
  <1>5. inflight' \in {inflight, Chosen}
    <2>1. PICK answer : Sent(Chosen, answer)
      BY DEF TaskTransmit
    <2> QED BY <2>1 DEF Sent
  <1>6. \A f \in Entries \union Clients : f # e => entry'[f] = entry[f]
    <2>1. PICK x : Touched(Chosen, x)
      BY <1>1, <1>2, NextHopTouched
    <2> QED BY <1>3, <1>4, <2>1 DEF Touched
  <1>7. ASSUME Variant = "CTP" PROVE entry'[e].parent = lastParent'
    <2>1. PICK n : n = IF dest # lastParent THEN MAX_RETRIES ELSE entry[e].retries
      OBVIOUS
    <2>2. PICK p : p = IF n = MAX_RETRIES THEN dest ELSE entry[e].parent
      OBVIOUS
    <2>3. /\ lastParent' = dest
          /\ entry' = [entry EXCEPT ![e] = [entry[e] EXCEPT !.retries = n, !.parent = p]]
      BY <1>2, <1>3, <1>4, <1>7, <2>1, <2>2 DEF NextHop, Content
    <2>4. entry'[e].parent = p
      BY <1>4, <2>3 DEF Content
    <2>5. n # MAX_RETRIES => p = dest
      <3>1. ASSUME n # MAX_RETRIES PROVE isRetx /\ e = fqe /\ dest = lastParent /\ n = entry[e].retries
        BY <1>1, <1>3, <2>1, <3>1, ChosenTried
      <3> QED BY <1>7, <2>2, <3>1 DEF Attempts, Tried
    <2> QED BY <2>2, <2>3, <2>4, <2>5
  <1>8. ASSUME Variant = "MTA" PROVE entry'[e].deadline > txTime'
    <2>1. entry' = [entry EXCEPT ![e].parent = dest] /\ (FirstAttempt(e) => ~ Expired(e))
      BY <1>2, <1>3, <1>8 DEF NextHop
    <2>2. entry'[e].deadline = entry[e].deadline /\ entry[e].deadline \in Nat
      BY <1>4, <2>1 DEF Content
    <2>3. txTime \in Nat
      BY DEF Inv, Types
    <2>4. CASE FirstAttempt(e)
      BY <1>1, <2>1, <2>2, <2>3, <2>4 DEF Expired
    <2>5. CASE ~ FirstAttempt(e)
      <3>1. isRetx /\ e = fqe /\ entry[e].retries # MAX_RETRIES
        BY <1>1, <1>3, <2>5, ChosenTried DEF FirstAttempt
      <3> QED BY <1>1, <1>8, <2>2, <3>1 DEF Attempts, Tried
    <2> QED BY <2>4, <2>5
  <1> QED BY <1>1, <1>3, <1>5, <1>6, <1>7, <1>8

(* Taking out leaves nothing new in the queue. *)
LEMMA QueueShrinks ==
  ASSUME Inv, Sound, HasWork, TakeOut
  PROVE  /\ InQueue' \subseteq InQueue /\ Chosen \notin InQueue' /\ fqe' = Chosen /\ isRetx'
         /\ Waiting' = Waiting
  <1>1. /\ fqe' = Chosen /\ isRetx' /\ Waiting' = Waiting /\ Chosen \notin InQueue'
        /\ InQueue' \subseteq InQueue \union InHand
    BY TakenOut DEF Inv, Counted
  <1>2. InQueue' \subseteq InQueue
    <2>1. CASE isRetx
      BY <2>1 DEF TakeOut, InQueue, Line
    <2>2. CASE ~ isRetx
      BY <1>1, <2>2 DEF InHand
    <2> QED BY <2>1, <2>2
  <1> QED BY <1>1, <1>2

(* A step keeps what was tried apart from what was not. *)
LEMMA AttemptsStep ==
  ASSUME Inv, Attempts, [Next]_vars
  PROVE  Attempts'
  <1> SUFFICES ASSUME Sound
               PROVE  /\ \A e \in InQueue' : entry'[e].retries = MAX_RETRIES
                      /\ Tried' /\ Variant = "CTP" => entry'[fqe'].parent = lastParent'
                      /\ Tried' /\ Variant = "MTA" => entry'[fqe'].deadline > txTime'
    BY OneWorld, SameWorld DEF Attempts
  <1>1. /\ \A e \in InQueue : entry[e].retries = MAX_RETRIES
        /\ Tried /\ Variant = "CTP" => entry[fqe].parent = lastParent
        /\ Tried /\ Variant = "MTA" => entry[fqe].deadline > txTime
    BY DEF Attempts
  <1>2. isRetx => fqe \in Waiting /\ fqe \notin InQueue
    BY DEF Waiting, InHand, Inv, Counted
  <1>3. InQueue \subseteq Waiting /\ Waiting \subseteq Entries \union Clients
    BY WaitingType DEF Waiting
  <1>4. CASE Resting
    <2>1. InQueue' = InQueue
      BY <1>4 DEF Resting, InQueue, Line
    <2>2. isRetx => entry'[fqe] = entry[fqe]
      BY <1>2, <1>4 DEF Resting, Kept
    <2>3. Tried' => Tried
      BY <1>4, <2>2 DEF Resting, Tried
    <2>4. \A e \in InQueue : entry'[e] = entry[e]
      BY <1>3, <1>4 DEF Resting, Kept
    <2> QED BY <1>1, <1>4, <2>1, <2>2, <2>3, <2>4 DEF Resting, Tried
  <1>5. CASE Entering
    <2>1. PICK new, m, c : EnteringWith(new, m, c)
      BY <1>5 DEF Entering
    <2>2. isRetx => entry'[fqe] = entry[fqe]
      BY <1>2, <2>1 DEF EnteringWith, Kept
    <2>3. Tried' => Tried
      BY <2>1, <2>2 DEF EnteringWith, Tried
    <2>4. \A e \in InQueue' : entry'[e].retries = MAX_RETRIES
      BY <1>1, <1>3, <2>1 DEF EnteringWith, Kept
    <2> QED BY <1>1, <2>1, <2>2, <2>3, <2>4 DEF EnteringWith, Tried
  <1>6. CASE TaskDefer \/ TaskSelect
    <2>1. /\ HasWork /\ TakeOut /\ UNCHANGED <<entry, inflight, lastParent>>
          /\ isRetx => Variant = "CTP"
      BY <1>6 DEF TaskDefer, TaskSelect, HasWork
    <2>2. InQueue' \subseteq InQueue /\ fqe' = Chosen
      BY <2>1, QueueShrinks
    <2>3. Tried' => Tried /\ fqe' = fqe
      BY <2>1, <2>2, ChosenTried DEF Tried
    <2>4. Tried' => Variant = "CTP"
      BY <2>1, <2>3 DEF Tried
    <2> QED BY <1>1, <2>1, <2>2, <2>3, <2>4
  <1>7. CASE TaskTransmit
    <2>1. /\ HasWork /\ TakeOut
          /\ Variant = "CTP" => entry'[Chosen].parent = lastParent'
          /\ Variant = "MTA" => entry'[Chosen].deadline > txTime'
          /\ \A e \in Entries \union Clients : e # Chosen => entry'[e] = entry[e]
      BY <1>7, TransmitRight
    <2>2. InQueue' \subseteq InQueue /\ Chosen \notin InQueue' /\ fqe' = Chosen
      BY <2>1, QueueShrinks
    <2>3. \A e \in InQueue' : entry'[e] = entry[e]
      BY <1>3, <2>1, <2>2
    <2> QED BY <1>1, <2>1, <2>2, <2>3
  <1>8. CASE Retrying
    <2>1. isRetx /\ fqe = inflight /\ inflight # None /\ UNCHANGED <<fqe, lastParent, txTime>>
          /\ InQueue' = InQueue
      BY <1>8 DEF Retrying, Inv, InflightIsOurs, DoneIsOurs, InQueue, Line
    <2>2. PICK n : entry' = [entry EXCEPT ![fqe].retries = n]
      BY <1>8 DEF Retrying
    <2>3. entry'[fqe].parent = entry[fqe].parent /\ entry'[fqe].deadline = entry[fqe].deadline
      BY <1>2, <2>1, <2>2, WaitingType DEF Inv, Types, Content
    <2>4. \A e \in InQueue : entry'[e] = entry[e]
      BY <1>2, <1>3, <2>1, <2>2 DEF Inv, Types
    <2>5. Tried
      BY <2>1 DEF Tried
    <2> QED BY <1>1, <2>1, <2>3, <2>4, <2>5
  <1>9. CASE LettingGo
    <2>1. InQueue' = InQueue /\ ~ isRetx' /\ \A e \in InQueue : entry'[e] = entry[e]
      BY <1>9 DEF LettingGo, InQueue, Line
    <2> QED BY <1>1, <2>1 DEF Tried
  <1> QED BY <1>4, <1>5, <1>6, <1>7, <1>8, <1>9, StepKinds DEF Kinds

(* At the start nothing was tried. *)
LEMMA AttemptsInit == Init => Attempts
  <1> SUFFICES ASSUME Init PROVE Attempts
    OBVIOUS
  <1>1. Line = <<>> /\ InQueue = {} /\ ~ isRetx
    <2>1. Line = <<>>
      BY DEF Init, Line
    <2> QED BY <2>1 DEF Init, InQueue, ToSet
  <1> QED BY <1>1 DEF Attempts, Tried

(* It stays so in every reachable state. *)
LEMMA AttemptsKept == Spec => []Attempts
  BY AttemptsInit, AttemptsStep, Invariance, PTL DEF Spec

(* MTA: what is on the air had not expired when it was taken out of the queue,
   also when it is sent again: the expiry check in sendTask, which only a first
   attempt passes through, is enough, because the deadline stays the same and
   tx_timestamp is taken with the packet. *)
THEOREM SentInTime == Spec => []InTime
  <1>1. Inv /\ Attempts => InTime
    BY DEF Inv, InflightIsOurs, DoneIsOurs, Attempts, Tried, InTime
  <1> QED BY <1>1, Invariance, AttemptsKept, PTL

(* CTP: whatever is handed to the data-link layer is bound for the next hop that
   UnicastNameFreeRouting.nextHop has just answered; a retransmission that keeps
   the packet's next hop keeps one that did not change. *)
THEOREM SentToNextHop == Spec => SendsToNextHop
  <1>1. Inv /\ Attempts /\ [Next]_vars
          => [Sound /\ Variant = "CTP" /\ inflight # inflight' /\ inflight' # None
                => entry'[inflight'].parent = lastParent']_vars
    <2> SUFFICES ASSUME Inv, Attempts, [Next]_vars,
                        Sound, Variant = "CTP", inflight # inflight', inflight' # None
                 PROVE  entry'[inflight'].parent = lastParent'
      OBVIOUS
    <2>1. TaskTransmit
      BY StepKinds DEF Kinds, Resting, Entering, EnteringWith, TaskDefer, TaskSelect, Retrying, LettingGo
    <2>2. inflight' = Chosen
      BY <2>1, TransmitRight
    <2> QED BY <2>1, <2>2, TransmitRight
  <1> QED BY <1>1, Invariance, AttemptsKept, PTL DEF Spec, SendsToNextHop

-----------------------------------------------------------------------------
(* Copies, and clients that wait. *)

(* What sendTask leaves of a packet it sends: the packet, its client and, in
   MMSPEED builds, its next hop. *)
LEMMA TransmitKeeps ==
  ASSUME Inv, TaskTransmit
  PROVE  /\ HasWork /\ TakeOut /\ sendBusy' = sendBusy
         /\ \A e \in Waiting : /\ entry'[e].pkt = entry[e].pkt /\ entry'[e].client = entry[e].client
                               /\ Variant = "MMSPEED" => entry'[e].parent = entry[e].parent
  <1>1. HasWork /\ TakeOut /\ sendBusy' = sendBusy
    BY DEF TaskTransmit
  <1>2. PICK dest \in Parents : NextHop(Chosen, dest)
    BY DEF TaskTransmit
  <1>3. PICK x : Touched(Chosen, x)
    BY <1>1, <1>2, NextHopTouched
  <1>4. ASSUME NEW e \in Waiting
        PROVE  entry'[e].pkt = entry[e].pkt /\ entry'[e].client = entry[e].client
    <2>1. e \in Entries \union Clients /\ entry \in [Entries \union Clients -> Content \union {None}]
      BY WaitingType DEF Inv, Types
    <2> QED BY <1>3, <2>1 DEF Touched
  <1>5. Variant = "MMSPEED" => entry' = entry
    BY <1>2 DEF NextHop
  <1> QED BY <1>1, <1>4, <1>5

(* What retrying leaves of an entry. *)
LEMMA RetryKeeps ==
  ASSUME Inv, Retrying
  PROVE  /\ InQueue' = InQueue /\ Waiting' = Waiting /\ sendBusy' = sendBusy
         /\ \A e \in Waiting : /\ entry'[e].pkt = entry[e].pkt /\ entry'[e].client = entry[e].client
                               /\ entry'[e].parent = entry[e].parent
  <1>1. InQueue' = InQueue /\ Waiting' = Waiting /\ sendBusy' = sendBusy
    BY DEF Retrying, InQueue, Line, Waiting, InHand
  <1>2. PICK n : entry' = [entry EXCEPT ![inflight].retries = n]
    BY DEF Retrying
  <1>3. ASSUME NEW e \in Waiting
        PROVE  /\ entry'[e].pkt = entry[e].pkt /\ entry'[e].client = entry[e].client
               /\ entry'[e].parent = entry[e].parent
    BY <1>2, WaitingType DEF Inv, Types, Content
  <1> QED BY <1>1, <1>3

(* A packet that enters was not here, so no second copy arises. *)
LEMMA CopiesStep ==
  ASSUME Inv, NoTwoCopies, [Next]_vars
  PROVE  NoTwoCopies'
  <1> DEFINE Same(e, f) == entry[e].client = None /\ entry[f].client = None /\ entry[e].pkt = entry[f].pkt
             Apart(e, f) == Variant = "MMSPEED" /\ entry[e].parent # entry[f].parent
  <1> SUFFICES ASSUME Sound, NEW e \in Waiting' \intersect Entries, NEW f \in Waiting' \intersect Entries,
                      e # f, Same(e, f)'
               PROVE  Apart(e, f)'
    BY OneWorld, SameWorld DEF NoTwoCopies
  <1>1. e \in Waiting /\ f \in Waiting /\ Same(e, f) => Apart(e, f)
    BY DEF NoTwoCopies
  <1>2. Variant' = Variant
    BY OneWorld, SameWorld
  <1>3. CASE Resting
    <2>1. Waiting' = Waiting
      BY <1>3 DEF Resting, Waiting, InQueue, Line, InHand
    <2> QED BY <1>1, <1>2, <1>3, <2>1 DEF Resting, Kept
  <1>4. CASE Entering
    <2>1. PICK new, m, c : EnteringWith(new, m, c)
      BY <1>4 DEF Entering
    <2>2. Waiting' = Waiting \union new /\ new \intersect Waiting = {}
      BY <2>1 DEF EnteringWith, Waiting, InHand
    <2>3. \A g \in Waiting : entry'[g] = entry[g]
      BY <2>1 DEF EnteringWith, Kept
    <2>4. CASE e \in Waiting /\ f \in Waiting
      BY <1>1, <1>2, <2>3, <2>4
    <2>5. CASE e \in new /\ f \in new
      BY <1>2, <2>1, <2>5 DEF EnteringWith
    <2>6. ASSUME NEW g \in Waiting, NEW h \in new, entry'[g].pkt = entry'[h].pkt, entry'[h].client = None
          PROVE  FALSE
      <3>1. c = None /\ entry[g].pkt = m /\ ~ Duplicate(m)
        BY <2>1, <2>3, <2>6 DEF EnteringWith
      <3>2. g \in InQueue \/ (g = fqe /\ fqe # None)
        BY DEF Waiting, InHand, Inv, Types
      <3> QED BY <3>1, <3>2 DEF Duplicate
    <2> QED BY <2>2, <2>4, <2>5, <2>6
  <1>5. CASE TaskDefer \/ TaskSelect
    <2>1. HasWork /\ TakeOut /\ entry' = entry
      BY <1>5 DEF TaskDefer, TaskSelect, HasWork
    <2>2. Waiting' = Waiting
      BY <2>1, QueueShrinks
    <2> QED BY <1>1, <1>2, <2>1, <2>2
  <1>6. CASE TaskTransmit
    <2>1. Waiting' = Waiting
      BY <1>6, TransmitKeeps, QueueShrinks
    <2> QED BY <1>1, <1>2, <1>6, <2>1, TransmitKeeps
  <1>7. CASE Retrying
    BY <1>1, <1>2, <1>7, RetryKeeps
  <1>8. CASE LettingGo
    <2>1. InQueue' = InQueue /\ Waiting' = InQueue /\ \A g \in InQueue : entry'[g] = entry[g]
      BY <1>8 DEF LettingGo, InQueue, Line, Waiting, InHand
    <2> QED BY <1>1, <1>2, <2>1 DEF Waiting
  <1> QED BY <1>3, <1>4, <1>5, <1>6, <1>7, <1>8, StepKinds DEF Kinds

(* No packet waits here twice on its way to one next hop.  The three places that
   SubReceive.receive looks at cover every place a packet of another node can
   be, p_fqe standing for the packet in hand. *)
THEOREM SingleCopies == Spec => []NoTwoCopies
  <1>1. Init => NoTwoCopies
    <2> SUFFICES ASSUME Init PROVE Waiting = {}
      BY DEF NoTwoCopies
    <2>1. Line = <<>>
      BY DEF Init, Line
    <2> QED BY <2>1 DEF Init, Waiting, InQueue, ToSet, InHand
  <1> QED BY <1>1, CopiesStep, Invariance, PTL DEF Spec

(* Only clients wait for Send.sendDone. *)
LEMMA WaitersAreClients == Spec => [](sendBusy \subseteq Clients)
  BY TypesKept, PTL DEF TypeOK

(* A client in the queue or in hand, by build. *)
LEMMA ClientsEntry ==
  ASSUME Inv, NEW c \in Clients
  PROVE  /\ Variant # "MMSPEED" => ((\E e \in Waiting : entry[e].client = c) <=> c \in Waiting)
         /\ Variant = "MMSPEED" => Sound
  <1>1. ASSUME NEW e \in Waiting, Variant # "MMSPEED"
        PROVE  entry[e].client = IF e \in Clients THEN e ELSE None
    BY <1>1, WaitingType DEF Good
  <1>2. c # None
    BY Constants
  <1> QED BY <1>1, <1>2 DEF Sound

(* Every step keeps a packet here for each client that waits. *)
LEMMA DueStep ==
  ASSUME Inv, Inv', SendDoneIsDue, sendBusy \subseteq Clients, sendBusy' \subseteq Clients, [Next]_vars
  PROVE  SendDoneIsDue'
  <1> SUFFICES ASSUME NEW c \in sendBusy'
               PROVE  \E e \in Waiting' : entry'[e].client = c
    BY DEF SendDoneIsDue
  <1>1. c \in Clients /\ c # None /\ Variant' = Variant
    BY Constants, OneWorld, SameWorld
  <1>2. c \in sendBusy => \E e \in Waiting : entry[e].client = c
    BY DEF SendDoneIsDue
  <1>3. CASE Variant # "MMSPEED"
    <2>1. SUFFICES c \in Waiting'
      <3>1. c \in Waiting' => c \in Used'
        BY <1>1 DEF Waiting, InHand, Used
      <3>2. c \in Waiting' => Good(c)'
        BY <3>1 DEF Inv, Types
      <3> QED BY <1>1, <1>3, <3>2 DEF Good
    <2>2. c \in sendBusy => c \in Waiting
      BY <1>1, <1>2, <1>3, ClientsEntry
    <2>3. CASE Resting
      BY <2>2, <2>3 DEF Resting, Waiting, InQueue, Line, InHand
    <2>4. CASE Entering
      <3>1. PICK new, m, c1 : EnteringWith(new, m, c1)
        BY <2>4 DEF Entering
      <3>2. Waiting' = Waiting \union new
        BY <3>1 DEF EnteringWith, Waiting, InHand
      <3>3. CASE c \in sendBusy
        BY <2>2, <3>2, <3>3
      <3>4. CASE c \notin sendBusy
        <4>1. c1 = c
          BY <3>1, <3>4 DEF EnteringWith
        <4>2. PICK e \in new : entry'[e].client = c
          BY <3>1, <4>1 DEF EnteringWith
        <4>3. e \in InQueue'
          BY <3>1 DEF EnteringWith
        <4>4. Good(e)'
          BY <4>3 DEF Inv, Types, Used
        <4>5. e = c
          BY <1>1, <1>3, <4>2, <4>4 DEF Good
        <4> QED BY <3>2, <4>5
      <3> QED BY <3>3, <3>4
    <2>5. CASE TaskDefer \/ TaskSelect \/ TaskTransmit
      <3>1. HasWork /\ TakeOut /\ sendBusy' = sendBusy
        BY <2>5 DEF TaskDefer, TaskSelect, TaskTransmit, HasWork
      <3>2. Waiting' = Waiting
        BY <3>1, TakenOut DEF Inv
      <3> QED BY <2>2, <3>1, <3>2
    <2>6. CASE Retrying
      BY <2>2, <2>6, RetryKeeps
    <2>7. CASE LettingGo
      <3>1. InQueue' = InQueue /\ c \in sendBusy /\ fqe \in Used /\ fqe # None
        BY <2>7, UsedEntries, Constants DEF LettingGo, InQueue, Line, Inv
      <3>2. c \in Waiting
        BY <2>2, <3>1
      <3>3. CASE c \in InQueue
        BY <3>1, <3>3 DEF Waiting
      <3>4. CASE c \notin InQueue
        <4>1. c = fqe
          BY <3>2, <3>4 DEF Waiting, InHand
        <4>2. entry[fqe].client = c
          BY <1>1, <1>3, <3>1, <4>1 DEF Inv, Types, Good
        <4> QED BY <1>1, <2>7, <4>2 DEF LettingGo
      <3> QED BY <3>3, <3>4
    <2> QED BY <2>3, <2>4, <2>5, <2>6, <2>7, StepKinds DEF Kinds
  <1>4. CASE Variant = "MMSPEED"
    <2>1. Sound
      BY <1>1, <1>4, ClientsEntry
    <2>2. CASE Resting
      <3>1. Waiting' = Waiting /\ sendBusy' = sendBusy /\ \A e \in Waiting : entry'[e] = entry[e]
        BY <2>1, <2>2 DEF Resting, Kept, Waiting, InQueue, Line, InHand
      <3> QED BY <1>2, <3>1
    <2>3. CASE Entering
      <3>1. PICK new, m, c1 : EnteringWith(new, m, c1)
        BY <2>3 DEF Entering
      <3>2. Waiting' = Waiting \union new /\ \A e \in Waiting : entry'[e] = entry[e]
        BY <2>1, <3>1 DEF EnteringWith, Kept, Waiting, InHand
      <3>3. CASE c \in sendBusy
        BY <1>2, <3>2, <3>3
      <3>4. CASE c \notin sendBusy
        BY <3>1, <3>2, <3>4 DEF EnteringWith
      <3> QED BY <3>3, <3>4
    <2>4. CASE TaskDefer \/ TaskSelect
      BY <1>4, <2>4 DEF TaskDefer, TaskSelect
    <2>5. CASE TaskTransmit
      <3>1. Waiting' = Waiting
        BY <2>1, <2>5, TransmitKeeps, QueueShrinks
      <3> QED BY <1>2, <2>5, <3>1, TransmitKeeps
    <2>6. CASE Retrying
      BY <1>2, <2>6, RetryKeeps
    <2>7. CASE LettingGo
      <3>1. PICK e \in Waiting : entry[e].client = c
        BY <1>2, <2>7 DEF LettingGo
      <3>2. e # fqe
        BY <1>1, <2>7, <3>1 DEF LettingGo
      <3>3. e \in InQueue
        BY <3>2 DEF Waiting, InHand
      <3>4. e \in InQueue' /\ entry'[e] = entry[e]
        BY <2>1, <2>7, <3>3 DEF LettingGo, InQueue, Line
      <3> QED BY <3>1, <3>4 DEF Waiting
    <2> QED BY <2>2, <2>3, <2>4, <2>5, <2>6, <2>7, StepKinds DEF Kinds
  <1> QED BY <1>3, <1>4

(* Whoever waits for Send.sendDone has a packet in the queue or in hand, and the
   client leaves sendBusy in the step that lets this packet go: also with loops
   and with clients that do not wait. *)
THEOREM ClientsAreTold == Spec => []SendDoneIsDue
  <1>1. Init => SendDoneIsDue
    BY DEF Init, SendDoneIsDue
  <1>2. Inv /\ Inv' /\ SendDoneIsDue /\ sendBusy \subseteq Clients /\ (sendBusy \subseteq Clients)'
          /\ [Next]_vars => SendDoneIsDue'
    BY DueStep
  <1> QED BY <1>1, <1>2, Invariance, WaitersAreClients, PTL DEF Spec

-----------------------------------------------------------------------------
(* Who runs sendTask next. *)

BoundNames == {"time", "sends", "receives", "errors", "stops"}

\* A radio that is never switched off is on, or nothing has begun.
RadioStays ==
  /\ left \in [BoundNames -> Nat]
  /\ world.bounds.stops = 0 =>
       /\ left["stops"] = 0
       /\ radio = IF radioOn THEN "on" ELSE "off"
       /\ ~ radioOn => ~ running /\ ~ HasWork

\* The routing engine owes what the forwarding engine waits for, and sending is
\* set while a timer runs or the radio holds a packet.
Owed == /\ pipeDone \/ pipeBusy
        /\ Sound /\ sending => retxTimer \/ inflight # None

(* Spending a bound leaves the others. *)
LEMMA SpendOne ==
  ASSUME left \in [BoundNames -> Nat], NEW b \in BoundNames, Spend(b)
  PROVE  /\ left[b] > 0 /\ left' \in [BoundNames -> Nat]
         /\ b # "stops" => left'["stops"] = left["stops"]
  <1>1. left[b] \in Nat /\ left[b] > 0 /\ left' = [left EXCEPT ![b] = left[b] - 1]
    BY DEF Spend
  <1>2. left[b] - 1 \in Nat
    BY <1>1
  <1>3. left' \in [BoundNames -> Nat]
    BY <1>1, <1>2
  <1>4. "stops" \in BoundNames
    BY DEF BoundNames
  <1> QED BY <1>1, <1>3, <1>4

(* The bounds a step may spend, but for those of the calls that stop. *)
LEMMA LeftStep ==
  ASSUME left \in [BoundNames -> Nat], [Next]_vars
  PROVE  /\ left' \in [BoundNames -> Nat]
         /\ Stop \/ RadioStop \/ left'["stops"] = left["stops"]
         /\ Stop \/ RadioStop => left["stops"] > 0
  <1> DEFINE Rest == left' \in [BoundNames -> Nat] /\ left'["stops"] = left["stops"]
  <1>1. BoundNames = {"time", "sends", "receives", "errors", "stops"}
    BY DEF BoundNames
  <1>2. ASSUME NEW b \in {"time", "sends", "receives", "errors"}, Spend(b) PROVE Rest
    BY <1>1, <1>2, SpendOne
  <1>3. ASSUME UNCHANGED left PROVE Rest
    BY <1>3
  <1> HIDE DEF Rest
  <1>4. CASE Stop \/ RadioStop
    <2>1. Spend("stops") /\ "stops" \in BoundNames
      BY <1>1, <1>4 DEF Stop, RadioStop
    <2> QED BY <1>4, <2>1, SpendOne
  <1>5. CASE Start \/ StopDone \/ StartDone
    <2>1. Rest
      BY <1>3, <1>5 DEF Start, StopDone, StartDone
    <2> QED BY <1>1, <2>1, SpendOne DEF Rest, Stop, RadioStop
  <1>6. CASE RouteFound \/ TasksDone \/ CongestionTimerFired \/ RetxmitTimerFired \/ UNCHANGED vars
    <2>1. Rest
      BY <1>3, <1>6 DEF RouteFound, TasksDone, CongestionTimerFired, RetxmitTimerFired, vars
    <2> QED BY <1>1, <2>1, SpendOne DEF Rest, Stop, RadioStop
  <1>7. CASE Tick
    <2>1. Rest
      BY <1>2, <1>7 DEF Tick
    <2> QED BY <1>1, <2>1, SpendOne DEF Rest, Stop, RadioStop
  <1>8. CASE (\E c \in Clients : Send(c)) \/ (\E m \in Packets : Receive(m))
    <2>1. Rest
      BY <1>2, <1>8 DEF Send, Receive
    <2> QED BY <1>1, <2>1, SpendOne DEF Rest, Stop, RadioStop
  <1>9. CASE SendDone
    <2>1. Rest
      BY <1>2, <1>3, <1>9 DEF SendDone, DoneNotOurs, DoneFailed, DoneNoAck, DoneOwn, DoneForwarded, DonePoolFull
    <2> QED BY <1>1, <2>1, SpendOne DEF Rest, Stop, RadioStop
  <1>10. CASE SendTask
    <2>1. UNCHANGED left \/ Spend("errors")
      BY <1>10 DEF SendTask, TaskIdle, TaskNoRoute, TaskDefer, TaskSelect, TaskReject, TaskTransmit, SubSend
    <2>2. Rest
      BY <1>2, <1>3, <2>1
    <2> QED BY <1>1, <2>2, SpendOne DEF Rest, Stop, RadioStop
  <1> QED BY <1>4, <1>5, <1>6, <1>7, <1>8, <1>9, <1>10 DEF Next, Calls, Events

(* A radio that is never switched off stays on. *)
LEMMA RadioStep ==
  ASSUME Inv, RadioStays, [Next]_vars
  PROVE  RadioStays'
  <1>1. world' = world
    BY OneWorld
  <1>2. left' \in [BoundNames -> Nat]
    BY LeftStep DEF RadioStays
  <1> SUFFICES ASSUME world.bounds.stops = 0
               PROVE  /\ left'["stops"] = 0
                      /\ radio' = IF radioOn' THEN "on" ELSE "off"
                      /\ ~ radioOn' => ~ running' /\ ~ HasWork'
    BY <1>1, <1>2 DEF RadioStays
  <1>3. /\ left["stops"] = 0
        /\ radio = IF radioOn THEN "on" ELSE "off"
        /\ ~ radioOn => ~ running /\ ~ HasWork
    BY DEF RadioStays
  <1>4. ~ Stop /\ ~ RadioStop /\ left'["stops"] = 0
    BY <1>3, LeftStep DEF RadioStays
  <1>5. CASE UNCHANGED <<radio, radioOn, running>> /\ (~ radioOn => UNCHANGED <<isRetx, queue>>)
    BY <1>3, <1>4, <1>5 DEF HasWork
  <1>6. CASE Start \/ StopDone \/ StartDone
    BY <1>3, <1>4, <1>6 DEF Start, StopDone, StartDone, HasWork, hand
  <1>7. CASE RouteFound \/ TasksDone \/ CongestionTimerFired \/ RetxmitTimerFired \/ Tick \/ UNCHANGED vars
    <2>1. UNCHANGED <<radio, radioOn, running, isRetx, queue>>
      BY <1>7 DEF RouteFound, TasksDone, CongestionTimerFired, RetxmitTimerFired, Tick, vars, ctl, hand
    <2> QED BY <1>5, <2>1
  <1>8. CASE (\E c \in Clients : Send(c)) \/ (\E m \in Packets : Receive(m))
    <2>1. UNCHANGED <<radio, radioOn, running>> /\ radioOn
      BY <1>3, <1>8 DEF Send, Receive, ctl
    <2> QED BY <1>5, <2>1
  <1>9. CASE SendDone
    <2>1. UNCHANGED <<radio, radioOn, running, queue>> /\ isRetx' \in {isRetx, FALSE}
      BY <1>9 DEF SendDone, DoneNotOurs, DoneFailed, DoneNoAck, DoneOwn, DoneForwarded, DonePoolFull, ctl
    <2>2. HasWork' => HasWork
      BY <2>1 DEF HasWork
    <2> QED BY <1>3, <1>4, <2>1, <2>2
  <1>10. CASE SendTask
    <2>1. UNCHANGED <<radio, running>>
      BY <1>10 DEF SendTask
    <2>2. CASE TaskIdle \/ TaskNoRoute
      BY <1>5, <2>1, <2>2 DEF TaskIdle, TaskNoRoute, hand
    <2>3. CASE TaskDefer \/ TaskSelect \/ TaskReject
      <3>1. UNCHANGED radioOn /\ radioOn
        BY <1>3, <2>3 DEF TaskDefer, TaskSelect, TaskReject, HasWork
      <3> QED BY <1>5, <2>1, <3>1
    <2>4. CASE TaskTransmit
      <3>1. radioOn
        BY <1>3, <2>4 DEF TaskTransmit
      <3>2. PICK answer : SubSend(Chosen, answer) /\ Sent(Chosen, answer)
        BY <2>4 DEF TaskTransmit
      <3>3. answer # "EOFF"
        <4>1. radio = "on"
          BY <1>3, <3>1
        <4>2. "EOFF" \notin world.refusals
          BY ForwarderAssumption DEF Inv, Types
        <4> QED BY <3>2, <4>1, <4>2 DEF SubSend
      <3>4. radioOn'
        BY <3>1, <3>2, <3>3 DEF Sent
      <3> QED BY <1>3, <1>4, <2>1, <3>1, <3>4
    <2> QED BY <1>10, <2>2, <2>3, <2>4 DEF SendTask
  <1> QED BY <1>4, <1>6, <1>7, <1>8, <1>9, <1>10 DEF Next, Calls, Events

(* In the worlds that count every SubSend.sendDone starts the timer. *)
LEMMA DoneStartsTimer ==
  ASSUME Inv, Sound, SendDone
  PROVE  retxTimer'
  <1>1. inflight # None /\ isRetx /\ fqe = inflight
    BY DEF SendDone, Inv, InflightIsOurs, DoneIsOurs
  <1>2. fqe \in Waiting
    BY <1>1 DEF Waiting, InHand
  <1>3. ~ DonePoolFull
    <2> SUFFICES ASSUME DonePoolFull PROVE FALSE
      OBVIOUS
    <2>1. fqe \in Entries
      BY <1>2, WaitingType, Constants DEF DonePoolFull, Good
    <2>2. Len(pool) < FORWARD_COUNT
      BY <1>2, <2>1, PutBack DEF Inv, Types, Counted
    <2>3. Len(pool) \in Nat /\ FORWARD_COUNT \in Nat
      BY Constants, LenProperties DEF Inv, Types
    <2> QED BY <2>2, <2>3 DEF DonePoolFull
  <1> QED BY <1>1, <1>3 DEF SendDone, DoneNotOurs, DoneFailed, DoneNoAck, DoneOwn, DoneForwarded

(* What is copied starts a timer or posts the task, unless the pipeline runs. *)
LEMMA EnterWakes ==
  ASSUME Flags, NEW m, NEW c, NEW ps, NEW d, NEW loop \in BOOLEAN,
         Copied(m, c, ps, d, loop) \/ Refused(m, c, ps, d)
  PROVE  /\ retxTimer => retxTimer'
         /\ taskPosted => taskPosted'
         /\ UNCHANGED queue \/ retxTimer' \/ taskPosted' \/ ~ MayPost(pipeDone)
  <1>1. CASE Refused(m, c, ps, d)
    BY <1>1 DEF Refused, NotEnqueued, NoCopy
  <1>2. CASE Copied(m, c, ps, d, loop)
    <2>1. /\ retxTimer' = (retxTimer \/ loop)
          /\ taskPosted' = IF retxTimer \/ loop THEN taskPosted ELSE Posted(pipeDone)
      BY <1>2 DEF Copied
    <2> QED BY <2>1 DEF Flags, Posted
  <1> QED BY <1>1, <1>2

(* A client or a neighbour hands over a packet. *)
LEMMA ArrivalWakes ==
  ASSUME Inv, Flags, (\E c \in Clients : Send(c)) \/ (\E m \in Packets : Receive(m))
  PROVE  /\ UNCHANGED <<sending, inflight, pipe, congTimer, radioOn, isRetx>>
         /\ retxTimer => retxTimer'
         /\ taskPosted => taskPosted'
         /\ UNCHANGED queue \/ ~ radioOn \/ retxTimer' \/ taskPosted' \/ ~ MayPost(pipeDone)
  <1>1. Loops \in BOOLEAN
    BY Builds DEF Inv, Types
  <1>2. ASSUME NEW c \in Clients, Send(c)
        PROVE  /\ UNCHANGED <<sending, inflight, pipe, congTimer, radioOn, isRetx>>
               /\ retxTimer => retxTimer'
               /\ taskPosted => taskPosted'
               /\ UNCHANGED queue \/ ~ radioOn \/ retxTimer' \/ taskPosted' \/ ~ MayPost(pipeDone)
    <2>1. UNCHANGED <<sending, inflight, pipe, congTimer, radioOn, isRetx>>
      BY <1>2 DEF Send, ctl, hand
    <2>2. CASE Variant = "MMSPEED"
      <3>1. PICK r \in world.relative : SendCopies(c, now + r)
        BY <1>2, <2>2 DEF Send
      <3>2. PICK ps \in ParentChoices(now + r), loop \in BOOLEAN :
              Copied(c, c, ps, now + r, loop) \/ Refused(c, c, ps, now + r)
        BY <1>1, <3>1 DEF SendCopies
      <3> QED BY <2>1, <3>2, EnterWakes
    <2>3. CASE Variant # "MMSPEED"
      <3>1. PICK r \in world.relative :
              \/ SendOwn(c, now + r)
              \/ UNCHANGED <<queue, pool, retxTimer, taskPosted, sendBusy>>
        BY <1>2, <2>3 DEF Send
      <3>2. CASE SendOwn(c, now + r)
        <4>1. /\ taskPosted' = IF radioOn /\ ~ retxTimer THEN Posted(pipeDone) ELSE taskPosted
              /\ retxTimer' = retxTimer
          BY <3>2 DEF SendOwn
        <4> QED BY <2>1, <4>1 DEF Flags, Posted
      <3> QED BY <2>1, <3>1, <3>2
    <2> QED BY <2>2, <2>3
  <1>3. ASSUME NEW m \in Packets, Receive(m)
        PROVE  /\ UNCHANGED <<sending, inflight, pipe, congTimer, radioOn, isRetx>>
               /\ retxTimer => retxTimer'
               /\ taskPosted => taskPosted'
               /\ UNCHANGED queue \/ ~ radioOn \/ retxTimer' \/ taskPosted' \/ ~ MayPost(pipeDone)
    <2>1. UNCHANGED <<sending, inflight, pipe, congTimer, radioOn, isRetx>>
      BY <1>3 DEF Receive, ctl, hand
    <2>2. PICK d \in world.absolute : \E ps \in ParentChoices(d), loop \in {FALSE, Loops} :
            Copied(m, None, ps, d, loop) \/ Refused(m, None, ps, d)
      BY <1>3 DEF Receive
    <2>3. PICK ps \in ParentChoices(d), loop \in BOOLEAN :
            Copied(m, None, ps, d, loop) \/ Refused(m, None, ps, d)
      BY <1>1, <2>2
    <2> QED BY <2>1, <2>3, EnterWakes
  <1> QED BY <1>2, <1>3

(* What is owed stays owed until it comes. *)
LEMMA OwedStep ==
  ASSUME Inv, Flags, Flags', Owed, [Next]_vars
  PROVE  Owed'
  <1>1. world' = world /\ Sound' = Sound
    BY OneWorld, SameWorld
  <1>2. CASE UNCHANGED <<pipe, sending, inflight>> /\ (retxTimer => retxTimer')
    BY <1>1, <1>2 DEF Owed, pipe
  <1>3. CASE Start \/ Stop \/ RadioStop \/ StopDone \/ StartDone
    BY <1>2, <1>3 DEF Start, Stop, RadioStop, StopDone, StartDone
  <1>4. CASE RouteFound \/ CongestionTimerFired \/ Tick \/ UNCHANGED vars
    BY <1>2, <1>4 DEF RouteFound, CongestionTimerFired, Tick, vars
  <1>5. CASE TasksDone \/ RetxmitTimerFired
    <2>1. CASE TasksDone
      BY <1>1, <2>1 DEF Owed, TasksDone
    <2>2. CASE RetxmitTimerFired
      <3>1. sending' = FALSE /\ UNCHANGED <<pipeDone, pipeBusy>>
        BY <2>2 DEF RetxmitTimerFired, pipe
      <3> QED BY <1>1, <3>1 DEF Owed
    <2> QED BY <1>5, <2>1, <2>2
  <1>6. CASE (\E c \in Clients : Send(c)) \/ (\E m \in Packets : Receive(m))
    BY <1>2, <1>6, ArrivalWakes
  <1>7. CASE SendDone
    <2>1. Sound => retxTimer'
      BY <1>7, DoneStartsTimer
    <2>2. UNCHANGED pipe
      BY <1>7 DEF SendDone
    <2> QED BY <1>1, <2>1, <2>2 DEF Owed, pipe
  <1>8. CASE SendTask
    <2>1. CASE TaskIdle \/ TaskDefer \/ TaskReject
      BY <1>2, <2>1 DEF TaskIdle, TaskDefer, TaskReject
    <2>2. CASE TaskNoRoute \/ TaskSelect
      BY <1>1, <2>2 DEF Owed, TaskNoRoute, TaskSelect, pipe
    <2>3. CASE TaskTransmit
      <3>1. UNCHANGED pipe
        BY <2>3 DEF TaskTransmit
      <3>2. PICK answer : Sent(Chosen, answer)
        BY <2>3 DEF TaskTransmit
      <3>3. sending' => inflight' = Chosen
        BY <3>2 DEF Sent
      <3>4. Chosen # None
        BY <2>3, ChosenUsed DEF TaskTransmit, Inv
      <3> QED BY <1>1, <3>1, <3>3, <3>4 DEF Owed, pipe
    <2> QED BY <1>8, <2>1, <2>2, <2>3 DEF SendTask
  <1> QED BY <1>3, <1>4, <1>5, <1>6, <1>7, <1>8 DEF Next, Calls, Events

(* Somebody runs sendTask as long as there is something to send. *)
LEMMA WakeupStep ==
  ASSUME Inv, Flags, Flags', Owed, Owed', RadioStays, Wakeup, [Next]_vars
  PROVE  Wakeup'
  <1> DEFINE Awake == taskPosted \/ retxTimer \/ congTimer \/ pipeBusy \/ inflight # None
  <1>1. world' = world /\ Sound' = Sound /\ Variant' = Variant
    BY OneWorld, SameWorld
  <1> SUFFICES ASSUME Sound, world.bounds.stops = 0, "FAIL" \notin world.refusals, HasWork', radioOn'
               PROVE  Awake'
    BY <1>1 DEF Wakeup
  <1>2. HasWork /\ radioOn => Awake
    BY DEF Wakeup
  <1>3. /\ left["stops"] = 0 /\ left \in [BoundNames -> Nat]
        /\ radio = IF radioOn THEN "on" ELSE "off"
        /\ ~ radioOn => ~ HasWork
    BY DEF RadioStays
  <1>4. ~ Stop /\ ~ RadioStop
    BY <1>3, LeftStep
  <1>5. MayPost(pipeDone') \/ pipeBusy'
    BY DEF Owed, Flags, MayPost
  <1>6. CASE Start
    BY <1>2, <1>6 DEF Start, HasWork, hand, pipe
  <1>7. CASE StopDone \/ StartDone
    BY <1>2, <1>3, <1>7 DEF StopDone, StartDone, HasWork, hand
  <1>8. CASE Tick \/ UNCHANGED vars
    <2>1. UNCHANGED <<taskPosted, retxTimer, congTimer, pipeBusy, inflight, isRetx, queue, radioOn>>
      BY <1>8 DEF Tick, vars, hand, pipe, ctl
    <2>2. HasWork /\ radioOn
      BY <2>1 DEF HasWork
    <2> QED BY <1>2, <2>1, <2>2
  <1>9. CASE RouteFound \/ CongestionTimerFired \/ RetxmitTimerFired
    <2>1. taskPosted' = Posted(pipeDone) /\ UNCHANGED pipe
      BY <1>9 DEF RouteFound, CongestionTimerFired, RetxmitTimerFired
    <2> QED BY <1>5, <2>1 DEF Posted, pipe
  <1>10. CASE TasksDone
    BY <1>10 DEF TasksDone, Posted, MayPost
  <1>11. CASE (\E c \in Clients : Send(c)) \/ (\E m \in Packets : Receive(m))
    <2>1. /\ UNCHANGED <<inflight, pipe, congTimer, radioOn, isRetx>>
          /\ retxTimer => retxTimer'
          /\ taskPosted => taskPosted'
          /\ UNCHANGED queue \/ ~ radioOn \/ retxTimer' \/ taskPosted' \/ ~ MayPost(pipeDone)
      BY <1>11, ArrivalWakes
    <2>2. CASE UNCHANGED queue
      <3>1. HasWork /\ radioOn
        BY <2>1, <2>2 DEF HasWork
      <3> QED BY <1>2, <2>1, <3>1 DEF pipe
    <2>3. CASE ~ UNCHANGED queue
      BY <1>5, <2>1, <2>3 DEF pipe
    <2> QED BY <2>2, <2>3
  <1>12. CASE SendDone
    BY <1>12, DoneStartsTimer
  <1>13. CASE SendTask
    <2>1. CASE TaskIdle
      <3>1. sending
        BY <2>1 DEF TaskIdle, HasWork, hand
      <3> QED BY <2>1, <3>1 DEF Owed, TaskIdle
    <2>2. CASE TaskNoRoute \/ TaskDefer \/ TaskSelect
      BY <2>2 DEF TaskNoRoute, TaskDefer, TaskSelect
    <2>3. CASE TaskReject
      BY <1>5, <2>3 DEF TaskReject, pipe
    <2>4. CASE TaskTransmit
      <3>1. PICK answer : SubSend(Chosen, answer) /\ Sent(Chosen, answer)
                          /\ answer \in {"SUCCESS", "EOFF", "EBUSY", "ESIZE", "FAIL"}
        BY <2>4 DEF TaskTransmit
      <3>2. Chosen # None /\ UNCHANGED pipe
        BY <2>4, ChosenUsed DEF TaskTransmit, Inv
      <3>3. CASE answer = "SUCCESS"
        BY <3>1, <3>2, <3>3 DEF Sent
      <3>4. CASE answer = "EOFF"
        BY <3>1, <3>4 DEF Sent
      <3>5. CASE answer \in {"EBUSY", "ESIZE"}
        <4>1. taskPosted' = MayPost(pipeDone)
          BY <3>1, <3>5 DEF Sent
        <4> QED BY <1>5, <3>2, <4>1 DEF pipe
      <3>6. CASE answer = "FAIL"
        <4>1. radio = "on"
          <5>1. HasWork
            BY <2>4 DEF TaskTransmit
          <5> QED BY <1>3, <5>1
        <4> QED BY <3>1, <3>6, <4>1 DEF SubSend
      <3> QED BY <3>1, <3>3, <3>4, <3>5, <3>6
    <2> QED BY <1>13, <2>1, <2>2, <2>3, <2>4 DEF SendTask
  <1> QED BY <1>4, <1>6, <1>7, <1>8, <1>9, <1>10, <1>11, <1>12, <1>13 DEF Next, Calls, Events

(* The flags are Booleans in every reachable state. *)
LEMMA FlagsKept == Spec => []Flags
  <1>1. TypeOK => Flags
    BY DEF TypeOK, Flags
  <1> QED BY <1>1, TypesKept, PTL

(* Where the radio is never switched off and never answers FAIL, sendTask is
   posted, or something is due that will post it, whenever there is something to
   send: no early return of sendTask and no branch of sendDone leaves a packet
   in hand that nothing will ever look at again. *)
THEOREM SomebodyWakes == Spec => []Wakeup
  <1>1. Init => RadioStays /\ Owed /\ Wakeup
    <2> SUFFICES ASSUME Init PROVE RadioStays /\ Owed /\ Wakeup
      OBVIOUS
    <2>1. ~ HasWork /\ ~ radioOn /\ ~ running /\ radio = "off" /\ pipeDone /\ ~ sending
      BY DEF Init, HasWork
    <2>2. left = world.bounds /\ left \in [BoundNames -> Nat]
      BY ForwarderAssumption DEF Init, BoundNames
    <2>3. left["stops"] = world.bounds.stops
      BY <2>2
    <2> QED BY <2>1, <2>2, <2>3 DEF RadioStays, Owed, Wakeup
  <1>2. Inv /\ Flags /\ Flags' /\ RadioStays /\ Owed /\ Wakeup /\ [Next]_vars
          => RadioStays' /\ Owed' /\ Wakeup'
    BY RadioStep, OwedStep, WakeupStep
  <1> QED BY <1>1, <1>2, Invariance, FlagsKept, PTL DEF Spec

=============================================================================
