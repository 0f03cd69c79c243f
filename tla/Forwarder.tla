----------------------------- MODULE Forwarder -----------------------------
(***************************************************************************)
(* The forwarding engine of one node that is not the root,                 *)
(* CtpForwardingEngineP.nc, in the three builds the preprocessor selects:  *)
(*   "MTA"      one parent per packet, computed by the routing engine's    *)
(*              delay pipeline after the packet has left the queue,        *)
(*   "MMSPEED"  one copy per parent, parents chosen on arrival; packets of *)
(*              local clients are copied too,                              *)
(*   "CTP"      a first-in first-out queue and the tree parent.            *)
(* Tasks and events run to completion (TinyOS), so each is one action; the *)
(* interleaving is that of tasks, timers, radio events and calls.          *)
(*                                                                         *)
(* An entry stands for a fe_queue_entry_t together with its message_t: the *)
(* two pools are drawn from and refilled together, in the same order.      *)
(***************************************************************************)
EXTENDS Integers, FiniteSets, Sequences, SequencesExt

CONSTANTS
  Worlds,         \* the builds and environments to look at, described below
  Clients,        \* the sending clients, with their reserved queue entries
  FORWARD_COUNT,  \* capacity of the two pools
  MAX_RETRIES,    \* transmissions before a packet is given up
  CACHE_SIZE,     \* capacity of the history of sent packets
  Packets,        \* the packet instances other nodes send here
  Parents,        \* next hops
  ParentLists,    \* the answers of RoutingTable.getParents, MMSPEED: a row of
                  \* the routing table each, so no next hop twice
  None            \* no entry, no next hop

Entries == 1 .. FORWARD_COUNT

\* Faulty: no place for the clients' own entries.
QUEUE_SIZE_Pool == FORWARD_COUNT

QUEUE_SIZE == Cardinality(Clients) + FORWARD_COUNT

\* A world is one build in one environment, with the bounds of the model:
\*   variant             which build
\*   loops               whether the loop check may ever hit
\*   polite              whether clients wait for Send.sendDone, as TestMTAC does
\*   refusals            the errors SubSend.send may answer, besides EOFF
\*   relative, absolute  deadlines of local packets, and of received ones in local time
\*   bounds              how often what may happen
ASSUME ForwarderAssumption ==
  /\ \A w \in Worlds :
       /\ w.variant \in {"MTA", "MMSPEED", "CTP"}
       /\ w.loops \in BOOLEAN /\ w.polite \in BOOLEAN
       /\ w.refusals \subseteq {"EBUSY", "ESIZE", "FAIL"}
       /\ w.relative \subseteq Nat \ {0} /\ w.absolute \subseteq Nat
       /\ w.bounds \in [{"time", "sends", "receives", "errors", "stops"} -> Nat]
  /\ FORWARD_COUNT \in Nat \ {0} /\ MAX_RETRIES \in 1 .. 255 /\ CACHE_SIZE \in Nat \ {0}
  /\ IsFiniteSet(Clients) /\ Clients \intersect Entries = {}
  /\ None \notin Entries \union Clients \union Parents
  /\ ParentLists \subseteq Seq(Parents)
  /\ \A ps \in ParentLists : IsInjective(ps)

VARIABLES
  world,        \* chosen once
  running, radioOn, sending,
  isRetx,       \* is_retx: an entry is in hand, out of the queue
  fqe,          \* p_fqe: the entry last taken out of the queue
  queue,        \* SendQueue, each entry with the deadline it was enqueued with
  pool,         \* QEntryPool and MessagePool
  entry,        \* the contents of the entries
  cache,        \* SentCache, oldest first
  lastParent,
  txTime,       \* tx_timestamp
  pipeDone,     \* isGetNodeDelayEtxsTasksDone
  pipeBusy,     \* the routing engine owes a getNodeDelayEtxsTasksDone
  taskPosted, retxTimer, congTimer,  \* what the scheduler and timers owe
  radio,        \* "on", "off", "stopping": off, stopDone not yet signalled
  inflight,     \* the entry whose message the data-link layer holds
  sendBusy,     \* the clients that wait for Send.sendDone
  now,          \* LocalTimeMilli
  left          \* what is left of each bound

ctl  == <<running, radioOn, radio>>
hand == <<isRetx, fqe, txTime, lastParent>>
pipe == <<pipeDone, pipeBusy>>
env  == <<world, now>>
vars == <<env, ctl, sending, hand, queue, pool, entry, cache, pipe, taskPosted,
          retxTimer, congTimer, inflight, sendBusy, left>>

Variant == world.variant
Loops   == world.loops

RL == INSTANCE RecencyList WITH Messages <- Packets, recent <- cache, answer <- 0,
                               Kept <- [p \in Packets |-> p]

Spend(bound) == /\ left[bound] > 0
                /\ left' = [left EXCEPT ![bound] = @ - 1]

Min2(a, b) == IF a < b THEN a ELSE b

\* The queued entries, in order.
Line == [i \in DOMAIN queue |-> queue[i].entry]

InQueue == ToSet(Line)

Init ==
  /\ world \in Worlds
  /\ running = FALSE /\ radioOn = FALSE /\ sending = FALSE
  /\ isRetx = FALSE /\ fqe = None
  /\ queue = <<>>
  /\ pool = [i \in Entries |-> i]
  /\ entry = [e \in Entries \union Clients |-> None]
  /\ cache = <<>>
  /\ lastParent = None
  /\ txTime = 0
  /\ pipeDone = TRUE /\ pipeBusy = FALSE
  /\ taskPosted = FALSE /\ retxTimer = FALSE /\ congTimer = FALSE
  /\ radio = "off" /\ inflight = None
  /\ sendBusy = {}
  /\ now = 0
  /\ left = world.bounds

\* postSendTask: MTA builds post nothing while the delay pipeline runs.
MayPost(done) == Variant = "MTA" => done

Posted(done) == taskPosted \/ MayPost(done)

-----------------------------------------------------------------------------
(* Control. *)

Start == /\ radioOn /\ ~ running
         /\ running' = TRUE
         /\ UNCHANGED <<radioOn, radio, sending, hand, queue, pool, entry, cache,
              pipe, taskPosted, retxTimer, congTimer, inflight, sendBusy, env, left>>

Stop == /\ running
        /\ Spend("stops")
        /\ running' = FALSE
        /\ UNCHANGED <<radioOn, radio, sending, hand, queue, pool, entry, cache,
             pipe, taskPosted, retxTimer, congTimer, inflight, sendBusy, env>>

\* The radio comes up: RadioControl.startDone(SUCCESS).
StartDone == /\ radio = "off"
             /\ radio' = "on"
             /\ radioOn' = TRUE
             /\ taskPosted' = IF queue # <<>> THEN Posted(pipeDone) ELSE taskPosted
             /\ UNCHANGED <<running, sending, hand, queue, pool, entry, cache, pipe,
                  retxTimer, congTimer, inflight, sendBusy, env, left>>

\* The radio goes down when it has no message of ours.
RadioStop == /\ radio = "on" /\ inflight = None
             /\ Spend("stops")
             /\ radio' = "stopping"
             /\ UNCHANGED <<running, radioOn, sending, hand, queue, pool, entry, cache,
                  pipe, taskPosted, retxTimer, congTimer, inflight, sendBusy, env>>

StopDone == /\ radio = "stopping"
            /\ radio' = "off"
            /\ radioOn' = FALSE
            /\ UNCHANGED <<running, sending, hand, queue, pool, entry, cache, pipe,
                 taskPosted, retxTimer, congTimer, inflight, sendBusy, env, left>>

\* UnicastNameFreeRouting.routeFound, CongestionTimer.fired, RetxmitTimer.fired
\* and RoutingTable.getNodeDelayEtxsTasksDone.
RouteFound == /\ running
              /\ taskPosted' = Posted(pipeDone)
              /\ UNCHANGED <<ctl, sending, hand, queue, pool, entry, cache, pipe,
                   retxTimer, congTimer, inflight, sendBusy, env, left>>

CongestionTimerFired ==
  /\ congTimer
  /\ congTimer' = FALSE
  /\ taskPosted' = Posted(pipeDone)
  /\ UNCHANGED <<ctl, sending, hand, queue, pool, entry, cache, pipe, retxTimer,
       inflight, sendBusy, env, left>>

\* Faulty: the entry in hand is forgotten.
RetxmitTimerFired_Forgets ==
  /\ retxTimer
  /\ retxTimer' = FALSE
  /\ sending' = FALSE /\ isRetx' = FALSE
  /\ taskPosted' = Posted(pipeDone)
  /\ UNCHANGED <<ctl, fqe, txTime, lastParent, queue, pool, entry, cache, pipe,
       congTimer, inflight, sendBusy, env, left>>

RetxmitTimerFired ==
  /\ retxTimer
  /\ retxTimer' = FALSE
  /\ sending' = FALSE
  /\ taskPosted' = Posted(pipeDone)
  /\ UNCHANGED <<ctl, hand, queue, pool, entry, cache, pipe, congTimer, inflight,
       sendBusy, env, left>>

\* Faulty: sendTask is not posted.
TasksDone_NoPost ==
  /\ pipeBusy
  /\ pipeBusy' = FALSE
  /\ pipeDone' = TRUE
  /\ UNCHANGED <<ctl, sending, hand, queue, pool, entry, cache, taskPosted, retxTimer,
       congTimer, inflight, sendBusy, env, left>>

TasksDone == /\ pipeBusy
             /\ pipeBusy' = FALSE
             /\ pipeDone' = TRUE
             /\ taskPosted' = Posted(TRUE)
             /\ UNCHANGED <<ctl, sending, hand, queue, pool, entry, cache, retxTimer,
                  congTimer, inflight, sendBusy, env, left>>

Tick == /\ Spend("time")
        /\ now' = now + 1
        /\ UNCHANGED <<world, ctl, sending, hand, queue, pool, entry, cache, pipe, taskPosted,
             retxTimer, congTimer, inflight, sendBusy>>

-----------------------------------------------------------------------------
(* Entering the queue. *)

\* The queue after the entries es have been enqueued with deadline d: behind
\* everything in a CTP build, behind everything not later in the others.
Enqueued(es, d) ==
  LET p == IF Variant = "CTP" THEN Len(queue)
           ELSE Cardinality({i \in DOMAIN queue : queue[i].deadline <= d})
  IN  SubSeq(queue, 1, p)
        \o [i \in DOMAIN es |-> [entry |-> es[i], deadline |-> d]]
        \o SubSeq(queue, p + 1, Len(queue))

NewEntry(m, c, p, d) ==
  [pkt |-> m, client |-> c, parent |-> p, retries |-> MAX_RETRIES, deadline |-> d]

\* Copying m into pool entries, one per member of ps, and enqueueing them.
\* A copy for which the pool has no entry is dropped.  After a loop is detected
\* the timer is restarted, and it is the timer that posts sendTask.
Copied(m, c, ps, d, loop) ==
  LET k  == Min2(Len(ps), Len(pool))
      es == SubSeq(pool, 1, k)
  IN  /\ k > 0
      /\ Len(queue) + k <= QUEUE_SIZE
      /\ pool' = SubSeq(pool, k + 1, Len(pool))
      /\ entry' = [e \in DOMAIN entry |->
                    IF \E i \in 1 .. k : es[i] = e
                    THEN NewEntry(m, c, ps[CHOOSE i \in 1 .. k : es[i] = e], d)
                    ELSE entry[e]]
      /\ queue' = Enqueued(es, d)
      /\ retxTimer' = (retxTimer \/ loop)
      /\ taskPosted' = IF retxTimer \/ loop THEN taskPosted ELSE Posted(pipeDone)

\* No room in the queue for a copy: the entry goes back, at the other end.
NotEnqueued(m, c, ps, d) ==
  /\ ps # <<>> /\ pool # <<>>
  /\ Len(queue) = QUEUE_SIZE
  /\ pool' = Append(Tail(pool), Head(pool))
  /\ entry' = [entry EXCEPT ![Head(pool)] = NewEntry(m, c, Head(ps), d)]
  /\ UNCHANGED <<queue, retxTimer, taskPosted>>

\* forward finds no parent or no entry, or in MMSPEED the deadline has passed.
NoCopy(ps) == /\ ps = <<>> \/ pool = <<>>
              /\ UNCHANGED <<pool, entry, queue, retxTimer, taskPosted>>

Refused(m, c, ps, d) == NotEnqueued(m, c, ps, d) \/ NoCopy(ps)

\* The parents forward may choose; in MTA and CTP sendTask chooses later.
ParentChoices(d) == IF Variant # "MMSPEED" THEN {<<None>>}
              ELSE IF d > now THEN ParentLists ELSE {<<>>}

\* A local packet in a build that copies it.  Its etx field is still 0, which
\* no gradient is below: the loop check hits whenever this node has a gradient.
SendCopies(c, d) ==
  \E ps \in ParentChoices(d) :
    \/ /\ \E loop \in {FALSE, Loops} : Copied(c, c, ps, d, loop)
       /\ sendBusy' = sendBusy \union {c}
    \/ Refused(c, c, ps, d) /\ UNCHANGED sendBusy

\* A local packet in the client's own entry.
SendOwn(c, d) ==
  /\ Len(queue) < QUEUE_SIZE
  /\ queue' = Enqueued(<<c>>, d)
  /\ sendBusy' = sendBusy \union {c}
  /\ taskPosted' = IF radioOn /\ ~ retxTimer THEN Posted(pipeDone) ELSE taskPosted
  /\ UNCHANGED <<pool, retxTimer>>

\* Send.send.  The client's entry is filled in before the queue is asked.
Send(c) ==
  /\ running
  /\ world.polite => c \notin sendBusy
  /\ Spend("sends")
  /\ \E r \in world.relative :
       IF Variant = "MMSPEED" THEN SendCopies(c, now + r)
       ELSE /\ entry' = [entry EXCEPT ![c] = NewEntry(c, c, None, now + r)]
            /\ \/ SendOwn(c, now + r)
               \/ /\ Len(queue) = QUEUE_SIZE
                  /\ UNCHANGED <<queue, pool, retxTimer, taskPosted, sendBusy>>
  /\ UNCHANGED <<ctl, sending, hand, cache, pipe, congTimer, inflight, env>>

\* Faulty: the packet being transmitted is not looked at.
Duplicate_NotInHand(m) == m \in ToSet(cache) \/ \E e \in InQueue : entry[e].pkt = m

\* SubReceive.receive drops what it remembers: in the history, in the queue or
\* in the entry last taken out of the queue.
Duplicate(m) == \/ m \in ToSet(cache)
                \/ \E e \in InQueue : entry[e].pkt = m
                \/ fqe # None /\ entry[fqe].pkt = m

Receive(m) ==
  /\ radio = "on"
  /\ Spend("receives")
  /\ ~ Duplicate(m)
  /\ \E d \in world.absolute : \E ps \in ParentChoices(d), loop \in {FALSE, Loops} :
       Copied(m, None, ps, d, loop) \/ Refused(m, None, ps, d)
  /\ UNCHANGED <<ctl, sending, hand, cache, pipe, congTimer, inflight, sendBusy, env>>

-----------------------------------------------------------------------------
(* sendTask. *)

\* The entry to transmit: the one in hand, else the next of the queue.
Chosen == IF isRetx THEN fqe ELSE Head(queue).entry

\* A first transmission takes the entry out of the queue.
TakeOut == /\ fqe' = Chosen
           /\ isRetx' = TRUE
           /\ queue' = IF isRetx THEN queue ELSE Tail(queue)

\* SendQueue is asked before, and only if, nothing is in hand.
HasWork == isRetx \/ queue # <<>>

FirstAttempt(e) == entry[e].retries = MAX_RETRIES

\* Faulty: a packet whose deadline is now still counts as in time.
Expired_Late(e) == entry[e].deadline < txTime

\* tx_timestamp is assigned in MTA builds only.
Expired(e) == entry[e].deadline <= txTime

TaskIdle == /\ sending \/ ~ HasWork
            /\ taskPosted' = FALSE
            /\ UNCHANGED <<hand, queue, pool, entry, cache, pipe, sending, radioOn,
                 retxTimer, congTimer, inflight, sendBusy, left>>

\* No route: try again in ten seconds.
TaskNoRoute == /\ Variant = "CTP" /\ ~ sending /\ HasWork
               /\ Spend("errors")
               /\ retxTimer' = TRUE
               /\ taskPosted' = FALSE
               /\ UNCHANGED <<hand, queue, pool, entry, cache, pipe, sending, radioOn,
                    congTimer, inflight, sendBusy>>

\* The parent is congested: the entry waits in hand.
TaskDefer == /\ Variant = "CTP" /\ ~ sending /\ HasWork
             /\ Spend("errors")
             /\ TakeOut
             /\ congTimer' = TRUE
             /\ taskPosted' = FALSE
             /\ UNCHANGED <<txTime, lastParent, pool, entry, cache, pipe, sending,
                  radioOn, retxTimer, inflight, sendBusy>>

\* The delays of all neighbours are computed before the parent is chosen.
TaskSelect == /\ Variant = "MTA" /\ ~ sending /\ ~ isRetx /\ queue # <<>>
              /\ TakeOut
              /\ txTime' = now
              /\ pipeDone' = FALSE
              /\ pipeBusy' = TRUE
              /\ taskPosted' = FALSE
              /\ UNCHANGED <<lastParent, pool, entry, cache, sending, radioOn,
                   retxTimer, congTimer, inflight, sendBusy, left>>

\* PoolC.put (external): refused when nothing is missing.
Put(p, e) == IF Len(p) < FORWARD_COUNT THEN Append(p, e) ELSE p

\* Faulty: the client is not told.
Release_Silent(e, success) ==
  /\ pool' = IF entry[e].client # None /\ Variant # "MMSPEED" THEN pool ELSE Put(pool, e)
  /\ cache' = IF entry[e].client = None /\ success
              THEN RL!InsertRecent(cache, entry[e].pkt, entry[e].pkt) ELSE cache
  /\ UNCHANGED sendBusy

\* dequeue(qe, err): a client is told and, in MMSPEED, its entry goes back to
\* the pool like any other; an expired or rejected packet counts as sent.
Release(e, success) ==
  LET client == entry[e].client
  IN  /\ pool' = IF client # None /\ Variant # "MMSPEED" THEN pool ELSE Put(pool, e)
      /\ cache' = IF client = None /\ success
                  THEN RL!InsertRecent(cache, entry[e].pkt, entry[e].pkt) ELSE cache
      /\ sendBusy' = sendBusy \ {client}

\* Faulty: sendTask is not posted.
TaskReject_NoPost ==
  /\ Variant = "MTA" /\ ~ sending /\ isRetx /\ FirstAttempt(fqe)
  /\ Release(fqe, TRUE)
  /\ isRetx' = FALSE
  /\ taskPosted' = FALSE
  /\ UNCHANGED <<fqe, txTime, lastParent, queue, entry, pipe, sending, radioOn,
       retxTimer, congTimer, inflight, left>>

\* The deadline has passed or, in MTA, no parent meets it.
TaskReject == /\ Variant # "CTP" /\ ~ sending /\ HasWork
              /\ Variant = "MTA" => isRetx
              /\ FirstAttempt(Chosen)
              /\ Variant = "MTA" \/ Expired(Chosen)
              /\ Release(Chosen, TRUE)
              /\ fqe' = Chosen
              /\ isRetx' = FALSE
              /\ queue' = IF isRetx THEN queue ELSE Tail(queue)
              /\ taskPosted' = MayPost(pipeDone)
              /\ UNCHANGED <<txTime, lastParent, entry, pipe, sending, radioOn,
                   retxTimer, congTimer, inflight, left>>

\* What SubSend.send answers.  The link layer holds one message of ours.
SubSend(e, answer) ==
  CASE radio # "on"     -> answer = "EOFF" /\ UNCHANGED left
    [] inflight # None  -> answer = "EBUSY" /\ UNCHANGED left
    [] OTHER            -> \/ answer = "SUCCESS" /\ UNCHANGED left
                           \/ answer \in world.refusals /\ Spend("errors")

\* Faulty: sending is not set.
Sent_NotSending(e, answer) ==
  /\ inflight' = IF answer = "SUCCESS" THEN e ELSE inflight
  /\ radioOn' = (radioOn /\ answer # "EOFF")
  /\ taskPosted' = IF answer \in {"EBUSY", "ESIZE"} THEN MayPost(pipeDone) ELSE FALSE
  /\ UNCHANGED sending

Sent(e, answer) ==
  /\ inflight' = IF answer = "SUCCESS" THEN e ELSE inflight
  /\ sending' = (answer = "SUCCESS")
  /\ radioOn' = (radioOn /\ answer # "EOFF")
  /\ taskPosted' = IF answer \in {"EBUSY", "ESIZE"} THEN MayPost(pipeDone) ELSE FALSE

\* Faulty: a new tree parent does not reset the retries.
NextHop_NoReset(e, dest) ==
  /\ lastParent' = dest
  /\ entry' = [entry EXCEPT ![e].parent = IF FirstAttempt(e) THEN dest ELSE @]

\* The next hop of an attempt: the tree's parent in CTP, which also resets the
\* retries when it changes; a parent that meets the deadline on the first
\* attempt in MTA; the parent of this copy in MMSPEED.
NextHop(e, dest) ==
  CASE Variant = "CTP" ->
         /\ lastParent' = dest
         /\ LET retries == IF dest # lastParent THEN MAX_RETRIES ELSE entry[e].retries
            IN  entry' = [entry EXCEPT ![e].retries = retries,
                            ![e].parent = IF retries = MAX_RETRIES THEN dest ELSE @]
    [] Variant = "MTA" ->
         /\ IF FirstAttempt(e) THEN ~ Expired(e) ELSE dest = entry[e].parent
         /\ entry' = [entry EXCEPT ![e].parent = dest]
         /\ UNCHANGED lastParent
    [] OTHER ->
         /\ dest = entry[e].parent
         /\ FirstAttempt(e) => ~ Expired(e)
         /\ UNCHANGED <<entry, lastParent>>

TaskTransmit == /\ ~ sending /\ HasWork
                /\ Variant = "MTA" => isRetx
                /\ TakeOut
                /\ \E dest \in Parents : NextHop(Chosen, dest)
                /\ \E answer \in {"SUCCESS", "EOFF", "EBUSY", "ESIZE", "FAIL"} :
                     SubSend(Chosen, answer) /\ Sent(Chosen, answer)
                /\ UNCHANGED <<txTime, pool, cache, pipe, retxTimer, congTimer, sendBusy>>

SendTask == /\ taskPosted
            /\ \/ TaskIdle \/ TaskNoRoute \/ TaskDefer
               \/ TaskSelect \/ TaskReject \/ TaskTransmit
            /\ UNCHANGED <<running, radio, env>>

-----------------------------------------------------------------------------
(* SubSend.sendDone.  sending stays set until the timer fires. *)

DoneNotOurs == /\ fqe # inflight
               /\ UNCHANGED <<isRetx, pool, entry, cache, retxTimer, sendBusy, left>>

DoneFailed == /\ fqe = inflight
              /\ Spend("errors")
              /\ retxTimer' = TRUE
              /\ UNCHANGED <<isRetx, pool, entry, cache, sendBusy>>

\* Faulty: a packet is never given up.
DoneNoAck_Forever ==
  /\ fqe = inflight
  /\ Spend("errors")
  /\ entry' = [entry EXCEPT ![fqe].retries = (@ + 255) % 256]
  /\ retxTimer' = TRUE
  /\ UNCHANGED <<isRetx, pool, cache, sendBusy>>

DoneNoAck ==
  /\ fqe = inflight
  /\ Spend("errors")
  /\ entry' = [entry EXCEPT ![fqe].retries = (@ + 255) % 256]
  /\ retxTimer' = TRUE
  /\ IF entry[fqe].retries # 1 THEN UNCHANGED <<isRetx, pool, cache, sendBusy>>
     ELSE isRetx' = FALSE /\ Release(fqe, FALSE)

\* Faulty: the entry goes to the pool in every build.
DoneOwn_AlwaysPut ==
  /\ fqe = inflight /\ entry[fqe].client # None
  /\ isRetx' = FALSE
  /\ pool' = Put(pool, fqe)
  /\ sendBusy' = sendBusy \ {entry[fqe].client}
  /\ retxTimer' = TRUE
  /\ UNCHANGED <<entry, cache, left>>

DoneOwn == /\ fqe = inflight /\ entry[fqe].client # None
           /\ isRetx' = FALSE
           /\ pool' = IF Variant = "MMSPEED" THEN Put(pool, fqe) ELSE pool
           /\ sendBusy' = sendBusy \ {entry[fqe].client}
           /\ retxTimer' = TRUE
           /\ UNCHANGED <<entry, cache, left>>

DoneForwarded == /\ fqe = inflight /\ entry[fqe].client = None
                 /\ Len(pool) < FORWARD_COUNT
                 /\ isRetx' = FALSE
                 /\ cache' = RL!InsertRecent(cache, entry[fqe].pkt, entry[fqe].pkt)
                 /\ pool' = Put(pool, fqe)
                 /\ retxTimer' = TRUE
                 /\ UNCHANGED <<entry, sendBusy, left>>

\* "we have a pool entry, but the pool is full": the entry is leaked, and no
\* timer is left to clear sending.
DonePoolFull == /\ fqe = inflight /\ entry[fqe].client = None
                /\ Len(pool) = FORWARD_COUNT
                /\ UNCHANGED <<isRetx, pool, entry, cache, retxTimer, sendBusy, left>>

SendDone == /\ inflight # None
            /\ inflight' = None
            /\ \/ DoneNotOurs \/ DoneFailed \/ DoneNoAck
               \/ DoneOwn \/ DoneForwarded \/ DonePoolFull
            /\ UNCHANGED <<ctl, sending, fqe, txTime, lastParent, queue, pipe,
                 taskPosted, congTimer, env>>

-----------------------------------------------------------------------------
Calls == \/ Start \/ Stop \/ RadioStop \/ StopDone \/ StartDone
         \/ \E c \in Clients : Send(c)

Events == \/ RouteFound \/ TasksDone \/ SendDone
          \/ CongestionTimerFired \/ RetxmitTimerFired
          \/ \E m \in Packets : Receive(m)

Next == Calls \/ Events \/ SendTask \/ Tick

Spec == Init /\ [][Next]_vars

\* The scheduler runs what was posted, timers fire, the radio finishes what it
\* accepted, and the routing engine finishes the pipeline.
Fairness == /\ WF_vars(SendTask)
            /\ WF_vars(SendDone)
            /\ WF_vars(RetxmitTimerFired)
            /\ WF_vars(CongestionTimerFired)
            /\ WF_vars(TasksDone)

FairSpec == Spec /\ Fairness

-----------------------------------------------------------------------------
InHand == IF isRetx THEN {fqe} ELSE {}

Waiting == InQueue \union InHand

\* The worlds in which entries are never owned twice: a loop detected in an MTA
\* build and a client that does not wait both make the engine lose count.
Sound == /\ Variant = "MTA" => ~ Loops
         /\ Variant # "MMSPEED" => world.polite

Content == [pkt : Packets \union Clients, client : Clients \union {None},
            parent : Parents \union {None}, retries : 0 .. 255, deadline : Nat]

(* Types of the variables of CtpForwardingEngineP. *)
TypeOK ==
  /\ world \in Worlds
  /\ {running, radioOn, sending, isRetx, pipeDone, pipeBusy,
      taskPosted, retxTimer, congTimer} \subseteq BOOLEAN
  /\ fqe \in Entries \union Clients \union {None}
  /\ isRetx => fqe # None
  /\ inflight \in Entries \union Clients \union {None}
  /\ queue \in Seq([entry : Entries \union Clients, deadline : Nat])
  /\ pool \in Seq(Entries)
  /\ entry \in [Entries \union Clients -> Content \union {None}]
  /\ Sound => \A e \in Waiting : entry[e] \in Content /\ entry[e].retries \in 1 .. MAX_RETRIES
  /\ cache \in Seq(Packets) /\ Len(cache) <= CACHE_SIZE
  /\ lastParent \in Parents \union {None}
  /\ txTime \in 0 .. now /\ now \in Nat
  /\ radio \in {"on", "off", "stopping"}
  /\ sendBusy \subseteq Clients

(* No entry is leaked and none is in two places: each is in the pool, in the
   queue or in hand, once.  ("someone has double-stored a pointer somewhere") *)
Ownership == Sound =>
  /\ IsInjective(pool) /\ IsInjective(Line)
  /\ ToSet(pool) \intersect Waiting = {}
  /\ InQueue \intersect InHand = {}
  /\ Entries \subseteq ToSet(pool) \union Waiting

(* An entry drawn from the pool always finds a place in the queue, so the path
   in forward that gives it back is never taken. *)
RoomForEveryEntry == Sound => Len(queue) + Len(pool) <= QUEUE_SIZE

(* "It's a forwarded packet" of ours: what the radio holds is the packet in
   hand, so SubSend.sendDone never meets one that is not p_fqe's, and never one
   that was already let go. *)
DoneIsOurs == inflight # None => isRetx /\ fqe = inflight

(* The same in the worlds in which nothing is owned twice. *)
InflightIsOurs == Sound => DoneIsOurs

(* SubReceive.receive's three places to look keep out a second copy of a packet
   that waits here, but for the copies MMSPEED itself makes for other parents. *)
NoTwoCopies == Sound =>
  \A e, f \in Waiting \intersect Entries :
    e # f /\ entry[e].client = None /\ entry[f].client = None /\ entry[e].pkt = entry[f].pkt
      => Variant = "MMSPEED" /\ entry[e].parent # entry[f].parent

(* While there is something to send and the radio is on, somebody will run
   sendTask: it is posted, a timer runs, or a sendDone or the pipeline is due.
   It takes a radio that is never switched off and never answers FAIL. *)
Wakeup ==
  Sound /\ world.bounds.stops = 0 /\ "FAIL" \notin world.refusals /\ HasWork /\ radioOn =>
    taskPosted \/ retxTimer \/ congTimer \/ pipeBusy \/ inflight # None

(* "sending" controls access to the data-link layer: where no loop is detected
   sendTask never runs past its first test while the radio holds a packet.  In
   CTP builds the ten seconds after a missing route may end in between. *)
GuardsLink == Variant # "CTP" /\ ~ Loops => (inflight # None => sending)

(* MTA: the packet on the air had not expired when it left the queue, on a
   retransmission as on the first attempt.  It takes a client that waits: one
   that sends again fills its entry with another deadline while it is sent. *)
InTime == Sound /\ Variant = "MTA" /\ inflight # None => entry[inflight].deadline > txTime

(* A client that waits for Send.sendDone has a packet here that will cause it. *)
SendDoneIsDue == \A c \in sendBusy : \E e \in Waiting : entry[e].client = c

(* CTP: every transmission goes to the tree parent of that moment, also when
   the parent changes while a packet is being retransmitted.  It takes a client
   that waits: one that sends again clears its entry's next hop. *)
SendsToNextHop ==
  [][Sound /\ Variant = "CTP" /\ inflight # inflight' /\ inflight' # None
       => entry'[inflight'].parent = lastParent']_vars

(* A packet accepted from a neighbour or, in MMSPEED, from a client does not
   stay for ever: its entry returns to the pool. *)
EntriesReturn == \A e \in Entries : []<>(e \in ToSet(pool))

(* "rltv_dd of 0 also causes expiration": no first attempt after the deadline. *)
NotSentExpired ==
  [][inflight # inflight' /\ inflight' # None /\ entry'[inflight'].retries = MAX_RETRIES
       => entry'[inflight'].deadline > now]_vars
=============================================================================
