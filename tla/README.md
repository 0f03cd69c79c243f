# MTA: a TLA+ verification project

MTA is a real-time collection protocol for TinyOS 2.1 sensor nodes, derived from
CTP. Every node forwards packets towards a root; packets carry deadlines, nodes
estimate delay distributions of links and paths, and a parent is chosen for each
packet such that its deadline can still be met. This directory holds TLA+ models
of the protocol core in `src/MTA/`, the TLC configurations that check them, and
proofs checked by TLAPS.

To repeat a check: `tlc -config Forwarder.cfg MCForwarder.tla`; to repeat the
proofs: `tlapm M.tla` for `DistinctSeqs` and the modules whose names end in `_proofs`.

## 1. Inventory

Paths are relative to `src/MTA/` unless they start with another directory.

| Component | Source | State | Operations | Status |
|---|---|---|---|---|
| Send queue | `EDFQueueC.nc` | ring buffer `queue`, `deadlines`, `head`, `size` | enqueue by deadline, dequeue, element | modelled, proved |
| Sent cache | `LruCtpMsgCacheP.nc` | circular array of signatures, `first`, `count` | insert, lookup, flush | modelled, proved |
| Forwarding engine | `CtpForwardingEngineP.nc`, `CtpForwardingEngineP_.nc` | `sending`, `is_retx`, `p_fqe`, queue, pools, cache, timers | Send.send, sendTask, SubSend.sendDone, SubReceive.receive, forward, timers, radio, route events | modelled for nodes that are not the root, safety proved |
| Delay pipeline | `CtpRoutingEngineP_.nc:448-886,1121-1127` | `task_locked`, caller flags, `extra_signal_pending`, indices | postGetNodeDelayEtxsTasks, three subtasks, getNodeDelayEtxs | modelled, proved |
| Delay and path arithmetic | `CtpRoutingEngineP_.nc`, `UtilsC.nc` | means, variances, e2e delay levels | quantiles, isqrt, filter, aggregation, next hop; EWMA, getParents, nodeDist | the first five for MTA, proved |
| Routing engine | `CtpRoutingEngineP.nc` | routing table, `routeInfo`, `justEvicted`, trickle interval | updateRouteTask, beacons in and out, eviction, start, stop, root commands, congestion | modelled without skews, hop counts and per-neighbour delays, proved |
| Link estimator | `4bitle_old/LinkEstimatorP.nc` | neighbour table with flags, window counters, ETX; `prevSentIdx` | receive and send beacons, txAck, txNoAck, clearDLQ, pin, insert, evict | modelled, refined to an abstract table, proved |
| Senders, wiring | `CollectionSenderP.nc`, `CtpSenderP.nc`, `CtpP.nc` | none | pass calls on; set pool and queue sizes | sizes and call structure |
| Test application | `TestMTA/TestMTAC.nc`, `TestMTA/Driver.c` | `sendBusy`, counters, schedule, `synced` | boot, timers, serial commands, time synchronization, Send.sendDone | modelled in its three builds, proved |
| Commander | `SyncRoot/CommanderP.nc` | `locked`, timer | broadcast of its clock | modelled |
| Injection files | `EventTraffic/InjGen.c`, `IdIPPort.c` | arrays of events | read, sort, repeat; table of serial ports | modelled, proved |
| Other directories | `MTA_Analysis`, `Matlab`, `MTA_bak`, `MTA/.cache` | | a logging copy of MTA, offline tools, backups | not modelled |

How they interact. A client calls `Send.send`; a neighbour's packet arrives as
`SubReceive.receive` and is copied by `forward` into an entry of two pools. Both
put an entry into the send queue and post `sendTask`, directly or through
`postSendTask`. `sendTask` takes the entry with the earliest deadline out of the
queue and keeps it *in hand* (`is_retx`, `p_fqe`) until it is acknowledged, given
up, expired or rejected. In MTA builds it first asks the routing engine for the
delay pipeline, which runs as a chain of tasks and signals
`getNodeDelayEtxsTasksDone`. `SubSend.sendDone` starts the retransmission timer
whatever the outcome, and only `RetxmitTimer.fired` clears `sending`. The routing
engine's beacons use the same pipeline and share the data-link layer, which is
why `SubSend.send` may answer `EBUSY` to the forwarding engine (`CtpP.nc:88-92`).
A beacon is heard by the link estimator first, which may replace a neighbour and
signal its eviction in the middle of the handler, asking the routing engine whether
the new one is worth it; then by the routing engine, which may force it into the
estimator's table and pin it. The two engines keep a table each, and follow each
other by these calls only.

The build is chosen by macros. The checked-in one is MMSPEED with the EDF queue
(`TestMTA/TestMTA.h:23,26,61-63`); MTA and CTP are the others modelled here.

What is hard about it: everything runs to completion, but tasks, two timers, the
radio and the pipeline interleave, and a decision made in one task is used in a
later one. An entry has about ten ways through pool, queue, hand and radio. One
timer has two uses. A lock is taken in one task and freed in another. Arithmetic
is eight to thirty-two bits wide. `PROJECT.json` lists these hazards at their
lines.

What makes each component correct:

* send queue: packets leave by deadline, equal deadlines in order of arrival,
  nothing is refused before the queue is full;
* sent cache: the last `CACHE_SIZE` packets are found;
* forwarding engine: each entry is in one place, no duplicate of a packet that
  waits here is accepted, work that waits will be taken up, the data-link layer
  is asked for one packet at a time, expired packets are not sent, every client
  hears of its packet;
* delay pipeline: one run at a time, the lock is freed, whoever asked is told;
* link estimator: one slot for each neighbour, a neighbour leaves only for another
  and never while it is pinned, estimates stay in range, every neighbour is
  reported;
* routing engine: the parent is routed, pinned and announced to the forwarding
  engine, an evicted neighbour is forgotten, pins are given back, the choice is
  stable, the beacon timer runs with intervals in their bounds;
* arithmetic: exactly the undominated paths are advertised, or a selection with the
  fastest and the cheapest, and a packet goes to the cheapest neighbour in time;
* application: one packet at a time, sources start together, every event is injected.

## 2. Modules

| Module | What it is | Source |
|---|---|---|
| `DeadlineQueue` | abstract: a bounded collection served by deadline, then by arrival | what `EDFQueueC` promises |
| `EDFQueue` | the ring buffer | `EDFQueueC.nc:10-116` |
| `EDFQueue_proofs` | its proofs | |
| `RecencyList` | abstract: a bounded list of what is kept of the last packets | what `LruCtpMsgCacheP` promises |
| `LruCache` | the circular array | `LruCtpMsgCacheP.nc:53-141` |
| `LruCache_proofs` | its proofs | |
| `Forwarder` | one node's forwarding engine | `CtpForwardingEngineP.nc`, `..P_.nc` |
| `Forwarder_proofs` | its proofs: types and who owns which entry; then when and to whom a packet goes, who is told, who goes on | |
| `DistinctSeqs` | for the proofs: sequences without repetition, least and greatest members, recursive functions, insertion sort and permutations | |
| `DelayPipeline` | the pipeline and its two callers | `CtpRoutingEngineP_.nc`, both engines |
| `PathTable` | extends it: what the subtasks compute | `CtpRoutingEngineP_.nc:555-1127`, `TreeRouting.h` |
| `Pipeline_proofs` | proofs about both: tasks and runs; then what they compute | |
| `LinkTable` | abstract: bounded set of neighbours with estimate, maturity, pin | what `LinkEstimatorP` promises |
| `LinkEstimator` | the neighbour table with its slots and windows | `4bitle_old/LinkEstimatorP.nc` |
| `LinkEstimator_proofs` | its proofs | |
| `Router` | the routing engine over `LinkTable` | `CtpRoutingEngineP.nc` |
| `Router_proofs` | its proofs | |
| `Commander` | the clock broadcasts | `SyncRoot/CommanderP.nc` |
| `TestApp` | the application on a node, with the commander | `TestMTA/TestMTAC.nc` |
| `Injection` | the files for injected events | `EventTraffic/*.c` |
| `Driver` | the simulator's main program | `TestMTA/Driver.c` |
| `Testbed` | an experiment: `TestApp`, `Injection`, `Driver` together | |
| `Testbed_proofs` | proofs about these | |
| `MC...` | instances for TLC | |

**EDFQueue.** `queue`, `deadlines`, `head` and `size` are the code's; `ret` and
`arrivals` record the last answer and number the elements so that order is
visible. `head` and the index arithmetic wrap modulo `QUEUE_SIZE`.
`EnqueueFront` steps the head back (line 90), `EnqueueBehind` shifts. The mapping
to `DeadlineQueue` reads the `size` elements from `head`.

**LruCache.** `Signature` keeps a sequence number modulo 256, as the code's
`uint8_t` field does, while `Matches` compares it with the whole number, as the
code does. So the array is a recency list of signatures, whatever the numbers
(`RecencyList` has the function `Kept` from packets to what is kept of them), and
`KeepsLast` says that the signature of each of the last packets is in it. Whether the
packet is then recognised is another matter: below 256 it is, from 256 on not even the one
just stored.

**Forwarder.** An entry stands for a `fe_queue_entry_t` and its `message_t`; the
two pools are drawn from and refilled together. The variable `world`, chosen in
`Init` and constant afterwards, holds the build and its environment, so one
specification covers the three builds: `variant` selects what the preprocessor
does, `loops` allows the loop check in `forward` to hit, `polite` says whether
clients wait for `Send.sendDone`, `refusals` are the errors `SubSend.send` may
answer. `sendTask` is split into its exits: `TaskIdle`, `TaskNoRoute`,
`TaskDefer` (congestion, CTP), `TaskSelect` (MTA asks for the pipeline),
`TaskReject` (expired or no parent) and `TaskTransmit` with every answer of the
data-link layer; `SubSend.sendDone` into `DoneNotOurs` … `DonePoolFull`. The queue
is used through its abstract behaviour (`Enqueued`, first-in first-out in CTP),
which the proof about `EDFQueue` justifies, the cache through `RecencyList`.
`taskPosted`, `retxTimer`, `congTimer` and `pipeBusy` are what the scheduler, the
timers and the routing engine owe. Delays and routes are abstracted to the choice
they lead to: a parent that meets the deadline, or none.

**DelayPipeline.** The task queue of the scheduler is explicit, since the order
of tasks matters: `Post` appends a task unless it is already there. One run goes
through `SubTask0`, one `SubTask1` per neighbour, one `SubTask2` per step of the
insertion sort, and ends by telling whoever asked. The forwarding engine is
reduced to what meets the pipeline: queue empty or not, packet in hand, radio.

`routingTableActive` may change between any two tasks (`TableChanges`, in worlds with
`churn`), as beacons and evictions do. `prompt` says that a beacon leaves the radio before
the next one is prepared, which nothing in the code ensures; the worlds without it have the
late beacon of section 4, with the beacons alone and with both callers. `Abandoned` is the
state it leaves: the run is over, the lock is taken, and nobody will collect.

**PathTable** lays the computation over these tasks: a step of `PathNext` is a step of
`DelayPipeline` that makes the choices the data leaves (`Compute`), so the two are
checked together. `Weigh` is the first subtask (average queueing delay, congestion
flags), `Enumerate` one neighbour of the second, `Insert` one insertion of the third;
`getNodeDelayEtxs` filters the buffer in place, advertises and, for a packet, chooses
the next hop. `Paths` and `Undominated` say the same in one definition each,
and the properties compare the two. In worlds with an empty `table` the pipeline runs
alone, with free choices.

**LinkTable, LinkEstimator.** `NeighborTable` is an array of records with the code's
fields; `Byte`, `Word` and `Arith` put in the widths, the last one that of `int`, 16
bits on the motes and 32 in TOSSIM. The looking-for functions answer a set of slots, so
that the random one is a choice. Of sequence numbers only the gap to the previous
beacon counts, which is the input. `waits` counts beacons since a slot was reported, for
`FooterFair`. The refinement mapping `LinksOf` forgets slots and counters.

**Router** uses `LinkTable` for the estimator: its sets of outcomes (`Admitted`,
`Inserted`) name the evicted neighbour, and `BeaconReceived` threads both tables
through the handlers in the order of the calls. `engine` groups what one handler
after another changes: `routes`, `info` (`routeInfo`), `justEvicted`, and whether
`updateRouteTask` is posted. `trickle` is the beacon timer with the random part as a
choice. `told`, `refused` and `owed` are history: what the forwarding engine was told,
who had no slot when last heard, who is pinned for another reason than being parent (a
root, and the parents that `setRoot` and `unsetRoot` drop without giving their pins back).
`world.wide` is the width of `int`, and `Arith` the arithmetic of it: the two sums of
`updateRouteTask` wrap on motes and not in TOSSIM.

**TestApp, Testbed.** `build` is what the macros select. `now` is real time; a node's
clock is `now` plus its skew, modulo `CLOCK`. The protocol under the application is
abstract: it takes a packet or refuses, and answers once. A packet of the commander
carries the time it was sent, as the radio's time stamp tells the receiver.
**Injection** prints the lines in the order of the program's loops, and `Testbed`
injects a line when it is due.

Definitions named `X_Y` with the comment "Faulty" (`Removed_ShiftsLate`, …) are
plausible bugs in `X`; replacing `X` by one of them makes a property fail. They
document what each property detects and are used by nothing.

## 3. Runs

| Run | Shows | Bounds | Result |
|---|---|---|---|
| `EDFQueue` | order, refinement | 3 slots, deadlines 1..3, 6 arrivals | holds |
| `LruCache` | keeps the signatures of the last packets, refinement | 2 origins, numbers 0, 1 and 256, 3 slots | holds |
| `LruCacheWide` | the last packets are found by `lookup` | 2 origins, numbers 255 and 256, 3 slots | violated |
| `Forwarder` | ten safety properties | see below, 2.1 million states | holds |
| `ForwarderLive` | entries return to the pool | 11,000 states, fair | holds |
| `ForwarderReject` | a loop detected while a packet is on the air, MTA | 1 client, 2 packets | violated |
| `ForwarderExpired` | expiry in MMSPEED | 1 client, 1 packet | violated |
| `Pipeline` | serialisation, told, lock freed unless a late beacon abandons it, what is advertised, next hop | 10 neighbours with 6 levels; 2 with 1; 301 routing tables of 2 or 3 neighbours, 4 levels | holds |
| `PipelineStuck` | the lock when a beacon is late | 10 neighbours, 6 levels | violated |
| `LinkEstimator` | estimates, slots, footer, refinement of `LinkTable` | 3 neighbours for 2 slots, 8 beacons; 1 neighbour, every count | holds |
| `Router` | tables, parent, pins, route events, stable choice, beacon timer | 3 neighbours for 2 slots; 2 for 2; metrics up to 65535 at both widths of `int`; intervals 2 to 8; 505,000 states | holds |
| `Testbed` | traffic of the three builds | 30 units of time, clocks modulo 16, counters modulo 16 | holds |

*Why the bounds are enough.* Three slots and six arrivals put the head at every
position, wrap it both ways and fill the queue. A cache of three slots removes
first, middle and last elements at every `first`. The forwarder has one client,
two pool entries (one for each copy MMSPEED makes, and few enough to run out
after one), two next hops, a history of one packet (so that packets are
forgotten), two transmissions per packet; `bounds` of each world caps ticks,
sends, receptions, link errors and stops, in the guards, through `Spend`. Every
path needs at most two of each to combine with every other. The pipeline's neighbours and levels
are the code's own constants for the beacon path, and the smallest table that
runs every loop twice when both callers run.

The tables of `Pipeline` pair every two of eight lists of levels (none, the root's,
one level, the whole number of levels with the gap at either end) with equal, slower
and saturated links, so that lists merge to up to eight paths and are aggregated; every
combination of congestion and place in the tree for three neighbours; and a table in
which the local queue changes the order.

`LinkEstimator` looks at four worlds. `Crowd`: more neighbours than slots, so that
every branch that looks for a slot is taken; eight beacons mature two
entries and replace them, which is the bound. `Losses` and `HostLosses`: one link
and data only, no bound at all: the counts run through all 256 values and the estimate
through all it can reach, at both widths. `Beacons`: one link, any number of beacons,
with gaps on both sides of `MAX_PKT_GAP`. The links of different neighbours share
the slots, and through them the counts of data packets that a new neighbour inherits;
no world has data and more than one neighbour, and what follows from inherited counts is
left to the proof.

`Router`, up to exchanging the neighbours `a` and `b`, which no world and no
definition tells apart: in `Crowd` two slots for three neighbours make both tables evict, with
the node made root and unmade; in `Roomy` everything fits and the etx values lie on
both sides of both switching tests; in `Timed` the timer doubles twice up to
its maximum; in `Distant` and `Simulated` the neighbours advertise metrics within 30 of
`MAX_METRIC`, so that the sums of `updateRouteTask` pass it, on motes and in TOSSIM. Estimates take a good and a bad value around the eviction threshold.

The numbers of `LruCache` are two neighbours and one whose signature is that of the first:
two packets share an entry, as they do in the code.

`Testbed`: experiments for each build, on a root, a sender, a node that is neither and
one that a trace names once; clocks wrap within the experiment, counters too. The trace
has events out of order, with equal times, and at the end of a round; it is no longer
than a round, like the repository's (14420 of 15000 ms). An experiment ends, so
deadlock is not checked there.

What the constants may be is stated by the module's assumption, and the proofs take no
more: the lists of next hops name each one once, since `getParents` takes every entry of
the routing table once (`CtpRoutingEngineP_.nc:1175`); otherwise a packet would have two
equal copies. A world of `PathTable` with a routing table has one caller and a table whose
members stay: where both engines use the pipeline, or the table shrinks under it, results are
not those of the run that was asked for (section 4), and no definition could say which
paths they ought to contain. What is advertised and the next hop are compared with `Paths` in
these worlds only; the worlds with both callers and with `churn` are checked, and proved
about, for the pipeline alone.

*Worlds of `Forwarder`.* `MTA`: no loops, deadlines that pass. `MMSPEED`: loops,
every error, the radio and the engine may be stopped once. `Quiet`: MMSPEED
where no loop is detected, so that `GuardsLink` is asked of it. `CTP`: loops,
congestion, missing routes, changing parents. `Rough`: MTA with loops and a
client that does not wait. `Sound` names the worlds in which the engine keeps
count of its entries: MTA without loops, and polite clients unless packets of
clients are copied (MMSPEED). Properties that need it say so in their antecedent,
and the violating run shows what happens in the excluded case. `Wakeup` excludes
in addition a radio that is switched off and a link layer that answers `FAIL`,
both for the reasons below.

*Fairness.* The TinyOS scheduler is first-in first-out and every task terminates,
so a posted task runs; one-shot timers fire; the radio signals `sendDone` for
every packet it accepted; the pipeline is a finite chain of tasks. These are weak
fairness of `SendTask`, `RetxmitTimerFired`, `CongestionTimerFired`, `SendDone`
and `TasksDone`, and in `DelayPipeline` of `RunTask`, the two timers and the two
radio events. Fairness of `TasksDone` is what `DelayPipeline` does not give in full: after a
late beacon the engine is never told (section 4). So what `EntriesReturn` and `Wakeup` say of
MTA builds is for beacons that are not late. Nothing is assumed of clients, neighbours or acknowledgements.
`EntriesReturn` is checked with bounded errors: a link that refuses for ever may
keep a packet for ever, because only unacknowledged transmissions count as
retries.

*Preconditions of some properties.* `ForwarderTold` and `FreedOrAbandoned` except the lock
a late beacon leaves behind, and no other way of ending a run; `ForwarderTold` excepts it only
where the request came after it. `NoFlapping` excepts a 16-bit `int` with a best alternative
within 15 of `MAX_METRIC`, before the choice or after it (`ThresholdWraps`). `InTime` and `SendsToNextHop` ask for clients that
wait: one that sends again before its `sendDone` fills the entry that is in hand, so its
deadline and next hop are another packet's. `AckNeverHurts` leaves out a link that
looks perfect and whose window has counted more packets acknowledged than sent
(section 4); `EetxBounded` has one bound for each width of `int`. `NextHop` is about the first
collection of a run, for the reason in section 4. The order of the lines in `Replayed` asks
that no event is later than a round lasts (`Fits`); that every event is there does not.
`StartsTogether` speaks of the time that passes and not of the clocks or the sequence
numbers, which wrap: a source sends only when its timer fires, the timer is set once to
`CONVERGE_TIME` of the commander and from then on only when it fires.

## 4. Disagreements between code and text

Shown by a run:

* **Sequence numbers in the sent cache** (`LruCacheWide`): stored in eight bits,
  compared with sixteen, so from 256 on a packet is not recognised.
* **Loop timer** (`ForwarderReject`): `forward` starts the retransmission timer
  when it detects a loop, also while a packet is on the air. It clears `sending`,
  `sendTask` runs again and, in MTA, may reject the packet on the air; its entry
  is then in the pool while the radio still holds it, and `sendDone` meets the
  branches that say "Not our packet, something is very wrong".
* **Expiry in MMSPEED** (`ForwarderExpired`): `tx_timestamp` is assigned in MTA
  builds only, so a packet that expired in the queue is transmitted.
* **Late beacon** (`PipelineStuck`): `sendBeaconTask` returns without collecting
  the result while the previous beacon is in the air; the lock stays taken and no
  later request starts the pipeline. In MMSPEED builds nobody else frees it. In MTA builds
  the forwarding engine frees it only if its request came before the run was over; a
  later one finds the lock taken and the signal passed, sets `extra_signal_pending` and returns
  (`CtpRoutingEngineP_.nc:548-550`), so the engine is never told and sends nothing more. The
  world `LateBoth` of the run `Pipeline` has both cases.

Met while modelling, and reflected as antecedents or exclusions:

* the loop timer also makes `sendTask` submit a packet twice, which the comment
  at `CtpForwardingEngineP.nc:652-654` calls a bug (`GuardsLink` excludes loops);
* in CTP builds `sendTask` starts the same timer when there is no route (lines
  436-444), after a look at `sending` but not at a timer that is due; a packet
  submitted meanwhile by another `sendTask` is on the air when it clears
  `sending` (`GuardsLink` excludes CTP);
* `startDone` posts `sendTask` only for a queued packet, so a packet in hand waits
  after the radio was off; an answer `FAIL` of `SubSend.send` neither posts nor
  starts a timer (`Wakeup` excludes both);
* `clientPtrs` is never set to `NULL`, so `Send.send` never answers `EBUSY`, and a
  client that does not wait has its entry in the queue twice (`Sound`);
* `running` is read in `Send.send` only; `sendTask` transmits after `stop`;
* in MMSPEED `Send.send` goes through `forward`, whose loop check sees the ETX
  field of a local packet before it was set;
* `Cache.insert` looks for the packet only when the cache is full, so before that
  the packet is stored twice, against the comment at `LruCtpMsgCacheP.nc:36-37`;
* with both callers, results of the pipeline are collected while the next run is
  at work, and once without a request (`Serialized` is about beacon use only);
* a second collection of the same run works on a buffer that was filtered for
  advertising, by the delay with the local queue; a packet may then be rejected
  although a path meets its deadline, and `pkt_sent_cnts` counts it
  (`CtpRoutingEngineP_.nc:931`, against 488; `NextHop` speaks of the first);
* when the routing table shrinks between two steps of the second subtask, the run
  skips a neighbour;
* "Eviction follows the LinkEstimator table" (`CtpRoutingEngineP.nc:697`), but a
  beacon the estimator had no slot for enters the routing table all the same; such a
  neighbour is never evicted by the estimator, and if it becomes the parent there is
  nothing to pin (678; `EvictionFollows` excepts it, `ParentPinned` asks for room);
* `passLinkEtxThreshold` answers `TRUE` for every link (187), so a link without any
  estimate counts as 255, which is no refusal; `LARGE_EETX_VALUE` of the estimator
  (93-96) is used nowhere;
* in TOSSIM, where `int` has 32 bits, a lossy window after the 8-bit count of
  losses has wrapped adds 6553 to the estimate (`LinkEstimatorP.nc:302`); on the motes
  the sum wraps and does no harm (`EetxBounded`);
* `initNeighborIdx` does not reset `data_total` and `data_success`
  (`LinkEstimatorP.nc:175-186`), so a new neighbour inherits the count of the one whose
  slot it takes: a link may have one packet acknowledged that is not in its count, and
  an estimate 0 with `data_success > data_total` is followed by a greater one
  (`AckNeverHurts` excepts it);
* the age of an entry never runs out, since each update follows a beacon that renews
  it: the code that invalidates an entry is not reached;
* `!NeighborTable[i].flags & VALID_ENTRY` (`LinkEstimatorP.nc:274`) negates the flags before
  it masks them; the table is full when it runs, so that nothing comes of it;
* `setRoot` leaves the old parent pinned; so does `unsetRoot`, which does not look whether
  the node is a root (`CtpRoutingEngineP.nc:613-621`): called on another node it drops the
  route, and the parent keeps its pin until it is chosen and left again (`owed`);
* a root that is told of an eviction keeps `justEvicted` until it is no root any
  more (`RouteAnnounced`);
* the two sums of `updateRouteTask` are of 16 bits on motes (`CtpRoutingEngineP.nc:275-276`): a
  parent of metric 265 is left for an alternative of 65525, since 65540 wraps to 4, and at the
  next look the node switches back, against the comment at 268-270 (`NoFlapping` excepts
  it); the sum with the congestion margin wraps as well, which only refuses a switch;
* `triggerRouteUpdate` starts the beacon timer of an engine that was stopped
  (`CtpRoutingEngineP.nc:559-561`);
* `startDone` of the routing engine ignores its error;
* `sendBeaconTask` is "only posted if running and radioOn" (313) when the timer fires,
  but either may change before the pipeline is done;
* a periodic source that skips many periods runs `timerFireTimes` through its 16 bits
  and starts again with the warm-up (`TestMTAC.nc:203`);
* the three timers of the event traffic are each divided by four, so a cycle lasts
  `(EVENT_PERIOD + t0) / 4`, not `EVENT_PERIOD` (`TestMTA.h:84`, `TestMTAC.nc:207`);
* the generator of the injection file prints events of nodes without a serial port,
  its look-up is commented out (`InjGen.c:152`).

## 5. Proofs

`EDFQueue_proofs.tla` proves, for every `QUEUE_SIZE` and every finite or infinite
set of natural deadlines:

* `TypesKept` and `QueueSorted`: `Spec => []TypeOK`, `Spec => []Sorted`;
* `QueueRefines`: `Spec => ServesEarliestDeadline`, the refinement of
  `DeadlineQueue`.

The argument. `Sorted` is about positions relative to `head`, and the code moves
elements by indices modulo `QUEUE_SIZE`; it is not inductive alone. The inductive
invariant adds the type invariant (head and size in range) and that every live
slot holds an element with a natural deadline. Lemmas first settle the
modular arithmetic: positions `0..size-1` map to distinct slots, and shifting a
slot back by one is the slot of the next position. From these, each enqueue
inserts at `Position`, the first place whose deadline is later, which yields both
order and the abstract insertion; dequeue drops position 0. `QueueRefines` maps
initial states to initial states and each action to the abstract action or a
stutter. The only assumption is the module's: the size is a positive natural
number, deadlines are natural numbers.

`Forwarder_proofs.tla` proves, for every set of worlds, clients, packets, next hops,
and every number of pool entries and transmissions:

* `TypesKept`: `Spec => []TypeOK`, which includes that a waiting packet has
  between 1 and `MAX_RETRIES` transmissions left;
* `LinkGuarded`: `Spec => []GuardsLink`;
* `Ours`: `Spec => []InflightIsOurs`;
* `Owned`: `Spec => []Ownership`;
* `Room`: `Spec => []RoomForEveryEntry`.

The argument. None of these is inductive alone. The inductive invariant `Inv` has
four parts. `Types` says besides the types what an entry in use holds (`Good`): in
MMSPEED a positive deadline, since `forward` copies nothing whose deadline has
passed, so with `tx_timestamp` always 0 an entry never expires; in the other
builds a client's packet is in the client's own entry. `LinkFree` is about
`sending` where no loop is detected: while the radio holds a packet, `sending` is
set and no timer runs that could clear it. It is inductive by itself and gives
`GuardsLink`; it is also why an MTA build without loops does not reject a packet
that is on the air. `InflightIsOurs` is then kept by `sendTask`, which keeps the
same entry in hand while the radio is busy and is refused by the data-link layer.
`Counted` is `Ownership` with the retries of waiting entries and the clients that
wait: a client with an entry in the queue is one whose `Send.sendDone` is due, so
a polite client never fills an entry in use. An entry let go by `sendDone` or by a
rejection is the one in hand, so it is missing from the pool, the pool is not full
and takes it back. Each group of actions has a lemma (`CopiedInv`, `FilledInv`,
`SendOwnInv`, `TakeOutInv`, `LetGoInv`, `InflightGone`, `FrameInv`), and
`InvStep` puts them together. `Room` counts: pool and queue are disjoint sequences
without repetition over the `QUEUE_SIZE` entries. TLC found `Inv` invariant in
the instance of the run `Forwarder` before it was proved. The assumptions are
`ForwarderAssumption` and nothing else.

`Router_proofs.tla` proves, for every finite set of neighbours, size of the tables,
set of natural estimates that has 0, eviction threshold and set of worlds, every
invariant and the action property that the run `Router` checks: `TypesKept`,
`ParentStays` (`ParentIsRouted`), `TableFollows` (`EvictionFollows`), `ParentHeld`
(`ParentPinned`), `PinsBack` (`PinsReturned`), `RouteTold` (`RouteAnnounced`),
`TimerRuns`, `InSecondHalf` (`Advertised`) and `StableChoice` (`NoFlapping`).

The argument. The timer's variables depend on no others, so `Clock` is an inductive
invariant of its own: the interval lies between two and `max`, the chosen time in its
second half, and the timer runs. `Inv` is about tables, parent and pins. To the four
properties it adds what they need: a root is its own parent (`OwnRoot`), so that the pin a
root keeps is in `owed`, as are those of the parents dropped by `setRoot` and `unsetRoot`; an eviction that is not yet dealt with was announced as a route
(`Announced`), or `updateRouteTask` would withdraw a route nobody was told of and miss the
next one; where the neighbourhood fits nobody is refused (`Placed`, by counting), so that
a routed neighbour has a slot and can be pinned when it becomes the parent. A beacon
takes up to four calls on the two tables: `Harmless` says what one call of the estimator
may do (evict one other neighbour that is not pinned), `HeardBeacon` composes two of
them with the pin, `Followed` and `RecordedBeacon` are the routing engine's side.
`ChoiceStays` is the stability of the choice: the new parent has the least metric of the
candidates, and the old one is among them afterwards only if it was not congested
and worse by the threshold. It takes the sum with the threshold to be exact
(`ThresholdAdded`), which it is with 32 bits, and with 16 unless `ThresholdWraps`; the other
sum may wrap. The assumptions are `RouterAssumption` and `TableAssumption`;
what `LinkTable` promises of the estimator is proved in `LinkEstimator_proofs`.

The second half of `Forwarder_proofs.tla` proves the other safety properties of the engine: `SentInTime`
(`InTime`), `SentToNextHop` (`SendsToNextHop`), `SingleCopies` (`NoTwoCopies`), `ClientsAreTold`
(`SendDoneIsDue`) and `SomebodyWakes` (`Wakeup`). With them every invariant and action
property of the run `Forwarder` is a theorem.

The argument. From `Inv` follows what a step can be (`StepKinds`): nothing that waits is
touched (`Resting`), free entries are filled and queued (`Entering`), the packet in hand is
tried again (`Retrying`), it is let go (`LettingGo`), or `sendTask` runs. Each invariant then
needs five cases instead of one for every exit of every handler. `Attempts` says what is
known of a packet that was tried before, for which `sendTask` skips its tests: its next hop is
`lastParent`, its deadline was later than the time it was taken out. `NoTwoCopies` is kept
because the three places `SubReceive.receive` looks at are exactly `Waiting` and the history,
and because the next hops of one `forward` differ. `SendDoneIsDue` holds for impolite clients
too, where an entry may be in the queue twice: it needs no ownership. `Wakeup` needs
that a pipeline somebody waits for is at work (`Owed`), that `sending` implies a timer or a
packet on the air, and that a radio nobody switches off is on once there is work
(`RadioStays`).

`LinkEstimator_proofs.tla` proves, for every set of neighbours, table size, threshold and set
of worlds, all that the run `LinkEstimator` checks: `TypesKept`, `OneSlot`
(`OneSlotEach`), `EstimatesBounded` (`EetxBounded`), `RoundRobin` (`FooterFair`), `AcksHelp`
(`AckNeverHurts`) and `EstimatorRefines` (`Spec => ImplementsLinkTable`); and from the last one
`LinksKept` and `PinsHold`, what `LinkTable` promises the routing engine.

The argument. `EetxBounded` is not inductive. With 16-bit `int` the range of the weighted
average is enough. With 32 bits `CountsOK` ties the estimate to the count of losses: `Excess(t)`
bounds what is left after `t` losses of an estimate that a wrapped count has made too large,
a line in four pieces that falls faster than the average adds; at the next wrap nothing
is left. That at most one packet more is acknowledged than counted, and only when the
estimate has decayed, is part of it. `FooterFair` is kept by a potential: the beacons a slot has
waited and its distance from the head of the round are less than the table together
(`Round`). For the refinement every action places one entry (`Placed`), and
`LinksType`, `OwnSlot` and `OthersSlot` say what the table looks like afterwards to somebody
who knows neighbours and not slots; this needs `Single`, that no neighbour has two slots.
The assumption is `EstimatorAssumption`, and no theorem has a hypothesis.

`LruCache_proofs.tla` proves, for every capacity, set of origins and set of 16-bit numbers,
`TypesKept`; `AllRemembered` (`KeepsLast`), that the signature of each of the last
`CACHE_SIZE` packets is found; `CacheRefines` (`Spec => IsRecencyList`); and
`NarrowRemembered`, that of the last packets each whose number is below 256 is recognised by
`lookup`, whatever the others are. None has a hypothesis on the numbers; that wider ones are not
recognised is what `LruCacheWide` shows.

The argument. `Insert` of the code has three branches, `MovedUp` and `Victim` describe them
as one: the entries behind the victim move up by one position and the new one is the youngest.
The invariant `Young` gives each of the last packets an entry with at most as many younger ones
as packets were inserted after it, so it is at most `CACHE_SIZE` deep. The entry need not be the
only one: before the array is full the code stores a packet twice.

`Pipeline_proofs.tla` proves, for every table size, number of levels and set of worlds,
`TypesKept` of `DelayPipeline`, `RunsSerialized` (`Spec => []Serialized`) and `PathIsPipeline`
(`PathSpec => Spec`), by which the first two hold of `PathTable` as well. `Counts` says that while
the second subtask works there are at most `levels` paths for each neighbour seen, although
neighbours come and go between its steps. `Alone` says that where only beacons use the
pipeline there is one task at a time, under the lock.

Of what the pipeline computes it proves, for every routing table, place in the tree, queue and
deadline that `PathAssumption` allows: `PathTypesKept` (`PathTypeOK`), `BestDiffused`
(`Diffused`) and `BestNextHop` (`NextHop`); and of the arithmetic `RootIsExact`, that `isqrt` is
the integer square root of every number of 32 bits.

The argument. Nothing is said of the computation between its first task and its last by the
properties themselves, so the invariant (`PathInv`) says how far it has come. `Enumerating`:
the buffer holds exactly the paths over the neighbours up to the index. `Sorting`: it holds all
paths, those before `task2_sort_idx` in the order of delay. `Waiting`: when the result may be
collected all paths are there, and a buffer that was collected already is `Ready` for another
filtering: a sorted part of it still covers all paths. This last part is needed since
the filter works in place and leaves the old entries behind the ones it kept, and a second
collection goes through both. That a run is not disturbed between its tasks is `Alone` for the
beacons and `Served` for packets: one packet asks, and is in hand until its run is over.

The lemmas follow the code. `PathsStay` and `PathsKept`: counting a packet for a neighbour
changes no path. `SortStep`: an insertion keeps the members and lengthens the sorted part by one.
`FilterLeaves`: the filter, started on a buffer that is `Ready`, leaves a `Frontier`: ever
slower and cheaper, and as good as any path in both ways. `FrontierUndominated` and
`FrontierSize`: the members of a frontier are undominated and have all the delays of
undominated paths. `ReplacedSpread`, `RebalancedSpread` and
`ChosenSpread`: the aggregation picks increasing indices that begin with the first and end with
the last, whatever it exchanges between. `AdvertisedIsBest` puts these together;
`NextHopIsBest` is about the choice, which the first collection makes from the buffer before it
is filtered. What a recursive function of the model
computes is obtained from `Recursion`, that such a function exists, by induction over a set
(`Upward`) and not over a predicate.

`Testbed_proofs.tla` proves, for every set of experiments, period, range of clocks and counters,
trace and set of log files, all that the run `Testbed` checks: `BufferGuarded` (`OnePacket`),
`SourcesStartTogether` (`StartsTogether`) and `TraceReplayed` (`Replayed`).

The argument. The first two rest on an invariant of the application and the commander: the
time in a packet on the air is what the commander's clock showed when it was sent
(`Stamped`), and before a source has heard one its timer does not run (`Waits`). That the
first firing is at `CONVERGE_TIME` is then a matter of clocks that wrap: neither the skew of
the node's clock nor the time the packet took changes the sum modulo their range (`Wraps`).
The invariant of the generator, `InjInv`, follows its three loops: what was read so
far (`Reading`), that the events are a permutation of the trace (`Complete`) whose first part is
in order (`Sorting`), and that line `r * n + k` is event `k` of round `r` (`Printing`,
`Printed`). From the last, rounds do not overlap (`Remainder`), and so each event is
there once for each time it is in the trace. The assumptions are those of the four modules.

*What the proofs found.* `EetxBounded` and `AckNeverHurts` held in the instance for a reason
that is not general (a table in which no slot is inherited with a count), and are now stated
as the code keeps them. `InTime` and `SendsToNextHop` do not hold for impolite clients.
`NoTwoCopies` needs that `getParents` does not name a neighbour twice. `StartsTogether` was
first stated with sequence numbers, which start again at `COUNT`, and held within the bounds
only. The order of the lines of `Replayed` does not hold for a trace longer than its round.

*Only model-checked.* Liveness (`EntriesReturn`, `ForwarderTold`, `FreedOrAbandoned`) is out of the
prover's reach, as is all that needs `ENABLED`; what the four violating runs show are
counterexamples. Every other property of a run is a theorem. `RECURSIVE` operators are used
nowhere.

## 6. Not modelled

The root's delivery path, `Snoop`, the loopback buffer, header accessors and
debug output of the forwarding engine; the MCMP and ML builds and the sampling
code; queue capacity of the delay samples; in the delay arithmetic the EWMA of means
and variances, the overflow of weighted sums, `getParents` and `nodeDist` of MMSPEED and
the other bounds on quantiles; in the routing engine clock skews (deadlines are compared
in one time base), hop counts and the delays kept per neighbour; several nodes
over a lossy link: a module of a node and its neighbours would be
`Forwarder` and `Router` once for each node, whose states multiply beyond what TLC
finishes, so each module has its neighbours as an environment that may do anything a
neighbour can. What reads the injection file, and the simulator, are external. Of
the other directories, `MTA_Analysis` is a copy of MTA with additional logging, and
`Matlab` reads logs.

## 7. Plan

Done: all modules of section 2 with their runs; the proofs of every invariant, action property
and refinement that the runs check, and of the two parts of `LinkTable` the routing engine
relies on.

What would come next:

1. The EWMA of means and variances and `getParents` of MMSPEED, the part of the delay arithmetic
   that is not modelled.
2. The root's delivery path, where a retransmission after a lost acknowledgement is delivered
   twice (`CtpForwardingEngineP.nc:1107`).
3. Proofs that are longer than their argument: `HeardBeacon` of `Router_proofs`, the arithmetic
   of `LinkEstimator_proofs`, the filter and the aggregation of `Pipeline_proofs`.
