--------------------------- MODULE DelayPipeline ---------------------------
(***************************************************************************)
(* The delay pipeline of the routing engine, CtpRoutingEngineP_.nc, and    *)
(* its two callers on one node that is not the root: the beacon path of    *)
(* the routing engine and the sendTask of the forwarding engine.  Each     *)
(* asks for the pipeline, is told when the three subtasks are done, and    *)
(* then collects the result with getNodeDelayEtxs, which frees the lock.   *)
(*                                                                         *)
(* Tasks run to completion in the order they were posted, and a task that  *)
(* is already posted cannot be posted again (TinyOS).  Timers, the radio   *)
(* and arriving packets interleave between tasks.  Radio and routing are   *)
(* started; delays and ETX are left out, only their number matters.        *)
(***************************************************************************)
EXTENDS Naturals, Sequences, SequencesExt

CONSTANTS
  Worlds  \* the builds and environments to look at:
          \*   callers    which engines use the pipeline: MMSPEED's forwarder does not
          \*   neighbors  routingTableActive at the start, and its largest value
          \*   churn      whether neighbours come and go between the subtasks
          \*   levels     DELAY_ETX_LEVEL_CNTS: delay entries a neighbour may advertise
          \*   prompt     whether a beacon has left before the beacon timer fires again:
          \*              usual, since an interval is longer than a transmission, but
          \*              nothing in the code sees to it

ASSUME PipelineAssumption ==
  \A w \in Worlds : /\ w.callers \subseteq {"router", "forwarder"}
                     /\ w.neighbors \in Nat /\ w.levels \in Nat
                     /\ w.churn \in BOOLEAN /\ w.prompt \in BOOLEAN

VARIABLES
  world,            \* chosen once
  routingTableActive, \* neighbours in the routing table
  task_locked, has_passed_signal, enter_from_beacon,
  is_router_called, is_forwarder_called, extra_signal_pending,
  rejected,         \* rej_cause_idx # 0
  valid_entry_cnts, task1_routing_table_idx, task2_sort_idx,
  tasks,            \* the scheduler's queue
  beaconSending,    \* the routing engine's sending: a beacon is in the air
  pipeDone,         \* the forwarding engine's isGetNodeDelayEtxsTasksDone
  queued,           \* its queue is not empty
  hand,             \* "empty", or a packet that was never or already unacknowledged
  link              \* "idle", "air", "timer": sending is set in the last two

lock    == <<task_locked, has_passed_signal, enter_from_beacon,
             is_router_called, is_forwarder_called, extra_signal_pending>>
results == <<rejected, valid_entry_cnts, task1_routing_table_idx, task2_sort_idx>>
fwd     == <<pipeDone, queued, hand, link>>
vars    == <<world, routingTableActive, lock, results, tasks, beaconSending, fwd>>

Init ==
  /\ world \in Worlds
  /\ routingTableActive = world.neighbors
  /\ task_locked = FALSE /\ has_passed_signal = FALSE /\ enter_from_beacon = FALSE
  /\ is_router_called = FALSE /\ is_forwarder_called = FALSE
  /\ extra_signal_pending = FALSE
  /\ rejected = FALSE /\ valid_entry_cnts = 0
  /\ task1_routing_table_idx = 0 /\ task2_sort_idx = 1
  /\ tasks = <<>>
  /\ beaconSending = FALSE
  /\ pipeDone = TRUE /\ queued = FALSE /\ hand = "empty" /\ link = "idle"

Subtasks == {"SubTask0", "SubTask1", "SubTask2"}

\* Posting a task, given the tasks that wait.
Post(ts, t) == IF t \in ToSet(ts) THEN ts ELSE Append(ts, t)

\* postSendTask of the forwarding engine.
PostSend(ts, done) == IF done THEN Post(ts, "sendTask") ELSE ts

\* Faulty: the lock is not looked at.
Request_NoLock(router, ts) ==
  /\ is_router_called' = (is_router_called \/ router)
  /\ is_forwarder_called' = (is_forwarder_called \/ ~ router)
  /\ task_locked' = TRUE
  /\ extra_signal_pending' = FALSE
  /\ has_passed_signal' = FALSE
  /\ enter_from_beacon' = router
  /\ tasks' = Post(ts, "SubTask0")

\* postGetNodeDelayEtxsTasks, from a place where the tasks ts wait.
Request(router, ts) ==
  /\ is_router_called' = (is_router_called \/ router)
  /\ is_forwarder_called' = (is_forwarder_called \/ ~ router)
  /\ task_locked' = TRUE
  /\ IF ~ task_locked
     THEN /\ extra_signal_pending' = FALSE
          /\ has_passed_signal' = FALSE
          /\ enter_from_beacon' = router
          /\ tasks' = Post(ts, "SubTask0")
     ELSE /\ extra_signal_pending' = (extra_signal_pending \/
               (is_forwarder_called' /\ enter_from_beacon /\ has_passed_signal))
          /\ tasks' = ts
          /\ UNCHANGED <<has_passed_signal, enter_from_beacon>>

\* Faulty: the lock is kept.
Collect_KeepsLock ==
  /\ pipeDone' = (pipeDone \/ extra_signal_pending)
  /\ UNCHANGED lock

\* getNodeDelayEtxs frees the lock and gives the signal a late request waits for.
Collect == /\ task_locked' = FALSE
           /\ pipeDone' = (pipeDone \/ extra_signal_pending)
           /\ UNCHANGED <<has_passed_signal, enter_from_beacon, is_router_called,
                is_forwarder_called, extra_signal_pending>>

Signalled(ts) == IF extra_signal_pending THEN PostSend(ts, TRUE) ELSE ts

-----------------------------------------------------------------------------
(* Tasks.  ts is the scheduler's queue without the task that runs. *)

\* Nothing was ever sent to a neighbour: the later steps are skipped.
SubTask0(ts) == /\ rejected' \in BOOLEAN
                /\ routingTableActive = 0 => rejected'
                /\ tasks' = Post(ts, "SubTask1")
                /\ UNCHANGED <<valid_entry_cnts, task1_routing_table_idx,
                     task2_sort_idx, lock, beaconSending, fwd>>

\* Faulty: the count of the previous run is not reset.
SubTask1Step_NoReset(ts) ==
  /\ task1_routing_table_idx < routingTableActive \/ task1_routing_table_idx = 0
  /\ task1_routing_table_idx = 0 => ~ rejected
  /\ \E found \in 0 .. IF routingTableActive = 0 THEN 0 ELSE world.levels : valid_entry_cnts' = found + valid_entry_cnts
  /\ task1_routing_table_idx' = task1_routing_table_idx + 1
  /\ tasks' = Post(ts, "SubTask1")
  /\ UNCHANGED rejected

\* One neighbour a time, if the table still has one.
SubTask1Step(ts) ==
  /\ task1_routing_table_idx < routingTableActive \/ task1_routing_table_idx = 0
  /\ task1_routing_table_idx = 0 => ~ rejected
  /\ \E found \in 0 .. IF routingTableActive = 0 THEN 0 ELSE world.levels :
       valid_entry_cnts' = found +
         IF task1_routing_table_idx = 0 THEN 0 ELSE valid_entry_cnts
  /\ task1_routing_table_idx' = task1_routing_table_idx + 1
  /\ tasks' = Post(ts, "SubTask1")
  /\ UNCHANGED rejected

SubTask1Last(ts) ==
  /\ \/ task1_routing_table_idx = 0 /\ rejected /\ valid_entry_cnts' = 0
     \/ task1_routing_table_idx > 0 /\ UNCHANGED valid_entry_cnts
  /\ task1_routing_table_idx = 0 \/ task1_routing_table_idx >= routingTableActive
  /\ task1_routing_table_idx' = 0
  /\ rejected' = (rejected \/ valid_entry_cnts = 0)
  /\ tasks' = Post(ts, "SubTask2")

SubTask1(ts) == /\ SubTask1Step(ts) \/ SubTask1Last(ts)
                /\ UNCHANGED <<task2_sort_idx, lock, beaconSending, fwd>>

\* One insertion of the sort a time.
SubTask2Step(ts) ==
  /\ ~ (task2_sort_idx = 1 /\ rejected) /\ task2_sort_idx < valid_entry_cnts
  /\ task2_sort_idx' = task2_sort_idx + 1
  /\ tasks' = Post(ts, "SubTask2")
  /\ UNCHANGED <<lock, pipeDone>>

\* Faulty: only the beacon path is told.
SubTask2Last_NoSignal(ts) ==
  /\ (task2_sort_idx = 1 /\ rejected) \/ task2_sort_idx >= valid_entry_cnts
  /\ task2_sort_idx' = 1
  /\ tasks' = IF is_router_called THEN Post(ts, "sendBeaconTask") ELSE ts
  /\ is_router_called' = FALSE /\ is_forwarder_called' = FALSE
  /\ has_passed_signal' = TRUE
  /\ UNCHANGED <<task_locked, enter_from_beacon, extra_signal_pending, pipeDone>>

\* The end of the pipeline: whoever asked is told.
SubTask2Last(ts) ==
  /\ (task2_sort_idx = 1 /\ rejected) \/ task2_sort_idx >= valid_entry_cnts
  /\ task2_sort_idx' = 1
  /\ LET told == IF is_forwarder_called THEN PostSend(ts, TRUE) ELSE ts
     IN  tasks' = IF is_router_called THEN Post(told, "sendBeaconTask") ELSE told
  /\ pipeDone' = (pipeDone \/ is_forwarder_called)
  /\ is_router_called' = FALSE /\ is_forwarder_called' = FALSE
  /\ has_passed_signal' = TRUE
  /\ UNCHANGED <<task_locked, enter_from_beacon, extra_signal_pending>>

SubTask2(ts) == /\ SubTask2Step(ts) \/ SubTask2Last(ts)
                /\ UNCHANGED <<rejected, valid_entry_cnts, task1_routing_table_idx,
                     beaconSending, queued, hand, link>>

\* The previous beacon is still in the air: return at once, result uncollected.
BeaconBusy(ts) == /\ beaconSending
                  /\ tasks' = ts
                  /\ UNCHANGED <<lock, pipeDone, beaconSending>>

BeaconSent(ts) == /\ ~ beaconSending
                  /\ Collect
                  /\ tasks' = Signalled(ts)
                  /\ beaconSending' \in IF link = "air" THEN {FALSE} ELSE BOOLEAN

sendBeaconTask(ts) == /\ BeaconBusy(ts) \/ BeaconSent(ts)
                      /\ UNCHANGED <<results, queued, hand, link>>

SendIdle(ts) == /\ link # "idle" \/ (hand = "empty" /\ ~ queued)
                /\ tasks' = ts
                /\ UNCHANGED <<lock, fwd>>

\* A packet leaves the queue; the pipeline is asked for its delays.
SendSelect(ts) == /\ link = "idle" /\ hand = "empty" /\ queued
                  /\ hand' = "new"
                  /\ queued' \in BOOLEAN
                  /\ pipeDone' = FALSE
                  /\ Request(FALSE, ts)
                  /\ UNCHANGED link

\* SubSend.send, which is refused while a beacon is in the air.
Transmit(ts, done) == \/ /\ ~ beaconSending
                         /\ link' = "air" /\ tasks' = ts
                      \/ /\ beaconSending
                         /\ link' = "idle" /\ tasks' = PostSend(ts, done)

\* The first attempt collects the result; there may be no parent.
SendFirst(ts) == /\ link = "idle" /\ hand = "new"
                 /\ Collect
                 /\ \/ /\ hand' = "empty" /\ link' = "idle"
                       /\ tasks' = PostSend(Signalled(ts), pipeDone')
                    \/ /\ Transmit(Signalled(ts), pipeDone')
                       /\ UNCHANGED hand
                 /\ UNCHANGED queued

SendAgain(ts) == /\ link = "idle" /\ hand = "unacked"
                 /\ Transmit(ts, pipeDone)
                 /\ UNCHANGED <<lock, pipeDone, queued, hand>>

sendTask(ts) == /\ SendIdle(ts) \/ SendSelect(ts) \/ SendFirst(ts) \/ SendAgain(ts)
                /\ UNCHANGED <<results, beaconSending>>

RunTask == /\ tasks # <<>>
           /\ LET ts == Tail(tasks)
              IN  \/ Head(tasks) = "SubTask0" /\ SubTask0(ts)
                  \/ Head(tasks) = "SubTask1" /\ SubTask1(ts)
                  \/ Head(tasks) = "SubTask2" /\ SubTask2(ts)
                  \/ Head(tasks) = "sendBeaconTask" /\ sendBeaconTask(ts)
                  \/ Head(tasks) = "sendTask" /\ sendTask(ts)
           /\ UNCHANGED <<world, routingTableActive>>

-----------------------------------------------------------------------------
(* Events. *)

BeaconTimerFired == /\ "router" \in world.callers
                    /\ world.prompt => ~ beaconSending
                    /\ Request(TRUE, tasks)
                    /\ UNCHANGED <<world, routingTableActive, results, beaconSending, fwd>>

BeaconDone == /\ beaconSending
              /\ beaconSending' = FALSE
              /\ UNCHANGED <<world, routingTableActive, lock, results, tasks, fwd>>

\* Send.send or forward puts a packet into the queue.
Arrive == /\ "forwarder" \in world.callers
          /\ queued' = TRUE
          /\ tasks' = IF link = "timer" THEN tasks ELSE PostSend(tasks, pipeDone)
          /\ UNCHANGED <<world, routingTableActive, lock, results, beaconSending, pipeDone, hand, link>>

\* SubSend.sendDone: failed; not acknowledged; acknowledged or given up.
SendDone == /\ link = "air"
            /\ link' = "timer"
            /\ hand' \in {hand, "unacked", "empty"}
            /\ UNCHANGED <<world, routingTableActive, lock, results, tasks, beaconSending, pipeDone, queued>>

RetxmitTimerFired == /\ link = "timer"
                     /\ link' = "idle"
                     /\ tasks' = PostSend(tasks, pipeDone)
                     /\ UNCHANGED <<world, routingTableActive, lock, results, beaconSending, pipeDone, queued, hand>>

\* A beacon adds a neighbour, or the link estimator evicts one.
TableChanges == /\ world.churn
                /\ routingTableActive' \in
                     {routingTableActive - 1, routingTableActive + 1} \intersect 0 .. world.neighbors
                /\ UNCHANGED <<world, lock, results, tasks, beaconSending, fwd>>

Events == \/ BeaconTimerFired \/ BeaconDone \/ Arrive \/ SendDone \/ RetxmitTimerFired
          \/ TableChanges

Next == RunTask \/ Events

Spec == Init /\ [][Next]_vars

\* The scheduler runs tasks, timers fire and the radio finishes.
Fairness == /\ WF_vars(RunTask)
            /\ WF_vars(BeaconTimerFired)
            /\ WF_vars(BeaconDone)
            /\ WF_vars(SendDone)
            /\ WF_vars(RetxmitTimerFired)

FairSpec == Spec /\ Fairness

-----------------------------------------------------------------------------
\* The next task calls getNodeDelayEtxs.
Collects ==
  /\ tasks # <<>>
  /\ \/ Head(tasks) = "sendBeaconTask" /\ ~ beaconSending
     \/ Head(tasks) = "sendTask" /\ link = "idle" /\ hand = "new"

(* Types of the pipeline's variables. *)
TypeOK ==
  /\ routingTableActive \in 0 .. world.neighbors
  /\ {task_locked, has_passed_signal, enter_from_beacon, is_router_called,
      is_forwarder_called, extra_signal_pending, rejected, beaconSending,
      pipeDone, queued} \subseteq BOOLEAN
  /\ valid_entry_cnts \in 0 .. world.neighbors * world.levels
  /\ task1_routing_table_idx \in 0 .. world.neighbors
  /\ task2_sort_idx >= 1
  /\ hand \in {"empty", "new", "unacked"} /\ link \in {"idle", "air", "timer"}
  /\ \A t \in ToSet(tasks) : t \in Subtasks \union {"sendBeaconTask", "sendTask"}

(* "all the 5 steps should be serialized & atomic" and "every call is followed by
   one and only one following call" (CtpRoutingEngineP_.nc:511, :458): where only the
   beacons use the pipeline, at most one run is under way, and results are collected
   when no subtask works on them. *)
Serialized ==
  world.callers = {"router"} =>
    /\ \A s, t \in ToSet(tasks) \intersect Subtasks : s = t
    /\ Collects => ToSet(tasks) \intersect Subtasks = {}

(* A run of the pipeline ends with the lock free: what sendBeaconTask, which returns
   early while a beacon is in the air (CtpRoutingEngineP.nc:322), does not see to. *)
LockFreed == task_locked ~> ~ task_locked

\* A run of the beacons is over, nobody is left to collect it, and the lock is taken: the
\* beacon that should have collected it found the one before still in the air.
Abandoned ==
  /\ ~ world.prompt
  /\ task_locked /\ enter_from_beacon /\ has_passed_signal
  /\ ToSet(tasks) \intersect (Subtasks \union {"sendBeaconTask"}) = {}
  /\ hand = "new" => ~ pipeDone

(* However the routing table grows and shrinks under it, a run of the pipeline ends with
   the lock free (CtpRoutingEngineP_.nc:691, :703), or abandoned by a late beacon. *)
FreedOrAbandoned == task_locked ~> ~ task_locked \/ Abandoned

(* The forwarding engine, which sends nothing until it is told that the pipeline is done,
   is told (CtpRoutingEngineP_.nc:1121).  The one exception is a beacon that was late
   before it asked: its request is then only noted in extra_signal_pending (:548-550),
   and nobody ever gives the signal. *)
ForwarderTold == ~ pipeDone ~> pipeDone \/ (Abandoned /\ extra_signal_pending)
=============================================================================
