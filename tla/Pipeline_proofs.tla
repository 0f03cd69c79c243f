-------------------------- MODULE Pipeline_proofs --------------------------
(***************************************************************************)
(* Proofs about DelayPipeline, and about PathTable, whose tasks are those  *)
(* of the pipeline.  For every size of the routing table, number of        *)
(* levels, set of callers and order of tasks and events, counts and        *)
(* indices stay in their ranges, and where only the beacons use the        *)
(* pipeline its runs are serialized.  For every routing table, what is     *)
(* advertised are the undominated paths, and the next hop is the cheapest  *)
(* of those in time.                                                       *)
(***************************************************************************)
EXTENDS PathTable, DistinctSeqs

-----------------------------------------------------------------------------
(* The scheduler's queue. *)

Jobs == Subtasks \union {"sendBeaconTask", "sendTask"}

(* A posted task is in the queue, once. *)
LEMMA Posted ==
  ASSUME NEW ts \in Seq(Jobs), NEW t \in Jobs
  PROVE  Post(ts, t) \in Seq(Jobs) /\ ToSet(Post(ts, t)) = ToSet(ts) \union {t}
  <1>1. CASE t \in ToSet(ts)
    BY <1>1 DEF Post
  <1>2. CASE t \notin ToSet(ts)
    BY <1>2, AppendMembers DEF Post
  <1> QED BY <1>1, <1>2

(* postSendTask posts nothing else. *)
LEMMA SendPosted ==
  ASSUME NEW ts \in Seq(Jobs), NEW done
  PROVE  /\ PostSend(ts, done) \in Seq(Jobs)
         /\ ToSet(PostSend(ts, done)) \subseteq ToSet(ts) \union {"sendTask"}
  <1>1. "sendTask" \in Jobs
    BY DEF Jobs
  <1>2. /\ Post(ts, "sendTask") \in Seq(Jobs)
        /\ ToSet(Post(ts, "sendTask")) = ToSet(ts) \union {"sendTask"}
    BY <1>1, Posted
  <1>3. PostSend(ts, done) = Post(ts, "sendTask") \/ PostSend(ts, done) = ts
    BY DEF PostSend
  <1> QED BY <1>2, <1>3

(* The task that runs was in the queue, and so were the others. *)
LEMMA Taken ==
  ASSUME tasks \in Seq(Jobs), tasks # <<>>
  PROVE  /\ Tail(tasks) \in Seq(Jobs) /\ ToSet(Tail(tasks)) \subseteq ToSet(tasks)
         /\ Head(tasks) \in ToSet(tasks)
  BY HeadAndTail

-----------------------------------------------------------------------------
(* Types. *)

Flags == {task_locked, has_passed_signal, enter_from_beacon, is_router_called,
          is_forwarder_called, extra_signal_pending, rejected, beaconSending,
          pipeDone, queued} \subseteq BOOLEAN

Hands == {"empty", "new", "unacked"}
Links == {"idle", "air", "timer"}

(* While the paths are enumerated there are at most as many as levels of the neighbours
   seen so far, and without a neighbour the enumeration is rejected. *)
Counts == /\ valid_entry_cnts \in 0 .. world.neighbors * world.levels
          /\ task1_routing_table_idx \in 0 .. world.neighbors
          /\ task1_routing_table_idx > 0 =>
               valid_entry_cnts <= task1_routing_table_idx * world.levels
          /\ task2_sort_idx \in Nat /\ task2_sort_idx >= 1
          /\ world.neighbors = 0 /\ "SubTask1" \in ToSet(tasks) => rejected

Inv == /\ world \in Worlds
       /\ routingTableActive \in 0 .. world.neighbors
       /\ Flags /\ Counts
       /\ hand \in Hands /\ link \in Links
       /\ tasks \in Seq(Jobs)

(* The parameters of a world. *)
LEMMA WorldTypes ==
  ASSUME NEW w \in Worlds
  PROVE  /\ w.callers \subseteq {"router", "forwarder"}
         /\ w.neighbors \in Nat /\ w.levels \in Nat
         /\ w.neighbors * w.levels \in Nat
  BY PipelineAssumption

(* The pipeline at rest satisfies the invariant. *)
LEMMA InitInv == Init => Inv
  <1> SUFFICES ASSUME Init PROVE Inv
    OBVIOUS
  <1>1. world \in Worlds /\ world.neighbors \in Nat /\ world.neighbors * world.levels \in Nat
    BY WorldTypes DEF Init
  <1>2. Flags
    BY DEF Init, Flags
  <1>3. tasks \in Seq(Jobs) /\ "SubTask1" \notin ToSet(tasks)
    BY DEF Init, ToSet
  <1>4. Counts
    BY <1>1, <1>3 DEF Init, Counts
  <1> QED BY <1>1, <1>2, <1>3, <1>4 DEF Init, Inv, Hands, Links

(* The tasks that stay or come, seen from the counts. *)
NoNewStep(ts) == ts \in Seq(Jobs) /\ ("SubTask1" \in ToSet(ts) => "SubTask1" \in ToSet(tasks))

(* What a request may leave in the scheduler's queue. *)
LEMMA RequestPosts ==
  ASSUME NEW ts \in Seq(Jobs), ToSet(ts) \subseteq ToSet(tasks), NEW router \in BOOLEAN,
         Request(router, ts)
  PROVE  NoNewStep(tasks')
  <1>1. tasks' = ts \/ tasks' = Post(ts, "SubTask0")
    BY DEF Request
  <1>2. "SubTask0" \in Jobs
    BY DEF Jobs, Subtasks
  <1>3. Post(ts, "SubTask0") \in Seq(Jobs)
        /\ ToSet(Post(ts, "SubTask0")) = ToSet(ts) \union {"SubTask0"}
    BY <1>2, Posted
  <1> QED BY <1>1, <1>3 DEF NoNewStep

(* A request sets flags. *)
LEMMA RequestFlags ==
  ASSUME Flags, NEW ts, NEW router \in BOOLEAN, Request(router, ts)
  PROVE  {task_locked', has_passed_signal', enter_from_beacon', is_router_called',
          is_forwarder_called', extra_signal_pending'} \subseteq BOOLEAN
  BY DEF Flags, Request

(* Collecting the result sets flags. *)
LEMMA CollectFlags ==
  ASSUME Flags, Collect
  PROVE  {task_locked', has_passed_signal', enter_from_beacon', is_router_called',
          is_forwarder_called', extra_signal_pending', pipeDone'} \subseteq BOOLEAN
  BY DEF Flags, Collect

(* The late signal posts a sendTask at most. *)
LEMMA SignalPosts ==
  ASSUME NEW ts \in Seq(Jobs), ToSet(ts) \subseteq ToSet(tasks)
  PROVE  /\ Signalled(ts) \in Seq(Jobs)
         /\ ToSet(Signalled(ts)) \subseteq ToSet(tasks) \union {"sendTask"}
  BY SendPosted DEF Signalled

(* SubTask0 rejects where there is no neighbour. *)
LEMMA SubTask0Inv ==
  ASSUME Inv, tasks # <<>>, SubTask0(Tail(tasks)), UNCHANGED <<world, routingTableActive>>
  PROVE  Inv'
  <1>1. "SubTask1" \in Jobs
    BY DEF Jobs, Subtasks
  <1>2. tasks' \in Seq(Jobs)
    BY <1>1, Taken, Posted DEF Inv, SubTask0
  <1>3. Flags'
    BY DEF Inv, Flags, SubTask0, lock, fwd
  <1>4. Counts'
    <2>1. world.neighbors = 0 => rejected'
      <3>1. world.neighbors = 0 => routingTableActive = 0
        BY WorldTypes DEF Inv
      <3> QED BY <3>1 DEF SubTask0
    <2> QED BY <2>1 DEF Inv, Counts, SubTask0
  <1> QED BY <1>2, <1>3, <1>4 DEF Inv, SubTask0, fwd

(* SubTask1 adds at most as many paths as a neighbour has levels. *)
LEMMA SubTask1Inv ==
  ASSUME Inv, tasks # <<>>, Head(tasks) = "SubTask1", SubTask1(Tail(tasks)),
         UNCHANGED <<world, routingTableActive>>
  PROVE  Inv'
  <1>1. "SubTask1" \in Jobs /\ "SubTask2" \in Jobs
    BY DEF Jobs, Subtasks
  <1>2. /\ Tail(tasks) \in Seq(Jobs) /\ ToSet(Tail(tasks)) \subseteq ToSet(tasks)
        /\ "SubTask1" \in ToSet(tasks)
    BY Taken DEF Inv
  <1>3. tasks' \in Seq(Jobs)
    BY ZenonT(40), <1>1, <1>2, Posted DEF SubTask1, SubTask1Step, SubTask1Last
  <1>4. PICK n \in Nat, l \in Nat, k \in Nat, v \in Nat :
          /\ n = world.neighbors /\ l = world.levels
          /\ k = task1_routing_table_idx /\ v = valid_entry_cnts
          /\ k <= n /\ v <= n * l /\ (k > 0 => v <= k * l)
    <2>1. world.neighbors \in Nat /\ world.levels \in Nat
          /\ world.neighbors * world.levels \in Nat
      BY WorldTypes DEF Inv
    <2> QED BY <2>1 DEF Inv, Counts
  <1>5. routingTableActive \in 0 .. n /\ (n = 0 => rejected)
    BY <1>2, <1>4 DEF Inv, Counts
  <1>6. CASE SubTask1Step(Tail(tasks))
    <2>1. PICK found \in Nat :
            /\ found <= l /\ (routingTableActive = 0 => found = 0)
            /\ valid_entry_cnts' = found + IF k = 0 THEN 0 ELSE v
      <3>1. PICK f \in 0 .. IF routingTableActive = 0 THEN 0 ELSE l :
              valid_entry_cnts' = f + IF k = 0 THEN 0 ELSE v
        BY <1>4, <1>6 DEF SubTask1Step
      <3> QED BY <1>4, <3>1
    <2>2. task1_routing_table_idx' = k + 1 /\ rejected' = rejected
          /\ (k < routingTableActive \/ k = 0) /\ (k = 0 => ~ rejected)
      BY <1>4, <1>6 DEF SubTask1Step
    <2>3. k + 1 <= n
      BY <1>4, <1>5, <2>2
    <2>4. PICK m \in Nat : n = k + 1 + m
      <3>1. n - (k + 1) \in Nat /\ n = k + 1 + (n - (k + 1))
        BY <1>4, <2>3
      <3> QED BY <3>1
    <2>5. (k + 1) * l = k * l + l /\ k * l \in Nat /\ k * l >= 0
          /\ (k + 1 + m) * l = (k + 1) * l + m * l /\ m * l \in Nat
      <3>1. \A x, y, z \in Nat : /\ (x + 1) * y = x * y + y /\ x * y \in Nat
                                 /\ (x + 1 + z) * y = (x + 1) * y + z * y
        OBVIOUS
      <3> QED BY SMTT(30), <1>4, <2>4, <3>1
    <2>6. valid_entry_cnts' \in Nat /\ valid_entry_cnts' <= (k + 1) * l
      <3>1. PICK c \in Nat : c = k * l
        BY <2>5
      <3>2. (k + 1) * l = c + l
        BY <2>5, <3>1
      <3>3. valid_entry_cnts' = found + (IF k = 0 THEN 0 ELSE v) /\ found <= l
        BY <2>1
      <3>4. k > 0 => v <= c
        BY <1>4, <3>1
      <3>5. valid_entry_cnts' \in Nat /\ valid_entry_cnts' <= c + l
        BY <3>3, <3>4
      <3> QED BY <3>2, <3>5
    <2>7. valid_entry_cnts' <= n * l
      <3>1. PICK a \in Nat : a = (k + 1) * l
        BY <1>4, <2>5
      <3>2. PICK b \in Nat : b = m * l
        BY <2>5
      <3>3. n * l = a + b
        BY <2>4, <2>5, <3>1, <3>2
      <3>4. valid_entry_cnts' <= a
        BY <2>6, <3>1
      <3>5. valid_entry_cnts' <= a + b
        BY <2>6, <3>4
      <3> QED BY <3>3, <3>5
    <2>8. Counts'
      <3>1. world' = world /\ task2_sort_idx' = task2_sort_idx
        BY DEF SubTask1
      <3>2. k + 1 \in 0 .. n /\ valid_entry_cnts' \in 0 .. n * l
        BY <1>4, <2>3, <2>6, <2>7
      <3>3. task2_sort_idx \in Nat /\ task2_sort_idx >= 1
        BY DEF Inv, Counts
      <3> QED BY <1>4, <1>5, <2>2, <2>6, <3>1, <3>2, <3>3 DEF Counts
    <2>9. Flags'
      BY <1>6 DEF Inv, Flags, SubTask1, SubTask1Step, lock, fwd
    <2> QED BY <1>3, <2>8, <2>9 DEF Inv, SubTask1, fwd
  <1>7. CASE SubTask1Last(Tail(tasks))
    <2>1. /\ valid_entry_cnts' = 0 \/ valid_entry_cnts' = v
          /\ task1_routing_table_idx' = 0 /\ world' = world /\ UNCHANGED task2_sort_idx
          /\ rejected => rejected'
      BY <1>4, <1>7 DEF SubTask1, SubTask1Last
    <2>2. Counts'
      <3>1. 0 \in 0 .. n /\ valid_entry_cnts' \in 0 .. n * l
        BY <1>4, <2>1
      <3>2. task2_sort_idx \in Nat /\ task2_sort_idx >= 1
        BY DEF Inv, Counts
      <3> QED BY <1>4, <1>5, <2>1, <3>1, <3>2 DEF Counts
    <2>3. rejected' \in BOOLEAN
      BY <1>7 DEF Inv, Flags, SubTask1Last
    <2>4. Flags'
      BY <2>3 DEF Inv, Flags, SubTask1, lock, fwd
    <2> QED BY <1>3, <2>2, <2>4 DEF Inv, SubTask1, fwd
  <1> QED BY <1>6, <1>7 DEF SubTask1

(* SubTask2 sorts, and tells whoever asked. *)
LEMMA SubTask2Inv ==
  ASSUME Inv, tasks # <<>>, SubTask2(Tail(tasks)), UNCHANGED <<world, routingTableActive>>
  PROVE  Inv'
  <1> DEFINE ts == Tail(tasks)
  <1>1. "SubTask2" \in Jobs /\ "sendBeaconTask" \in Jobs
    BY DEF Jobs, Subtasks
  <1>2. ts \in Seq(Jobs) /\ ToSet(ts) \subseteq ToSet(tasks)
    BY Taken DEF Inv
  <1> HIDE DEF ts
  <1>3. NoNewStep(tasks')
    <2>1. CASE SubTask2Step(ts)
      BY <1>1, <1>2, <2>1, Posted DEF SubTask2Step, NoNewStep
    <2>2. CASE SubTask2Last(ts)
      <3>1. PICK told \in Seq(Jobs) :
              /\ ToSet(told) \subseteq ToSet(ts) \union {"sendTask"}
              /\ tasks' = IF is_router_called THEN Post(told, "sendBeaconTask") ELSE told
        <4>1. /\ PostSend(ts, TRUE) \in Seq(Jobs)
              /\ ToSet(PostSend(ts, TRUE)) \subseteq ToSet(ts) \union {"sendTask"}
          BY <1>2, SendPosted
        <4> QED BY <1>2, <2>2, <4>1 DEF SubTask2Last
      <3>2. /\ Post(told, "sendBeaconTask") \in Seq(Jobs)
            /\ ToSet(Post(told, "sendBeaconTask")) = ToSet(told) \union {"sendBeaconTask"}
        BY <1>1, Posted
      <3> QED BY <1>2, <3>1, <3>2 DEF NoNewStep
    <2> QED BY <2>1, <2>2 DEF SubTask2, ts
  <1>4. Flags'
    <2>1. CASE SubTask2Step(ts)
      BY <2>1 DEF Inv, Flags, SubTask2, SubTask2Step, lock
    <2>2. CASE SubTask2Last(ts)
      BY <2>2 DEF Inv, Flags, SubTask2, SubTask2Last
    <2> QED BY <2>1, <2>2 DEF SubTask2, ts
  <1>5. Counts'
    <2>1. task2_sort_idx \in Nat /\ task2_sort_idx >= 1
      BY DEF Inv, Counts
    <2>2. task2_sort_idx' = 1 \/ task2_sort_idx' = task2_sort_idx + 1
      BY DEF SubTask2, SubTask2Step, SubTask2Last
    <2>3. task2_sort_idx' \in Nat /\ task2_sort_idx' >= 1
      BY <2>1, <2>2
    <2> QED BY <1>3, <2>3 DEF Inv, Counts, SubTask2, NoNewStep
  <1> QED BY <1>3, <1>4, <1>5 DEF Inv, NoNewStep, SubTask2

(* A step that leaves the counts alone and posts no SubTask1 keeps the invariant. *)
LEMMA CountsStay ==
  ASSUME Inv, NoNewStep(tasks'), Flags', hand' \in Hands, link' \in Links,
         UNCHANGED <<world, valid_entry_cnts, task1_routing_table_idx, task2_sort_idx, rejected>>,
         routingTableActive' \in 0 .. world.neighbors
  PROVE  Inv'
  <1>1. Counts'
    BY DEF Inv, Counts, NoNewStep
  <1> QED BY <1>1 DEF Inv, NoNewStep

(* sendBeaconTask collects the result, or waits for the radio. *)
LEMMA SendBeaconInv ==
  ASSUME Inv, tasks # <<>>, sendBeaconTask(Tail(tasks)),
         UNCHANGED <<world, routingTableActive>>
  PROVE  Inv'
  <1> DEFINE ts == Tail(tasks)
  <1>1. ts \in Seq(Jobs) /\ ToSet(ts) \subseteq ToSet(tasks)
    BY Taken DEF Inv
  <1> HIDE DEF ts
  <1>2. CASE BeaconBusy(ts)
    <2>1. NoNewStep(tasks')
      BY <1>1, <1>2 DEF BeaconBusy, NoNewStep
    <2>2. Flags'
      BY <1>2 DEF Inv, Flags, BeaconBusy, sendBeaconTask, lock, results
    <2> QED BY <2>1, <2>2, CountsStay DEF Inv, sendBeaconTask, results
  <1>3. CASE BeaconSent(ts)
    <2>1. NoNewStep(tasks')
      BY <1>1, <1>3, SignalPosts DEF BeaconSent, NoNewStep
    <2>2. {task_locked', has_passed_signal', enter_from_beacon', is_router_called',
           is_forwarder_called', extra_signal_pending', pipeDone'} \subseteq BOOLEAN
      BY <1>3, CollectFlags DEF Inv, BeaconSent
    <2>3. beaconSending' \in BOOLEAN
      BY <1>3 DEF BeaconSent
    <2>4. Flags'
      BY <2>2, <2>3 DEF Inv, Flags, sendBeaconTask, results
    <2> QED BY <2>1, <2>4, CountsStay DEF Inv, sendBeaconTask, results
  <1> QED BY <1>2, <1>3 DEF sendBeaconTask, ts

(* SubSend.send posts a sendTask at most. *)
LEMMA TransmitPosts ==
  ASSUME NEW ts \in Seq(Jobs), ToSet(ts) \subseteq ToSet(tasks) \union {"sendTask"}, NEW done,
         Transmit(ts, done)
  PROVE  NoNewStep(tasks') /\ link' \in Links
  <1>1. /\ PostSend(ts, done) \in Seq(Jobs)
        /\ ToSet(PostSend(ts, done)) \subseteq ToSet(ts) \union {"sendTask"}
    BY SendPosted
  <1> QED BY <1>1 DEF Transmit, NoNewStep, Links

(* sendTask: nothing to do, a new packet, its first attempt, another one. *)
LEMMA SendTaskInv ==
  ASSUME Inv, tasks # <<>>, sendTask(Tail(tasks)), UNCHANGED <<world, routingTableActive>>
  PROVE  Inv'
  <1> DEFINE ts == Tail(tasks)
  <1>1. ts \in Seq(Jobs) /\ ToSet(ts) \subseteq ToSet(tasks)
    BY Taken DEF Inv
  <1> HIDE DEF ts
  <1>2. CASE SendIdle(ts)
    <2>1. NoNewStep(tasks')
      BY <1>1, <1>2 DEF SendIdle, NoNewStep
    <2>2. Flags'
      BY <1>2 DEF Inv, Flags, SendIdle, sendTask, lock, results, fwd
    <2> QED BY <1>2, <2>1, <2>2, CountsStay DEF Inv, SendIdle, sendTask, results, fwd
  <1>3. CASE SendSelect(ts)
    <2>1. Request(FALSE, ts) /\ FALSE \in BOOLEAN
      BY <1>3 DEF SendSelect
    <2>2. NoNewStep(tasks')
      BY <1>1, <2>1, RequestPosts
    <2>3. {task_locked', has_passed_signal', enter_from_beacon', is_router_called',
           is_forwarder_called', extra_signal_pending'} \subseteq BOOLEAN
      BY <2>1, RequestFlags DEF Inv
    <2>4. pipeDone' \in BOOLEAN /\ queued' \in BOOLEAN
      BY <1>3 DEF SendSelect
    <2>5. Flags'
      BY <2>3, <2>4 DEF Inv, Flags, sendTask, results
    <2>6. hand' \in Hands /\ link' \in Links
      BY <1>3 DEF Inv, SendSelect, Hands
    <2> QED BY <2>2, <2>5, <2>6, CountsStay DEF Inv, sendTask, results
  <1>4. CASE SendFirst(ts)
    <2>1. Collect
      BY <1>4 DEF SendFirst
    <2>2. /\ Signalled(ts) \in Seq(Jobs)
          /\ ToSet(Signalled(ts)) \subseteq ToSet(tasks) \union {"sendTask"}
      BY <1>1, SignalPosts
    <2>3. NoNewStep(tasks') /\ hand' \in Hands /\ link' \in Links
      <3>1. CASE hand' = "empty" /\ link' = "idle"
                 /\ tasks' = PostSend(Signalled(ts), pipeDone')
        <4>1. /\ PostSend(Signalled(ts), pipeDone') \in Seq(Jobs)
              /\ ToSet(PostSend(Signalled(ts), pipeDone'))
                   \subseteq ToSet(Signalled(ts)) \union {"sendTask"}
          BY <2>2, SendPosted
        <4> QED BY <2>2, <3>1, <4>1 DEF NoNewStep, Hands, Links
      <3>2. CASE Transmit(Signalled(ts), pipeDone') /\ UNCHANGED hand
        <4>1. NoNewStep(tasks') /\ link' \in Links
          BY <2>2, <3>2, TransmitPosts
        <4> QED BY <3>2, <4>1 DEF Inv
      <3> QED BY <1>4, <3>1, <3>2 DEF SendFirst
    <2>4. {task_locked', has_passed_signal', enter_from_beacon', is_router_called',
           is_forwarder_called', extra_signal_pending', pipeDone'} \subseteq BOOLEAN
      BY <2>1, CollectFlags DEF Inv
    <2>5. queued' = queued
      BY <1>4 DEF SendFirst
    <2>6. Flags'
      BY <2>4, <2>5 DEF Inv, Flags, sendTask, results
    <2> QED BY <2>3, <2>6, CountsStay DEF Inv, sendTask, results
  <1>5. CASE SendAgain(ts)
    <2>1. NoNewStep(tasks') /\ link' \in Links
      BY <1>1, <1>5, TransmitPosts DEF SendAgain
    <2>2. Flags'
      BY <1>5 DEF Inv, Flags, SendAgain, sendTask, lock, results
    <2> QED BY <1>5, <2>1, <2>2, CountsStay DEF Inv, SendAgain, sendTask, results
  <1> QED BY <1>2, <1>3, <1>4, <1>5 DEF sendTask, ts

(* Timers, the radio and arriving packets. *)
LEMMA EventsInv ==
  ASSUME Inv, Events
  PROVE  Inv'
  <1>1. tasks \in Seq(Jobs) /\ NoNewStep(tasks)
    BY DEF Inv, NoNewStep
  <1>2. CASE BeaconTimerFired
    <2>1. Request(TRUE, tasks) /\ TRUE \in BOOLEAN
      BY <1>2 DEF BeaconTimerFired
    <2>2. NoNewStep(tasks')
      BY <1>1, <2>1, RequestPosts
    <2>3. {task_locked', has_passed_signal', enter_from_beacon', is_router_called',
           is_forwarder_called', extra_signal_pending'} \subseteq BOOLEAN
      BY <2>1, RequestFlags DEF Inv
    <2>4. Flags'
      BY <1>2, <2>3 DEF Inv, Flags, BeaconTimerFired, results, fwd
    <2> QED BY <1>2, <2>2, <2>4, CountsStay DEF Inv, BeaconTimerFired, results, fwd
  <1>3. CASE BeaconDone
    <2>1. Flags'
      BY <1>3 DEF Inv, Flags, BeaconDone, lock, results, fwd
    <2>2. NoNewStep(tasks')
      BY <1>1, <1>3 DEF BeaconDone
    <2> QED BY <1>3, <2>1, <2>2, CountsStay DEF Inv, BeaconDone, results, fwd
  <1>4. CASE Arrive
    <2>1. NoNewStep(tasks')
      <3>1. /\ PostSend(tasks, pipeDone) \in Seq(Jobs)
            /\ ToSet(PostSend(tasks, pipeDone)) \subseteq ToSet(tasks) \union {"sendTask"}
        BY <1>1, SendPosted
      <3>2. tasks' = tasks \/ tasks' = PostSend(tasks, pipeDone)
        BY <1>4 DEF Arrive
      <3> QED BY <1>1, <3>1, <3>2 DEF NoNewStep
    <2>2. Flags'
      BY <1>4 DEF Inv, Flags, Arrive, lock, results
    <2> QED BY <1>4, <2>1, <2>2, CountsStay DEF Inv, Arrive, results
  <1>5. CASE SendDone
    <2>1. Flags' /\ NoNewStep(tasks')
      BY <1>1, <1>5 DEF Inv, Flags, SendDone, lock, results
    <2>2. hand' \in Hands /\ link' \in Links
      BY <1>5 DEF Inv, SendDone, Hands, Links
    <2> QED BY <1>5, <2>1, <2>2, CountsStay DEF Inv, SendDone, results
  <1>6. CASE RetxmitTimerFired
    <2>1. NoNewStep(tasks')
      <3>1. /\ PostSend(tasks, pipeDone) \in Seq(Jobs)
            /\ ToSet(PostSend(tasks, pipeDone)) \subseteq ToSet(tasks) \union {"sendTask"}
        BY <1>1, SendPosted
      <3> QED BY <1>6, <3>1 DEF RetxmitTimerFired, NoNewStep
    <2>2. Flags'
      BY <1>6 DEF Inv, Flags, RetxmitTimerFired, lock, results
    <2>3. hand' \in Hands /\ link' \in Links
      BY <1>6 DEF Inv, RetxmitTimerFired, Links
    <2> QED BY <1>6, <2>1, <2>2, <2>3, CountsStay DEF Inv, RetxmitTimerFired, results
  <1>7. CASE TableChanges
    <2>1. Flags' /\ NoNewStep(tasks')
      BY <1>1, <1>7 DEF Inv, Flags, TableChanges, lock, results, fwd
    <2>2. routingTableActive' \in 0 .. world.neighbors
      BY <1>7 DEF TableChanges
    <2> QED BY <1>7, <2>1, <2>2, CountsStay DEF Inv, TableChanges, results, fwd
  <1> QED BY <1>2, <1>3, <1>4, <1>5, <1>6, <1>7 DEF Events

(* Every task and every event keeps the invariant. *)
LEMMA NextInv == Inv /\ [Next]_vars => Inv'
  <1> SUFFICES ASSUME Inv, [Next]_vars PROVE Inv'
    OBVIOUS
  <1>1. CASE RunTask
    <2>1. tasks # <<>> /\ UNCHANGED <<world, routingTableActive>>
      BY <1>1 DEF RunTask
    <2>2. CASE SubTask0(Tail(tasks))
      BY <2>1, <2>2, SubTask0Inv
    <2>3. CASE Head(tasks) = "SubTask1" /\ SubTask1(Tail(tasks))
      BY <2>1, <2>3, SubTask1Inv
    <2>4. CASE SubTask2(Tail(tasks))
      BY <2>1, <2>4, SubTask2Inv
    <2>5. CASE sendBeaconTask(Tail(tasks))
      BY <2>1, <2>5, SendBeaconInv
    <2>6. CASE sendTask(Tail(tasks))
      BY <2>1, <2>6, SendTaskInv
    <2> QED BY <1>1, <2>2, <2>3, <2>4, <2>5, <2>6 DEF RunTask
  <1>2. CASE Events
    BY <1>2, EventsInv
  <1>3. CASE UNCHANGED vars
    BY <1>3 DEF vars, lock, results, fwd, Inv, Flags, Counts
  <1> QED BY <1>1, <1>2, <1>3 DEF Next

(* The variables of the pipeline keep their types: SubTask1 never counts more paths than
   the table has neighbours and levels, and never passes the end of the table, though
   neighbours come and go between its steps (CtpRoutingEngineP_.nc:691, :703). *)
THEOREM TypesKept == Spec => []TypeOK
  <1>1. Inv => TypeOK
    BY DEF Inv, TypeOK, Flags, Counts, Hands, Links, Jobs, ToSet
  <1> QED BY <1>1, InitInv, NextInv, PTL DEF Spec

-----------------------------------------------------------------------------
(* The beacons alone. *)

\* The subtasks and the beacon follow each other, one at a time, under the lock.
OneRun == tasks = <<>> \/ \E t \in Subtasks \union {"sendBeaconTask"} : tasks = <<t>>

Alone == world.callers = {"router"} =>
           /\ ~ is_forwarder_called /\ ~ extra_signal_pending
           /\ link = "idle" /\ hand = "empty" /\ ~ queued
           /\ OneRun
           /\ tasks # <<>> => task_locked

(* What a task is posted to is empty. *)
LEMMA PostedAlone ==
  ASSUME NEW t
  PROVE  Post(<<>>, t) = <<t>>
  BY DEF Post, ToSet

(* Nobody else interferes: each task of a run posts the next one or ends the run, and
   a beacon timer that fires during a run leaves the tasks alone. *)
LEMMA AloneStep ==
  ASSUME Alone, Flags, [Next]_vars
  PROVE  Alone'
  <1> SUFFICES ASSUME world'.callers = {"router"}
               PROVE  /\ ~ is_forwarder_called' /\ ~ extra_signal_pending'
                      /\ link' = "idle" /\ hand' = "empty" /\ ~ queued'
                      /\ OneRun' /\ (tasks' # <<>> => task_locked')
    BY DEF Alone
  <1>1. world' = world
    BY DEF Next, RunTask, Events, BeaconTimerFired, BeaconDone, Arrive, SendDone,
           RetxmitTimerFired, TableChanges, vars
  <1>2. /\ ~ is_forwarder_called /\ ~ extra_signal_pending
        /\ link = "idle" /\ hand = "empty" /\ ~ queued
        /\ OneRun /\ (tasks # <<>> => task_locked)
    BY <1>1 DEF Alone
  <1>3. CASE RunTask
    <2>1. PICK t \in Subtasks \union {"sendBeaconTask"} : tasks = <<t>>
      BY <1>2, <1>3 DEF RunTask, OneRun
    <2>2. Head(tasks) = t /\ Tail(tasks) = <<>> /\ task_locked
      BY <1>2, <2>1
    <2>3. CASE SubTask0(<<>>)
      BY <1>2, <2>2, <2>3, PostedAlone DEF SubTask0, lock, fwd, OneRun, Subtasks
    <2>4. CASE SubTask1(<<>>)
      <3>1. tasks' = <<"SubTask1">> \/ tasks' = <<"SubTask2">>
        BY <2>4, PostedAlone DEF SubTask1, SubTask1Step, SubTask1Last
      <3>2. UNCHANGED <<lock, fwd>>
        BY <2>4 DEF SubTask1
      <3> QED BY <1>2, <2>2, <3>1, <3>2 DEF lock, fwd, OneRun, Subtasks
    <2>5. CASE SubTask2(<<>>)
      <3>1. CASE SubTask2Step(<<>>)
        BY <1>2, <2>2, <2>5, <3>1, PostedAlone
           DEF SubTask2, SubTask2Step, lock, OneRun, Subtasks
      <3>2. CASE SubTask2Last(<<>>)
        <4>1. tasks' = <<>> \/ tasks' = <<"sendBeaconTask">>
          BY <1>2, <3>2, PostedAlone DEF SubTask2Last
        <4>2. /\ ~ is_forwarder_called' /\ UNCHANGED <<task_locked, extra_signal_pending>>
              /\ UNCHANGED <<queued, hand, link>>
          BY <2>5, <3>2 DEF SubTask2, SubTask2Last
        <4> QED BY <1>2, <2>2, <4>1, <4>2 DEF OneRun
      <3> QED BY <2>5, <3>1, <3>2 DEF SubTask2
    <2>6. CASE sendBeaconTask(<<>>)
      <3>1. tasks' = <<>>
        BY <1>2, <2>6 DEF sendBeaconTask, BeaconBusy, BeaconSent, Signalled
      <3>2. UNCHANGED <<is_forwarder_called, extra_signal_pending, queued, hand, link>>
        BY <2>6 DEF sendBeaconTask, BeaconBusy, BeaconSent, Collect, lock
      <3> QED BY <1>2, <3>1, <3>2 DEF OneRun
    <2>7. t # "sendTask"
      BY DEF Subtasks
    <2> QED BY <1>3, <2>2, <2>3, <2>4, <2>5, <2>6, <2>7 DEF RunTask
  <1>4. CASE BeaconTimerFired
    <2>1. Request(TRUE, tasks) /\ UNCHANGED fwd
      BY <1>4 DEF BeaconTimerFired
    <2>2. ~ is_forwarder_called' /\ task_locked'
      BY <1>2, <2>1 DEF Request
    <2>3. CASE task_locked
      <3>1. tasks' = tasks /\ ~ extra_signal_pending'
        BY <1>2, <2>1, <2>2, <2>3 DEF Request
      <3> QED BY <1>2, <2>1, <2>2, <3>1 DEF OneRun, fwd
    <2>4. CASE ~ task_locked
      <3>1. tasks = <<>>
        BY <1>2, <2>4
      <3>2. tasks' = <<"SubTask0">> /\ ~ extra_signal_pending'
        BY <2>1, <2>4, <3>1, PostedAlone DEF Request
      <3> QED BY <1>2, <2>1, <2>2, <3>2 DEF OneRun, Subtasks, fwd
    <2> QED BY <2>3, <2>4
  <1>5. CASE BeaconDone \/ TableChanges
    BY <1>2, <1>5 DEF BeaconDone, TableChanges, lock, fwd, OneRun
  <1>6. ~ Arrive /\ ~ SendDone /\ ~ RetxmitTimerFired
    BY <1>1, <1>2 DEF Arrive, SendDone, RetxmitTimerFired
  <1>7. CASE UNCHANGED vars
    BY <1>2, <1>7 DEF vars, lock, fwd, OneRun
  <1> QED BY <1>3, <1>4, <1>5, <1>6, <1>7 DEF Next, Events

(* Where only the beacons use the pipeline, one run is under way at a time and its
   result is collected when no subtask works on it, whenever beacons become due. *)
LEMMA AloneSerialized == Alone => Serialized
  <1> SUFFICES ASSUME OneRun
               PROVE  /\ \A s, t \in ToSet(tasks) \intersect Subtasks : s = t
                      /\ Collects => ToSet(tasks) \intersect Subtasks = {}
    BY DEF Alone, Serialized
  <1>1. CASE tasks = <<>>
    BY <1>1 DEF ToSet, Collects
  <1>2. ASSUME NEW u \in Subtasks \union {"sendBeaconTask"}, tasks = <<u>>
        PROVE  /\ \A s, t \in ToSet(tasks) \intersect Subtasks : s = t
               /\ Collects => ToSet(tasks) \intersect Subtasks = {}
    <2>1. ToSet(tasks) = {u} /\ Head(tasks) = u
      BY <1>2 DEF ToSet
    <2>2. Collects => u = "sendBeaconTask"
      BY <2>1 DEF Collects, Subtasks
    <2> QED BY <2>1, <2>2 DEF Subtasks
  <1> QED BY <1>1, <1>2 DEF OneRun

(* Runs of the pipeline that beacons ask for follow each other. *)
THEOREM RunsSerialized == Spec => []Serialized
  <1>1. Init => Alone
    BY DEF Init, Alone, OneRun
  <1>2. Inv => Flags
    BY DEF Inv
  <1> QED BY <1>1, <1>2, InitInv, NextInv, AloneStep, AloneSerialized, PTL DEF Spec

(* PathTable adds what the tasks compute and leaves their control as it is. *)
THEOREM PathIsPipeline == PathSpec => Spec
  <1>1. PathInit => Init
    BY DEF PathInit
  <1>2. [PathNext]_pvars => [Next]_vars
    BY DEF PathNext, PathTask, Next, pvars
  <1> QED BY <1>1, <1>2, PTL DEF PathSpec, Spec
-----------------------------------------------------------------------------
(* Arithmetic. *)

LEMMA Max16 == MAX_UINT16 \in Nat
  BY DEF MAX_UINT16

\* The three variables of isqrt, at first and after one bit more.
RootState == [op : Nat, res : Nat, one : Nat]
RootStart(num) == [op |-> num, res |-> 0, one |-> 1073741824]
RootNext(s) == LET bit == s.op >= s.res + s.one
               IN [op |-> IF bit THEN s.op - s.res - s.one ELSE s.op,
                   res |-> (s.res \div 2) + (IF bit THEN s.one ELSE 0),
                   one |-> s.one \div 4]

(* A step of the root keeps three natural numbers. *)
LEMMA RootStep ==
  ASSUME NEW s \in RootState
  PROVE  RootNext(s) \in RootState
  <1> DEFINE bit == s.op >= s.res + s.one
  <1>1. s.op \in Nat /\ s.res \in Nat /\ s.one \in Nat
    BY DEF RootState
  <1>2. s.res \div 2 \in Nat /\ s.one \div 4 \in Nat
    BY <1>1
  <1>3. (IF bit THEN s.op - s.res - s.one ELSE s.op) \in Nat
    BY <1>1
  <1>4. (IF bit THEN s.one ELSE 0) \in Nat
    BY <1>1
  <1> HIDE DEF bit
  <1>5. (s.res \div 2) + (IF bit THEN s.one ELSE 0) \in Nat
    BY <1>2, <1>4
  <1>6. [op |-> IF bit THEN s.op - s.res - s.one ELSE s.op,
         res |-> (s.res \div 2) + (IF bit THEN s.one ELSE 0),
         one |-> s.one \div 4] \in RootState
    BY <1>2, <1>3, <1>5 DEF RootState
  <1> QED BY <1>6 DEF bit, RootNext

(* isqrt is sixteen of them. *)
LEMMA RootRuns ==
  ASSUME NEW num \in Nat
  PROVE  \E f \in [0 .. 16 -> RootState] :
           /\ isqrt(num) = f[16].res
           /\ f[0] = RootStart(num)
           /\ \A k \in 1 .. 16 : f[k] = RootNext(f[k - 1])
  <1> DEFINE a == RootStart(num)
             D == [k \in 1 .. 16 |-> [s \in RootState |-> RootNext(s)]]
             step[k \in 0 .. 16] == IF k = 0 THEN a ELSE RootNext(step[k - 1])
  <1>1. isqrt(num) = step[16].res
    BY DEF isqrt, RootStart, RootNext
  <1>2. a \in RootState
    BY DEF RootStart, RootState
  <1> HIDE DEF a
  <1>3. D \in [1 .. 16 -> [RootState -> RootState]]
    BY RootStep
  <1>4. PICK n \in Nat : n = 16
    OBVIOUS
  <1>5. PICK f \in [0 .. 16 -> RootState] :
          f = [k \in 0 .. 16 |-> IF k = 0 THEN a ELSE RootNext(f[k - 1])]
    <2>1. D \in [1 .. n -> [RootState -> RootState]]
      BY <1>3, <1>4
    <2> HIDE DEF D
    <2>2. PICK f \in [0 .. n -> RootState] : Recurs(f, n, a, D)
      BY <1>2, <2>1, Recursion
    <2>3. \A k \in 1 .. n : f[k] = RootNext(f[k - 1])
      <3>1. \A k \in 1 .. n : k \in 1 .. 16 /\ f[k - 1] \in RootState
        BY <1>4
      <3>2. \A k \in 1 .. 16, s \in RootState : D[k][s] = RootNext(s)
        BY DEF D
      <3> QED BY <2>2, <3>1, <3>2 DEF Recurs
    <2>4. f = [k \in 0 .. n |-> IF k = 0 THEN a ELSE RootNext(f[k - 1])]
      <3>1. f[0] = a
        BY <2>2 DEF Recurs
      <3>2. \A k \in 0 .. n : k # 0 => k \in 1 .. n
        OBVIOUS
      <3>3. \A k \in 0 .. n : f[k] = IF k = 0 THEN a ELSE RootNext(f[k - 1])
        BY <2>3, <3>1, <3>2
      <3> QED BY <3>3
    <2> QED BY <1>4, <2>4
  <1>6. step = [k \in 0 .. 16 |-> IF k = 0 THEN a ELSE RootNext(step[k - 1])]
    BY <1>5
  <1> HIDE DEF step
  <1>7. 0 .. 16 \subseteq {k \in 0 .. 16 : step[k] \in RootState}
    <2> DEFINE P == {k \in 0 .. 16 : step[k] \in RootState}
    <2>1. 0 \in P
      BY <1>2, <1>6
    <2>2. ASSUME NEW k \in 1 .. 16, k - 1 \in P PROVE k \in P
      BY <1>6, <2>2, RootStep
    <2> HIDE DEF P
    <2>3. 0 .. 16 \subseteq P
      BY <2>1, <2>2, Upward
    <2> QED BY <2>3 DEF P
  <1>8. step \in [0 .. 16 -> RootState]
    BY <1>6, <1>7
  <1>9. step[0] = a /\ \A k \in 1 .. 16 : step[k] = RootNext(step[k - 1])
    BY <1>6
  <1> QED BY <1>1, <1>8, <1>9 DEF a

(* The root of a natural number is one. *)
LEMMA RootType ==
  ASSUME NEW num \in Nat
  PROVE  isqrt(num) \in Nat
  <1>1. PICK f \in [0 .. 16 -> RootState] : isqrt(num) = f[16].res
    BY RootRuns
  <1>2. f[16] \in RootState
    OBVIOUS
  <1> QED BY <1>1, <1>2 DEF RootState

\* What is known when the next bit has the value b: r is the root but for the bits up to b.
Rooted(s, num, b) ==
  \E r \in Nat : /\ s.one = b * b /\ s.res = 2 * (r * b) /\ s.op = num - r * r
                 /\ r * r <= num /\ num < (r + 2 * b) * (r + 2 * b)

(* One bit more is known after a step. *)
LEMMA BitFound ==
  ASSUME NEW num \in Nat, NEW b \in Nat, NEW s \in RootState, Rooted(s, num, 2 * b)
  PROVE  Rooted(RootNext(s), num, b)
  <1>1. PICK r \in Nat : /\ s.one = (2 * b) * (2 * b) /\ s.res = 2 * (r * (2 * b))
                         /\ s.op = num - r * r /\ r * r <= num
                         /\ num < (r + 2 * (2 * b)) * (r + 2 * (2 * b))
    BY DEF Rooted
  <1>2. PICK bb \in Nat, rb \in Nat, rr \in Nat : bb = b * b /\ rb = r * b /\ rr = r * r
    OBVIOUS
  <1>3. s.one = 4 * bb /\ s.res = 4 * rb /\ s.op = num - rr
    BY <1>1, <1>2
  <1>4. s.one \div 4 = bb /\ s.res \div 2 = 2 * rb
    BY <1>3
  <1>5. (r + 2 * b) * (r + 2 * b) = rr + 4 * rb + 4 * bb
    BY <1>2
  <1>6. CASE s.op >= s.res + s.one
    <2>1. /\ RootNext(s).one = bb /\ RootNext(s).res = 2 * rb + 4 * bb
          /\ RootNext(s).op = num - rr - 4 * rb - 4 * bb
      BY <1>3, <1>4, <1>6 DEF RootNext
    <2>2. r + 2 * b \in Nat
      OBVIOUS
    <2>3. 2 * ((r + 2 * b) * b) = 2 * rb + 4 * bb
      BY <1>2
    <2>4. (r + 2 * b) * (r + 2 * b) <= num
      BY <1>3, <1>5, <1>6
    <2>5. (r + 2 * b) + 2 * b = r + 2 * (2 * b)
      OBVIOUS
    <2>6. num < ((r + 2 * b) + 2 * b) * ((r + 2 * b) + 2 * b)
      BY <1>1, <2>5
    <2>7. RootNext(s).op = num - (r + 2 * b) * (r + 2 * b)
      BY <1>5, <2>1
    <2> QED BY <1>2, <2>1, <2>2, <2>3, <2>4, <2>6, <2>7 DEF Rooted
  <1>7. CASE ~ (s.op >= s.res + s.one)
    <2>1. RootNext(s).one = bb /\ RootNext(s).res = 2 * rb /\ RootNext(s).op = num - rr
      BY <1>3, <1>4, <1>7 DEF RootNext
    <2>2. num < (r + 2 * b) * (r + 2 * b)
      BY <1>3, <1>5, <1>7 DEF RootState
    <2> QED BY <1>1, <1>2, <2>1, <2>2 DEF Rooted
  <1> QED BY <1>6, <1>7

(* The last bit. *)
LEMMA RootFound ==
  ASSUME NEW num \in Nat, NEW s \in RootState, Rooted(s, num, 1)
  PROVE  LET r == RootNext(s).res IN r * r <= num /\ num < (r + 1) * (r + 1)
  <1>1. PICK r \in Nat : /\ s.one = 1 /\ s.res = 2 * r /\ s.op = num - r * r
                         /\ r * r <= num /\ num < (r + 2) * (r + 2)
    BY DEF Rooted
  <1>2. s.res \div 2 = r /\ (r + 1) * (r + 1) = r * r + 2 * r + 1
    BY <1>1
  <1>3. CASE s.op >= s.res + s.one
    <2>1. RootNext(s).res = r + 1
      BY <1>1, <1>2, <1>3 DEF RootNext
    <2>2. (r + 1) * (r + 1) <= num /\ (r + 1) + 1 = r + 2
      BY <1>1, <1>2, <1>3
    <2> QED BY <1>1, <2>1, <2>2
  <1>4. CASE ~ (s.op >= s.res + s.one)
    <2>1. RootNext(s).res = r
      BY <1>1, <1>2, <1>4 DEF RootNext
    <2>2. num < (r + 1) * (r + 1)
      BY <1>1, <1>2, <1>4
    <2> QED BY <1>1, <2>1, <2>2
  <1> QED BY <1>3, <1>4

\* The values of the bits.
RootBit == [k \in 0 .. 15 |->
  CASE k = 0 -> 32768 [] k = 1 -> 16384 [] k = 2 -> 8192 [] k = 3 -> 4096
    [] k = 4 -> 2048 [] k = 5 -> 1024 [] k = 6 -> 512 [] k = 7 -> 256
    [] k = 8 -> 128 [] k = 9 -> 64 [] k = 10 -> 32 [] k = 11 -> 16
    [] k = 12 -> 8 [] k = 13 -> 4 [] k = 14 -> 2 [] k = 15 -> 1]

(* isqrt is the root, rounded down, of every number of 32 bits, and so of whatever fits into
   its argument, a long (CtpRoutingEngineP_.nc:1348-1373): the bound on the quantile
   counts whole standard deviations. *)
THEOREM RootIsExact ==
  ASSUME NEW num \in Nat, num < 65536 * 65536
  PROVE  LET r == isqrt(num) IN r * r <= num /\ num < (r + 1) * (r + 1)
  <1>1. PICK f \in [0 .. 16 -> RootState] :
          /\ isqrt(num) = f[16].res /\ f[0] = RootStart(num)
          /\ \A k \in 1 .. 16 : f[k] = RootNext(f[k - 1])
    BY RootRuns
  <1>2. \A k \in 0 .. 15 : RootBit[k] \in Nat
    BY DEF RootBit
  <1>3. \A k \in 1 .. 15 : RootBit[k - 1] = 2 * RootBit[k]
    BY DEF RootBit
  <1>4. RootBit[0] = 32768 /\ RootBit[15] = 1
    BY DEF RootBit
  <1>5. Rooted(f[0], num, RootBit[0])
    <2>1. f[0].one = 32768 * 32768 /\ f[0].res = 2 * (0 * 32768) /\ f[0].op = num - 0 * 0
      BY <1>1 DEF RootStart
    <2>2. 0 * 0 <= num /\ 0 + 2 * 32768 = 65536
      OBVIOUS
    <2> QED BY <1>4, <2>1, <2>2 DEF Rooted
  <1> DEFINE P == {k \in 0 .. 15 : Rooted(f[k], num, RootBit[k])}
  <1>6. 0 \in P
    BY <1>5
  <1>7. ASSUME NEW k \in 1 .. 15, k - 1 \in P PROVE k \in P
    <2>1. f[k] = RootNext(f[k - 1]) /\ f[k - 1] \in RootState
      BY <1>1
    <2>2. Rooted(f[k - 1], num, 2 * RootBit[k])
      BY <1>3, <1>7
    <2>3. Rooted(RootNext(f[k - 1]), num, RootBit[k])
      BY <1>2, <2>1, <2>2, BitFound
    <2> QED BY <2>1, <2>3
  <1> HIDE DEF P
  <1>8. 0 .. 15 \subseteq P
    BY <1>6, <1>7, Upward
  <1>9. Rooted(f[15], num, 1)
    BY <1>4, <1>8 DEF P
  <1>10. f[16] = RootNext(f[15]) /\ f[15] \in RootState
    <2>1. 16 \in 1 .. 16 /\ 16 - 1 = 15 /\ 15 \in 0 .. 16
      OBVIOUS
    <2> QED BY <1>1, <2>1
  <1> QED BY <1>1, <1>9, <1>10, RootFound

(* The quantile and what is advertised are numbers. *)
LEMMA QuantileType ==
  ASSUME NEW mean \in Nat, NEW var \in Nat
  PROVE  Quantile(mean, var) \in Nat
  <1>1. mean + isqrt(var) * CHEBYSHEV_SCALAR \in Nat /\ MARKOV_SCALAR * mean \in Nat
    BY RootType DEF CHEBYSHEV_SCALAR, MARKOV_SCALAR
  <1> QED BY <1>1, MinMaxOfTwo DEF Quantile

LEMMA SaturatedType ==
  ASSUME NEW x \in Nat
  PROVE  Saturated(x) \in 0 .. MAX_UINT16
  <1>1. Saturated(x) = IF x <= MAX_UINT16 THEN x ELSE MAX_UINT16
    BY Max16, MinMaxOfTwo DEF Saturated
  <1> QED BY <1>1, Max16

-----------------------------------------------------------------------------
(* Paths through neighbours. *)

Neighbours == {r.neighbor : r \in ToSet(world.table)}
Entry == routing_table_entry(world)
Path  == e2e_delay_etx_t(Neighbours)

\* What the computation of paths reads.
Table == /\ routes \in Seq(Entry)
         /\ shared \in [mean : Nat, var : Nat]
         /\ world.levels \in Nat /\ world.levels > 1

(* The fields of an entry. *)
LEMMA EntryFields ==
  ASSUME NEW r \in Entry
  PROVE  /\ r.neighbor \in Neighbours /\ r.link \in Nat
         /\ r.out_mac_delay_mean \in Nat /\ r.out_mac_delay_var \in Nat
         /\ r.pkt_sent_cnts \in 1 .. MaxSent
         /\ r.node_delay_etxs \in [1 .. world.levels -> delay_etx_t]
  <1>1. /\ r.neighbor \in Neighbours /\ r.link \in Nat
        /\ r.out_mac_delay_mean \in 0 .. MAX_UINT16 /\ r.out_mac_delay_var \in 0 .. MAX_UINT16
        /\ r.pkt_sent_cnts \in 1 .. MaxSent
        /\ r.node_delay_etxs \in [1 .. world.levels -> delay_etx_t]
    BY DEF Entry, routing_table_entry, Neighbours
  <1> QED BY <1>1, Max16

(* A path over a level a neighbour advertises. *)
LEMMA PathType ==
  ASSUME Table, NEW r \in Entry, NEW level \in delay_etx_t
  PROVE  PathOver(r, level) \in Path
  <1>1. /\ r.neighbor \in Neighbours /\ r.link \in Nat
        /\ r.out_mac_delay_mean \in Nat /\ r.out_mac_delay_var \in Nat
    BY EntryFields
  <1>2. /\ level.node_delay_mean \in Nat /\ level.node_delay_var \in Nat
        /\ level.node_delay_etx \in Nat
    <2>1. /\ level.node_delay_mean \in 0 .. MAX_UINT16
          /\ level.node_delay_var \in 0 .. MAX_UINT16
          /\ level.node_delay_etx \in 0 .. MAX_UINT16
      BY DEF delay_etx_t
    <2> QED BY <2>1, Max16
  <1>3. shared.mean \in Nat /\ shared.var \in Nat
    BY DEF Table
  <1>4. PICK m \in Nat, v \in Nat : /\ m = r.out_mac_delay_mean + level.node_delay_mean
                                    /\ v = r.out_mac_delay_var + level.node_delay_var
    BY <1>1, <1>2
  <1>5. PICK sm \in Nat, sv \in Nat : sm = shared.mean + m /\ sv = shared.var + v
    BY <1>3
  <1>6. r.link + 10 + level.node_delay_etx \in Nat
    BY <1>1, <1>2
  <1>7. Quantile(sm, sv) \in Nat /\ Quantile(m, v) \in Nat
    BY QuantileType
  <1>8. PathOver(r, level) =
          [nb |-> r.neighbor, e2e_delay_mean |-> sm, e2e_delay_var |-> sv,
           e2e_delay_qtl |-> Quantile(sm, sv), nlq_e2e_delay_qtl |-> Quantile(m, v),
           e2e_delay_etx |-> r.link + 10 + level.node_delay_etx]
    BY <1>4, <1>5 DEF PathOver
  <1> QED BY <1>1, <1>6, <1>7, <1>8 DEF Path, e2e_delay_etx_t

(* The paths over a neighbour. *)
LEMMA PathsType ==
  ASSUME Table, NEW r \in Entry
  PROVE  PathsOver(r) \in Seq(Path) /\ (~ PassesDag(r) => PathsOver(r) = <<>>)
  <1> DEFINE J == {j \in DOMAIN r.node_delay_etxs :
                     \A k \in 2 .. j : Known(r.node_delay_etxs[k])}
             n == Max(J)
  <1>1. world.levels \in Nat /\ world.levels > 1
        /\ r.node_delay_etxs \in [1 .. world.levels -> delay_etx_t]
    BY EntryFields DEF Table
  <1>2. 1 \in J /\ J \subseteq 0 .. world.levels
    BY <1>1
  <1>3. n \in J
    BY <1>1, <1>2, MaxOf
  <1>4. n \in Nat /\ n <= world.levels
    BY <1>1, <1>3
  <1>5. PathsOver(r) = IF PassesDag(r) /\ PassesCongestion(r)
                       THEN [j \in 1 .. n |-> PathOver(r, r.node_delay_etxs[j])]
                       ELSE <<>>
    BY DEF PathsOver
  <1> HIDE DEF n
  <1>6. \A j \in 1 .. n : PathOver(r, r.node_delay_etxs[j]) \in Path
    <2> SUFFICES ASSUME NEW j \in 1 .. n PROVE PathOver(r, r.node_delay_etxs[j]) \in Path
      OBVIOUS
    <2>1. r.node_delay_etxs[j] \in delay_etx_t
      BY <1>1, <1>4
    <2> QED BY <2>1, PathType
  <1>7. [j \in 1 .. n |-> PathOver(r, r.node_delay_etxs[j])] \in Seq(Path)
    BY <1>4, <1>6, IsASeq
  <1>8. <<>> \in Seq(Path)
    OBVIOUS
  <1> QED BY <1>5, <1>7, <1>8

\* The same table but for the counts of packets sent.
SameTable == /\ UNCHANGED <<world, shared, threshold>>
             /\ Len(routes') = Len(routes)
             /\ \A i \in 1 .. Len(routes) :
                  \E c \in 1 .. MaxSent : routes'[i] = [routes[i] EXCEPT !.pkt_sent_cnts = c]

(* A world with a table to compute on. *)
LEMMA TableWorlds ==
  ASSUME world \in Worlds, world.table # <<>>
  PROVE  /\ world.callers = {"router"} \/ world.callers = {"forwarder"}
         /\ ~ world.churn
         /\ world.levels \in Nat /\ world.levels > 1
         /\ world.table \in Seq(Entry) /\ Len(world.table) = world.neighbors
         /\ world.queues \subseteq Nat /\ world.deadlines \subseteq Nat
         /\ MaxSent \in Nat /\ MaxSent > 0
  <1>1. MaxSent \in Nat /\ MaxSent > 0
    BY PathAssumption
  <1>2. world.levels \in Nat
    BY PipelineAssumption
  <1>3. /\ ~ world.churn /\ world.callers \in {{"router"}, {"forwarder"}} /\ world.levels > 1
        /\ world.table \in Seq(routing_table_entry(world)) /\ Len(world.table) = world.neighbors
        /\ world.queues \subseteq Nat /\ world.deadlines \subseteq Nat
    BY PathAssumption
  <1> QED BY <1>1, <1>2, <1>3 DEF Entry

Sums == [total : Nat, mean : Nat, var : Nat]

\* The sums with one more neighbour.
Added(s, r) == IF PassesDag(r)
               THEN [total |-> s.total + r.pkt_sent_cnts,
                     mean |-> s.mean + r.out_mac_delay_mean * r.pkt_sent_cnts,
                     var |-> s.var + r.out_mac_delay_var * r.pkt_sent_cnts]
               ELSE s

(* They grow with every neighbour that passes. *)
LEMMA AddedGrows ==
  ASSUME NEW s \in Sums, NEW r \in Entry, MaxSent \in Nat
  PROVE  /\ Added(s, r) \in Sums /\ Added(s, r).total >= s.total
         /\ PassesDag(r) => Added(s, r).total > 0
  <1>1. /\ r.out_mac_delay_mean \in Nat /\ r.out_mac_delay_var \in Nat
        /\ r.pkt_sent_cnts \in 1 .. MaxSent
    BY EntryFields
  <1>2. PICK c \in Nat : c = r.pkt_sent_cnts /\ c > 0
    BY <1>1
  <1>3. PICK m \in Nat, v \in Nat : m = r.out_mac_delay_mean * c /\ v = r.out_mac_delay_var * c
    <2>1. \A x, y \in Nat : x * y \in Nat
      OBVIOUS
    <2> QED BY <1>1, <2>1
  <1>4. s.total \in Nat /\ s.mean \in Nat /\ s.var \in Nat
    BY DEF Sums
  <1>5. CASE PassesDag(r)
    <2>1. Added(s, r) = [total |-> s.total + c, mean |-> s.mean + m, var |-> s.var + v]
      BY <1>2, <1>3, <1>5 DEF Added
    <2> QED BY <1>2, <1>4, <2>1 DEF Sums
  <1>6. CASE ~ PassesDag(r)
    BY <1>4, <1>6 DEF Added
  <1> QED BY <1>5, <1>6

(* Where nothing was sent, no neighbour passes. *)
LEMMA WeightsType ==
  ASSUME routes \in Seq(Entry), MaxSent \in Nat
  PROVE  /\ Weights \in Sums
         /\ Weights.total = 0 => \A i \in 1 .. Len(routes) : ~ PassesDag(routes[i])
  <1> DEFINE a == [total |-> 0, mean |-> 0, var |-> 0]
             n == Len(routes)
             sum[i \in 0 .. n] == IF i = 0 THEN a ELSE Added(sum[i - 1], routes[i])
             D == [i \in 1 .. n |-> [s \in Sums |-> Added(s, routes[i])]]
  <1>1. Weights = sum[n]
    BY DEF Weights, Added
  <1>2. a \in Sums
    BY DEF Sums
  <1>3. n \in Nat /\ \A i \in 1 .. n : routes[i] \in Entry
    BY LenProperties
  <1>4. \A i \in 1 .. n, s \in Sums : Added(s, routes[i]) \in Sums
    BY <1>3, AddedGrows
  <1>5. D \in [1 .. n -> [Sums -> Sums]] /\ \A i \in 1 .. n, s \in Sums : D[i][s] = Added(s, routes[i])
    BY <1>4
  <1>0. a.total = 0
    OBVIOUS
  <1> HIDE DEF a, n, D
  <1>6. PICK f \in [0 .. n -> Sums] : f = [i \in 0 .. n |-> IF i = 0 THEN a ELSE Added(f[i - 1], routes[i])]
    <2>1. PICK f \in [0 .. n -> Sums] : Recurs(f, n, a, D)
      BY <1>2, <1>3, <1>5, Recursion
    <2>2. \A i \in 1 .. n : f[i] = Added(f[i - 1], routes[i])
      <3>1. \A i \in 1 .. n : f[i - 1] \in Sums
        BY <1>3
      <3> QED BY <1>5, <2>1, <3>1 DEF Recurs
    <2>3. f = [i \in 0 .. n |-> IF i = 0 THEN a ELSE Added(f[i - 1], routes[i])]
      BY <1>3, <2>1, <2>2 DEF Recurs
    <2> QED BY <2>3
  <1>7. sum = [i \in 0 .. n |-> IF i = 0 THEN a ELSE Added(sum[i - 1], routes[i])]
    BY <1>6
  <1> HIDE DEF sum
  <1> DEFINE Has(i) == sum[i] \in Sums /\ \A k \in 1 .. i : PassesDag(routes[k]) => sum[i].total > 0
             P == {i \in 0 .. n : Has(i)}
  <1>8. 0 \in P
    BY <1>2, <1>3, <1>7
  <1>9. ASSUME NEW i \in 1 .. n, i - 1 \in P PROVE i \in P
    <2>1. i - 1 \in 0 .. n /\ i \in 0 .. n /\ i # 0
      BY <1>3
    <2>2. sum[i] = Added(sum[i - 1], routes[i]) /\ Has(i - 1)
      BY <1>7, <1>9, <2>1
    <2>3. /\ sum[i] \in Sums /\ sum[i].total >= sum[i - 1].total
          /\ PassesDag(routes[i]) => sum[i].total > 0
      BY <1>3, <2>2, AddedGrows
    <2>4. ASSUME NEW k \in 1 .. i, PassesDag(routes[k]) PROVE sum[i].total > 0
      <3>1. CASE k = i
        BY <2>3, <2>4, <3>1
      <3>2. CASE k # i
        <4>1. k \in 1 .. i - 1
          BY <3>2
        <4>2. sum[i - 1].total > 0 /\ sum[i - 1] \in Sums
          BY <2>2, <2>4, <4>1
        <4>3. sum[i - 1].total \in Nat /\ sum[i].total \in Nat
          BY <2>3, <4>2 DEF Sums
        <4> QED BY <2>3, <4>2, <4>3
      <3> QED BY <3>1, <3>2
    <2> QED BY <2>1, <2>3, <2>4
  <1>10. Has(n)
    <2> HIDE DEF Has
    <2>1. 0 .. n \subseteq P
      <3> HIDE DEF P
      <3> QED BY <1>3, <1>8, <1>9, Upward
    <2> QED BY <1>3, <2>1
  <1> QED BY <1>1, <1>10 DEF n

\* The paths over the first k neighbours.
PathsUpTo(k) == UNION {ToSet(PathsOver(routes[i])) : i \in 1 .. k}

(* All paths lead over one of the neighbours. *)
LEMMA AllPaths ==
  ASSUME routes \in Seq(Entry)
  PROVE  Paths = PathsUpTo(Len(routes))
  <1>1. DOMAIN routes = 1 .. Len(routes)
    BY LenProperties
  <1> QED BY <1>1 DEF Paths, PathsUpTo

(* They are paths. *)
LEMMA PathsAreTyped ==
  ASSUME Table
  PROVE  \A k \in 0 .. Len(routes) : PathsUpTo(k) \subseteq Path
  <1>1. \A i \in 1 .. Len(routes) : routes[i] \in Entry
    BY LenProperties DEF Table
  <1>2. \A i \in 1 .. Len(routes) : ToSet(PathsOver(routes[i])) \subseteq Path
    <2> SUFFICES ASSUME NEW i \in 1 .. Len(routes) PROVE ToSet(PathsOver(routes[i])) \subseteq Path
      OBVIOUS
    <2>1. PathsOver(routes[i]) \in Seq(Path)
      BY <1>1, PathsType
    <2>2. \A j \in DOMAIN PathsOver(routes[i]) : PathsOver(routes[i])[j] \in Path
      BY <2>1, LenProperties
    <2> QED BY <2>2 DEF ToSet
  <1>3. Len(routes) \in Nat
    BY LenProperties DEF Table
  <1> QED BY <1>2, <1>3 DEF PathsUpTo

(* The count of packets sent does not change the paths. *)
LEMMA PathsStay ==
  ASSUME routes \in Seq(Entry), routes' \in Seq(Entry), SameTable
  PROVE  Paths' = Paths /\ \A k \in 0 .. Len(routes) : PathsUpTo(k)' = PathsUpTo(k)
  <1>1. Len(routes') = Len(routes) /\ Len(routes) \in Nat /\ world' = world
        /\ shared' = shared /\ threshold' = threshold
    BY LenProperties DEF SameTable
  <1>2. ASSUME NEW i \in 1 .. Len(routes) PROVE PathsOver(routes[i])' = PathsOver(routes[i])
    <2>1. PICK c \in 1 .. MaxSent : routes'[i] = [routes[i] EXCEPT !.pkt_sent_cnts = c]
      BY DEF SameTable
    <2>2. routes[i] \in Entry
      BY LenProperties
    <2>3. /\ routes'[i].neighbor = routes[i].neighbor /\ routes'[i].etx = routes[i].etx
          /\ routes'[i].congested = routes[i].congested
          /\ routes'[i].highlyCongested = routes[i].highlyCongested
          /\ routes'[i].link = routes[i].link
          /\ routes'[i].out_mac_delay_mean = routes[i].out_mac_delay_mean
          /\ routes'[i].out_mac_delay_var = routes[i].out_mac_delay_var
          /\ routes'[i].node_delay_etxs = routes[i].node_delay_etxs
      BY <2>1, <2>2 DEF Entry, routing_table_entry
    <2> QED BY <1>1, <2>3 DEF PathsOver, PassesDag, PassesCongestion, PathOver
  <1>3. ASSUME NEW k \in 0 .. Len(routes) PROVE PathsUpTo(k)' = PathsUpTo(k)
    <2>1. \A i \in 1 .. k : i \in 1 .. Len(routes)
      BY <1>1
    <2>2. \A i \in 1 .. k : ToSet(PathsOver(routes[i]))' = ToSet(PathsOver(routes[i]))
      BY <1>2, <2>1 DEF ToSet
    <2> QED BY <2>2 DEF PathsUpTo
  <1>4. DOMAIN routes = 1 .. Len(routes) /\ DOMAIN routes' = 1 .. Len(routes)
    BY <1>1, LenProperties
  <1>5. \A i \in 1 .. Len(routes) : ToSet(PathsOver(routes[i]))' = ToSet(PathsOver(routes[i]))
    BY <1>2 DEF ToSet
  <1>6. Paths' = Paths
    BY <1>4, <1>5 DEF Paths
  <1> QED BY <1>3, <1>6

-----------------------------------------------------------------------------
(* The forwarding engine alone. *)

\* A subtask is what the scheduler runs next, and all that it runs.
Busy == \E t \in Subtasks : tasks = <<t>>

\* One packet at a time asks, and waits until its run is over.
Served == world.callers = {"forwarder"} =>
            /\ ~ is_router_called /\ ~ extra_signal_pending /\ ~ enter_from_beacon
            /\ ~ beaconSending
            /\ tasks = <<>> \/ tasks = <<"sendTask">> \/ Busy
            /\ Busy => ~ pipeDone /\ is_forwarder_called /\ task_locked
            /\ ~ Busy => pipeDone
            /\ task_locked => hand = "new" /\ link = "idle"

(* A run of the pipeline is asked for by a packet, and nothing is sent meanwhile. *)
LEMMA ServedStep ==
  ASSUME Served, Flags, [Next]_vars
  PROVE  Served'
  <1> DEFINE Rest == ~ is_router_called /\ ~ extra_signal_pending /\ ~ enter_from_beacon
                     /\ ~ beaconSending
             Jobless == tasks = <<>> \/ tasks = <<"sendTask">>
  <1>1. world' = world
    BY DEF Next, RunTask, Events, BeaconTimerFired, BeaconDone, Arrive, SendDone,
           RetxmitTimerFired, TableChanges, vars
  <1> SUFFICES ASSUME world.callers = {"forwarder"}
               PROVE  /\ Rest'
                      /\ Jobless' \/ Busy'
                      /\ Busy' => ~ pipeDone' /\ is_forwarder_called' /\ task_locked'
                      /\ ~ Busy' => pipeDone'
                      /\ task_locked' => hand' = "new" /\ link' = "idle"
    BY <1>1 DEF Served
  <1>2. /\ Rest /\ (Jobless \/ Busy)
        /\ (Busy => ~ pipeDone /\ is_forwarder_called /\ task_locked)
        /\ (~ Busy => pipeDone)
        /\ (task_locked => hand = "new" /\ link = "idle")
    BY DEF Served
  <1>3. ASSUME RunTask, Busy
        PROVE  /\ Rest'
               /\ Jobless' \/ Busy'
               /\ Busy' => ~ pipeDone' /\ is_forwarder_called' /\ task_locked'
               /\ ~ Busy' => pipeDone'
               /\ task_locked' => hand' = "new" /\ link' = "idle"
    <2>1. PICK t \in Subtasks : tasks = <<t>>
      BY <1>3 DEF Busy
    <2>2. Head(tasks) = t /\ Tail(tasks) = <<>>
      BY <2>1
    <2>3. ~ pipeDone /\ is_forwarder_called /\ task_locked /\ hand = "new" /\ link = "idle"
      BY <1>2, <1>3
    <2>4. ASSUME NEW u \in Subtasks, tasks' = <<u>>, UNCHANGED <<lock, beaconSending, fwd>>
          PROVE  /\ Rest' /\ Busy' /\ ~ pipeDone' /\ is_forwarder_called' /\ task_locked'
                 /\ hand' = "new" /\ link' = "idle"
      BY <1>2, <2>3, <2>4 DEF Busy, lock, fwd
    <2>5. CASE SubTask0(<<>>)
      <3>1. tasks' = <<"SubTask1">> /\ UNCHANGED <<lock, beaconSending, fwd>>
        BY <2>5, PostedAlone DEF SubTask0
      <3> QED BY <2>4, <3>1 DEF Subtasks
    <2>6. CASE SubTask1(<<>>)
      <3>1. tasks' = <<"SubTask1">> \/ tasks' = <<"SubTask2">>
        BY <2>6, PostedAlone DEF SubTask1, SubTask1Step, SubTask1Last
      <3>2. UNCHANGED <<lock, beaconSending, fwd>>
        BY <2>6 DEF SubTask1
      <3> QED BY <2>4, <3>1, <3>2 DEF Subtasks
    <2>7. CASE SubTask2(<<>>)
      <3>1. CASE SubTask2Step(<<>>)
        <4>1. tasks' = <<"SubTask2">> /\ UNCHANGED <<lock, beaconSending, fwd>>
          BY <2>7, <3>1, PostedAlone DEF SubTask2, SubTask2Step, fwd
        <4> QED BY <2>4, <4>1 DEF Subtasks
      <3>2. CASE SubTask2Last(<<>>)
        <4>1. tasks' = <<"sendTask">>
          BY <1>2, <2>3, <3>2, PostedAlone DEF SubTask2Last, PostSend
        <4>2. ~ Busy'
          BY <4>1 DEF Busy, Subtasks
        <4>3. Rest' /\ pipeDone' /\ hand' = "new" /\ link' = "idle"
          BY <1>2, <2>3, <2>7, <3>2 DEF SubTask2, SubTask2Last
        <4> QED BY <4>1, <4>2, <4>3
      <3> QED BY <2>7, <3>1, <3>2 DEF SubTask2
    <2> QED BY <1>3, <2>2, <2>5, <2>6, <2>7 DEF RunTask, Subtasks
  <1>4. ASSUME RunTask, ~ Busy
        PROVE  /\ Rest'
               /\ Jobless' \/ Busy'
               /\ Busy' => ~ pipeDone' /\ is_forwarder_called' /\ task_locked'
               /\ ~ Busy' => pipeDone'
               /\ task_locked' => hand' = "new" /\ link' = "idle"
    <2>1. tasks = <<"sendTask">>
      BY <1>2, <1>4 DEF RunTask
    <2>2. Head(tasks) = "sendTask" /\ Tail(tasks) = <<>>
      BY <2>1
    <2>3. sendTask(<<>>) /\ pipeDone
      BY <1>2, <1>4, <2>2 DEF RunTask
    <2>4. beaconSending' = beaconSending
      BY <2>3 DEF sendTask
    <2>5. CASE SendIdle(<<>>)
      <3>1. tasks' = <<>>
        BY <2>5 DEF SendIdle
      <3>2. ~ Busy'
        BY <3>1 DEF Busy
      <3> QED BY <1>2, <2>3, <2>4, <2>5, <3>1, <3>2 DEF SendIdle, lock, fwd
    <2>6. CASE SendSelect(<<>>)
      <3>1. ~ task_locked
        BY <1>2, <2>6 DEF SendSelect
      <3>2. /\ tasks' = <<"SubTask0">> /\ task_locked' /\ is_forwarder_called'
            /\ ~ is_router_called' /\ ~ extra_signal_pending' /\ ~ enter_from_beacon'
        BY <1>2, <2>6, <3>1, PostedAlone DEF SendSelect, Request
      <3>3. Busy'
        BY <3>2 DEF Busy, Subtasks
      <3> QED BY <1>2, <2>4, <2>6, <3>2, <3>3 DEF SendSelect
    <2>7. CASE SendFirst(<<>>)
      <3>1. Signalled(<<>>) = <<>> /\ pipeDone' /\ ~ task_locked'
        BY <1>2, <2>3, <2>7 DEF SendFirst, Collect, Signalled
      <3>2. tasks' = <<>> \/ tasks' = <<"sendTask">>
        BY <1>2, <2>7, <3>1, PostedAlone DEF SendFirst, Transmit, PostSend
      <3>3. ~ Busy'
        BY <3>2 DEF Busy, Subtasks
      <3> QED BY <1>2, <2>4, <2>7, <3>1, <3>2, <3>3 DEF SendFirst, Collect
    <2>8. CASE SendAgain(<<>>)
      <3>1. tasks' = <<>> \/ tasks' = <<"sendTask">>
        BY <2>8, PostedAlone DEF SendAgain, Transmit, PostSend
      <3>2. ~ Busy'
        BY <3>1 DEF Busy, Subtasks
      <3> QED BY <1>2, <2>3, <2>4, <2>8, <3>1, <3>2 DEF SendAgain, lock
    <2> QED BY <2>3, <2>5, <2>6, <2>7, <2>8 DEF sendTask
  <1>5. ASSUME tasks' = tasks \/ (Jobless' /\ pipeDone)
        PROVE  (Jobless' \/ Busy') /\ (tasks' = tasks => (Busy' <=> Busy))
               /\ (tasks' # tasks => ~ Busy /\ ~ Busy')
    <2>1. tasks' = tasks => (Busy' <=> Busy) /\ (Jobless' <=> Jobless)
      BY DEF Busy
    <2>2. Jobless' => ~ Busy'
      BY DEF Busy, Subtasks
    <2> QED BY <1>2, <1>5, <2>1, <2>2
  <1>6. CASE BeaconDone \/ SendDone \/ TableChanges \/ UNCHANGED vars
    <2>1. tasks' = tasks /\ UNCHANGED <<lock, pipeDone>>
      BY <1>6 DEF BeaconDone, SendDone, TableChanges, vars, fwd
    <2>2. /\ ~ beaconSending'
          /\ task_locked => hand' = "new" /\ link' = "idle"
      BY <1>2, <1>6 DEF BeaconDone, SendDone, TableChanges, vars, fwd
    <2> QED BY <1>2, <1>5, <2>1, <2>2 DEF lock
  <1>7. ASSUME tasks' = PostSend(tasks, pipeDone) \/ tasks' = tasks
        PROVE  tasks' = tasks \/ (Jobless' /\ pipeDone)
    <2>1. CASE tasks' = tasks
      BY <2>1
    <2>2. CASE ~ pipeDone
      BY <1>7, <2>2 DEF PostSend
    <2>3. CASE tasks' = PostSend(tasks, pipeDone) /\ pipeDone
      <3>1. Jobless
        BY <1>2, <2>3
      <3>2. tasks' = Post(tasks, "sendTask")
        BY <2>3 DEF PostSend
      <3>3. CASE tasks = <<>>
        BY <2>3, <3>2, <3>3, PostedAlone
      <3>4. CASE tasks = <<"sendTask">>
        <4>1. "sendTask" \in ToSet(tasks)
          BY <3>4 DEF ToSet
        <4> QED BY <3>2, <4>1 DEF Post
      <3> QED BY <3>1, <3>3, <3>4
    <2> QED BY <1>7, <2>1, <2>2, <2>3
  <1>8. CASE Arrive
    <2>1. tasks' = PostSend(tasks, pipeDone) \/ tasks' = tasks
      BY <1>8 DEF Arrive
    <2> QED BY <1>2, <1>5, <1>7, <1>8, <2>1 DEF Arrive, lock
  <1>9. CASE RetxmitTimerFired
    <2>1. tasks' = PostSend(tasks, pipeDone)
      BY <1>9 DEF RetxmitTimerFired
    <2> QED BY <1>2, <1>5, <1>7, <1>9, <2>1 DEF RetxmitTimerFired, lock
  <1>10. ~ BeaconTimerFired
    BY DEF BeaconTimerFired
  <1> QED BY <1>3, <1>4, <1>6, <1>8, <1>9, <1>10 DEF Next, Events

-----------------------------------------------------------------------------
(* How the tasks follow each other in a world with a table. *)

\* A world with a table, in which one engine alone uses the pipeline.
OneCaller == world \in Worlds /\ world.table # <<>> /\ Alone /\ Served

\* A result is there, and nobody works on the next one.
Computed == ~ Busy /\ (tasks = <<"sendBeaconTask">> \/ hand = "new")

(* What the scheduler runs is all that it has. *)
LEMMA OneTask ==
  ASSUME OneCaller, tasks # <<>>
  PROVE  \E t \in Jobs : tasks = <<t>> /\ Head(tasks) = t /\ Tail(tasks) = <<>>
  <1>1. PICK t \in Jobs : tasks = <<t>>
    BY TableWorlds DEF OneCaller, Alone, Served, OneRun, Busy, Jobs
  <1> QED BY <1>1

(* The callers of a world with a table. *)
LEMMA Callers ==
  ASSUME OneCaller
  PROVE  \/ /\ world.callers = {"router"}
            /\ OneRun /\ hand = "empty" /\ (tasks # <<>> => task_locked)
            /\ ~ is_forwarder_called /\ ~ extra_signal_pending /\ link = "idle" /\ ~ queued
         \/ /\ world.callers = {"forwarder"}
            /\ ~ is_router_called /\ ~ extra_signal_pending /\ ~ beaconSending
            /\ tasks = <<>> \/ tasks = <<"sendTask">> \/ Busy
            /\ Busy => ~ pipeDone /\ is_forwarder_called /\ task_locked
            /\ ~ Busy => pipeDone
            /\ task_locked => hand = "new" /\ link = "idle"
  BY TableWorlds DEF OneCaller, Alone, Served

(* The subtasks post each other. *)
LEMMA SubtasksFollow ==
  ASSUME OneCaller, RunTask, Head(tasks) \in Subtasks
  PROVE  /\ tasks = <<Head(tasks)>>
         /\ Head(tasks) = "SubTask0" => SubTask0(<<>>) /\ tasks' = <<"SubTask1">>
         /\ Head(tasks) = "SubTask1" =>
              \/ SubTask1Step(<<>>) /\ tasks' = <<"SubTask1">>
              \/ SubTask1Last(<<>>) /\ tasks' = <<"SubTask2">>
         /\ Head(tasks) = "SubTask2" =>
              \/ SubTask2Step(<<>>) /\ tasks' = <<"SubTask2">>
              \/ SubTask2Last(<<>>) /\ tasks' \notin {<<t>> : t \in Subtasks}
         /\ Head(tasks) = "SubTask1" => SubTask1(<<>>)
         /\ Head(tasks) = "SubTask2" => SubTask2(<<>>)
  <1>0. tasks # <<>>
    BY DEF RunTask
  <1>1. PICK t \in Jobs : tasks = <<t>> /\ Head(tasks) = t /\ Tail(tasks) = <<>>
    BY <1>0, OneTask
  <1>2. CASE t = "SubTask0"
    <2>1. SubTask0(<<>>)
      BY <1>1, <1>2 DEF RunTask
    <2>2. tasks' = <<"SubTask1">>
      BY <2>1, PostedAlone DEF SubTask0
    <2> QED BY <1>1, <1>2, <2>1, <2>2
  <1>3. CASE t = "SubTask1"
    <2>1. SubTask1(<<>>)
      BY <1>1, <1>3 DEF RunTask
    <2>2. \/ SubTask1Step(<<>>) /\ tasks' = <<"SubTask1">>
          \/ SubTask1Last(<<>>) /\ tasks' = <<"SubTask2">>
      BY <2>1, PostedAlone DEF SubTask1, SubTask1Step, SubTask1Last
    <2> QED BY <1>1, <1>3, <2>1, <2>2
  <1>4. CASE t = "SubTask2"
    <2>1. SubTask2(<<>>)
      BY <1>1, <1>4 DEF RunTask
    <2>2. CASE SubTask2Step(<<>>)
      <3>1. tasks' = <<"SubTask2">>
        BY <2>2, PostedAlone DEF SubTask2Step
      <3> QED BY <1>1, <1>4, <2>1, <2>2, <3>1
    <2>3. CASE SubTask2Last(<<>>)
      <3>1. ~ is_router_called \/ ~ is_forwarder_called
        BY Callers
      <3>2. tasks' \in {<<>>, <<"sendTask">>, <<"sendBeaconTask">>}
        BY <2>3, <3>1, PostedAlone DEF SubTask2Last, PostSend
      <3>3. tasks' \notin {<<u>> : u \in Subtasks}
        BY <3>2 DEF Subtasks
      <3> QED BY <1>1, <1>4, <2>1, <2>3, <3>3
    <2> QED BY <2>1, <2>2, <2>3 DEF SubTask2
  <1> QED BY <1>1, <1>2, <1>3, <1>4 DEF Subtasks

(* The other tasks do not post them but to start a run. *)
LEMMA CallersFollow ==
  ASSUME OneCaller, RunTask, Head(tasks) \notin Subtasks
  PROVE  /\ tasks' # <<"SubTask1">> /\ tasks' # <<"SubTask2">>
         /\ ~ Busy
         /\ Computed' => Computed
         /\ Collects => Computed
         /\ UNCHANGED results
  <1>0. tasks # <<>>
    BY DEF RunTask
  <1>1. PICK t \in Jobs : tasks = <<t>> /\ Head(tasks) = t /\ Tail(tasks) = <<>>
    BY <1>0, OneTask
  <1>2. t \in {"sendTask", "sendBeaconTask"}
    BY <1>1 DEF Jobs
  <1>3. ~ Busy
    BY <1>1, <1>2 DEF Busy, Subtasks
  <1>4. Collects => Computed
    BY <1>1, <1>3 DEF Collects, Computed
  <1>5. CASE t = "sendBeaconTask"
    <2>1. sendBeaconTask(<<>>)
      BY <1>1, <1>5 DEF RunTask
    <2>2. hand = "empty" /\ ~ extra_signal_pending
      <3>1. tasks # <<"sendTask">> /\ tasks # <<>>
        BY <1>1, <1>5
      <3> QED BY <1>3, <3>1, Callers
    <2>3. tasks' = <<>> /\ hand' = "empty" /\ UNCHANGED results
      BY <2>1, <2>2 DEF sendBeaconTask, BeaconBusy, BeaconSent, Signalled
    <2> QED BY <1>3, <1>4, <2>3 DEF Computed
  <1>6. CASE t = "sendTask"
    <2>1. sendTask(<<>>)
      BY <1>1, <1>6 DEF RunTask
    <2>2. ~ OneRun
      BY <1>1, <1>6 DEF OneRun, Subtasks
    <2>3. pipeDone /\ ~ extra_signal_pending /\ (task_locked => hand = "new") /\ ~ beaconSending
      BY <1>3, <2>2, Callers
    <2>4. UNCHANGED results
      BY <2>1 DEF sendTask
    <2>5. CASE SendIdle(<<>>)
      BY <1>3, <1>4, <2>4, <2>5 DEF SendIdle, Computed, fwd
    <2>6. CASE SendSelect(<<>>)
      <3>1. tasks' = <<"SubTask0">>
        BY <2>3, <2>6, PostedAlone DEF SendSelect, Request
      <3>2. Busy'
        BY <3>1 DEF Busy, Subtasks
      <3> QED BY <1>3, <1>4, <2>4, <3>1, <3>2 DEF Computed
    <2>7. CASE SendFirst(<<>>)
      <3>1. Collects
        BY <1>1, <1>6, <2>7 DEF Collects, SendFirst
      <3>2. tasks' = <<>> \/ tasks' = <<"sendTask">>
        BY <2>3, <2>7, PostedAlone DEF SendFirst, Transmit, PostSend, Signalled
      <3> QED BY <1>3, <1>4, <2>4, <3>1, <3>2
    <2>8. CASE SendAgain(<<>>)
      <3>1. tasks' = <<>> \/ tasks' = <<"sendTask">>
        BY <2>8, PostedAlone DEF SendAgain, Transmit, PostSend
      <3> QED BY <1>3, <1>4, <2>4, <2>8, <3>1 DEF SendAgain, Computed
    <2> QED BY <2>1, <2>5, <2>6, <2>7, <2>8 DEF sendTask
  <1> QED BY <1>2, <1>5, <1>6

(* Events leave the subtasks in the scheduler's queue alone, and yield no result. *)
LEMMA EventsFollow ==
  ASSUME OneCaller, Events
  PROVE  /\ UNCHANGED <<world, routingTableActive, results>>
         /\ tasks' = <<"SubTask1">> <=> tasks = <<"SubTask1">>
         /\ tasks' = <<"SubTask2">> <=> tasks = <<"SubTask2">>
         /\ Computed' => Computed
  <1>1. ~ TableChanges
    BY TableWorlds DEF TableChanges, OneCaller
  <1>2. UNCHANGED <<world, routingTableActive, results>>
    BY <1>1 DEF Events, BeaconTimerFired, BeaconDone, Arrive, SendDone, RetxmitTimerFired
  <1>3. CASE tasks' = tasks /\ (hand' = hand \/ hand' # "new")
    <2>1. Busy' <=> Busy
      BY <1>3 DEF Busy
    <2> QED BY <1>2, <1>3, <2>1 DEF Computed
  <1>4. CASE BeaconDone \/ SendDone
    BY <1>3, <1>4 DEF BeaconDone, SendDone, fwd
  <1>5. CASE BeaconTimerFired
    <2>1. hand' = hand /\ Request(TRUE, tasks)
      BY <1>5 DEF BeaconTimerFired, fwd
    <2>2. CASE task_locked
      BY <1>3, <2>1, <2>2 DEF Request
    <2>3. CASE ~ task_locked
      <3>1. "router" \in world.callers
        BY <1>5 DEF BeaconTimerFired
      <3>2. tasks = <<>> /\ hand = "empty"
        BY <2>3, <3>1, Callers
      <3>3. tasks' = <<"SubTask0">>
        BY <2>1, <2>3, <3>2, PostedAlone DEF Request
      <3>4. ~ Computed'
        BY <2>1, <3>2, <3>3 DEF Computed
      <3> QED BY <1>2, <3>2, <3>3, <3>4
    <2> QED BY <2>2, <2>3
  <1>6. ASSUME tasks' = PostSend(tasks, pipeDone), hand' = hand, world.callers = {"forwarder"}
        PROVE  /\ tasks' = <<"SubTask1">> <=> tasks = <<"SubTask1">>
               /\ tasks' = <<"SubTask2">> <=> tasks = <<"SubTask2">>
               /\ Computed' => Computed
    <2>1. CASE tasks' = tasks
      BY <1>3, <1>6, <2>1
    <2>2. CASE tasks' # tasks
      <3>1. pipeDone /\ tasks' = Post(tasks, "sendTask")
        BY <1>6, <2>2 DEF PostSend
      <3>2. ~ Busy
        BY <1>6, <3>1, Callers
      <3>3. tasks = <<>> \/ tasks = <<"sendTask">>
        BY <1>6, <3>2, Callers
      <3>4. tasks # <<"sendTask">>
        <4>1. tasks = <<"sendTask">> => "sendTask" \in ToSet(tasks)
          BY DEF ToSet
        <4> QED BY <2>2, <3>1, <4>1 DEF Post
      <3>5. tasks' = <<"sendTask">>
        BY <3>1, <3>3, <3>4, PostedAlone
      <3> QED BY <1>6, <3>2, <3>3, <3>5 DEF Computed
    <2> QED BY <2>1, <2>2
  <1>7. CASE Arrive
    <2>1. /\ hand' = hand /\ (tasks' = tasks \/ tasks' = PostSend(tasks, pipeDone))
          /\ world.callers = {"forwarder"}
      BY <1>7, Callers DEF Arrive
    <2> QED BY <1>2, <1>3, <1>6, <2>1
  <1>8. CASE RetxmitTimerFired
    <2>1. /\ hand' = hand /\ tasks' = PostSend(tasks, pipeDone)
          /\ world.callers = {"forwarder"}
      BY <1>8, Callers DEF RetxmitTimerFired
    <2> QED BY <1>2, <1>6, <2>1
  <1> QED BY <1>1, <1>4, <1>5, <1>7, <1>8 DEF Events

-----------------------------------------------------------------------------
(* The paths worth passing on. *)

\* q is at least as fast and as cheap as p.
AsGood(q, p) == q.e2e_delay_qtl <= p.e2e_delay_qtl /\ q.e2e_delay_etx <= p.e2e_delay_etx

\* For every path of P one of the first n is as good.
Covers(f, n, P) == \A p \in P : \E i \in 1 .. n : AsGood(f[i], p)

\* Ever slower and cheaper.
Falls(f) == \A i, j \in 1 .. Len(f) :
              i < j => /\ f[i].e2e_delay_qtl < f[j].e2e_delay_qtl
                       /\ f[i].e2e_delay_etx > f[j].e2e_delay_etx

\* What the filter leaves of the paths P.
Frontier(f, P) == f \in Seq(Path) /\ ToSet(f) \subseteq P /\ Falls(f) /\ Covers(f, Len(f), P)

\* The order of SubTask2.
Slow == [p \in Path |-> p.e2e_delay_qtl]

\* What the filter may be given: a sorted part that covers the paths, and a rest.
Ready(e, P) == /\ e \in Seq(Path) /\ ToSet(e) \subseteq P
               /\ \E m \in 0 .. Len(e) : InOrder(Slow, e, m) /\ Covers(e, m, P)

(* The numbers of a path. *)
LEMMA PathFields ==
  ASSUME NEW p \in Path
  PROVE  /\ p.e2e_delay_qtl \in Nat /\ p.e2e_delay_etx \in Nat /\ p.nlq_e2e_delay_qtl \in Nat
         /\ p.e2e_delay_mean \in Nat /\ p.e2e_delay_var \in Nat
         /\ Slow[p] = p.e2e_delay_qtl
  BY DEF Path, e2e_delay_etx_t, Slow

(* One more path, no faster than those that are left already. *)
LEMMA Admitted ==
  ASSUME NEW f \in Seq(Path), Falls(f), NEW e \in Path,
         \A i \in 1 .. Len(f) : f[i].e2e_delay_qtl <= e.e2e_delay_qtl,
         NEW g, g = Admit(f, e)
  PROVE  /\ g \in Seq(Path) /\ Falls(g)
         /\ ToSet(g) \subseteq ToSet(f) \union {e}
         /\ \E j \in 1 .. Len(g) : AsGood(g[j], e)
         /\ \A i \in 1 .. Len(f) : \E j \in 1 .. Len(g) : AsGood(g[j], f[i])
  <1>0. PICK n \in Nat : n = Len(f)
    BY LenProperties
  <1> USE <1>0
  <1>1. DOMAIN f = 1 .. n /\ \A i \in 1 .. n : f[i] \in Path
    BY LenProperties
  <1>2. \A p \in Path : p.e2e_delay_qtl \in Nat /\ p.e2e_delay_etx \in Nat /\ AsGood(p, p)
    BY PathFields DEF AsGood
  <1>3. CASE f = <<>>
    <2>1. g = <<e>> /\ n = 0
      BY <1>3 DEF Admit
    <2>2. g \in Seq(Path) /\ Len(g) = 1 /\ g[1] = e /\ DOMAIN g = 1 .. 1
      BY <2>1
    <2>3. Falls(g) /\ AsGood(g[1], e)
      BY <1>2, <2>2 DEF Falls
    <2>4. ToSet(g) \subseteq ToSet(f) \union {e}
      BY <2>2 DEF ToSet
    <2> QED BY <2>1, <2>2, <2>3, <2>4
  <1>4. CASE f # <<>>
    <2>1. n \in 1 .. n /\ Last(f) = f[n] /\ f[n] \in Path
      BY <1>1, <1>4, EmptySeq DEF Last
    <2>2. CASE e.e2e_delay_etx >= f[n].e2e_delay_etx
      <3>1. g = f
        BY <1>4, <2>1, <2>2 DEF Admit
      <3>2. AsGood(f[n], e)
        BY <1>2, <2>1, <2>2 DEF AsGood
      <3> QED BY <1>1, <1>2, <2>1, <3>1, <3>2
    <2>3. CASE ~ (e.e2e_delay_etx >= f[n].e2e_delay_etx) /\ e.e2e_delay_qtl = f[n].e2e_delay_qtl
      <3> DEFINE h == SubSeq(f, 1, n - 1)
      <3>1. g = Append(h, e)
        BY <1>4, <2>1, <2>3 DEF Admit, Front
      <3>2. h \in Seq(Path) /\ Len(h) = n - 1 /\ \A i \in 1 .. n - 1 : h[i] = f[i]
        BY <1>1, <2>1, SubSeqProperties
      <3> HIDE DEF h
      <3>3. /\ g \in Seq(Path) /\ Len(g) = n /\ g[n] = e /\ DOMAIN g = 1 .. n
            /\ \A i \in 1 .. n - 1 : g[i] = f[i]
        <4>1. /\ Append(h, e) \in Seq(Path) /\ Len(Append(h, e)) = (n - 1) + 1
              /\ \A i \in 1 .. n - 1 : Append(h, e)[i] = h[i]
              /\ Append(h, e)[(n - 1) + 1] = e
          BY <3>2, AppendProperties
        <4>2. (n - 1) + 1 = n
          BY <1>1
        <4>3. g \in Seq(Path) /\ Len(g) = n /\ g[n] = e /\ \A i \in 1 .. n - 1 : g[i] = f[i]
          BY <3>1, <3>2, <4>1, <4>2
        <4> QED BY <4>3, LenProperties
      <3>4. e.e2e_delay_etx < f[n].e2e_delay_etx
        BY <1>2, <2>1, <2>3
      <3>5. Falls(g)
        <4> SUFFICES ASSUME NEW i \in 1 .. n, NEW j \in 1 .. n, i < j
                     PROVE  /\ g[i].e2e_delay_qtl < g[j].e2e_delay_qtl
                            /\ g[i].e2e_delay_etx > g[j].e2e_delay_etx
          BY <3>3 DEF Falls
        <4>1. i \in 1 .. n - 1 /\ g[i] = f[i]
          BY <1>1, <3>3
        <4>2. /\ f[i].e2e_delay_qtl < f[j].e2e_delay_qtl
              /\ f[i].e2e_delay_etx > f[j].e2e_delay_etx
          BY DEF Falls
        <4>3. CASE j < n
          <5>1. g[j] = f[j]
            BY <1>1, <3>3, <4>3
          <5> QED BY <4>1, <4>2, <5>1
        <4>4. CASE j = n
          <5>1. g[j] = e /\ g[i] = f[i] /\ f[i] \in Path /\ f[j] = f[n]
            BY <1>1, <3>3, <4>1, <4>4
          <5>2. /\ f[i].e2e_delay_qtl < f[n].e2e_delay_qtl
                /\ f[i].e2e_delay_etx > f[n].e2e_delay_etx
            BY <4>2, <5>1
          <5>3. /\ f[i].e2e_delay_qtl \in Nat /\ f[i].e2e_delay_etx \in Nat
                /\ f[n].e2e_delay_qtl \in Nat /\ f[n].e2e_delay_etx \in Nat
                /\ e.e2e_delay_qtl \in Nat /\ e.e2e_delay_etx \in Nat
            BY <1>2, <2>1, <5>1
          <5> QED BY <2>3, <3>4, <5>1, <5>2, <5>3
        <4>5. j < n \/ j = n
          BY <1>1
        <4> QED BY <4>3, <4>4, <4>5
      <3>6. ToSet(g) \subseteq ToSet(f) \union {e}
        BY <1>1, <3>3 DEF ToSet
      <3>7. AsGood(g[n], e)
        BY <1>2, <3>3
      <3>8. ASSUME NEW i \in 1 .. n PROVE \E j \in 1 .. n : AsGood(g[j], f[i])
        <4>1. CASE i = n
          <5>1. f[n].e2e_delay_etx \in Nat /\ e.e2e_delay_etx \in Nat /\ f[n].e2e_delay_qtl \in Nat
            BY <1>2, <2>1
          <5>2. AsGood(e, f[n])
            BY <2>3, <3>4, <5>1 DEF AsGood
          <5> QED BY <2>1, <3>3, <4>1, <5>2
        <4>2. CASE i # n
          <5>1. i \in 1 .. n - 1
            BY <1>1, <4>2
          <5>2. g[i] = f[i] /\ f[i] \in Path
            BY <1>1, <3>3, <5>1
          <5> QED BY <1>2, <5>2
        <4> QED BY <4>1, <4>2
      <3> QED BY <2>1, <3>3, <3>5, <3>6, <3>7, <3>8
    <2>4. CASE ~ (e.e2e_delay_etx >= f[n].e2e_delay_etx) /\ e.e2e_delay_qtl # f[n].e2e_delay_qtl
      <3>1. g = Append(f, e)
        BY <1>4, <2>1, <2>4 DEF Admit
      <3>2. /\ g \in Seq(Path) /\ Len(g) = n + 1 /\ g[n + 1] = e /\ DOMAIN g = 1 .. n + 1
            /\ \A i \in 1 .. n : g[i] = f[i]
        BY <1>1, <3>1, AppendProperties, LenProperties
      <3>3. e.e2e_delay_etx < f[n].e2e_delay_etx /\ f[n].e2e_delay_qtl < e.e2e_delay_qtl
        BY <1>2, <2>1, <2>4
      <3>4. Falls(g)
        <4> SUFFICES ASSUME NEW i \in 1 .. n + 1, NEW j \in 1 .. n + 1, i < j
                     PROVE  /\ g[i].e2e_delay_qtl < g[j].e2e_delay_qtl
                            /\ g[i].e2e_delay_etx > g[j].e2e_delay_etx
          BY <3>2 DEF Falls
        <4>1. i \in 1 .. n /\ g[i] = f[i] /\ f[i] \in Path
          BY <1>1, <3>2
        <4>2. CASE j <= n
          <5>1. j \in 1 .. n /\ g[j] = f[j]
            BY <1>1, <3>2, <4>2
          <5> QED BY <4>1, <5>1 DEF Falls
        <4>3. CASE j = n + 1
          <5>1. g[j] = e
            BY <3>2, <4>3
          <5>2. CASE i = n
            BY <3>3, <4>1, <5>1, <5>2
          <5>3. CASE i < n
            <6>1. /\ f[i].e2e_delay_qtl < f[n].e2e_delay_qtl
                  /\ f[i].e2e_delay_etx > f[n].e2e_delay_etx
              BY <2>1, <4>1, <5>3 DEF Falls
            <6> QED BY <1>2, <2>1, <3>3, <4>1, <5>1, <6>1
          <5> QED BY <1>1, <4>1, <5>2, <5>3
        <4> QED BY <1>1, <4>2, <4>3
      <3>5. ToSet(g) \subseteq ToSet(f) \union {e}
        BY <1>1, <3>2 DEF ToSet
      <3>6. AsGood(g[n + 1], e) /\ n + 1 \in 1 .. Len(g)
        BY <1>1, <1>2, <3>2
      <3>7. \A i \in 1 .. n : i \in 1 .. Len(g) /\ AsGood(g[i], f[i])
        BY <1>1, <1>2, <3>2
      <3> QED BY <3>2, <3>4, <3>5, <3>6, <3>7
    <2> QED BY <2>2, <2>3, <2>4
  <1> QED BY <1>3, <1>4

(* A path that is not cheaper than the last one left changes nothing. *)
LEMMA NotAdmitted ==
  ASSUME NEW f \in Seq(Path), Falls(f), NEW e \in Path,
         NEW k \in 1 .. Len(f), AsGood(f[k], e)
  PROVE  Admit(f, e) = f
  <1> DEFINE n == Len(f)
  <1>1. n \in Nat /\ (\A i \in 1 .. n : f[i] \in Path) /\ n \in 1 .. n /\ f # <<>>
    BY LenProperties, EmptySeq
  <1>2. Last(f) = f[n]
    BY DEF Last
  <1>3. /\ f[n].e2e_delay_etx \in Nat /\ f[k].e2e_delay_etx \in Nat /\ e.e2e_delay_etx \in Nat
    BY <1>1, PathFields
  <1>4. f[n].e2e_delay_etx <= f[k].e2e_delay_etx
    <2>1. CASE k = n
      BY <1>3, <2>1
    <2>2. CASE k < n
      BY <1>1, <1>3, <2>2 DEF Falls
    <2> QED BY <1>1, <2>1, <2>2
  <1>5. e.e2e_delay_etx >= f[n].e2e_delay_etx
    BY <1>3, <1>4 DEF AsGood
  <1> QED BY <1>1, <1>2, <1>5 DEF Admit

(* As good as what is as good. *)
LEMMA AsGoodTransitive ==
  ASSUME NEW p \in Path, NEW q \in Path, NEW r \in Path, AsGood(p, q), AsGood(q, r)
  PROVE  AsGood(p, r)
  BY PathFields DEF AsGood

(* Whatever is filtered is a sequence of paths. *)
LEMMA AdmitType ==
  ASSUME NEW f \in Seq(Path), NEW e \in Path
  PROVE  Admit(f, e) \in Seq(Path)
  <1>1. f = <<>> \/ Front(f) \in Seq(Path)
    <2> SUFFICES ASSUME f # <<>> PROVE Front(f) \in Seq(Path)
      OBVIOUS
    <2>1. Len(f) \in Nat /\ Len(f) # 0 /\ \A i \in 1 .. Len(f) : f[i] \in Path
      BY LenProperties, EmptySeq
    <2>2. 1 \in Int /\ Len(f) - 1 \in Int /\ \A i \in 1 .. Len(f) - 1 : f[i] \in Path
      BY <2>1
    <2> QED BY <2>2, SubSeqProperties DEF Front
  <1>2. <<e>> \in Seq(Path) /\ \A h \in Seq(Path) : Append(h, e) \in Seq(Path)
    OBVIOUS
  <1> QED BY <1>1, <1>2 DEF Admit

(* The filter goes through the sorted part, and what follows changes nothing any more. *)
LEMMA FilterLeaves ==
  ASSUME NEW P, P \subseteq Path, Ready(e2eDelayEtxs, P)
  PROVE  Frontier(Filtered, P)
  <1> DEFINE e == e2eDelayEtxs
  <1>0. e \in Seq(Path) /\ ToSet(e) \subseteq P
    BY DEF Ready
  <1>1. PICK n \in Nat : n = Len(e)
    BY <1>0, LenProperties
  <1>2. DOMAIN e = 1 .. n /\ \A i \in 1 .. n : e[i] \in Path /\ e[i] \in P
    BY <1>0, <1>1, LenProperties DEF ToSet
  <1>3. PICK m \in 0 .. n : InOrder(Slow, e, m) /\ Covers(e, m, P)
    BY <1>1 DEF Ready
  <1> DEFINE S == Seq(Path)
             a == <<>>
             left[k \in 0 .. n] == IF k = 0 THEN a ELSE Admit(left[k - 1], e[k])
             D == [k \in 1 .. n |-> [s \in S |-> Admit(s, e[k])]]
  <1>4. Filtered = left[n]
    BY <1>1 DEF Filtered
  <1>5. a \in S /\ Len(a) = 0
    OBVIOUS
  <1>6. \A k \in 1 .. n, s \in S : Admit(s, e[k]) \in S
    BY <1>2, AdmitType
  <1>7. D \in [1 .. n -> [S -> S]] /\ \A k \in 1 .. n, s \in S : D[k][s] = Admit(s, e[k])
    BY <1>6
  <1> HIDE DEF a, D, S, e
  <1>8. PICK f \in [0 .. n -> S] : f = [k \in 0 .. n |-> IF k = 0 THEN a ELSE Admit(f[k - 1], e[k])]
    <2>1. PICK f \in [0 .. n -> S] : Recurs(f, n, a, D)
      BY <1>5, <1>7, Recursion
    <2>2. \A k \in 1 .. n : f[k] = Admit(f[k - 1], e[k])
      <3>1. \A k \in 1 .. n : f[k - 1] \in S
        OBVIOUS
      <3> QED BY <1>7, <2>1, <3>1 DEF Recurs
    <2>3. f = [k \in 0 .. n |-> IF k = 0 THEN a ELSE Admit(f[k - 1], e[k])]
      BY <2>1, <2>2 DEF Recurs
    <2> QED BY <2>3
  <1>9. left = [k \in 0 .. n |-> IF k = 0 THEN a ELSE Admit(left[k - 1], e[k])]
    BY <1>8
  <1> HIDE DEF left
  <1>10. left[0] = a /\ \A k \in 1 .. n : left[k] = Admit(left[k - 1], e[k])
    BY <1>9
  <1> DEFINE Sound(s, k) ==
               /\ s \in Seq(Path) /\ Falls(s)
               /\ \A i \in 1 .. Len(s) : \E j \in 1 .. k : s[i] = e[j]
               /\ \A i \in 1 .. k : \E j \in 1 .. Len(s) : AsGood(s[j], e[i])
  <1>11. Sound(left[0], 0)
    <2>1. left[0] \in Seq(Path) /\ Len(left[0]) = 0
      BY <1>5, <1>10 DEF S
    <2>2. Falls(left[0])
      BY <2>1 DEF Falls
    <2> QED BY <2>1, <2>2
  <1>13. ASSUME NEW k \in 1 .. n, k <= m, Sound(left[k - 1], k - 1)
         PROVE  Sound(left[k], k)
    <2>1. PICK s \in Seq(Path) : s = left[k - 1] /\ Sound(s, k - 1)
      BY <1>13
    <2>2. PICK p \in Path : p = e[k]
      BY <1>2
    <2>3. \A i \in 1 .. Len(s) : s[i].e2e_delay_qtl <= p.e2e_delay_qtl
      <3> SUFFICES ASSUME NEW i \in 1 .. Len(s) PROVE s[i].e2e_delay_qtl <= p.e2e_delay_qtl
        OBVIOUS
      <3>1. PICK j \in 1 .. k - 1 : s[i] = e[j]
        BY <2>1
      <3>2. j \in 1 .. m /\ k \in 1 .. m /\ j <= k /\ j \in 1 .. n
        BY <1>13
      <3>3. Slow[e[j]] <= Slow[e[k]]
        BY <1>3, <3>2 DEF InOrder
      <3> QED BY <1>2, <2>2, <3>1, <3>2, <3>3, PathFields
    <2>4. PICK t : t = Admit(s, p) /\ t = left[k]
      BY <1>10, <2>1, <2>2
    <2>5. /\ t \in Seq(Path) /\ Falls(t)
          /\ ToSet(t) \subseteq ToSet(s) \union {p}
          /\ \E j \in 1 .. Len(t) : AsGood(t[j], p)
          /\ \A i \in 1 .. Len(s) : \E j \in 1 .. Len(t) : AsGood(t[j], s[i])
      <3>1. Falls(s) /\ t = Admit(s, p)
        BY <2>1, <2>4
      <3> HIDE DEF Sound
      <3> QED BY <2>3, <3>1, Admitted
    <2>6. ASSUME NEW i \in 1 .. Len(t) PROVE \E j \in 1 .. k : t[i] = e[j]
      <3>0. DOMAIN t = 1 .. Len(t)
        BY <2>5, LenProperties
      <3>1. t[i] \in ToSet(t) /\ t[i] \in ToSet(s) \union {p}
        BY <2>5, <3>0 DEF ToSet
      <3>2. CASE t[i] = p
        BY <2>2, <3>2
      <3>3. CASE t[i] \in ToSet(s)
        <4>0. DOMAIN s = 1 .. Len(s)
          BY LenProperties
        <4>1. PICK h \in 1 .. Len(s) : t[i] = s[h]
          BY <3>3, <4>0 DEF ToSet
        <4>2. PICK j \in 1 .. k - 1 : s[h] = e[j]
          BY <2>1
        <4> QED BY <4>1, <4>2
      <3> QED BY <3>1, <3>2, <3>3
    <2>7. ASSUME NEW i \in 1 .. k PROVE \E j \in 1 .. Len(t) : AsGood(t[j], e[i])
      <3>1. CASE i = k
        BY <2>2, <2>5, <3>1
      <3>2. CASE i # k
        <4>1. i \in 1 .. k - 1 /\ i \in 1 .. n
          BY <3>2
        <4>2. PICK h \in 1 .. Len(s) : AsGood(s[h], e[i])
          BY <2>1, <4>1
        <4>3. PICK j \in 1 .. Len(t) : AsGood(t[j], s[h])
          BY <2>5
        <4>4. t[j] \in Path /\ s[h] \in Path /\ e[i] \in Path
          BY <1>2, <2>1, <2>5, <4>1, LenProperties
        <4>5. AsGood(t[j], e[i])
          BY <4>2, <4>3, <4>4, AsGoodTransitive
        <4> QED BY <4>5
      <3> QED BY <3>1, <3>2
    <2> QED BY <2>4, <2>5, <2>6, <2>7
  <1>14. ASSUME NEW k \in 1 .. n, k > m, Sound(left[m], m), left[k - 1] = left[m]
         PROVE  left[k] = left[m]
    <2>1. PICK s \in Seq(Path) : s = left[m] /\ Sound(s, m)
      BY <1>14
    <2>2. PICK p \in Path : p = e[k] /\ p \in P
      BY <1>2
    <2>3. PICK i \in 1 .. m : AsGood(e[i], p)
      BY <1>3, <2>2 DEF Covers
    <2>4. PICK j \in 1 .. Len(s) : AsGood(s[j], e[i])
      BY <2>1
    <2>5. s[j] \in Path /\ e[i] \in Path
      BY <1>2, LenProperties
    <2>6. AsGood(s[j], p)
      BY <2>3, <2>4, <2>5, AsGoodTransitive
    <2>7. Admit(s, p) = s
      BY <2>1, <2>6, NotAdmitted
    <2> QED BY <1>10, <1>14, <2>1, <2>2, <2>7
  <1> HIDE DEF Sound
  <1>15. 0 .. m \subseteq {k \in 0 .. m : Sound(left[k], k)}
    <2> DEFINE R == {k \in 0 .. m : Sound(left[k], k)}
    <2>1. 0 \in R
      BY <1>11
    <2>2. ASSUME NEW k \in 1 .. m, k - 1 \in R PROVE k \in R
      BY <1>13, <2>2
    <2> HIDE DEF R
    <2>3. 0 .. m \subseteq R
      BY <2>1, <2>2, Upward
    <2> QED BY <2>3 DEF R
  <1>16. Sound(left[m], m)
    BY <1>15
  <1>17. left[n] = left[m]
    <2> DEFINE R == {k \in 0 .. n : k >= m => left[k] = left[m]}
    <2>1. 0 \in R
      OBVIOUS
    <2>2. ASSUME NEW k \in 1 .. n, k - 1 \in R PROVE k \in R
      <3>1. CASE k > m
        BY <1>14, <1>16, <2>2, <3>1
      <3>2. CASE k <= m
        BY <3>2
      <3> QED BY <3>1, <3>2
    <2> HIDE DEF R
    <2>3. 0 .. n \subseteq R
      BY <2>1, <2>2, Upward
    <2> QED BY <2>3 DEF R
  <1>18. PICK s \in Seq(Path) : s = Filtered /\ Sound(s, m)
    BY <1>4, <1>16, <1>17 DEF Sound
  <1>19. ToSet(s) \subseteq P
    <2>1. \A i \in 1 .. Len(s) : s[i] \in P
      BY <1>2, <1>18 DEF Sound
    <2> QED BY <2>1, LenProperties DEF ToSet
  <1>20. Covers(s, Len(s), P)
    <2> SUFFICES ASSUME NEW p \in P PROVE \E j \in 1 .. Len(s) : AsGood(s[j], p)
      BY DEF Covers
    <2>1. PICK i \in 1 .. m : AsGood(e[i], p)
      BY <1>3 DEF Covers
    <2>2. PICK j \in 1 .. Len(s) : AsGood(s[j], e[i])
      BY <1>18 DEF Sound
    <2>3. s[j] \in Path /\ e[i] \in Path /\ p \in Path
      BY <1>2, LenProperties
    <2> QED BY <2>1, <2>2, <2>3, AsGoodTransitive
  <1> QED BY <1>18, <1>19, <1>20 DEF Frontier, Sound

\* The buffer after the filter: what is left is written over its start.
Refilled(e, f) == f \o SubSeq(e, Len(f) + 1, Len(e))

(* What is filtered in place can be filtered again. *)
LEMMA ReadyAgain ==
  ASSUME NEW P, P \subseteq Path, NEW e \in Seq(Path), ToSet(e) \subseteq P,
         NEW f, Frontier(f, P),
         NEW g, g = Refilled(e, f)
  PROVE  Ready(g, P)
  <1>1. PICK n \in Nat : n = Len(f)
    BY LenProperties DEF Frontier
  <1>2. /\ f \in Seq(Path) /\ ToSet(f) \subseteq P /\ Falls(f) /\ Covers(f, n, P)
    BY <1>1 DEF Frontier
  <1>3. PICK l \in Nat : l = Len(e)
    BY LenProperties
  <1>4. DOMAIN e = 1 .. l /\ DOMAIN f = 1 .. n
    BY <1>1, <1>2, <1>3, LenProperties
  <1>5. (\A i \in 1 .. l : e[i] \in P /\ e[i] \in Path) /\ \A i \in 1 .. n : f[i] \in P /\ f[i] \in Path
    <2>1. \A i \in 1 .. l : e[i] \in ToSet(e)
      BY <1>4 DEF ToSet
    <2>2. \A i \in 1 .. n : f[i] \in ToSet(f)
      BY <1>4 DEF ToSet
    <2> QED BY <1>2, <2>1, <2>2
  <1>6. PICK r : r = SubSeq(e, n + 1, l) /\ g = f \o r
    BY <1>1, <1>3 DEF Refilled
  <1>7. r \in Seq(Path) /\ \A i \in 1 .. Len(r) : r[i] \in P
    <2>1. n + 1 \in Int /\ l \in Int /\ \A i \in n + 1 .. l : e[i] \in P
      BY <1>5
    <2>2. r \in Seq(P)
      BY <1>6, <2>1, SubSeqProperties
    <2> QED BY <2>2, LenProperties
  <1>8. PICK k \in Nat : k = Len(r)
    BY <1>7, LenProperties
  <1>9. /\ g \in Seq(Path) /\ Len(g) = n + k /\ DOMAIN g = 1 .. n + k
        /\ \A i \in 1 .. n + k : g[i] = IF i <= n THEN f[i] ELSE r[i - n]
    BY <1>1, <1>2, <1>6, <1>7, <1>8, ConcatProperties, LenProperties
  <1>10. \A i \in 1 .. n : g[i] = f[i]
    BY <1>9
  <1>11. \A i \in 1 .. n + k : g[i] \in P
    <2> SUFFICES ASSUME NEW i \in 1 .. n + k PROVE g[i] \in P
      OBVIOUS
    <2>1. CASE i <= n
      BY <1>5, <1>10, <2>1
    <2>2. CASE i > n
      <3>1. i - n \in 1 .. k /\ g[i] = r[i - n]
        BY <1>9, <2>2
      <3> QED BY <1>7, <1>8, <3>1
    <2> QED BY <2>1, <2>2
  <1>12. ToSet(g) \subseteq P
    BY <1>9, <1>11 DEF ToSet
  <1>13. InOrder(Slow, g, n)
    <2> SUFFICES ASSUME NEW i \in 1 .. n, NEW j \in 1 .. n, i <= j
                 PROVE  Slow[g[i]] <= Slow[g[j]]
      BY DEF InOrder
    <2>1. g[i] = f[i] /\ g[j] = f[j] /\ f[i] \in Path /\ f[j] \in Path
      BY <1>5, <1>10
    <2>2. /\ Slow[f[i]] = f[i].e2e_delay_qtl /\ Slow[f[j]] = f[j].e2e_delay_qtl
          /\ f[i].e2e_delay_qtl \in Nat /\ f[j].e2e_delay_qtl \in Nat
      BY <2>1, PathFields
    <2>3. CASE i = j
      BY <2>1, <2>2, <2>3
    <2>4. CASE i < j
      <3>1. f[i].e2e_delay_qtl < f[j].e2e_delay_qtl
        BY <1>1, <1>2, <2>4 DEF Falls
      <3> QED BY <2>1, <2>2, <3>1
    <2> QED BY <2>3, <2>4
  <1>14. Covers(g, n, P)
    BY <1>2, <1>10 DEF Covers
  <1>15. n \in 0 .. Len(g)
    BY <1>9
  <1> QED BY <1>9, <1>12, <1>13, <1>14, <1>15 DEF Ready

\* The paths of P that meet the deadline d, and the cheapest of them.
InTime(P, d) == {p \in P : p.nlq_e2e_delay_qtl <= d}
Cheapest(P) == {p \in P : \A q \in P : p.e2e_delay_etx <= q.e2e_delay_etx}

(* The next hop is that of a cheapest path in time, if there is one. *)
LEMMA NextHopIsBest ==
  ASSUME e2eDelayEtxs \in Seq(Path), NEW d \in Nat,
         NEW T, T = InTime(ToSet(e2eDelayEtxs), d)
  PROVE  IF T = {} THEN NextHopOf(d) = INVALID_ADDR
         ELSE NextHopOf(d) \in {p.nb : p \in Cheapest(T)}
  <1> DEFINE e == e2eDelayEtxs
             within == {i \in DOMAIN e : e[i].nlq_e2e_delay_qtl <= d}
             best == {i \in within : \A k \in within : e[i].e2e_delay_etx <= e[k].e2e_delay_etx}
  <1>1. PICK n \in Nat : n = Len(e) /\ DOMAIN e = 1 .. n /\ \A i \in 1 .. n : e[i] \in Path
    BY LenProperties
  <1>2. \A i \in 1 .. n : e[i].nlq_e2e_delay_qtl \in Nat /\ e[i].e2e_delay_etx \in Nat
    BY <1>1, PathFields
  <1>3. T = {e[i] : i \in within}
    BY <1>1 DEF InTime, ToSet
  <1>4. NextHopOf(d) = IF within = {} THEN INVALID_ADDR ELSE e[Min(best)].nb
    BY DEF NextHopOf
  <1>5. within \subseteq 1 .. n
    BY <1>1
  <1>6. CASE within = {}
    BY <1>3, <1>4, <1>6
  <1>7. CASE within # {}
    <2> DEFINE C == {e[i].e2e_delay_etx : i \in within}
    <2>1. C \subseteq Nat /\ C # {}
      BY <1>2, <1>5, <1>7
    <2>2. Min(C) \in C /\ \A c \in C : Min(C) <= c
      BY <2>1, MinOf
    <2>3. PICK i \in within : e[i].e2e_delay_etx = Min(C)
      BY <2>2
    <2>4. \A k \in within : e[i].e2e_delay_etx <= e[k].e2e_delay_etx
      BY <2>2, <2>3
    <2>5. i \in best /\ best \subseteq Nat
      BY <1>5, <2>4
    <2>6. Min(best) \in best
      <3> HIDE DEF best
      <3> QED BY <2>5, MinOf
    <2>7. PICK j \in within : /\ j = Min(best)
                              /\ \A k \in within : e[j].e2e_delay_etx <= e[k].e2e_delay_etx
      BY <2>6
    <2>8. e[j] \in Cheapest(T)
      BY <1>3, <2>7 DEF Cheapest
    <2>9. NextHopOf(d) = e[j].nb /\ T # {}
      BY <1>3, <1>4, <1>7, <2>7
    <2> QED BY <2>8, <2>9
  <1> QED BY <1>6, <1>7

-----------------------------------------------------------------------------
(* The levels that are passed on. *)

\* n increasing indices of a sequence of L, with the first and the last one.
Spread(idxs, n, L) == /\ idxs \in Seq(1 .. L) /\ Len(idxs) = n
                      /\ \A i \in 1 .. n - 1 : idxs[i] < idxs[i + 1]
                      /\ n > 0 => idxs[1] = 1 /\ idxs[n] = L

\* The index after b goes, c comes in at p.
Replaced(idxs, b, p, c) == InsertAt(RemoveAt(idxs, b + 1), p, c)

(* An index between two neighbours replaces one elsewhere. *)
LEMMA ReplacedSpread ==
  ASSUME NEW L \in Nat, NEW n \in Nat, NEW idxs, Spread(idxs, n, L),
         NEW a \in 1 .. n - 1, NEW b \in 1 .. n - 2, a # b,
         NEW c \in Nat, idxs[a] < c, c < idxs[a + 1],
         NEW p \in Nat, b > a => p = a + 1, b < a => p = a,
         NEW r, r = Replaced(idxs, b, p, c)
  PROVE  Spread(r, n, L)
  <1>1. /\ idxs \in Seq(1 .. L) /\ Len(idxs) = n
        /\ \A i \in 1 .. n - 1 : idxs[i] < idxs[i + 1]
        /\ idxs[1] = 1 /\ idxs[n] = L
    BY DEF Spread
  <1>2. \A i \in 1 .. n : idxs[i] \in 1 .. L
    BY <1>1, LenProperties
  <1>3. c \in 1 .. L
    <2>1. a \in 1 .. n /\ a + 1 \in 1 .. n
      OBVIOUS
    <2>2. idxs[a] \in 1 .. L /\ idxs[a + 1] \in 1 .. L
      BY <1>2, <2>1
    <2> QED BY <2>2
  <1> DEFINE q == RemoveAt(idxs, b + 1)
  <1>0. r = InsertAt(q, p, c)
    BY DEF Replaced
  <1> DEFINE S == 1 .. L
  <1>3a. idxs \in Seq(S) /\ c \in S
    BY <1>1, <1>3
  <1> HIDE DEF S
  <1>4. /\ q \in Seq(S) /\ Len(q) = n - 1
        /\ \A j \in 1 .. n - 1 : q[j] = IF j < b + 1 THEN idxs[j] ELSE idxs[j + 1]
    <2>1. b + 1 \in 1 .. Len(idxs)
      BY <1>1
    <2>2. /\ RemoveAt(idxs, b + 1) \in Seq(S)
          /\ Len(RemoveAt(idxs, b + 1)) = Len(idxs) - 1
          /\ \A j \in 1 .. Len(idxs) - 1 :
               RemoveAt(idxs, b + 1)[j] = IF j < b + 1 THEN idxs[j] ELSE idxs[j + 1]
      BY <1>3a, <2>1, RemovedAt
    <2> QED BY <1>1, <2>2
  <1> HIDE DEF q
  <1>5. /\ r \in Seq(S) /\ Len(r) = n
        /\ \A i \in 1 .. n : r[i] = IF i < p THEN q[i] ELSE IF i = p THEN c ELSE q[i - 1]
    <2>1. p \in 1 .. Len(q) + 1 /\ Len(q) + 1 = n
      BY <1>4
    <2>2. /\ InsertAt(q, p, c) \in Seq(S) /\ Len(InsertAt(q, p, c)) = Len(q) + 1
          /\ \A i \in 1 .. Len(q) + 1 : InsertAt(q, p, c)[i] = IF i < p THEN q[i] ELSE IF i = p THEN c ELSE q[i - 1]
      BY <1>3a, <1>4, <2>1, InsertedAt
    <2> QED BY <1>0, <2>1, <2>2
  <1>6. /\ \A j \in 1 .. n - 1 : j <= b => q[j] = idxs[j]
        /\ \A j \in 1 .. n - 1 : j > b => q[j] = idxs[j + 1]
    BY <1>4
  <1>7. /\ \A i \in 1 .. n : i < p => r[i] = q[i]
        /\ r[p] = c
        /\ \A i \in 1 .. n : i > p => r[i] = q[i - 1]
    <2>1. p \in 1 .. n
      OBVIOUS
    <2> QED BY <1>5, <2>1
  <1>8. idxs[b] < idxs[b + 2]
    <2>1. /\ b \in 1 .. n - 1 /\ b + 1 \in 1 .. n - 1 /\ (b + 1) + 1 = b + 2
          /\ b \in 1 .. n /\ b + 1 \in 1 .. n /\ b + 2 \in 1 .. n
      OBVIOUS
    <2>2. idxs[b] < idxs[b + 1] /\ idxs[b + 1] < idxs[b + 2]
      BY <1>1, <2>1
    <2>3. idxs[b] \in 1 .. L /\ idxs[b + 1] \in 1 .. L /\ idxs[b + 2] \in 1 .. L
      BY <1>2, <2>1
    <2> QED BY <2>2, <2>3
  <1>9. \A i \in 1 .. n - 2 : q[i] < q[i + 1]
    <2> SUFFICES ASSUME NEW i \in 1 .. n - 2 PROVE q[i] < q[i + 1]
      OBVIOUS
    <2>1. i \in 1 .. n - 1 /\ i + 1 \in 1 .. n - 1 /\ (i + 1) + 1 = i + 2
      OBVIOUS
    <2>2. CASE i < b
      <3>1. q[i] = idxs[i] /\ q[i + 1] = idxs[i + 1]
        BY <1>6, <2>1, <2>2
      <3> QED BY <1>1, <2>1, <3>1
    <2>3. CASE i = b
      <3>1. q[i] = idxs[b] /\ q[i + 1] = idxs[b + 2]
        BY <1>6, <2>1, <2>3
      <3> QED BY <1>8, <3>1
    <2>4. CASE i > b
      <3>1. q[i] = idxs[i + 1] /\ q[i + 1] = idxs[(i + 1) + 1]
        BY <1>6, <2>1, <2>4
      <3> QED BY <1>1, <2>1, <3>1
    <2> QED BY <2>2, <2>3, <2>4
  <1>10. p \in 2 .. n - 1 /\ q[p - 1] < c /\ c < q[p]
    <2>1. CASE b > a
      <3>1. p = a + 1 /\ p - 1 = a /\ a <= b /\ a + 1 <= b /\ a \in 1 .. n - 1 /\ a + 1 \in 1 .. n - 1
        BY <2>1
      <3>2. q[p - 1] = idxs[a] /\ q[p] = idxs[a + 1]
        BY <1>6, <3>1
      <3> QED BY <3>1, <3>2
    <2>2. CASE b < a
      <3>1. p = a /\ a > b /\ p \in 2 .. n - 1 /\ a - 1 \in 1 .. n - 1
        BY <2>2
      <3>2. q[p] = idxs[a + 1]
        BY <1>6, <3>1
      <3>3. CASE a - 1 > b
        <4>1. q[p - 1] = idxs[(a - 1) + 1] /\ (a - 1) + 1 = a
          BY <1>6, <3>1, <3>3
        <4> QED BY <3>1, <3>2, <4>1
      <3>4. CASE a - 1 = b
        <4>1. q[p - 1] = idxs[b]
          BY <1>6, <3>1, <3>4
        <4>2. idxs[b] < idxs[a]
          <5>1. b + 1 = a /\ b \in 1 .. n - 1
            BY <3>4
          <5> QED BY <1>1, <5>1
        <4>3. idxs[b] \in 1 .. L /\ idxs[a] \in 1 .. L
          BY <1>2
        <4> QED BY <3>1, <3>2, <4>1, <4>2, <4>3
      <3> QED BY <3>1, <3>3, <3>4
    <2> QED BY <2>1, <2>2
  <1>11. ASSUME NEW i \in 1 .. n - 1 PROVE r[i] < r[i + 1]
    <2>1. i \in 1 .. n /\ i + 1 \in 1 .. n /\ (i + 1) - 1 = i
      OBVIOUS
    <2>2. CASE i + 1 < p
      <3>1. r[i] = q[i] /\ r[i + 1] = q[i + 1] /\ i \in 1 .. n - 2
        BY <1>7, <1>10, <2>1, <2>2
      <3> QED BY <1>9, <3>1
    <2>3. CASE i + 1 = p
      <3>1. i = p - 1 /\ i < p
        BY <1>10, <2>1, <2>3
      <3>2. r[i] = q[p - 1] /\ r[i + 1] = c
        BY <1>7, <2>1, <2>3, <3>1
      <3> QED BY <1>10, <3>2
    <2>4. CASE i = p
      <3>1. r[i] = c /\ r[i + 1] = q[p]
        BY <1>7, <1>10, <2>1, <2>4
      <3> QED BY <1>10, <3>1
    <2>5. CASE i > p
      <3>1. r[i] = q[i - 1] /\ r[i + 1] = q[(i - 1) + 1] /\ i - 1 \in 1 .. n - 2
        BY <1>7, <1>10, <2>1, <2>5
      <3> QED BY <1>9, <3>1
    <2> QED BY <1>10, <2>2, <2>3, <2>4, <2>5
  <1>12. r[1] = 1 /\ r[n] = L
    <2>1. 1 \in 1 .. n /\ n \in 1 .. n /\ 1 < p /\ n > p /\ 1 \in 1 .. n - 1 /\ n - 1 \in 1 .. n - 1
          /\ 1 <= b /\ n - 1 > b /\ (n - 1) + 1 = n
      BY <1>10
    <2>2. r[1] = q[1] /\ r[n] = q[n - 1]
      BY <1>7, <2>1
    <2>3. q[1] = idxs[1] /\ q[n - 1] = idxs[n]
      BY <1>6, <2>1
    <2> QED BY <1>1, <2>2, <2>3
  <1> QED BY <1>5, <1>11, <1>12 DEF Spread, S

(* A round of the aggregation keeps the indices spread. *)
LEMMA RebalancedSpread ==
  ASSUME NEW f \in Seq(Path), NEW L \in Nat, L = Len(f),
         NEW n \in Nat, n > 1, NEW idxs, Spread(idxs, n, L)
  PROVE  Spread(Rebalanced(f, idxs), n, L)
  <1> DEFINE gap(i, m) == Gap(f, idxs, i, m)
             far == {i \in 1 .. Len(idxs) - 1 :
                       \A k \in 1 .. Len(idxs) - 1 : gap(k, 1) <= gap(i, 1)}
             close == {i \in 1 .. Len(idxs) - 2 :
                         \A k \in 1 .. Len(idxs) - 2 : gap(k, 2) >= gap(i, 2)}
             m1 == Farthest(f, idxs)
             m2 == Closest(f, idxs)
             mid == (idxs[m1] + idxs[m1 + 1]) \div 2
             p == IF m2 > m1 THEN m1 + 1 ELSE m1
             same == \/ Len(idxs) <= 2 \/ idxs[m1 + 1] - idxs[m1] <= 1
                     \/ gap(m1, 1) < 3 * gap(m2, 2) \/ m1 = m2
  <1>1. Rebalanced(f, idxs) = idxs \/ (~ same /\ Rebalanced(f, idxs) = Replaced(idxs, m2, p, mid))
    BY DEF Rebalanced, Replaced
  <1>0. m1 = Min(far) /\ m2 = Min(close)
    BY DEF Farthest, Closest
  <1>2. /\ Len(idxs) = n /\ \A i \in 1 .. n : idxs[i] \in 1 .. L
        /\ \A i \in 1 .. n - 1 : idxs[i] < idxs[i + 1]
    BY LenProperties DEF Spread
  <1>3. \A i \in 1 .. n : f[idxs[i]].e2e_delay_qtl \in Nat
    <2> SUFFICES ASSUME NEW i \in 1 .. n PROVE f[idxs[i]].e2e_delay_qtl \in Nat
      OBVIOUS
    <2>1. \A j \in 1 .. L : f[j] \in Path
      BY LenProperties
    <2>2. f[idxs[i]] \in Path
      BY <1>2, <2>1
    <2> QED BY <2>2, PathFields
  <1>4. (\A i \in 1 .. n - 1 : gap(i, 1) \in Int) /\ \A i \in 1 .. n - 2 : gap(i, 2) \in Int
    <2>1. \A i \in 1 .. n - 1 : i \in 1 .. n /\ i + 1 \in 1 .. n
      OBVIOUS
    <2>2. \A i \in 1 .. n - 2 : i \in 1 .. n /\ i + 2 \in 1 .. n
      OBVIOUS
    <2> QED BY SMTT(30), <1>3, <2>1, <2>2 DEF Gap
  <1> HIDE DEF gap
  <1>5. m1 \in 1 .. n - 1
    <2> DEFINE g == [i \in 1 .. n - 1 |-> gap(i, 1)]
               k == n - 1
    <2>1. g \in [1 .. k -> Int] /\ k \in Nat \ {0}
      BY <1>4
    <2>2. \A i \in 1 .. k : g[i] = gap(i, 1)
      OBVIOUS
    <2> HIDE DEF g, k
    <2>3. PICK i \in 1 .. k : \A j \in 1 .. k : g[j] <= g[i]
      BY <2>1, Largest
    <2>4. i \in far
      BY <1>2, <2>2, <2>3 DEF k
    <2>5. far \subseteq Nat /\ far \subseteq 1 .. n - 1
      BY <1>2
    <2> HIDE DEF far
    <2>6. Min(far) \in far
      BY <2>4, <2>5, MinOf
    <2> QED BY <1>0, <2>5, <2>6
  <1>6. n > 2 => m2 \in 1 .. n - 2
    <2> SUFFICES ASSUME n > 2 PROVE m2 \in 1 .. n - 2
      OBVIOUS
    <2> DEFINE g == [i \in 1 .. n - 2 |-> gap(i, 2)]
               k == n - 2
    <2>1. g \in [1 .. k -> Int] /\ k \in Nat \ {0}
      BY <1>2, <1>4
    <2>2. \A i \in 1 .. k : g[i] = gap(i, 2)
      OBVIOUS
    <2> HIDE DEF g
    <2>7. \A i \in 1 .. k : g[i] \in Int
      BY <2>1
    <2> HIDE DEF k
    <2>3. PICK i \in 1 .. k : \A j \in 1 .. k : g[i] <= g[j]
      BY <2>1, Smallest
    <2>8. \A j \in 1 .. k : gap(j, 2) >= gap(i, 2)
      BY <2>2, <2>3, <2>7
    <2>4. i \in close
      BY <1>2, <2>8 DEF k
    <2>5. close \subseteq Nat /\ close \subseteq 1 .. n - 2
      BY <1>2
    <2> HIDE DEF close
    <2>6. Min(close) \in close
      BY <2>4, <2>5, MinOf
    <2> QED BY <1>0, <2>5, <2>6
  <1> HIDE DEF m1, m2, far, close
  <1>7. ASSUME ~ same, Rebalanced(f, idxs) = Replaced(idxs, m2, p, mid)
        PROVE  Spread(Rebalanced(f, idxs), n, L)
    <2>1. m1 \in 1 .. n - 1 /\ m2 \in 1 .. n - 2 /\ m1 # m2
          /\ ~ (idxs[m1 + 1] - idxs[m1] <= 1)
      BY <1>2, <1>5, <1>6, <1>7
    <2>2. PICK x \in Nat, y \in Nat : x = idxs[m1] /\ y = idxs[m1 + 1]
      <3>1. m1 \in 1 .. n /\ m1 + 1 \in 1 .. n
        BY <2>1
      <3> QED BY <1>2, <3>1
    <2>3. PICK c \in Nat : c = mid /\ x < c /\ c < y
      <3>1. PICK h \in Nat : h = (x + y) \div 2
        BY <2>2
      <3>2. x + 1 < y
        BY <2>1, <2>2
      <3>3. x < h /\ h < y
        BY <3>1, <3>2
      <3> QED BY <2>2, <3>1, <3>3
    <2>4. PICK q \in Nat : q = p /\ (m2 > m1 => q = m1 + 1) /\ (m2 < m1 => q = m1)
      BY <2>1
    <2> HIDE DEF same, mid, p
    <2>5. PICK r : r = Replaced(idxs, m2, q, c)
      OBVIOUS
    <2>6. Spread(r, n, L)
      BY <2>1, <2>2, <2>3, <2>4, <2>5, ReplacedSpread
    <2> QED BY <1>7, <2>3, <2>4, <2>5, <2>6
  <1> QED BY <1>1, <1>7

(* Evenly spread indices of more paths than may be passed on, balanced. *)
LEMMA ChosenSpread ==
  ASSUME NEW f \in Seq(Path), world.levels \in Nat, world.levels > 1, Len(f) > world.levels
  PROVE  Spread(Chosen(f), world.levels, Len(f))
  <1>1. PICK L \in Nat : L = Len(f)
    BY LenProperties
  <1>2. PICK n \in Nat : n = world.levels /\ n > 1 /\ L > n
    BY <1>1
  <1>3. PICK d \in Nat : d = (L - 1) \div (n - 1) /\ d >= 1 /\ d * (n - 1) <= L - 1
    <2>1. PICK a \in Nat, b \in Nat : a = L - 1 /\ b = n - 1 /\ b > 0 /\ a >= b
      BY <1>2
    <2>2. PICK d \in Nat, m \in Nat : d = a \div b /\ m = a % b /\ m < b
      BY <2>1
    <2>3. a = b * d + m
      BY <2>1, <2>2
    <2>4. d >= 1
      <3> SUFFICES ASSUME d = 0 PROVE FALSE
        OBVIOUS
      <3>1. b * d = 0
        OBVIOUS
      <3> QED BY <2>1, <2>2, <2>3, <3>1
    <2>5. d * b <= a
      <3>1. d * b \in Nat /\ b * d = d * b
        OBVIOUS
      <3> QED BY <2>2, <2>3, <3>1
    <2> QED BY <2>1, <2>2, <2>4, <2>5
  <1> DEFINE even == [i \in 1 .. n |-> IF i = n THEN L ELSE d * (i - 1) + 1]
  <1>4. Chosen(f) = Rebalanced(f, Rebalanced(f, Rebalanced(f, even)))
    BY <1>1, <1>2, <1>3 DEF Chosen
  <1>5. \A i \in 1 .. n - 1 : d * (i - 1) + 1 \in Nat /\ 1 <= d * (i - 1) + 1
                              /\ d * (i - 1) + 1 < d * i + 1
    <2> SUFFICES ASSUME NEW i \in 1 .. n - 1
                 PROVE  d * (i - 1) + 1 \in Nat /\ 1 <= d * (i - 1) + 1
                        /\ d * (i - 1) + 1 < d * i + 1
      OBVIOUS
    <2>1. PICK k \in Nat : k = i - 1 /\ i = k + 1
      OBVIOUS
    <2>2. PICK a \in Nat : a = d * k
      OBVIOUS
    <2>3. d * (k + 1) = a + d
      BY <2>2
    <2> QED BY SMTT(30), <1>3, <2>1, <2>2, <2>3
  <1>6. \A i \in 1 .. n - 1 : d * (i - 1) + 1 < L
    <2> SUFFICES ASSUME NEW i \in 1 .. n - 1 PROVE d * (i - 1) + 1 < L
      OBVIOUS
    <2>1. PICK k \in Nat, m \in Nat : k = i - 1 /\ m = (n - 1) - k /\ n - 1 = k + m /\ m >= 1
      OBVIOUS
    <2>2. PICK a \in Nat, b \in Nat : a = d * k /\ b = d * m
      OBVIOUS
    <2>3. d * (n - 1) = a + b
      BY <2>1, <2>2
    <2>4. b >= d
      <3>1. PICK m0 \in Nat : m = m0 + 1
        BY <2>1
      <3>2. d * m0 \in Nat /\ d * (m0 + 1) = d * m0 + d
        OBVIOUS
      <3> QED BY <2>2, <3>1, <3>2
    <2> QED BY SMTT(30), <1>2, <1>3, <2>1, <2>2, <2>3, <2>4
  <1>7. Spread(even, n, L)
    <2>1. \A i \in 1 .. n : (IF i = n THEN L ELSE d * (i - 1) + 1) \in 1 .. L
      <3> SUFFICES ASSUME NEW i \in 1 .. n
                   PROVE  (IF i = n THEN L ELSE d * (i - 1) + 1) \in 1 .. L
        OBVIOUS
      <3>1. CASE i = n
        BY <1>2, <3>1
      <3>2. CASE i # n
        <4>1. i \in 1 .. n - 1
          BY <3>2
        <4>2. PICK v \in Nat : v = d * (i - 1) + 1 /\ 1 <= v /\ v < L
          BY <1>5, <1>6, <4>1
        <4> QED BY <3>2, <4>2
      <3> QED BY <3>1, <3>2
    <2>2. even \in Seq(1 .. L) /\ Len(even) = n
      BY <2>1, IsASeq, LenProperties
    <2>3. ASSUME NEW i \in 1 .. n - 1 PROVE even[i] < even[i + 1]
      <3>1. even[i] = d * (i - 1) + 1
        OBVIOUS
      <3>2. CASE i + 1 = n
        BY <1>6, <3>1, <3>2
      <3>3. CASE i + 1 # n
        <4>1. even[i + 1] = d * i + 1
          <5>1. i + 1 \in 1 .. n /\ (i + 1) - 1 = i
            OBVIOUS
          <5> QED BY <3>3, <5>1
        <4> QED BY <1>5, <3>1, <4>1
      <3> QED BY <3>2, <3>3
    <2>4. even[1] = 1 /\ even[n] = L
      <3>1. d * 0 = 0 /\ 1 \in 1 .. n /\ n \in 1 .. n /\ 1 # n
        BY <1>2
      <3> QED BY <3>1
    <2> HIDE DEF even
    <2> QED BY <2>2, <2>3, <2>4 DEF Spread
  <1> HIDE DEF even
  <1>8. Spread(Rebalanced(f, even), n, L)
    BY <1>1, <1>2, <1>7, RebalancedSpread
  <1>9. Spread(Rebalanced(f, Rebalanced(f, even)), n, L)
    BY <1>1, <1>2, <1>8, RebalancedSpread
  <1>10. Spread(Rebalanced(f, Rebalanced(f, Rebalanced(f, even))), n, L)
    BY <1>1, <1>2, <1>9, RebalancedSpread
  <1> QED BY <1>1, <1>2, <1>4, <1>10

(* What may be advertised. *)
LEMMA LevelType ==
  ASSUME NEW p \in Path
  PROVE  Level(p) \in delay_etx_t
  <1>1. p.e2e_delay_mean \in Nat /\ p.e2e_delay_var \in Nat /\ p.e2e_delay_etx \in Nat
    BY PathFields
  <1>2. /\ Saturated(p.e2e_delay_mean) \in 0 .. MAX_UINT16
        /\ Saturated(p.e2e_delay_var) \in 0 .. MAX_UINT16
        /\ Saturated(p.e2e_delay_etx) \in 0 .. MAX_UINT16
    BY <1>1, SaturatedType
  <1> QED BY <1>2 DEF Level, delay_etx_t

LEMMA UnknownType == Unknown \in delay_etx_t
  <1>1. MAX_UINT16 \in 0 .. MAX_UINT16
    BY Max16
  <1> QED BY <1>1 DEF Unknown, delay_etx_t

\* The numbers of the paths that are passed on, when n of f are.
Picks(idxs, f, n, N) ==
  /\ Spread(idxs, n, Len(f))
  /\ \A i \in 1 .. n : Advertise(f)[i] = Level(f[idxs[i]])
  /\ \A i \in n + 1 .. N : Advertise(f)[i] = Unknown

(* As many paths as there is room for are passed on, the rest is unknown. *)
LEMMA Advertised ==
  ASSUME NEW f \in Seq(Path), NEW N \in Nat, N = world.levels, N > 1,
         NEW L \in Nat, L = Len(f), NEW n \in Nat, n = IF N <= L THEN N ELSE L
  PROVE  /\ Advertise(f) \in [1 .. N -> delay_etx_t]
         /\ \E idxs : Picks(idxs, f, n, N)
  <1>1. PICK idxs : /\ Spread(idxs, n, L)
                    /\ Advertise(f) = [i \in 1 .. N |-> IF i <= Len(idxs) THEN Level(f[idxs[i]])
                                                        ELSE Unknown]
    <2> DEFINE all == [i \in 1 .. L |-> i]
    <2>1. Advertise(f) =
            LET idxs == IF L <= N THEN all ELSE Chosen(f)
            IN [i \in 1 .. N |-> IF i <= Len(idxs) THEN Level(f[idxs[i]]) ELSE Unknown]
      BY DEF Advertise
    <2>2. CASE L <= N
      <3>1. n = L
        BY <2>2
      <3>2. all \in Seq(1 .. L) /\ Len(all) = L
        <4>1. \A i \in 1 .. L : i \in 1 .. L
          OBVIOUS
        <4> QED BY <4>1, IsASeq, LenProperties
      <3>3. \A i \in 1 .. L : all[i] = i
        OBVIOUS
      <3> HIDE DEF all
      <3>4. \A i \in 1 .. L - 1 : all[i] < all[i + 1]
        <4> SUFFICES ASSUME NEW i \in 1 .. L - 1 PROVE all[i] < all[i + 1]
          OBVIOUS
        <4>1. i \in 1 .. L /\ i + 1 \in 1 .. L
          OBVIOUS
        <4> QED BY <3>3, <4>1
      <3>5. L > 0 => all[1] = 1 /\ all[L] = L
        BY <3>3
      <3>6. Spread(all, n, L)
        BY <3>1, <3>2, <3>4, <3>5 DEF Spread
      <3> QED BY <2>1, <2>2, <3>6
    <2>3. CASE ~ (L <= N)
      <3>1. n = N /\ L > N
        BY <2>3
      <3>2. Spread(Chosen(f), n, L)
        BY <3>1, ChosenSpread
      <3> HIDE DEF all
      <3> QED BY <2>1, <2>3, <3>2
    <2> QED BY <2>2, <2>3
  <1>2. Len(idxs) = n /\ \A i \in 1 .. n : idxs[i] \in 1 .. L
    BY <1>1, LenProperties DEF Spread
  <1>3. \A i \in 1 .. L : f[i] \in Path
    BY LenProperties
  <1>4. ASSUME NEW i \in 1 .. N PROVE Advertise(f)[i] \in delay_etx_t
    <2>1. CASE i <= n
      <3>1. i \in 1 .. n
        BY <2>1
      <3>2. Level(f[idxs[i]]) \in delay_etx_t
        BY <1>2, <1>3, <3>1, LevelType
      <3> QED BY <1>1, <1>2, <2>1, <3>2
    <2>2. CASE ~ (i <= n)
      BY <1>1, <1>2, <2>2, UnknownType
    <2> QED BY <2>1, <2>2
  <1>5. Advertise(f) \in [1 .. N -> delay_etx_t]
    BY <1>1, <1>4
  <1>6. n <= N
    OBVIOUS
  <1>7. \A i \in 1 .. n : Advertise(f)[i] = Level(f[idxs[i]])
    BY <1>1, <1>2, <1>6
  <1>8. \A i \in n + 1 .. N : Advertise(f)[i] = Unknown
    <2> SUFFICES ASSUME NEW i \in n + 1 .. N PROVE Advertise(f)[i] = Unknown
      OBVIOUS
    <2>1. i \in 1 .. N /\ ~ (i <= n)
      OBVIOUS
    <2> QED BY <1>1, <1>2, <2>1
  <1>9. Picks(idxs, f, n, N)
    BY <1>1, <1>7, <1>8 DEF Picks
  <1> QED BY <1>5, <1>9

(* What the filter leaves is what no other path dominates. *)
LEMMA FrontierUndominated ==
  ASSUME NEW P, P \subseteq Path, NEW f, Frontier(f, P), NEW L \in Nat, L = Len(f)
  PROVE  /\ \A k \in 1 .. L : f[k] \in Undominated(P)
         /\ \A p \in Undominated(P) : \E k \in 1 .. L :
              f[k].e2e_delay_qtl = p.e2e_delay_qtl /\ f[k].e2e_delay_etx = p.e2e_delay_etx
  <1>1. f \in Seq(Path) /\ Falls(f) /\ Covers(f, L, P) /\ DOMAIN f = 1 .. L
    BY LenProperties DEF Frontier
  <1>2. \A k \in 1 .. L : f[k] \in P
    BY <1>1 DEF Frontier, ToSet
  <1>3. \A p \in P : p.e2e_delay_qtl \in Nat /\ p.e2e_delay_etx \in Nat
    BY PathFields
  <1>4. ASSUME NEW k \in 1 .. L PROVE f[k] \in Undominated(P)
    <2> SUFFICES ASSUME NEW q \in P, q.e2e_delay_qtl <= f[k].e2e_delay_qtl,
                        q.e2e_delay_etx <= f[k].e2e_delay_etx
                 PROVE  q.e2e_delay_qtl = f[k].e2e_delay_qtl /\ q.e2e_delay_etx = f[k].e2e_delay_etx
      BY <1>2, <1>3 DEF Undominated
    <2>1. PICK i \in 1 .. L : AsGood(f[i], q)
      BY <1>1 DEF Covers
    <2>2. f[i] \in P /\ f[k] \in P
      BY <1>2
    <2>3. f[i].e2e_delay_qtl <= f[k].e2e_delay_qtl /\ f[i].e2e_delay_etx <= f[k].e2e_delay_etx
      BY <1>3, <2>1, <2>2 DEF AsGood
    <2>4. ~ (i < k) /\ ~ (k < i)
      <3>1. i < k => f[i].e2e_delay_etx > f[k].e2e_delay_etx
        BY <1>1 DEF Falls
      <3>2. k < i => f[k].e2e_delay_qtl < f[i].e2e_delay_qtl
        BY <1>1 DEF Falls
      <3> QED BY <1>3, <2>2, <2>3, <3>1, <3>2
    <2>5. i = k
      BY <2>4
    <2> QED BY <1>3, <2>1, <2>2, <2>5 DEF AsGood
  <1>5. ASSUME NEW p \in Undominated(P)
        PROVE  \E k \in 1 .. L :
                 f[k].e2e_delay_qtl = p.e2e_delay_qtl /\ f[k].e2e_delay_etx = p.e2e_delay_etx
    <2>1. p \in P
      BY DEF Undominated
    <2>2. PICK k \in 1 .. L : AsGood(f[k], p)
      BY <1>1, <2>1 DEF Covers
    <2>3. \/ f[k].e2e_delay_qtl > p.e2e_delay_qtl \/ f[k].e2e_delay_etx > p.e2e_delay_etx
          \/ f[k].e2e_delay_qtl = p.e2e_delay_qtl /\ f[k].e2e_delay_etx = p.e2e_delay_etx
      BY <1>2 DEF Undominated
    <2> QED BY <1>2, <1>3, <2>1, <2>2, <2>3 DEF AsGood
  <1> QED BY <1>4, <1>5

(* The delays of these paths are as many as the paths that are left. *)
LEMMA FrontierSize ==
  ASSUME NEW P, P \subseteq Path, NEW f, Frontier(f, P), NEW L \in Nat, L = Len(f)
  PROVE  Cardinality({p.e2e_delay_qtl : p \in Undominated(P)}) = L
  <1> DEFINE D == 1 .. L
             Q == {p.e2e_delay_qtl : p \in Undominated(P)}
             g == [k \in D |-> f[k].e2e_delay_qtl]
  <1>1. /\ \A k \in 1 .. L : f[k] \in Undominated(P)
        /\ \A p \in Undominated(P) : \E k \in 1 .. L : f[k].e2e_delay_qtl = p.e2e_delay_qtl
    BY FrontierUndominated
  <1>2. g \in [D -> Q]
    BY <1>1
  <1>3. \A q \in Q : \E k \in D : g[k] = q
    <2> SUFFICES ASSUME NEW p \in Undominated(P) PROVE \E k \in D : g[k] = p.e2e_delay_qtl
      OBVIOUS
    <2>1. PICK k \in D : f[k].e2e_delay_qtl = p.e2e_delay_qtl
      BY <1>1
    <2> QED BY <2>1
  <1>4. \A i, j \in D : g[i] = g[j] => i = j
    <2> SUFFICES ASSUME NEW i \in D, NEW j \in D, g[i] = g[j] PROVE i = j
      OBVIOUS
    <2>1. f[i].e2e_delay_qtl = f[j].e2e_delay_qtl
      OBVIOUS
    <2>2. f[i].e2e_delay_qtl \in Nat
      <3>1. f[i] \in Path
        BY LenProperties DEF Frontier
      <3> QED BY <3>1, PathFields
    <2>3. i < j => f[i].e2e_delay_qtl < f[j].e2e_delay_qtl
      BY DEF Frontier, Falls
    <2>4. j < i => f[j].e2e_delay_qtl < f[i].e2e_delay_qtl
      BY DEF Frontier, Falls
    <2>5. i \in Int /\ j \in Int
      OBVIOUS
    <2> HIDE DEF g, D
    <2> QED BY <2>1, <2>2, <2>3, <2>4, <2>5
  <1>5. IsFiniteSet(D) /\ Cardinality(D) = L
    <2>1. 1 \in Int /\ L \in Int
      OBVIOUS
    <2>2. IsFiniteSet(1 .. L) /\ Cardinality(1 .. L) = IF 1 > L THEN 0 ELSE L - 1 + 1
      BY <2>1, FS_Interval
    <2>3. (IF 1 > L THEN 0 ELSE L - 1 + 1) = L
      OBVIOUS
    <2> QED BY <2>2, <2>3
  <1> HIDE DEF D, Q, g
  <1>6. ExistsBijection(D, Q)
    BY <1>2, <1>3, <1>4, Fun_IsBij DEF ExistsBijection
  <1> QED BY <1>5, <1>6, FS_Bijection DEF Q

-----------------------------------------------------------------------------
(* The invariant of the computation, where there is a table. *)

Rows == /\ routes \in Seq(Entry) /\ Len(routes) = Len(world.table)
        /\ routingTableActive = Len(routes)
        /\ \A i \in 1 .. Len(routes) : routes[i].neighbor = world.table[i].neighbor

Shares == shared \in [mean : Nat, var : Nat]
Thresholds == threshold \in [any_not_congested : BOOLEAN, any_not_highly_congested : BOOLEAN]

Positions == /\ tasks # <<"SubTask1">> => task1_routing_table_idx = 0
             /\ tasks # <<"SubTask2">> => task2_sort_idx = 1

\* Where nothing was ever sent to a neighbour that passes, or none is left, there is no path.
Rejection == tasks = <<"SubTask1">> \/ tasks = <<"SubTask2">> \/ Computed
             => (rejected => Paths = {})

\* The paths over the neighbours so far are there, and nothing else.
Enumerating == tasks = <<"SubTask1">> =>
  /\ collected = Nothing
  /\ task1_routing_table_idx > 0 =>
       /\ ToSet(e2eDelayEtxs) = PathsUpTo(task1_routing_table_idx)
       /\ valid_entry_cnts = Len(e2eDelayEtxs)

\* All paths are there, the first ones in order.
Sorting == tasks = <<"SubTask2">> =>
  /\ collected = Nothing
  /\ ToSet(e2eDelayEtxs) = Paths
  /\ valid_entry_cnts = Len(e2eDelayEtxs)
  /\ e2eDelayEtxs # <<>> => /\ task2_sort_idx <= Len(e2eDelayEtxs)
                            /\ InOrder(Slow, e2eDelayEtxs, task2_sort_idx)

\* A result, collected or not, can be filtered; the first time all paths are there.
Waiting == Computed => /\ Ready(e2eDelayEtxs, Paths)
                       /\ collected = Nothing => ToSet(e2eDelayEtxs) = Paths

Levels == collected # Nothing => collected.levels \in [1 .. world.levels -> delay_etx_t]

Data == /\ Rows /\ Shares /\ Thresholds /\ e2eDelayEtxs \in Seq(Path)
        /\ Positions /\ Rejection /\ Enumerating /\ Sorting /\ Waiting
        /\ Levels /\ Diffused /\ NextHop

(* Types are those of a world. *)
LEMMA TypesStay ==
  ASSUME world' = world
  PROVE  Entry' = Entry /\ Path' = Path /\ Slow' = Slow
  BY DEF Entry, routing_table_entry, Path, Neighbours, e2e_delay_etx_t, Slow

(* The table of the data. *)
LEMMA DataTable ==
  ASSUME OneCaller, Data
  PROVE  /\ Table /\ Paths = PathsUpTo(Len(routes)) /\ Paths \subseteq Path
         /\ Len(routes) \in Nat /\ Len(routes) > 0 /\ Len(routes) = world.neighbors
  <1>1. /\ world.levels \in Nat /\ world.levels > 1
        /\ world.table \in Seq(Entry) /\ Len(world.table) = world.neighbors
    BY TableWorlds DEF OneCaller
  <1>2. Table
    BY <1>1 DEF Table, Data, Rows, Shares
  <1>3. Len(routes) \in Nat /\ Paths = PathsUpTo(Len(routes))
    BY AllPaths, LenProperties DEF Data, Rows
  <1>4. Len(routes) > 0 /\ Len(routes) = world.neighbors
    <2>1. Len(world.table) \in Nat /\ Len(world.table) # 0
      BY <1>1, LenProperties, EmptySeq DEF OneCaller
    <2> QED BY <1>1, <2>1 DEF Data, Rows
  <1>5. Len(routes) \in 0 .. Len(routes)
    BY <1>3
  <1> QED BY <1>2, <1>3, <1>4, <1>5, PathsAreTyped

(* Paths depend on the table, the shared delay and the thresholds. *)
LEMMA PathsKept ==
  ASSUME UNCHANGED <<world, routes, shared, threshold>>
  PROVE  Paths' = Paths /\ \A k : PathsUpTo(k)' = PathsUpTo(k)
  <1>1. \A i : PathsOver(routes[i])' = PathsOver(routes[i])
    BY DEF PathsOver, PathOver, PassesDag, PassesCongestion
  <1>2. \A i : ToSet(PathsOver(routes[i]))' = ToSet(PathsOver(routes[i]))
    BY <1>1 DEF ToSet
  <1> QED BY <1>2 DEF Paths, PathsUpTo

(* A step that neither computes nor collects. *)
LEMMA DataStays ==
  ASSUME Data, UNCHANGED <<world, routingTableActive, results, data>>,
         tasks' = <<"SubTask1">> <=> tasks = <<"SubTask1">>,
         tasks' = <<"SubTask2">> <=> tasks = <<"SubTask2">>,
         Computed' => Computed
  PROVE  Data'
  <1>1. /\ UNCHANGED <<world, routes, shared, threshold, e2eDelayEtxs, collected>>
        /\ UNCHANGED <<routingTableActive, rejected, valid_entry_cnts>>
        /\ UNCHANGED <<task1_routing_table_idx, task2_sort_idx>>
    BY DEF data, results
  <1>2. Entry' = Entry /\ Path' = Path /\ Slow' = Slow
    BY <1>1, TypesStay
  <1>3. Paths' = Paths /\ \A k : PathsUpTo(k)' = PathsUpTo(k)
    BY <1>1, PathsKept
  <1>4. Rows' /\ Shares' /\ Thresholds' /\ e2eDelayEtxs' \in Seq(Path)'
    BY <1>1, <1>2 DEF Data, Rows, Shares, Thresholds
  <1>5. Positions'
    BY <1>1 DEF Data, Positions
  <1>6. Rejection'
    BY <1>1, <1>3 DEF Data, Rejection
  <1>7. Enumerating'
    <2>1. PathsUpTo(task1_routing_table_idx)' = PathsUpTo(task1_routing_table_idx)
      BY <1>1, <1>2 DEF PathsUpTo, PathsOver, PathOver, PassesDag, PassesCongestion
    <2> QED BY <1>1, <2>1 DEF Data, Enumerating
  <1>8. Sorting'
    BY <1>1, <1>2, <1>3 DEF Data, Sorting
  <1>9. Waiting'
    <2>1. Ready(e2eDelayEtxs, Paths)' <=> Ready(e2eDelayEtxs, Paths)
      BY <1>1, <1>2, <1>3 DEF Ready
    <2> QED BY <1>1, <1>3, <2>1 DEF Data, Waiting
  <1>10. Levels'
    BY <1>1 DEF Data, Levels
  <1>11. Diffused'
    <2>1. Undominated(Paths)' = Undominated(Paths)
      BY <1>3 DEF Undominated
    <2>2. world' = world /\ collected' = collected
      BY <1>1
    <2>3. Diffused' <=> Diffused
      BY <2>1, <2>2 DEF Diffused
    <2> QED BY <2>3 DEF Data
  <1>12. NextHop'
    BY <1>1, <1>3 DEF Data, NextHop, ParentIsBest
  <1> QED BY <1>4, <1>5, <1>6, <1>7, <1>8, <1>9, <1>10, <1>11, <1>12 DEF Data

(* SubTask0: what is weighed is weighed for this run. *)
LEMMA WeighStep ==
  ASSUME OneCaller, Data, RunTask, Head(tasks) = "SubTask0", Weigh
  PROVE  Data'
  <1>1. /\ tasks = <<"SubTask0">> /\ SubTask0(<<>>) /\ tasks' = <<"SubTask1">>
    BY SubtasksFollow DEF Subtasks
  <1>2. /\ UNCHANGED <<world, routingTableActive, routes, e2eDelayEtxs>>
        /\ UNCHANGED <<task1_routing_table_idx, task2_sort_idx>>
        /\ collected' = Nothing
    BY <1>1 DEF RunTask, SubTask0, Weigh
  <1>3. Entry' = Entry /\ Path' = Path /\ Slow' = Slow
    BY <1>2, TypesStay
  <1>4. Rows' /\ e2eDelayEtxs' \in Seq(Path)'
    BY <1>2, <1>3 DEF Data, Rows
  <1>5. /\ Weights \in Sums
        /\ Weights.total = 0 => \A i \in 1 .. Len(routes) : ~ PassesDag(routes[i])
    BY TableWorlds, WeightsType DEF OneCaller, Data, Rows
  <1>6. Shares'
    <2>1. CASE Weights.total = 0
      BY <2>1 DEF Weigh, Data, Shares
    <2>2. CASE Weights.total # 0
      <3>1. PICK q \in world.queues :
              shared' = [mean |-> q * (Weights.mean \div Weights.total),
                         var |-> q * (Weights.var \div Weights.total)]
        BY <2>2 DEF Weigh
      <3>2. q \in Nat
        BY TableWorlds DEF OneCaller
      <3>3. PICK t \in Nat, m \in Nat, v \in Nat :
              t = Weights.total /\ m = Weights.mean /\ v = Weights.var /\ t # 0
        BY <1>5, <2>2 DEF Sums
      <3>4. PICK a \in Nat, b \in Nat : a = m \div t /\ b = v \div t
        <4>1. m \div t \in Nat /\ v \div t \in Nat
          BY <3>3
        <4> QED BY <4>1
      <3>5. q * a \in Nat /\ q * b \in Nat
        BY <3>2
      <3> QED BY <3>1, <3>3, <3>4, <3>5 DEF Shares
    <2> QED BY <2>1, <2>2
  <1>7. Thresholds'
    BY DEF Weigh, Thresholds
  <1>8. Positions'
    BY <1>1, <1>2 DEF Data, Positions
  <1>9. rejected' => Paths' = {}
    <2> SUFFICES ASSUME rejected' PROVE Paths' = {}
      OBVIOUS
    <2>1. \A i \in 1 .. Len(routes) : ~ PassesDag(routes[i])
      BY <1>5 DEF Weigh
    <2>2. \A i \in 1 .. Len(routes) : PathsOver(routes[i])' = <<>>
      BY <1>2, <2>1 DEF PathsOver, PassesDag
    <2>3. DOMAIN routes = 1 .. Len(routes)
      BY LenProperties DEF Data, Rows
    <2>4. \A i \in 1 .. Len(routes) : ToSet(PathsOver(routes[i]))' = {}
      BY <2>2 DEF ToSet
    <2> QED BY <1>2, <2>3, <2>4 DEF Paths
  <1>10. Rejection' /\ Enumerating'
    BY <1>1, <1>2, <1>9 DEF Rejection, Enumerating, Data, Positions
  <1>11. ~ Computed'
    <2>1. Busy'
      BY <1>1 DEF Busy, Subtasks
    <2> QED BY <2>1 DEF Computed
  <1>12. Sorting' /\ Waiting'
    BY <1>1, <1>11 DEF Sorting, Waiting
  <1>13. Levels' /\ Diffused' /\ NextHop'
    BY <1>2 DEF Levels, Diffused, NextHop, Nothing
  <1> QED BY <1>4, <1>6, <1>7, <1>8, <1>10, <1>12, <1>13 DEF Data

\* What the subtasks leave alone.
Kept == UNCHANGED <<world, routingTableActive, routes, shared, threshold, collected>>

(* The part of the invariant that these keep. *)
LEMMA KeptData ==
  ASSUME Data, Kept, collected = Nothing, e2eDelayEtxs' \in Seq(Path)
  PROVE  /\ Rows' /\ Shares' /\ Thresholds' /\ e2eDelayEtxs' \in Seq(Path)'
         /\ Levels' /\ Diffused' /\ NextHop' /\ collected' = Nothing
         /\ Entry' = Entry /\ Path' = Path /\ Slow' = Slow /\ Paths' = Paths
         /\ \A k : PathsUpTo(k)' = PathsUpTo(k)
  <1>1. Entry' = Entry /\ Path' = Path /\ Slow' = Slow
    BY TypesStay DEF Kept
  <1>2. Paths' = Paths /\ \A k : PathsUpTo(k)' = PathsUpTo(k)
    BY PathsKept DEF Kept
  <1>3. Rows' /\ Shares' /\ Thresholds' /\ e2eDelayEtxs' \in Seq(Path)'
    BY <1>1 DEF Kept, Data, Rows, Shares, Thresholds
  <1>4. Levels' /\ Diffused' /\ NextHop' /\ collected' = Nothing
    BY DEF Kept, Levels, Diffused, NextHop, Nothing
  <1> QED BY <1>1, <1>2, <1>3, <1>4

(* One neighbour more. *)
LEMMA PathsUpToNext ==
  ASSUME NEW k \in Nat
  PROVE  /\ PathsUpTo(0) = {}
         /\ PathsUpTo(k + 1) = PathsUpTo(k) \union ToSet(PathsOver(routes[k + 1]))
  <1>1. 1 .. k + 1 = (1 .. k) \union {k + 1} /\ 1 .. 0 = {}
    OBVIOUS
  <1> QED BY <1>1 DEF PathsUpTo

(* SubTask1: the paths over the next neighbour, or the end of the enumeration. *)
LEMMA EnumerateStep ==
  ASSUME OneCaller, Data, Counts, RunTask, Head(tasks) = "SubTask1", Enumerate
  PROVE  Data'
  <1> DEFINE idx == task1_routing_table_idx
             e == e2eDelayEtxs
             n == Len(routes)
  <1>1. /\ tasks = <<"SubTask1">> /\ SubTask1(<<>>)
        /\ \/ SubTask1Step(<<>>) /\ tasks' = <<"SubTask1">>
           \/ SubTask1Last(<<>>) /\ tasks' = <<"SubTask2">>
    BY SubtasksFollow DEF Subtasks
  <1>2. Kept /\ task2_sort_idx' = task2_sort_idx
    BY <1>1 DEF RunTask, SubTask1, Enumerate, Kept
  <1>3. /\ Table /\ Paths = PathsUpTo(n) /\ n \in Nat /\ n > 0
        /\ routingTableActive = n /\ n = world.neighbors
    BY DataTable DEF Data, Rows
  <1>4. /\ collected = Nothing /\ (rejected => Paths = {}) /\ e \in Seq(Path)
        /\ task2_sort_idx = 1 /\ idx \in Nat
        /\ idx > 0 => ToSet(e) = PathsUpTo(idx) /\ valid_entry_cnts = Len(e)
    BY <1>1 DEF Data, Rejection, Enumerating, Positions, Counts
  <1> DEFINE old == IF idx = 0 THEN <<>> ELSE e
             new == IF idx' = 0 THEN <<>> ELSE PathsOver(routes[idx + 1])
  <1>5. e' = old \o new /\ valid_entry_cnts' = Len(e')
    BY DEF Enumerate
  <1>6. old \in Seq(Path) /\ ToSet(old) = PathsUpTo(idx)
    <2>1. ToSet(<<>>) = {} /\ <<>> \in Seq(Path)
      BY DEF ToSet
    <2>2. CASE idx = 0
      <3>1. PathsUpTo(0) = {}
        BY PathsUpToNext
      <3> QED BY <2>1, <2>2, <3>1
    <2>3. CASE idx # 0
      <3>1. idx > 0
        BY <1>4, <2>3
      <3> QED BY <1>4, <2>3, <3>1
    <2> QED BY <2>2, <2>3
  <1>7. CASE SubTask1Step(<<>>) /\ tasks' = <<"SubTask1">>
    <2>1. idx + 1 \in 1 .. n /\ idx' = idx + 1 /\ rejected' = rejected
      BY <1>3, <1>4, <1>7 DEF SubTask1Step
    <2>2. new = PathsOver(routes[idx + 1])
      BY <1>4, <2>1
    <2>3. new \in Seq(Path)
      <3>1. routes[idx + 1] \in Entry
        BY <2>1, LenProperties DEF Data, Rows
      <3> QED BY <1>3, <2>2, <3>1, PathsType
    <2> HIDE DEF old, new
    <2>4. e' \in Seq(Path) /\ ToSet(e') = ToSet(old) \union ToSet(new)
      BY <1>5, <1>6, <2>3, ConcatMembers
    <2>5. /\ Rows' /\ Shares' /\ Thresholds' /\ e' \in Seq(Path)'
          /\ Levels' /\ Diffused' /\ NextHop' /\ collected' = Nothing
          /\ Paths' = Paths /\ \A k : PathsUpTo(k)' = PathsUpTo(k)
      BY <1>2, <1>4, <2>4, KeptData
    <2>6. ToSet(e') = PathsUpTo(idx + 1)
      BY <1>4, <1>6, <2>2, <2>4, PathsUpToNext
    <2>7. PathsUpTo(idx)' = PathsUpTo(idx + 1)
      <3>1. PICK k : k = idx + 1
        OBVIOUS
      <3>2. PathsUpTo(idx)' = PathsUpTo(k)'
        BY <2>1, <3>1 DEF PathsUpTo
      <3> QED BY <2>5, <3>1, <3>2
    <2>8. Enumerating'
      BY <1>5, <2>5, <2>6, <2>7 DEF Enumerating, ToSet
    <2>9. Positions' /\ Rejection' /\ Sorting'
      BY <1>2, <1>4, <1>7, <2>1, <2>5 DEF Positions, Rejection, Sorting
    <2>10. Waiting'
      <3>1. ~ Computed'
        BY <1>7 DEF Computed, Busy, Subtasks
      <3> QED BY <3>1 DEF Waiting
    <2> QED BY <2>5, <2>8, <2>9, <2>10 DEF Data
  <1>8. CASE SubTask1Last(<<>>) /\ tasks' = <<"SubTask2">>
    <2>1. idx' = 0 /\ new = <<>>
      BY <1>8 DEF SubTask1Last
    <2>2. ToSet(old) = Paths
      <3>1. CASE idx = 0
        <4>1. rejected
          BY <1>8, <3>1 DEF SubTask1Last
        <4> QED BY <1>4, <1>6, <3>1, <4>1, PathsUpToNext
      <3>2. CASE idx # 0
        <4>1. idx >= n /\ idx <= n
          BY <1>3, <1>4, <1>8, <3>2 DEF SubTask1Last, Counts
        <4>2. idx = n
          BY <1>3, <1>4, <4>1
        <4> QED BY <1>3, <1>6, <4>2
      <3> QED BY <3>1, <3>2
    <2>3. e' = old
      <3> HIDE DEF old
      <3>1. old \o <<>> = old
        BY <1>6
      <3> QED BY <1>5, <2>1, <3>1
    <2>4. /\ Rows' /\ Shares' /\ Thresholds' /\ e' \in Seq(Path)'
          /\ Levels' /\ Diffused' /\ NextHop' /\ collected' = Nothing
          /\ Path' = Path /\ Slow' = Slow /\ Paths' = Paths
      <3>1. e' \in Seq(Path)
        BY <1>6, <2>3
      <3> HIDE DEF old, new, e
      <3> QED BY <1>2, <1>4, <3>1, KeptData DEF e
    <2>5. rejected' => Paths = {}
      <3>1. CASE rejected
        BY <1>4, <3>1
      <3>2. CASE ~ rejected /\ rejected'
        <4>1. valid_entry_cnts = 0 /\ idx > 0
          BY <1>4, <1>8, <3>2 DEF SubTask1Last
        <4>2. Len(e) = 0 /\ old = e
          BY <1>4, <4>1
        <4>3. e = <<>>
          BY <1>4, <4>2, EmptySeq
        <4> QED BY <2>2, <4>2, <4>3 DEF ToSet
      <3> QED BY <3>1, <3>2
    <2>6. e' # <<>> => 1 <= Len(e') /\ InOrder(Slow, e', 1)
      <3> SUFFICES ASSUME e' # <<>> PROVE 1 <= Len(e') /\ InOrder(Slow, e', 1)
        OBVIOUS
      <3>1. PICK f \in Seq(Path) : f = e'
        BY <1>6, <2>3
      <3>2. Len(f) \in Nat /\ Len(f) # 0 /\ \A i \in 1 .. Len(f) : f[i] \in Path
        BY <3>1, LenProperties, EmptySeq
      <3>3. f[1] \in Path
        BY <3>2
      <3>4. Slow[f[1]] \in Nat
        BY <3>3, PathFields
      <3> QED BY <3>1, <3>2, <3>4 DEF InOrder
    <2>7. Positions' /\ Rejection' /\ Enumerating'
      BY <1>2, <1>4, <1>8, <2>1, <2>4, <2>5 DEF Positions, Rejection, Enumerating
    <2>8. Sorting'
      <3>1. ToSet(e') = Paths' /\ task2_sort_idx' = 1
        BY <1>2, <1>4, <2>2, <2>3, <2>4
      <3> QED BY <1>5, <2>4, <2>6, <3>1 DEF Sorting, ToSet
    <2>9. Waiting'
      <3>1. ~ Computed'
        BY <1>8 DEF Computed, Busy, Subtasks
      <3> QED BY <3>1 DEF Waiting
    <2> QED BY <2>4, <2>7, <2>8, <2>9 DEF Data
  <1> QED BY <1>1, <1>7, <1>8

(* SubTask2: one path more is in order, or all are. *)
LEMMA InsertStep ==
  ASSUME OneCaller, Data, Counts, RunTask, Head(tasks) = "SubTask2", Insert
  PROVE  Data'
  <1> DEFINE idx == task2_sort_idx
             e == e2eDelayEtxs
  <1>1. /\ tasks = <<"SubTask2">> /\ SubTask2(<<>>)
        /\ \/ SubTask2Step(<<>>) /\ tasks' = <<"SubTask2">>
           \/ SubTask2Last(<<>>) /\ tasks' \notin {<<t>> : t \in Subtasks}
    BY SubtasksFollow DEF Subtasks
  <1>2. Kept /\ UNCHANGED <<rejected, valid_entry_cnts, task1_routing_table_idx, hand>>
    BY <1>1 DEF RunTask, SubTask2, Insert, Kept
  <1>3. Paths \subseteq Path
    BY DataTable
  <1>4. /\ collected = Nothing /\ (rejected => Paths = {}) /\ e \in Seq(Path)
        /\ task1_routing_table_idx = 0 /\ idx \in Nat /\ idx >= 1
        /\ ToSet(e) = Paths /\ valid_entry_cnts = Len(e)
        /\ e # <<>> => idx <= Len(e) /\ InOrder(Slow, e, idx)
    BY <1>1 DEF Data, Rejection, Sorting, Positions, Counts
  <1>5. PICK n \in Nat : n = Len(e) /\ DOMAIN e = 1 .. n /\ \A i \in 1 .. n : e[i] \in Path
    BY <1>4, LenProperties
  <1>6. ASSUME e' \in Seq(Path), ToSet(e') = Paths
        PROVE  /\ Rows' /\ Shares' /\ Thresholds' /\ e' \in Seq(Path)'
               /\ Levels' /\ Diffused' /\ NextHop' /\ collected' = Nothing
               /\ Path' = Path /\ Slow' = Slow /\ Paths' = Paths
    BY <1>2, <1>4, <1>6, KeptData
  <1>7. CASE SubTask2Step(<<>>) /\ tasks' = <<"SubTask2">>
    <2>1. PICK i \in 2 .. n : i = idx + 1 /\ idx' = i
      BY <1>4, <1>5, <1>7 DEF SubTask2Step
    <2>2. InOrder(Slow, e, i - 1) /\ i - 1 = idx
      <3>1. e # <<>>
        BY <1>5, <2>1, EmptySeq
      <3> QED BY <1>4, <2>1, <3>1
    <2>3. e' = InsertAt(RemoveAt(e, i), Before(Slow, e, i) + 1, e[i])
      <3> DEFINE M == {k \in 1 .. i - 1 : e[k].e2e_delay_qtl <= e[i].e2e_delay_qtl}
      <3>1. e' = InsertAt(RemoveAt(e, i), Max({0} \union M) + 1, e[i])
        BY <2>1 DEF Insert
      <3>2. M = {k \in 1 .. i - 1 : Slow[e[k]] <= Slow[e[i]]}
        <4>1. \A k \in 1 .. i - 1 : e[k] \in Path
          BY <1>5
        <4>2. e[i] \in Path
          BY <1>5
        <4> QED BY <4>1, <4>2, PathFields
      <3> HIDE DEF M
      <3> QED BY <3>1, <3>2 DEF Before
    <2>4. Slow \in [Path -> Nat]
      BY PathFields DEF Slow
    <2>5. PICK t \in Seq(Path) : /\ t = e' /\ Len(t) = n
                                 /\ IsPermutation(t, e, n)
                                 /\ InOrder(Slow, t, i)
      <3> DEFINE u == InsertAt(RemoveAt(e, i), Before(Slow, e, i) + 1, e[i])
      <3>1. PICK t : t = InsertAt(RemoveAt(e, i), Before(Slow, e, i) + 1, e[i])
        OBVIOUS
      <3>2. t \in Seq(Path) /\ Len(t) = n /\ IsPermutation(t, e, n) /\ InOrder(Slow, t, i)
        BY <1>4, <1>5, <2>2, <2>4, <3>1, SortStep
      <3> QED BY <2>3, <3>1, <3>2
    <2>6. ToSet(t) = Paths
      <3>1. IsPermutation(t, e, n) /\ Len(t) = n
        BY <2>5
      <3>2. DOMAIN t = 1 .. n /\ DOMAIN e = 1 .. n
        BY <1>5, <3>1, LenProperties
      <3> HIDE DEF e
      <3>3. ToSet(t) = ToSet(e)
        BY <3>1, <3>2, PermutationMembers
      <3> QED BY <1>4, <3>3
    <2>7. /\ Rows' /\ Shares' /\ Thresholds' /\ e' \in Seq(Path)'
          /\ Levels' /\ Diffused' /\ NextHop' /\ collected' = Nothing
          /\ Path' = Path /\ Slow' = Slow /\ Paths' = Paths
      BY <1>6, <2>5, <2>6
    <2>8. Positions' /\ Rejection' /\ Enumerating'
      BY <1>2, <1>4, <1>7, <2>7 DEF Positions, Rejection, Enumerating
    <2>9. Sorting'
      <3>1. /\ ToSet(e') = Paths' /\ valid_entry_cnts' = Len(e') /\ idx' <= Len(e')
            /\ InOrder(Slow', e', idx')
        BY <1>2, <1>4, <1>5, <2>1, <2>5, <2>6, <2>7
      <3> QED BY <2>7, <3>1 DEF Sorting, ToSet
    <2>10. Waiting'
      <3>1. ~ Computed'
        BY <1>7 DEF Computed, Busy, Subtasks
      <3> QED BY <3>1 DEF Waiting
    <2> QED BY <2>7, <2>8, <2>9, <2>10 DEF Data
  <1>8. CASE SubTask2Last(<<>>) /\ tasks' \notin {<<t>> : t \in Subtasks}
    <2>1. idx' = 1 /\ e' = e
      BY <1>8 DEF SubTask2Last, Insert
    <2>2. /\ Rows' /\ Shares' /\ Thresholds' /\ e' \in Seq(Path)'
          /\ Levels' /\ Diffused' /\ NextHop' /\ collected' = Nothing
          /\ Path' = Path /\ Slow' = Slow /\ Paths' = Paths
      BY <1>4, <1>6, <2>1
    <2>3. tasks' # <<"SubTask1">> /\ tasks' # <<"SubTask2">>
      BY <1>8 DEF Subtasks
    <2>4. Positions' /\ Rejection' /\ Enumerating' /\ Sorting'
      BY <1>2, <1>4, <2>1, <2>2, <2>3 DEF Positions, Rejection, Enumerating, Sorting
    <2>5. InOrder(Slow, e, n)
      <3>1. CASE e = <<>>
        <4>1. n = 0
          BY <1>5, <3>1
        <4> QED BY <4>1 DEF InOrder
      <3>2. CASE e # <<>>
        <4>1. ~ rejected
          <5>1. n # 0
            BY <1>4, <1>5, <3>2, EmptySeq
          <5>2. e[1] \in ToSet(e)
            BY <1>5, <5>1 DEF ToSet
          <5> QED BY <1>4, <5>2
        <4>2. idx >= n /\ idx <= n
          BY <1>4, <1>5, <1>8, <3>2, <4>1 DEF SubTask2Last
        <4>3. idx = n
          BY <1>4, <4>2
        <4> QED BY <1>4, <3>2, <4>3
      <3> QED BY <3>1, <3>2
    <2>6. Covers(e, n, Paths)
      <3> SUFFICES ASSUME NEW p \in Paths PROVE \E i \in 1 .. n : AsGood(e[i], p)
        BY DEF Covers
      <3>1. PICK i \in 1 .. n : e[i] = p
        BY <1>4, <1>5 DEF ToSet
      <3>2. p.e2e_delay_qtl \in Nat /\ p.e2e_delay_etx \in Nat
        BY <1>3, PathFields
      <3> QED BY <3>1, <3>2 DEF AsGood
    <2>7. Waiting'
      <3>1. n \in 0 .. n
        OBVIOUS
      <3>2. Ready(e, Paths)
        BY <1>4, <1>5, <2>5, <2>6, <3>1 DEF Ready
      <3>3. Ready(e2eDelayEtxs, Paths)' <=> Ready(e2eDelayEtxs, Paths)
        BY <2>1, <2>2 DEF Ready
      <3>4. ToSet(e') = Paths'
        BY <1>4, <2>1, <2>2
      <3> QED BY <3>2, <3>3, <3>4 DEF Waiting, ToSet
    <2> QED BY <2>2, <2>4, <2>7 DEF Data
  <1> QED BY <1>1, <1>7, <1>8

\* What Diffused says of a result.
Passed(levels, P, N) ==
  LET best == Undominated(P)
      n == Min({N, Cardinality({p.e2e_delay_qtl : p \in best})})
      at(i) == {p \in best : Level(p) = levels[i]}
  IN /\ \A i \in 1 .. n : at(i) # {}
     /\ \A i \in 1 .. n - 1 : \E p \in at(i), q \in at(i + 1) :
          p.e2e_delay_qtl < q.e2e_delay_qtl
     /\ \A i \in n + 1 .. N : levels[i] = Unknown
     /\ n > 0 => /\ \E p \in at(1) : \A q \in best : p.e2e_delay_qtl <= q.e2e_delay_qtl
                 /\ \E p \in at(n) : \A q \in best : p.e2e_delay_etx <= q.e2e_delay_etx

(* What is advertised are the best of the paths. *)
LEMMA AdvertisedIsBest ==
  ASSUME NEW P, P \subseteq Path, NEW f, Frontier(f, P),
         NEW N \in Nat, N = world.levels, N > 1,
         NEW levels, levels = Advertise(f)
  PROVE  Passed(levels, P, N) /\ levels \in [1 .. N -> delay_etx_t]
  <1>1. f \in Seq(Path) /\ Falls(f)
    BY DEF Frontier
  <1>2. PICK L \in Nat : L = Len(f)
    BY <1>1, LenProperties
  <1>3. PICK n \in Nat : n = IF N <= L THEN N ELSE L
    OBVIOUS
  <1>4. PICK idxs : Picks(idxs, f, n, N) /\ levels \in [1 .. N -> delay_etx_t]
    BY <1>1, <1>2, <1>3, Advertised
  <1>5. /\ Len(idxs) = n /\ \A i \in 1 .. n : idxs[i] \in 1 .. L
        /\ \A i \in 1 .. n - 1 : idxs[i] < idxs[i + 1]
        /\ n > 0 => idxs[1] = 1 /\ idxs[n] = L
    BY <1>2, <1>4, LenProperties DEF Picks, Spread
  <1>6. /\ \A i \in 1 .. n : levels[i] = Level(f[idxs[i]])
        /\ \A i \in n + 1 .. N : levels[i] = Unknown
    BY <1>4 DEF Picks
  <1> DEFINE best == Undominated(P)
             at(i) == {p \in best : Level(p) = levels[i]}
  <1>7. \A k \in 1 .. L : f[k] \in best /\ f[k] \in Path
    <2>1. best \subseteq P
      BY DEF Undominated
    <2>2. \A k \in 1 .. L : f[k] \in best
      BY <1>2, FrontierUndominated
    <2> QED BY <2>1, <2>2
  <1>8. Min({N, Cardinality({p.e2e_delay_qtl : p \in best})}) = n
    <2>1. Cardinality({p.e2e_delay_qtl : p \in best}) = L
      BY <1>2, FrontierSize
    <2>2. Min({N, L}) = n
      BY <1>3, MinMaxOfTwo
    <2> QED BY <2>1, <2>2
  <1>9. \A i \in 1 .. n : f[idxs[i]] \in at(i)
    BY <1>5, <1>6, <1>7
  <1>10. \A k \in 1 .. L : /\ f[k].e2e_delay_qtl \in Nat /\ f[k].e2e_delay_etx \in Nat
                           /\ f[1].e2e_delay_qtl <= f[k].e2e_delay_qtl
                           /\ f[L].e2e_delay_etx <= f[k].e2e_delay_etx
    <2> SUFFICES ASSUME NEW k \in 1 .. L
                 PROVE  /\ f[k].e2e_delay_qtl \in Nat /\ f[k].e2e_delay_etx \in Nat
                        /\ f[1].e2e_delay_qtl <= f[k].e2e_delay_qtl
                        /\ f[L].e2e_delay_etx <= f[k].e2e_delay_etx
      OBVIOUS
    <2>1. 1 \in 1 .. L /\ L \in 1 .. L
      OBVIOUS
    <2>2. \A j \in 1 .. L : f[j].e2e_delay_qtl \in Nat /\ f[j].e2e_delay_etx \in Nat
      BY <1>7, PathFields
    <2>3. f[1].e2e_delay_qtl <= f[k].e2e_delay_qtl
      <3>1. CASE k = 1
        BY <2>1, <2>2, <3>1
      <3>2. CASE 1 < k
        BY <1>1, <1>2, <2>1, <2>2, <3>2 DEF Falls
      <3> QED BY <3>1, <3>2
    <2>4. f[L].e2e_delay_etx <= f[k].e2e_delay_etx
      <3>1. CASE k = L
        BY <2>1, <2>2, <3>1
      <3>2. CASE k < L
        BY <1>1, <1>2, <2>1, <2>2, <3>2 DEF Falls
      <3> QED BY <3>1, <3>2
    <2> QED BY <2>2, <2>3, <2>4
  <1>11. ASSUME NEW q \in best
         PROVE  L > 0 => /\ f[1].e2e_delay_qtl <= q.e2e_delay_qtl
                         /\ f[L].e2e_delay_etx <= q.e2e_delay_etx
    <2>1. PICK k \in 1 .. L :
            f[k].e2e_delay_qtl = q.e2e_delay_qtl /\ f[k].e2e_delay_etx = q.e2e_delay_etx
      BY <1>2, FrontierUndominated
    <2> QED BY <1>10, <2>1
  <1>12. ASSUME NEW i \in 1 .. n - 1
         PROVE  \E p \in at(i), q \in at(i + 1) : p.e2e_delay_qtl < q.e2e_delay_qtl
    <2>1. i \in 1 .. n /\ i + 1 \in 1 .. n
      OBVIOUS
    <2>2. PICK a \in 1 .. L, b \in 1 .. L : a = idxs[i] /\ b = idxs[i + 1] /\ a < b
      BY <1>5, <2>1
    <2>3. f[a].e2e_delay_qtl < f[b].e2e_delay_qtl
      BY <1>1, <1>2, <2>2 DEF Falls
    <2>4. f[a] \in at(i) /\ f[b] \in at(i + 1)
      BY <1>9, <2>1, <2>2
    <2> HIDE DEF at
    <2> QED BY <2>3, <2>4
  <1>13. ASSUME n > 0
         PROVE  /\ \E p \in at(1) : \A q \in best : p.e2e_delay_qtl <= q.e2e_delay_qtl
                /\ \E p \in at(n) : \A q \in best : p.e2e_delay_etx <= q.e2e_delay_etx
    <2>1. 1 \in 1 .. n /\ n \in 1 .. n /\ L > 0
      BY <1>3, <1>13
    <2>2. f[1] \in at(1) /\ f[L] \in at(n)
      BY <1>5, <1>9, <1>13, <2>1
    <2> HIDE DEF at, best
    <2> QED BY <1>11, <2>1, <2>2
  <1>14. \A i \in 1 .. n : at(i) # {}
    BY <1>9
  <1> QED
    <2>1. Passed(levels, P, N) <=>
            LET m == Min({N, Cardinality({p.e2e_delay_qtl : p \in best})})
            IN /\ \A i \in 1 .. m : at(i) # {}
               /\ \A i \in 1 .. m - 1 : \E p \in at(i), q \in at(i + 1) :
                    p.e2e_delay_qtl < q.e2e_delay_qtl
               /\ \A i \in m + 1 .. N : levels[i] = Unknown
               /\ m > 0 => /\ \E p \in at(1) : \A q \in best : p.e2e_delay_qtl <= q.e2e_delay_qtl
                           /\ \E p \in at(m) : \A q \in best : p.e2e_delay_etx <= q.e2e_delay_etx
      BY DEF Passed
    <2> HIDE DEF at, best
    <2> QED BY <1>4, <1>6, <1>8, <1>12, <1>13, <1>14, <2>1

(* What Diffused says of the next result. *)
LEMMA DiffusedNext ==
  ASSUME Passed(collected'.levels, Paths', world'.levels)
  PROVE  Diffused'
  BY DEF Diffused, Passed

(* One more packet was sent to the next hop. *)
LEMMA SentOnce ==
  ASSUME OneCaller, Data, NEW parent, world' = world,
         shared' = shared, threshold' = threshold,
         routes' = [i \in DOMAIN routes |->
                      IF routes[i].neighbor = parent
                      THEN [routes[i] EXCEPT !.pkt_sent_cnts = Min({@ + 1, MaxSent})]
                      ELSE routes[i]]
  PROVE  /\ routes' \in Seq(Entry) /\ SameTable /\ Len(routes') = Len(routes)
         /\ \A i \in 1 .. Len(routes) : routes'[i].neighbor = routes[i].neighbor
         /\ Paths' = Paths
  <1>1. PICK n \in Nat : /\ n = Len(routes) /\ DOMAIN routes = 1 .. n
                         /\ \A i \in 1 .. n : routes[i] \in Entry
    BY LenProperties DEF Data, Rows
  <1>2. MaxSent \in Nat /\ MaxSent > 0
    BY TableWorlds DEF OneCaller
  <1> DEFINE Sent(r) == IF r.neighbor = parent
                        THEN [r EXCEPT !.pkt_sent_cnts = Min({@ + 1, MaxSent})]
                        ELSE r
  <1>3. routes' = [i \in 1 .. n |-> Sent(routes[i])]
    BY <1>1
  <1>4. ASSUME NEW r \in Entry
        PROVE  \E c \in 1 .. MaxSent : Sent(r) = [r EXCEPT !.pkt_sent_cnts = c]
    <2>1. PICK c \in Nat : c = r.pkt_sent_cnts /\ c \in 1 .. MaxSent
      BY <1>2, EntryFields
    <2>2. PICK d \in 1 .. MaxSent : d = Min({c + 1, MaxSent})
      <3>1. Min({c + 1, MaxSent}) = IF c + 1 <= MaxSent THEN c + 1 ELSE MaxSent
        <4>1. c + 1 \in Nat
          OBVIOUS
        <4> QED BY <1>2, <4>1, MinMaxOfTwo
      <3> QED BY <1>2, <2>1, <3>1
    <2>3. r = [r EXCEPT !.pkt_sent_cnts = c]
      BY <2>1 DEF Entry, routing_table_entry
    <2>4. [r EXCEPT !.pkt_sent_cnts = Min({@ + 1, MaxSent})] = [r EXCEPT !.pkt_sent_cnts = d]
      BY <2>1, <2>2
    <2> QED BY <2>1, <2>2, <2>3, <2>4
  <1>5. ASSUME NEW r \in Entry, NEW c \in 1 .. MaxSent, NEW s, s = [r EXCEPT !.pkt_sent_cnts = c]
        PROVE  s \in Entry /\ s.neighbor = r.neighbor
    <2>1. s.neighbor = r.neighbor
      BY <1>5 DEF Entry, routing_table_entry
    <2>2. s \in Entry
      BY <1>5 DEF Entry, routing_table_entry
    <2> QED BY <2>1, <2>2
  <1> HIDE DEF Sent
  <1>6. \A i \in 1 .. n : Sent(routes[i]) \in Entry /\ Sent(routes[i]).neighbor = routes[i].neighbor
    <2> SUFFICES ASSUME NEW i \in 1 .. n
                 PROVE  Sent(routes[i]) \in Entry /\ Sent(routes[i]).neighbor = routes[i].neighbor
      OBVIOUS
    <2>1. PICK r \in Entry : r = routes[i]
      BY <1>1
    <2>2. PICK c \in 1 .. MaxSent : Sent(r) = [r EXCEPT !.pkt_sent_cnts = c]
      BY <1>4
    <2>3. PICK s : s = Sent(r)
      OBVIOUS
    <2>4. s \in Entry /\ s.neighbor = r.neighbor
      BY <1>5, <2>2, <2>3
    <2> QED BY <2>1, <2>3, <2>4
  <1>7. routes' \in Seq(Entry) /\ Len(routes') = n
    <2>1. [i \in 1 .. n |-> Sent(routes[i])] \in Seq(Entry)
      BY <1>6, IsASeq
    <2>2. DOMAIN routes' = 1 .. n /\ routes' \in Seq(Entry)
      BY <1>3, <2>1
    <2> QED BY <2>2, LenProperties
  <1>8. SameTable
    <2>1. \A i \in 1 .. n : \E c \in 1 .. MaxSent : routes'[i] = [routes[i] EXCEPT !.pkt_sent_cnts = c]
      BY <1>1, <1>3, <1>4
    <2> QED BY <1>1, <1>7, <2>1 DEF SameTable
  <1>9. Paths' = Paths
    BY <1>7, <1>8, PathsStay DEF Data, Rows
  <1> QED BY <1>1, <1>3, <1>6, <1>7, <1>8, <1>9

(* getNodeDelayEtxs: what is passed on are the best paths, the next hop is that of the
   cheapest in time. *)
LEMMA CollectStep ==
  ASSUME OneCaller, Data, RunTask, Collects, Head(tasks) \notin Subtasks,
         NEW is_beacon \in BOOLEAN, NEW d \in Nat, getNodeDelayEtxs(is_beacon, d)
  PROVE  Data'
  <1> DEFINE e == e2eDelayEtxs
             f == IF rejected THEN <<>> ELSE Filtered
             parent == IF is_beacon \/ rejected THEN INVALID_ADDR ELSE NextHopOf(d)
  <1>1. /\ tasks' # <<"SubTask1">> /\ tasks' # <<"SubTask2">> /\ ~ Busy
        /\ (Computed' => Computed) /\ Computed /\ UNCHANGED results
    BY CallersFollow
  <1>2. UNCHANGED <<world, routingTableActive>>
    BY DEF RunTask
  <1>3. /\ e' = Refilled(e, f)
        /\ routes' = [i \in DOMAIN routes |->
                        IF routes[i].neighbor = parent
                        THEN [routes[i] EXCEPT !.pkt_sent_cnts = Min({@ + 1, MaxSent})]
                        ELSE routes[i]]
        /\ collected' = [first |-> collected = Nothing, beacon |-> is_beacon, deadline |-> d,
                         parent |-> parent, levels |-> Advertise(f)]
        /\ shared' = shared /\ threshold' = threshold
    BY DEF getNodeDelayEtxs, Refilled
  <1>4. /\ Paths \subseteq Path /\ e \in Seq(Path) /\ Ready(e, Paths)
        /\ (collected = Nothing => ToSet(e) = Paths) /\ (rejected => Paths = {})
    BY <1>1, DataTable DEF Data, Waiting, Rejection
  <1>5. tasks # <<"SubTask1">> /\ tasks # <<"SubTask2">>
    BY <1>1 DEF Busy, Subtasks
  <1>6. Frontier(f, Paths)
    <2>1. CASE rejected
      <3>1. f = <<>> /\ Paths = {}
        BY <1>4, <2>1
      <3>2. <<>> \in Seq(Path) /\ ToSet(<<>>) = {} /\ Len(<<>>) = 0
        BY DEF ToSet
      <3>3. Falls(<<>>) /\ Covers(<<>>, 0, {})
        BY <3>2 DEF Falls, Covers
      <3> QED BY <3>1, <3>2, <3>3 DEF Frontier
    <2>2. CASE ~ rejected
      BY <1>4, <2>2, FilterLeaves
    <2> QED BY <2>1, <2>2
  <1> HIDE DEF f, parent
  <1>7. /\ routes' \in Seq(Entry) /\ Len(routes') = Len(routes) /\ Paths' = Paths
        /\ \A i \in 1 .. Len(routes) : routes'[i].neighbor = routes[i].neighbor
    BY <1>2, <1>3, SentOnce
  <1>8. Entry' = Entry /\ Path' = Path /\ Slow' = Slow
    BY <1>2, TypesStay
  <1>9. Ready(e', Paths)
    <2>1. ToSet(e) \subseteq Paths
      BY <1>4 DEF Ready
    <2>2. PICK g : g = Refilled(e, f)
      OBVIOUS
    <2>3. Ready(g, Paths)
      BY <1>4, <1>6, <2>1, <2>2, ReadyAgain
    <2> QED BY <1>3, <2>2, <2>3
  <1>10. Rows' /\ Shares' /\ Thresholds' /\ e2eDelayEtxs' \in Seq(Path)'
    <2>1. e' \in Seq(Path)
      BY <1>9 DEF Ready
    <2> QED BY <1>2, <1>3, <1>7, <1>8, <2>1 DEF Data, Rows, Shares, Thresholds
  <1>11. Positions' /\ Rejection' /\ Enumerating' /\ Sorting'
    BY <1>1, <1>4, <1>5, <1>7 DEF Data, Positions, Rejection, Enumerating, Sorting, results
  <1>0. PICK levels : levels = Advertise(f)
    OBVIOUS
  <1>12. PICK N \in Nat : N = world.levels /\ N > 1
    BY TableWorlds DEF OneCaller
  <1>13. Passed(levels, Paths, N) /\ levels \in [1 .. N -> delay_etx_t]
    BY <1>0, <1>4, <1>6, <1>12, AdvertisedIsBest
  <1>14. collected'.levels = levels /\ world'.levels = N
    BY <1>0, <1>2, <1>3, <1>12
  <1>15. Levels' /\ Diffused'
    <2>1. Levels'
      BY <1>13, <1>14 DEF Levels
    <2>2. Diffused'
      BY <1>7, <1>13, <1>14, DiffusedNext
    <2> QED BY <2>1, <2>2
  <1>16. collected' # Nothing
    <2>1. DOMAIN levels = 1 .. N /\ 1 \in 1 .. N
      BY <1>12, <1>13
    <2>2. levels # <<>>
      BY <2>1
    <2> QED BY <1>14, <2>2 DEF Nothing
  <1>17. Waiting'
    <2>1. Ready(e2eDelayEtxs, Paths)' <=> Ready(e', Paths)
      BY <1>7, <1>8 DEF Ready
    <2> QED BY <1>9, <1>16, <2>1 DEF Waiting
  <1>18. NextHop'
    <2> SUFFICES ASSUME collected = Nothing, ~ is_beacon PROVE ParentIsBest'
      BY <1>3 DEF NextHop
    <2>1. collected'.deadline = d /\ collected'.parent = parent
      BY <1>3
    <2>2. PICK T : T = InTime(Paths, d)
      OBVIOUS
    <2>3. IF T = {} THEN parent = INVALID_ADDR ELSE parent \in {p.nb : p \in Cheapest(T)}
      <3>1. CASE rejected
        <4>1. T = {} /\ parent = INVALID_ADDR
          BY <1>4, <2>2, <3>1 DEF InTime, parent
        <4> QED BY <4>1
      <3>2. CASE ~ rejected
        <4>1. parent = NextHopOf(d) /\ T = InTime(ToSet(e2eDelayEtxs), d)
          BY <1>4, <2>2, <3>2 DEF parent
        <4>2. IF T = {} THEN NextHopOf(d) = INVALID_ADDR
              ELSE NextHopOf(d) \in {p.nb : p \in Cheapest(T)}
          BY <1>4, <4>1, NextHopIsBest
        <4> QED BY <4>1, <4>2
      <3> QED BY <3>1, <3>2
    <2> QED BY <1>7, <2>1, <2>2, <2>3 DEF ParentIsBest, InTime, Cheapest
  <1> QED BY <1>10, <1>11, <1>15, <1>17, <1>18 DEF Data

(* Every step of the computation. *)
LEMMA DataStep ==
  ASSUME OneCaller, Data, Counts, [PathNext]_pvars
  PROVE  Data'
  <1>0. world.table # <<>>
    BY DEF OneCaller
  <1>1. CASE RunTask /\ Compute
    <2>1. CASE Head(tasks) = "SubTask0"
      BY <1>1, <2>1, WeighStep DEF Compute
    <2>2. CASE Head(tasks) = "SubTask1"
      BY <1>1, <2>2, EnumerateStep DEF Compute
    <2>3. CASE Head(tasks) = "SubTask2"
      BY <1>1, <2>3, InsertStep DEF Compute
    <2>4. CASE Head(tasks) \notin Subtasks /\ Collects
      <3>1. PICK b \in BOOLEAN, d \in Nat : getNodeDelayEtxs(b, d)
        <4>1. world.deadlines \subseteq Nat
          BY TableWorlds DEF OneCaller
        <4>2. Deliver
          BY <1>1, <2>4 DEF Compute
        <4> QED BY <4>1, <4>2 DEF Deliver
      <3> QED BY <1>1, <2>4, <3>1, CollectStep
    <2>5. CASE Head(tasks) \notin Subtasks /\ ~ Collects
      <3>1. UNCHANGED data
        BY <1>1, <2>5 DEF Compute
      <3>2. /\ tasks' # <<"SubTask1">> /\ tasks' # <<"SubTask2">> /\ ~ Busy
            /\ (Computed' => Computed) /\ UNCHANGED results
        BY <1>1, <2>5, CallersFollow
      <3>3. tasks # <<"SubTask1">> /\ tasks # <<"SubTask2">>
        BY <3>2 DEF Busy, Subtasks
      <3>4. UNCHANGED <<world, routingTableActive>>
        BY <1>1 DEF RunTask
      <3> QED BY <3>1, <3>2, <3>3, <3>4, DataStays
    <2> QED BY <2>1, <2>2, <2>3, <2>4, <2>5 DEF Subtasks
  <1>2. CASE Events /\ UNCHANGED data
    BY <1>2, EventsFollow, DataStays
  <1>3. CASE UNCHANGED pvars
    <2>1. UNCHANGED <<world, routingTableActive, results, data, tasks, hand>>
      BY <1>3 DEF pvars, vars, fwd
    <2>2. Computed' <=> Computed
      BY <2>1 DEF Computed, Busy
    <2> QED BY <2>1, <2>2, DataStays
  <1> QED BY <1>0, <1>1, <1>2, <1>3 DEF PathNext, PathTask

\* Without a table nothing is computed.
Blank == /\ routes = <<>> /\ e2eDelayEtxs = <<>> /\ collected = Nothing
         /\ Shares /\ Thresholds

Computing == IF world.table = <<>> THEN Blank ELSE Data

PathInv == Inv /\ Alone /\ Served /\ Computing

(* At first nothing is computed. *)
LEMMA PathInitInv == PathInit => PathInv
  <1> SUFFICES ASSUME PathInit PROVE PathInv
    OBVIOUS
  <1>1. Init /\ Inv
    BY InitInv DEF PathInit
  <1>2. tasks = <<>> /\ pipeDone /\ ~ task_locked /\ hand = "empty" /\ world \in Worlds
    BY <1>1 DEF Init
  <1>3. ~ Busy /\ ~ Computed
    BY <1>2 DEF Busy, Computed
  <1>4. Alone
    BY <1>1 DEF Init, Alone, OneRun
  <1>5. Served
    BY <1>1, <1>3 DEF Init, Served
  <1>6. Shares /\ Thresholds
    BY DEF PathInit, Shares, Thresholds
  <1>7. CASE world.table = <<>>
    BY <1>1, <1>4, <1>5, <1>6, <1>7 DEF PathInit, Blank, Computing, PathInv
  <1>8. CASE world.table # <<>>
    <2>1. world.table \in Seq(Entry) /\ Len(world.table) = world.neighbors
      BY <1>2, <1>8, TableWorlds
    <2>2. Rows
      BY <1>1, <2>1 DEF PathInit, Init, Rows
    <2>3. e2eDelayEtxs \in Seq(Path) /\ Positions
      BY <1>1 DEF PathInit, Init, Positions
    <2>4. Rejection /\ Enumerating /\ Sorting /\ Waiting
      BY <1>2, <1>3 DEF Rejection, Enumerating, Sorting, Waiting
    <2>5. Levels /\ Diffused /\ NextHop
      BY DEF PathInit, Levels, Diffused, NextHop
    <2>6. Data
      BY <1>6, <2>2, <2>3, <2>4, <2>5 DEF Data
    <2> QED BY <1>1, <1>4, <1>5, <1>8, <2>6 DEF Computing, PathInv
  <1> QED BY <1>7, <1>8

LEMMA PathNextInv == PathInv /\ [PathNext]_pvars => PathInv'
  <1> SUFFICES ASSUME PathInv, [PathNext]_pvars PROVE PathInv'
    OBVIOUS
  <1>1. Inv /\ Alone /\ Served /\ Flags /\ Counts /\ world \in Worlds /\ Computing
    BY DEF PathInv, Inv
  <1>2. [Next]_vars
    BY DEF PathNext, PathTask, Next, pvars
  <1>3. Inv' /\ Alone' /\ Served'
    BY <1>1, <1>2, NextInv, AloneStep, ServedStep
  <1>4. world' = world
    BY <1>2 DEF Next, RunTask, Events, BeaconTimerFired, BeaconDone, Arrive, SendDone,
                RetxmitTimerFired, TableChanges, vars
  <1>5. CASE world.table = <<>>
    <2>1. UNCHANGED data
      BY <1>5 DEF PathNext, PathTask, pvars
    <2> QED BY <1>1, <1>3, <1>4, <1>5, <2>1
            DEF PathInv, Computing, Blank, Shares, Thresholds, data
  <1>6. CASE world.table # <<>>
    <2>1. OneCaller /\ Data
      BY <1>1, <1>6 DEF OneCaller, Computing
    <2>2. Data'
      BY <1>1, <2>1, DataStep
    <2> QED BY <1>3, <1>4, <1>6, <2>2 DEF PathInv, Computing
  <1> QED BY <1>5, <1>6

LEMMA PathInvAlways == PathSpec => []PathInv
  BY PathInitInv, PathNextInv, PTL DEF PathSpec

(* The data is of the types of its table. *)
LEMMA DataTyped == PathInv => PathTypeOK
  <1> SUFFICES ASSUME PathInv PROVE PathTypeOK
    OBVIOUS
  <1>1. TypeOK
    BY DEF PathInv, Inv, TypeOK, Flags, Counts, Hands, Links, Jobs, ToSet
  <1>2. shared \in [mean : Nat, var : Nat]
        /\ threshold \in [any_not_congested : BOOLEAN, any_not_highly_congested : BOOLEAN]
    BY DEF PathInv, Computing, Blank, Data, Shares, Thresholds
  <1>3. CASE world.table = <<>>
    <2>1. ToSet(routes) = {} /\ ToSet(e2eDelayEtxs) = {} /\ collected.levels = <<>>
      BY <1>3 DEF PathInv, Computing, Blank, Nothing, ToSet
    <2> QED BY <1>1, <1>2, <2>1 DEF PathTypeOK
  <1>4. CASE world.table # <<>>
    <2>1. Data /\ world \in Worlds
      BY <1>4 DEF PathInv, Computing, Inv
    <2>2. PICK n \in Nat : /\ n = Len(routes) /\ DOMAIN routes = 1 .. n
                           /\ n = Len(world.table) /\ DOMAIN world.table = 1 .. n
                           /\ \A i \in 1 .. n : routes[i] \in Entry
                           /\ \A i \in 1 .. n : routes[i].neighbor = world.table[i].neighbor
      <3>1. world.table \in Seq(Entry)
        BY <1>4, <2>1, TableWorlds
      <3> QED BY <2>1, <3>1, LenProperties DEF Data, Rows
    <2>3. ToSet(routes) \subseteq Entry
      BY <2>2 DEF ToSet
    <2>4. {r.neighbor : r \in ToSet(routes)} = Neighbours
      <3>1. {r.neighbor : r \in ToSet(routes)} = {routes[i].neighbor : i \in 1 .. n}
        BY <2>2 DEF ToSet
      <3>2. Neighbours = {world.table[i].neighbor : i \in 1 .. n}
        BY <2>2 DEF Neighbours, ToSet
      <3> QED BY <2>2, <3>1, <3>2
    <2>5. ToSet(e2eDelayEtxs) \subseteq Path
      <3>1. \A i \in DOMAIN e2eDelayEtxs : e2eDelayEtxs[i] \in Path
        BY <2>1, LenProperties DEF Data
      <3> QED BY <3>1 DEF ToSet
    <2>6. ToSet(e2eDelayEtxs) \subseteq e2e_delay_etx_t({r.neighbor : r \in ToSet(routes)})
      BY <2>4, <2>5 DEF Path
    <2>7. collected.levels = <<>> \/ collected.levels \in [1 .. world.levels -> delay_etx_t]
      BY <2>1 DEF Data, Levels, Nothing
    <2> QED BY <1>1, <1>2, <2>3, <2>6, <2>7 DEF PathTypeOK, Entry
  <1> QED BY <1>3, <1>4

(* What the pipeline computes is of its types. *)
THEOREM PathTypesKept == PathSpec => []PathTypeOK
  BY PathInvAlways, DataTyped, PTL

(* What is advertised are the undominated paths, from the fastest to the cheapest, and
   all of them where there is room. *)
THEOREM BestDiffused == PathSpec => []Diffused
  <1>1. PathInv => Diffused
    BY DEF PathInv, Computing, Blank, Data, Diffused
  <1> QED BY <1>1, PathInvAlways, PTL

(* The next hop of a packet with a deadline is a neighbour on a cheapest of the paths that
   meet it. *)
THEOREM BestNextHop == PathSpec => []NextHop
  <1>1. PathInv => NextHop
    BY DEF PathInv, Computing, Blank, Data, NextHop
  <1> QED BY <1>1, PathInvAlways, PTL
=============================================================================
