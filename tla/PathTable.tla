----------------------------- MODULE PathTable -----------------------------
(***************************************************************************)
(* What the delay pipeline computes, CtpRoutingEngineP_.nc: the paths      *)
(* through the neighbours, each with a delay quantile and an ETX; their    *)
(* order; the ones that are worth passing on; the next hop of a packet     *)
(* with a deadline.  MTA with Chebyshev's bound.                           *)
(*                                                                         *)
(* The computation is laid over the tasks of DelayPipeline, which then     *)
(* make no free choices any more.  What neighbours have advertised does    *)
(* not change; link delays are in milliseconds.                            *)
(***************************************************************************)
EXTENDS DelayPipeline, FiniteSetsExt

CONSTANTS
  INVALID_ADDR,
  MaxSent       \* stands for MAX_UINT32, where pkt_sent_cnts stops

MAX_UINT16 == 65535
CHEBYSHEV_SCALAR == 3
MARKOV_SCALAR == 10

\* What a node may advertise: a delay and the ETX of the cheapest path within it.
delay_etx_t == [node_delay_mean : 0 .. MAX_UINT16, node_delay_var : 0 .. MAX_UINT16,
                node_delay_etx : 0 .. MAX_UINT16]

Unknown == [node_delay_mean |-> MAX_UINT16, node_delay_var |-> MAX_UINT16,
            node_delay_etx |-> MAX_UINT16]

\* A neighbour: the part of its entry that decides which paths lead through it.
routing_table_entry(w) ==
  [neighbor : {r.neighbor : r \in ToSet(w.table)},
   etx : Nat, congested : BOOLEAN, highlyCongested : BOOLEAN,
   link : Nat, out_mac_delay_mean : 0 .. MAX_UINT16, out_mac_delay_var : 0 .. MAX_UINT16,
   pkt_sent_cnts : 1 .. MaxSent,
   node_delay_etxs : [1 .. w.levels -> delay_etx_t]]

\* Further fields of a world:
\*   table      the routing table to compute on; empty: the pipeline alone
\*   parent     the neighbour that is the tree parent
\*   my_etx     my_node_etx
\*   deadlines  of packets that reach the head of the queue
\*   queues     sizes of the send queue
ASSUME PathAssumption ==
  /\ MaxSent \in Nat \ {0}
  /\ \A w \in Worlds : w.table # <<>> =>
       /\ ~ w.churn /\ w.callers \in {{"router"}, {"forwarder"}} /\ w.levels > 1
       /\ w.table \in Seq(routing_table_entry(w)) /\ Len(w.table) = w.neighbors
       /\ w.queues \subseteq Nat /\ w.deadlines \subseteq Nat

VARIABLES
  routes,         \* the routing table
  shared,         \* shared_node_delay_mean, shared_node_delay_var
  threshold,      \* any_not_congested, any_not_highly_congested
  e2eDelayEtxs,   \* its first valid_entry_cnts entries
  collected       \* the last result of getNodeDelayEtxs, until the next run

data  == <<routes, shared, threshold, e2eDelayEtxs, collected>>
pvars == <<vars, data>>

\* A path: with the local queue for the neighbours, without it for a deadline.
e2e_delay_etx_t(nbs) ==
  [nb : nbs, e2e_delay_mean : Nat, e2e_delay_var : Nat, e2e_delay_qtl : Nat,
   nlq_e2e_delay_qtl : Nat, e2e_delay_etx : Nat]

Nothing == [first |-> TRUE, beacon |-> TRUE, deadline |-> 0, parent |-> INVALID_ADDR,
            levels |-> <<>>]

PathInit ==
  /\ Init
  /\ routes = world.table
  /\ shared = [mean |-> 0, var |-> 0]
  /\ threshold = [any_not_congested |-> FALSE, any_not_highly_congested |-> FALSE]
  /\ e2eDelayEtxs = <<>>
  /\ collected = Nothing

-----------------------------------------------------------------------------
(* Arithmetic. *)

\* isqrt: one bit of the root a step, from the highest power of four, 2^30.
isqrt(num) ==
  LET step[k \in 0 .. 16] ==
        IF k = 0 THEN [op |-> num, res |-> 0, one |-> 1073741824]
        ELSE LET s == step[k - 1]
                 bit == s.op >= s.res + s.one
             IN [op |-> IF bit THEN s.op - s.res - s.one ELSE s.op,
                 res |-> (s.res \div 2) + (IF bit THEN s.one ELSE 0),
                 one |-> s.one \div 4]
  IN step[16].res

\* The bound on the quantile: Chebyshev's or Markov's, whichever is tighter.
Quantile(mean, var) ==
  Min({mean + isqrt(var) * CHEBYSHEV_SCALAR, MARKOV_SCALAR * mean})

Saturated(x) == Min({x, MAX_UINT16})

-----------------------------------------------------------------------------
(* Paths through a neighbour. *)

\* Closer to the root than this node; the parent passes anyway.
PassesDag(r) == r.neighbor = world.parent \/ r.etx < world.my_etx

\* Where some are not congested, only those; else those that are not highly congested.
PassesCongestion(r) ==
  IF threshold.any_not_congested THEN ~ r.congested
  ELSE threshold.any_not_highly_congested => ~ r.highlyCongested

Known(level) == level.node_delay_mean # MAX_UINT16 /\ level.node_delay_var # MAX_UINT16

PathOver(r, level) ==
  LET nlq_mean == r.out_mac_delay_mean + level.node_delay_mean
      nlq_var  == r.out_mac_delay_var + level.node_delay_var
  IN [nb |-> r.neighbor,
      e2e_delay_mean |-> shared.mean + nlq_mean,
      e2e_delay_var |-> shared.var + nlq_var,
      e2e_delay_qtl |-> Quantile(shared.mean + nlq_mean, shared.var + nlq_var),
      nlq_e2e_delay_qtl |-> Quantile(nlq_mean, nlq_var),
      e2e_delay_etx |-> r.link + 10 + level.node_delay_etx]

\* The levels up to the first unknown one; the first counts even if it is unknown.
PathsOver(r) ==
  LET n == Max({j \in DOMAIN r.node_delay_etxs :
                  \A k \in 2 .. j : Known(r.node_delay_etxs[k])})
  IN IF PassesDag(r) /\ PassesCongestion(r)
     THEN [j \in 1 .. n |-> PathOver(r, r.node_delay_etxs[j])]
     ELSE <<>>

-----------------------------------------------------------------------------
(* The subtasks. *)

\* What was sent to the neighbours that pass, and their delays weighted by it.
Weights ==
  LET sum[i \in 0 .. Len(routes)] ==
        IF i = 0 THEN [total |-> 0, mean |-> 0, var |-> 0]
        ELSE LET s == sum[i - 1]
                 r == routes[i]
             IN IF PassesDag(r)
                THEN [total |-> s.total + r.pkt_sent_cnts,
                      mean |-> s.mean + r.out_mac_delay_mean * r.pkt_sent_cnts,
                      var |-> s.var + r.out_mac_delay_var * r.pkt_sent_cnts]
                ELSE s
  IN sum[Len(routes)]

\* A packet in the queue waits for the average neighbour.
Weigh ==
  LET w == Weights
      dag == {r \in ToSet(routes) : PassesDag(r)}
  IN /\ rejected' = (w.total = 0)
     /\ threshold' = [any_not_congested |-> \E r \in dag : ~ r.congested,
                      any_not_highly_congested |-> \E r \in dag : ~ r.highlyCongested]
     /\ IF w.total = 0 THEN UNCHANGED shared
        ELSE \E q \in world.queues :
               shared' = [mean |-> q * (w.mean \div w.total), var |-> q * (w.var \div w.total)]
     /\ collected' = Nothing
     /\ UNCHANGED <<routes, e2eDelayEtxs>>

\* SubTask1: the paths over one neighbour are added.
Enumerate ==
  /\ e2eDelayEtxs' =
       (IF task1_routing_table_idx = 0 THEN <<>> ELSE e2eDelayEtxs) \o
       (IF task1_routing_table_idx' = 0 THEN <<>>
        ELSE PathsOver(routes[task1_routing_table_idx + 1]))
  /\ valid_entry_cnts' = Len(e2eDelayEtxs')
  /\ UNCHANGED <<routes, shared, threshold, collected>>

\* SubTask2: one entry is moved left, to its place by delay.
Insert ==
  /\ IF task2_sort_idx' = 1 THEN UNCHANGED e2eDelayEtxs
     ELSE LET i == task2_sort_idx + 1
              value == e2eDelayEtxs[i]
              j == Max({0} \union {k \in 1 .. i - 1 :
                          e2eDelayEtxs[k].e2e_delay_qtl <= value.e2e_delay_qtl})
          IN e2eDelayEtxs' = InsertAt(RemoveAt(e2eDelayEtxs, i), j + 1, value)
  /\ UNCHANGED <<routes, shared, threshold, collected>>

-----------------------------------------------------------------------------
(* getNodeDelayEtxs. *)

\* Faulty: a slower path is passed on although it is not cheaper.
Admit_Equal(f, e) ==
  CASE f = <<>> -> <<e>>
    [] f # <<>> /\ e.e2e_delay_etx > Last(f).e2e_delay_etx -> f
    [] OTHER -> IF e.e2e_delay_qtl = Last(f).e2e_delay_qtl
                THEN Append(Front(f), e) ELSE Append(f, e)

\* A path is worth passing on if it is cheaper than all that are as fast.
Admit(f, e) ==
  CASE f = <<>> -> <<e>>
    [] f # <<>> /\ e.e2e_delay_etx >= Last(f).e2e_delay_etx -> f
    [] OTHER -> IF e.e2e_delay_qtl = Last(f).e2e_delay_qtl
                THEN Append(Front(f), e) ELSE Append(f, e)

\* left[k]: what is left of the first k paths.
Filtered ==
  LET left[k \in 0 .. Len(e2eDelayEtxs)] ==
        IF k = 0 THEN <<>> ELSE Admit(left[k - 1], e2eDelayEtxs[k])
  IN left[Len(e2eDelayEtxs)]

\* How much slower the n-th index after i is.
Gap(f, idxs, i, n) == f[idxs[i + n]].e2e_delay_qtl - f[idxs[i]].e2e_delay_qtl

\* The first of the indices that are farthest from the next one.
Farthest(f, idxs) ==
  Min({i \in 1 .. Len(idxs) - 1 :
         \A k \in 1 .. Len(idxs) - 1 : Gap(f, idxs, k, 1) <= Gap(f, idxs, i, 1)})

\* The first of the indices that are closest to the next but one.
Closest(f, idxs) ==
  Min({i \in 1 .. Len(idxs) - 2 :
         \A k \in 1 .. Len(idxs) - 2 : Gap(f, idxs, k, 2) >= Gap(f, idxs, i, 2)})

\* One round of the aggregation: an entry between two far apart replaces the
\* middle one of three close together.
Rebalanced(f, idxs) ==
  LET m1 == Farthest(f, idxs)
      m2 == Closest(f, idxs)
      mid == (idxs[m1] + idxs[m1 + 1]) \div 2
  IN IF \/ Len(idxs) <= 2 \/ idxs[m1 + 1] - idxs[m1] <= 1
        \/ Gap(f, idxs, m1, 1) < 3 * Gap(f, idxs, m2, 2) \/ m1 = m2
     THEN idxs
     ELSE \* the middle of three goes, mid comes in after m1
          InsertAt(RemoveAt(idxs, m2 + 1), IF m2 > m1 THEN m1 + 1 ELSE m1, mid)

\* Evenly spread indices with the first and the last, and three rounds of the above.
Chosen(f) ==
  LET interval == (Len(f) - 1) \div (world.levels - 1)
      even == [i \in 1 .. world.levels |->
                 IF i = world.levels THEN Len(f) ELSE interval * (i - 1) + 1]
  IN Rebalanced(f, Rebalanced(f, Rebalanced(f, even)))

Level(e) == [node_delay_mean |-> Saturated(e.e2e_delay_mean),
             node_delay_var |-> Saturated(e.e2e_delay_var),
             node_delay_etx |-> Saturated(e.e2e_delay_etx)]

\* my_node_delay_etxs: what the next packet or beacon advertises.
Advertise(f) ==
  LET idxs == IF Len(f) <= world.levels THEN [i \in 1 .. Len(f) |-> i] ELSE Chosen(f)
  IN [i \in 1 .. world.levels |-> IF i <= Len(idxs) THEN Level(f[idxs[i]]) ELSE Unknown]

\* Faulty: the delay with the local queue decides.
NextHopOf_Queue(deadline) ==
  LET within == {i \in DOMAIN e2eDelayEtxs : e2eDelayEtxs[i].e2e_delay_qtl <= deadline}
      cheapest == {i \in within : \A k \in within :
                     e2eDelayEtxs[i].e2e_delay_etx <= e2eDelayEtxs[k].e2e_delay_etx}
  IN IF within = {} THEN INVALID_ADDR ELSE e2eDelayEtxs[Min(cheapest)].nb

\* The first of the cheapest paths that meet the deadline.
NextHopOf(deadline) ==
  LET within == {i \in DOMAIN e2eDelayEtxs : e2eDelayEtxs[i].nlq_e2e_delay_qtl <= deadline}
      cheapest == {i \in within : \A k \in within :
                     e2eDelayEtxs[i].e2e_delay_etx <= e2eDelayEtxs[k].e2e_delay_etx}
  IN IF within = {} THEN INVALID_ADDR ELSE e2eDelayEtxs[Min(cheapest)].nb

\* The buffer is filtered in place: the rest of it stays.
getNodeDelayEtxs(is_beacon, relative_deadline) ==
  LET f == IF rejected THEN <<>> ELSE Filtered
      parent == IF is_beacon \/ rejected THEN INVALID_ADDR ELSE NextHopOf(relative_deadline)
  IN /\ e2eDelayEtxs' = f \o SubSeq(e2eDelayEtxs, Len(f) + 1, Len(e2eDelayEtxs))
     /\ routes' = [i \in DOMAIN routes |->
                     IF routes[i].neighbor = parent
                     THEN [routes[i] EXCEPT !.pkt_sent_cnts = Min({@ + 1, MaxSent})]
                     ELSE routes[i]]
     /\ collected' = [first |-> collected = Nothing, beacon |-> is_beacon,
                      deadline |-> relative_deadline, parent |-> parent,
                      levels |-> Advertise(f)]
     /\ UNCHANGED <<shared, threshold>>

\* The caller: a beacon, or the first attempt at a packet that still has time.
Deliver ==
  \/ Head(tasks) = "sendBeaconTask" /\ getNodeDelayEtxs(TRUE, 0)
  \/ /\ Head(tasks) = "sendTask"
     /\ \E d \in world.deadlines :
          /\ getNodeDelayEtxs(FALSE, d)
          /\ (hand' = "empty") <=> (d = 0 \/ collected'.parent = INVALID_ADDR)

-----------------------------------------------------------------------------
Compute == /\ Head(tasks) = "SubTask0" => Weigh
           /\ Head(tasks) = "SubTask1" => Enumerate
           /\ Head(tasks) = "SubTask2" => Insert
           /\ Collects => Deliver
           /\ Head(tasks) \notin Subtasks /\ ~ Collects => UNCHANGED data

PathTask == RunTask /\ IF world.table = <<>> THEN UNCHANGED data ELSE Compute

PathNext == PathTask \/ (Events /\ UNCHANGED data)

\* Compute can always be done, so that fairness may speak of the tasks alone.
PathSpec == PathInit /\ [][PathNext]_pvars /\ Fairness

-----------------------------------------------------------------------------
(* Types of the routing table, the computed paths and what is advertised. *)
PathTypeOK ==
  /\ TypeOK
  /\ ToSet(routes) \subseteq routing_table_entry(world)
  /\ ToSet(e2eDelayEtxs) \subseteq e2e_delay_etx_t({r.neighbor : r \in ToSet(routes)})
  /\ shared \in [mean : Nat, var : Nat]
  /\ threshold \in [any_not_congested : BOOLEAN, any_not_highly_congested : BOOLEAN]
  /\ collected.levels = <<>> \/ collected.levels \in [1 .. world.levels -> delay_etx_t]

\* All usable paths.
Paths == UNION {ToSet(PathsOver(routes[i])) : i \in DOMAIN routes}

\* The paths of P that no other is at least as good as in both ways.
Undominated(P) ==
  {p \in P : \A q \in P :
     \/ q.e2e_delay_qtl > p.e2e_delay_qtl \/ q.e2e_delay_etx > p.e2e_delay_etx
     \/ q.e2e_delay_qtl = p.e2e_delay_qtl /\ q.e2e_delay_etx = p.e2e_delay_etx}

(* What is passed on to the neighbours ("select evenly (min & max entry MUST be
   included)", CtpRoutingEngineP_.nc:994) are only undominated paths, from the fastest to
   the cheapest, ever slower and cheaper, and all of them if there is room. *)
Diffused ==
  collected # Nothing =>
    LET best == Undominated(Paths)
        n == Min({world.levels, Cardinality({p.e2e_delay_qtl : p \in best})})
        at(i) == {p \in best : Level(p) = collected.levels[i]}
    IN /\ \A i \in 1 .. n : at(i) # {}
       /\ \A i \in 1 .. n - 1 : \E p \in at(i), q \in at(i + 1) :
            p.e2e_delay_qtl < q.e2e_delay_qtl
       /\ \A i \in n + 1 .. world.levels : collected.levels[i] = Unknown
       /\ n > 0 => /\ \E p \in at(1) : \A q \in best : p.e2e_delay_qtl <= q.e2e_delay_qtl
                   /\ \E p \in at(n) : \A q \in best : p.e2e_delay_etx <= q.e2e_delay_etx

\* The cheapest of the paths that meet the deadline.
ParentIsBest ==
  LET within == {p \in Paths : p.nlq_e2e_delay_qtl <= collected.deadline}
      best == {p \in within : \A q \in within : p.e2e_delay_etx <= q.e2e_delay_etx}
  IN IF within = {} THEN collected.parent = INVALID_ADDR
     ELSE collected.parent \in {p.nb : p \in best}

(* "the parent meeting the deadline and also having the smallest ETX"
   (CtpRoutingEngineP_.nc:488): the first time the result of a run is asked for. *)
NextHop == collected # Nothing /\ collected.first /\ ~ collected.beacon => ParentIsBest
=============================================================================
