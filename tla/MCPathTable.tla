---------------------------- MODULE MCPathTable ----------------------------
(* TLC instances of PathTable, and of DelayPipeline where there is no table. *)
EXTENDS PathTable

\* The pipeline alone.  MMSPEED: beacons only, with the table and levels of the code.
RouterOnly == [callers |-> {"router"}, neighbors |-> 10, levels |-> 6, churn |-> FALSE,
               prompt |-> TRUE, table |-> <<>>, parent |-> "a", my_etx |-> 0,
               deadlines |-> {}, queues |-> {}]

\* MTA: both callers, a small table.
Both == [RouterOnly EXCEPT !.callers = {"router", "forwarder"}, !.neighbors = 2,
                           !.levels = 1]

\* The next beacon may be due while one is in the air, and packets wait for the pipeline.
LateBoth == [Both EXCEPT !.prompt = FALSE]

\* Neighbours come and go between the subtasks.
Churning == [Both EXCEPT !.churn = TRUE]

\* A neighbour with its congestion, the delays of the link, and what it advertises:
\* <<mean, variance, ETX>> for each level that is known.
Route(nb, etx, congestion, mac, levels) ==
  [neighbor |-> nb, etx |-> etx, congested |-> congestion > 0,
   highlyCongested |-> congestion > 1, link |-> 10,
   out_mac_delay_mean |-> mac[1], out_mac_delay_var |-> mac[2], pkt_sent_cnts |-> 1,
   node_delay_etxs |->
     [i \in 1 .. 4 |-> IF i > Len(levels) THEN Unknown
        ELSE [node_delay_mean |-> levels[i][1], node_delay_var |-> levels[i][2],
              node_delay_etx |-> levels[i][3]]]]

Root == [i \in 1 .. 4 |-> <<0, 0, 0>>]

\* Delays far apart at the end, at the start; one level; a large variance.
Lists == {<<>>, Root, <<<<2, 100, 15>>>>, <<<<6, 0, 15>>, <<20, 0, 5>>>>,
          <<<<1, 0, 80>>, <<3, 0, 60>>, <<5, 0, 40>>, <<50, 0, 15>>>>,
          <<<<2, 0, 70>>, <<4, 0, 50>>, <<20, 0, 30>>, <<90, 0, 5>>>>,
          <<<<10, 0, 80>>, <<70, 0, 60>>, <<74, 0, 40>>, <<78, 0, 20>>>>,
          <<<<12, 0, 70>>, <<72, 0, 50>>, <<76, 0, 30>>, <<79, 0, 10>>>>}

Macs == {<<1, 0>>, <<3, 16>>, <<MAX_UINT16, MAX_UINT16>>}

\* Every pair of lists, with equal and different links.
DelayTables ==
  {<<Route("a", 0, 0, m, la), Route("b", 0, 0, n, lb)>> :
     la \in Lists, lb \in Lists, m \in {<<1, 0>>}, n \in Macs}

\* With packets in the queue b is slower than a, without them it is faster.
Reordered == <<Route("a", 0, 0, <<1, 0>>, <<<<20, 100, 30>>>>),
               Route("b", 0, 0, <<1, 0>>, <<<<40, 0, 30>>>>),
               Route("c", 0, 0, <<1, 1600>>, <<<<60, 0, 20>>>>)>>

\* Neighbours below and above in the tree, congested or not.
CongestionTables ==
  {<<Route("a", 20, ca, <<1, 0>>, <<<<2, 0, 30>>>>),
     Route("b", eb, cb, <<3, 16>>, <<<<3, 0, 10>>>>),
     Route("c", ec, cc, <<2, 0>>, <<<<5, 0, 20>>>>)>> :
     eb \in {10, 20}, ec \in {10, 20}, ca \in 0 .. 2, cb \in 0 .. 2, cc \in 0 .. 2}

Packets(t) ==
  [RouterOnly EXCEPT !.callers = {"forwarder"}, !.neighbors = Len(t), !.levels = 4,
     !.table = t, !.my_etx = 20, !.deadlines = {0, 8, 45}, !.queues = {0, 2}]

Beacons(t) == [Packets(t) EXCEPT !.callers = {"router"}]

AllWorlds == {RouterOnly, Both, LateBoth, Churning} \union {Packets(t) : t \in DelayTables}
             \union {Beacons(t) : t \in DelayTables}
             \union {Packets(t) : t \in CongestionTables \union {Reordered}}
=============================================================================
