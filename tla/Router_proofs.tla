---------------------------- MODULE Router_proofs ----------------------------
(***************************************************************************)
(* Proofs about Router for every set of neighbours, every size of the two  *)
(* tables, every set of estimates and every world.                         *)
(***************************************************************************)
EXTENDS Router, DistinctSeqs

-----------------------------------------------------------------------------
(* The routing engine's own state. *)

Hops    == {Me, Elsewhere}
Metrics == 0 .. MAX_METRIC
Ends    == Neighbors \union {Me, INVALID_ADDR}

Route == [neighbor : Neighbors, parent : Hops, etx : Metrics, congested : BOOLEAN]

Info == [parent : Ends, etx : Metrics, congested : BOOLEAN]

Engine == [routes : Seq(Route), info : Info, justEvicted : BOOLEAN, posted : BOOLEAN]

\* A neighbour has one entry at most.
Once(s) == \A i, j \in 1 .. Len(s) : s[i].neighbor = s[j].neighbor => i = j

GoodTable(s) == s \in Seq(Route) /\ Once(s) /\ Len(s) <= TableSize

\* The neighbours in a routing table.
NeighborsIn(s) == {s[i].neighbor : i \in 1 .. Len(s)}

Good(e) == e \in Engine /\ GoodTable(e.routes)

(* Assumptions on the constants. *)
LEMMA Constants ==
  /\ Me \notin Neighbors /\ Elsewhere \notin Neighbors /\ INVALID_ADDR \notin Neighbors
  /\ Me # INVALID_ADDR /\ Elsewhere \notin {Me, INVALID_ADDR}
  /\ IsFiniteSet(Neighbors)
  /\ TableSize \in Nat \ {0} /\ EvictThreshold \in Nat
  /\ Eetx \subseteq Nat /\ 0 \in Eetx
  BY RouterAssumption, TableAssumption DEF Table!LinkTableAssumption

(* The fields of a route, of the node's own route, and of the engine. *)
LEMMA Fields ==
  /\ \A r \in Route : /\ r.neighbor \in Neighbors /\ r.parent \in Hops
                      /\ r.etx \in Metrics /\ r.congested \in BOOLEAN
  /\ \A i \in Info : i.parent \in Ends /\ i.etx \in Metrics /\ i.congested \in BOOLEAN
  /\ \A e \in Engine : /\ e.routes \in Seq(Route) /\ e.info \in Info
                       /\ e.justEvicted \in BOOLEAN /\ e.posted \in BOOLEAN
  /\ \A m \in Metrics : m \in Nat /\ m <= MAX_METRIC
  <1>1. ASSUME NEW r \in Route
        PROVE  /\ r.neighbor \in Neighbors /\ r.parent \in Hops
               /\ r.etx \in Metrics /\ r.congested \in BOOLEAN
    BY DEF Route
  <1>2. ASSUME NEW i \in Info
        PROVE  i.parent \in Ends /\ i.etx \in Metrics /\ i.congested \in BOOLEAN
    BY DEF Info
  <1>3. ASSUME NEW e \in Engine
        PROVE  /\ e.routes \in Seq(Route) /\ e.info \in Info
               /\ e.justEvicted \in BOOLEAN /\ e.posted \in BOOLEAN
    BY DEF Engine
  <1>4. \A m \in Metrics : m \in Nat /\ m <= MAX_METRIC
    BY DEF Metrics, MAX_METRIC
  <1> QED BY <1>1, <1>2, <1>3, <1>4

(* A neighbour's route. *)
LEMMA RouteAt ==
  ASSUME NEW s \in Seq(Route), NEW i \in 1 .. Len(s)
  PROVE  /\ s[i] \in Route
         /\ s[i].neighbor \in Neighbors /\ s[i].parent \in Hops
         /\ s[i].etx \in Metrics /\ s[i].congested \in BOOLEAN
  <1>1. s[i] \in Route
    BY LenProperties
  <1> QED BY <1>1, Fields

(* The neighbours in a table. *)
LEMMA NeighborsInType ==
  ASSUME NEW s \in Seq(Route)
  PROVE  NeighborsIn(s) \subseteq Neighbors
  BY RouteAt DEF NeighborsIn

(* The neighbours of a routing engine are those in its table. *)
LEMMA RoutedIn ==
  ASSUME NEW e, e.routes \in Seq(Route)
  PROVE  Routed(e) = NeighborsIn(e.routes) /\ Routed(e) \subseteq Neighbors
  <1>1. DOMAIN e.routes = 1 .. Len(e.routes)
    BY LenProperties
  <1>2. Routed(e) = NeighborsIn(e.routes)
    BY <1>1 DEF Routed, ToSet, NeighborsIn
  <1> QED BY <1>2, NeighborsInType

(* A table with one entry removed. *)
LEMMA RemovedTable ==
  ASSUME NEW s, GoodTable(s), NEW k \in 1 .. Len(s)
  PROVE  /\ GoodTable(RemoveAt(s, k))
         /\ NeighborsIn(RemoveAt(s, k)) = NeighborsIn(s) \ {s[k].neighbor}
  <1> DEFINE front == SubSeq(s, 1, k - 1)
             rest == SubSeq(s, k + 1, Len(s))
             r == RemoveAt(s, k)
  <1>1. /\ s \in Seq(Route) /\ Len(s) \in Nat /\ k \in Nat /\ 1 <= k /\ k <= Len(s)
        /\ \A i \in 1 .. Len(s) : s[i] \in Route
    BY LenProperties DEF GoodTable
  <1>2. front \in Seq(Route) /\ Len(front) = k - 1 /\ \A i \in 1 .. k - 1 : front[i] = s[i]
    <2>1. 1 \in Int /\ k - 1 \in Int /\ \A i \in 1 .. k - 1 : s[i] \in Route
      BY <1>1
    <2>2. /\ front \in Seq(Route) /\ Len(front) = IF 1 <= k - 1 THEN k - 1 - 1 + 1 ELSE 0
          /\ \A i \in 1 .. k - 1 - 1 + 1 : front[i] = s[1 + i - 1]
      BY <2>1, SubSeqProperties
    <2> HIDE DEF front
    <2> QED BY <1>1, <2>2
  <1>3. rest \in Seq(Route) /\ Len(rest) = Len(s) - k
        /\ \A i \in 1 .. Len(s) - k : rest[i] = s[i + k]
    BY <1>1, RestOfSeq
  <1>4. r = front \o rest
    BY DEF RemoveAt
  <1> HIDE DEF front, rest, r
  <1>5. /\ r \in Seq(Route) /\ Len(r) = Len(s) - 1
        /\ \A i \in 1 .. Len(r) : r[i] = IF i < k THEN s[i] ELSE s[i + 1]
    <2>1. /\ r \in Seq(Route) /\ Len(r) = Len(front) + Len(rest)
          /\ \A i \in 1 .. Len(front) + Len(rest) :
               r[i] = IF i <= Len(front) THEN front[i] ELSE rest[i - Len(front)]
      BY <1>2, <1>3, <1>4, ConcatProperties
    <2>2. Len(r) = Len(s) - 1
      BY <1>1, <1>2, <1>3, <2>1
    <2>3. ASSUME NEW i \in 1 .. Len(r) PROVE r[i] = IF i < k THEN s[i] ELSE s[i + 1]
      <3>1. r[i] = IF i <= k - 1 THEN front[i] ELSE rest[i - (k - 1)]
        BY <1>2, <1>3, <2>1
      <3>2. CASE i < k
        BY <1>1, <1>2, <2>2, <3>1, <3>2
      <3>3. CASE ~ (i < k)
        <4>1. i - (k - 1) \in 1 .. Len(s) - k /\ i - (k - 1) + k = i + 1
          BY <1>1, <2>2, <3>3
        <4> QED BY <1>1, <1>3, <3>1, <3>3, <4>1
      <3> QED BY <3>2, <3>3
    <2> QED BY <2>1, <2>2, <2>3
  <1>6. Once(s) /\ Len(s) <= TableSize
    BY DEF GoodTable
  <1>7. Once(r)
    <2> SUFFICES ASSUME NEW i \in 1 .. Len(r), NEW j \in 1 .. Len(r), r[i].neighbor = r[j].neighbor
                 PROVE  i = j
      BY DEF Once
    <2>1. r[i] = (IF i < k THEN s[i] ELSE s[i + 1]) /\ r[j] = (IF j < k THEN s[j] ELSE s[j + 1])
      BY <1>5
    <2>2. i \in 1 .. Len(s) /\ i + 1 \in 1 .. Len(s) /\ j \in 1 .. Len(s) /\ j + 1 \in 1 .. Len(s)
      BY <1>1, <1>5
    <2> QED BY <1>1, <1>6, <2>1, <2>2 DEF Once
  <1>8. NeighborsIn(r) = NeighborsIn(s) \ {s[k].neighbor}
    <2>1. ASSUME NEW i \in 1 .. Len(r)
          PROVE  r[i].neighbor \in NeighborsIn(s) \ {s[k].neighbor}
      <3>1. PICK j \in 1 .. Len(s) : r[i] = s[j] /\ j # k
        <4>1. i \in 1 .. Len(s) /\ i + 1 \in 1 .. Len(s) /\ i + 1 # i
              /\ (i < k => i # k) /\ (~ (i < k) => i + 1 # k)
          BY <1>1, <1>5
        <4> QED BY <1>5, <4>1
      <3> QED BY <1>6, <3>1 DEF Once, NeighborsIn
    <2>2. ASSUME NEW j \in 1 .. Len(s), s[j].neighbor # s[k].neighbor
          PROVE  s[j].neighbor \in NeighborsIn(r)
      <3>1. j # k
        BY <2>2
      <3>2. PICK i \in 1 .. Len(r) : r[i] = s[j]
        <4>1. CASE j < k
          <5>1. j \in 1 .. Len(r)
            BY <1>1, <1>5, <4>1
          <5> QED BY <1>5, <4>1, <5>1
        <4>2. CASE j > k
          <5>1. j - 1 \in 1 .. Len(r) /\ ~ (j - 1 < k) /\ j - 1 + 1 = j
            BY <1>1, <1>5, <4>2
          <5> QED BY <1>5, <5>1
        <4> QED BY <1>1, <3>1, <4>1, <4>2
      <3> QED BY <3>2 DEF NeighborsIn
    <2>3. NeighborsIn(r) \subseteq NeighborsIn(s) \ {s[k].neighbor}
      <3> SUFFICES ASSUME NEW i \in 1 .. Len(r)
                   PROVE  r[i].neighbor \in NeighborsIn(s) \ {s[k].neighbor}
        BY DEF NeighborsIn
      <3> QED BY <2>1
    <2>4. NeighborsIn(s) \ {s[k].neighbor} \subseteq NeighborsIn(r)
      <3> SUFFICES ASSUME NEW j \in 1 .. Len(s), s[j].neighbor # s[k].neighbor
                   PROVE  s[j].neighbor \in NeighborsIn(r)
        BY DEF NeighborsIn
      <3> QED BY <2>2
    <2> QED BY <2>3, <2>4
  <1>9. GoodTable(r)
    BY <1>1, <1>5, <1>6, <1>7, Constants DEF GoodTable
  <1> QED BY <1>8, <1>9 DEF r

(* Eviction takes the neighbour out of the table, and the parent with it. *)
LEMMA EvictedOne ==
  ASSUME NEW e, Good(e), NEW n \in Neighbors
  PROVE  /\ Good(evicted(e, n))
         /\ Routed(evicted(e, n)) = Routed(e) \ {n}
         /\ evicted(e, n).info = IF e.info.parent = n THEN NoRoute ELSE e.info
         /\ evicted(e, n).justEvicted = (e.justEvicted \/ e.info.parent = n)
  <1> DEFINE routes == IF n \in Routed(e) THEN RemoveAt(e.routes, Place(e, n)) ELSE e.routes
  <1>1. e \in Engine /\ GoodTable(e.routes) /\ e.routes \in Seq(Route)
    BY DEF Good, GoodTable
  <1>2. GoodTable(routes) /\ NeighborsIn(routes) = NeighborsIn(e.routes) \ {n}
    <2>1. CASE n \in Routed(e)
      <3>1. DOMAIN e.routes = 1 .. Len(e.routes)
        BY <1>1, LenProperties
      <3>2. \E i \in DOMAIN e.routes : e.routes[i].neighbor = n
        BY <1>1, <2>1, <3>1, RoutedIn DEF NeighborsIn
      <3>3. Place(e, n) \in 1 .. Len(e.routes) /\ e.routes[Place(e, n)].neighbor = n
        BY <3>1, <3>2 DEF Place
      <3> QED BY <1>1, <2>1, <3>3, RemovedTable
    <2>2. CASE n \notin Routed(e)
      BY <1>1, <2>2, RoutedIn
    <2> QED BY <2>1, <2>2
  <1>3. NoRoute \in Info
    BY DEF NoRoute, Info, Ends, Metrics, MAX_METRIC
  <1>4. routes \in Seq(Route)
    BY <1>2 DEF GoodTable
  <1>5. [e EXCEPT !.routes = routes] \in Engine
    BY <1>1, <1>4 DEF Engine
  <1>6. evicted(e, n) = IF e.info.parent = n
                        THEN [e EXCEPT !.routes = routes, !.info = NoRoute, !.justEvicted = TRUE,
                                       !.posted = TRUE]
                        ELSE [e EXCEPT !.routes = routes]
    BY <1>1 DEF evicted, Engine
  <1> HIDE DEF routes
  <1>7. /\ evicted(e, n) \in Engine /\ evicted(e, n).routes = routes
        /\ evicted(e, n).info = IF e.info.parent = n THEN NoRoute ELSE e.info
        /\ evicted(e, n).justEvicted = (e.justEvicted \/ e.info.parent = n)
    BY <1>1, <1>3, <1>4, <1>5, <1>6 DEF Engine
  <1>8. Routed(evicted(e, n)) = NeighborsIn(routes) /\ Routed(e) = NeighborsIn(e.routes)
    BY <1>1, <1>4, <1>7, RoutedIn
  <1> QED BY <1>2, <1>7, <1>8 DEF Good

(* Following the evictions of a call of the estimator. *)
LEMMA Followed ==
  ASSUME NEW e, Good(e), NEW out, out = {} \/ \E v \in Neighbors : out = {v}
  PROVE  /\ Good(Following(e, out))
         /\ Routed(Following(e, out)) = Routed(e) \ out
         /\ Following(e, out).info = IF e.info.parent \in out THEN NoRoute ELSE e.info
         /\ Following(e, out).justEvicted = (e.justEvicted \/ e.info.parent \in out)
  <1>1. CASE out = {}
    <2>1. e.justEvicted \in BOOLEAN
      BY Fields DEF Good
    <2> QED BY <1>1, <2>1 DEF Following
  <1>2. ASSUME NEW v \in Neighbors, out = {v}
        PROVE  /\ Good(Following(e, out))
               /\ Routed(Following(e, out)) = Routed(e) \ out
               /\ Following(e, out).info = IF e.info.parent \in out THEN NoRoute ELSE e.info
               /\ Following(e, out).justEvicted = (e.justEvicted \/ e.info.parent \in out)
    <2>1. Following(e, out) = evicted(e, v)
      BY <1>2 DEF Following
    <2>2. /\ Good(evicted(e, v)) /\ Routed(evicted(e, v)) = Routed(e) \ {v}
          /\ evicted(e, v).info = IF e.info.parent = v THEN NoRoute ELSE e.info
          /\ evicted(e, v).justEvicted = (e.justEvicted \/ e.info.parent = v)
      BY EvictedOne
    <2>3. (e.info.parent \in out) = (e.info.parent = v)
      BY <1>2
    <2> QED BY <1>2, <2>1, <2>2, <2>3, Zenon
  <1> QED BY <1>1, <1>2

(* A table whose entries are rewritten but keep their neighbours. *)
LEMMA RewrittenTable ==
  ASSUME NEW s, GoodTable(s), NEW t \in [1 .. Len(s) -> Route],
         \A i \in 1 .. Len(s) : t[i].neighbor = s[i].neighbor
  PROVE  GoodTable(t) /\ NeighborsIn(t) = NeighborsIn(s)
  <1>1. Len(s) \in Nat /\ Once(s) /\ Len(s) <= TableSize
    BY LenProperties DEF GoodTable
  <1>2. t \in Seq(Route) /\ Len(t) = Len(s)
    BY <1>1, SeqDef, LenProperties
  <1> QED BY <1>1, <1>2 DEF GoodTable, Once, NeighborsIn

(* A table with an entry for another neighbour. *)
LEMMA LongerTable ==
  ASSUME NEW s, GoodTable(s), NEW r \in Route, r.neighbor \notin NeighborsIn(s),
         Len(s) < TableSize
  PROVE  /\ GoodTable(Append(s, r))
         /\ NeighborsIn(Append(s, r)) = NeighborsIn(s) \union {r.neighbor}
  <1> DEFINE t == Append(s, r)
  <1>1. s \in Seq(Route) /\ Len(s) \in Nat /\ Once(s) /\ TableSize \in Nat
    BY LenProperties, Constants DEF GoodTable
  <1>2. /\ t \in Seq(Route) /\ Len(t) = Len(s) + 1
        /\ \A i \in 1 .. Len(s) : t[i] = s[i]
        /\ t[Len(s) + 1] = r
    BY <1>1, AppendProperties
  <1> HIDE DEF t
  <1>3. \A i \in 1 .. Len(t) : i \in 1 .. Len(s) \/ i = Len(s) + 1
    BY <1>1, <1>2
  <1>4. \A i \in 1 .. Len(s) : i \in 1 .. Len(t) /\ s[i].neighbor # r.neighbor
    BY <1>1, <1>2 DEF NeighborsIn
  <1>5. Once(t)
    BY <1>1, <1>2, <1>3, <1>4 DEF Once
  <1>6. NeighborsIn(t) = NeighborsIn(s) \union {r.neighbor}
    <2>1. NeighborsIn(t) \subseteq NeighborsIn(s) \union {r.neighbor}
      BY <1>2, <1>3 DEF NeighborsIn
    <2>2. NeighborsIn(s) \subseteq NeighborsIn(t)
      BY <1>2, <1>4 DEF NeighborsIn
    <2>3. r.neighbor \in NeighborsIn(t)
      <3>1. Len(s) + 1 \in 1 .. Len(t)
        BY <1>1, <1>2
      <3> QED BY <1>2, <3>1 DEF NeighborsIn
    <2> QED BY <2>1, <2>2, <2>3
  <1>7. Len(t) <= TableSize
    BY <1>1, <1>2
  <1> QED BY <1>2, <1>5, <1>6, <1>7 DEF GoodTable, t

(* Recording a neighbour's beacon: its entry is there if there was room. *)
LEMMA UpdatedEntry ==
  ASSUME NEW e, Good(e), NEW n \in Neighbors, NEW b, b.parent \in Hops, b.etx \in Metrics
  PROVE  LET u == routingTableUpdateEntry(e, n, b)
         IN  /\ Good(u)
             /\ Routed(e) \subseteq Routed(u) /\ Routed(u) \subseteq Routed(e) \union {n}
             /\ u.info = e.info /\ u.justEvicted = e.justEvicted
  <1> DEFINE s == e.routes
             new == [neighbor |-> n, parent |-> b.parent, etx |-> b.etx, congested |-> FALSE]
             same == [i \in DOMAIN s |-> IF s[i].neighbor # n THEN s[i]
                        ELSE [s[i] EXCEPT !.parent = b.parent, !.etx = b.etx]]
             u == routingTableUpdateEntry(e, n, b)
             t == IF n \in Routed(e) THEN same
                  ELSE IF Len(s) < TableSize THEN Append(s, new) ELSE s
  <1>1. e \in Engine /\ GoodTable(s) /\ s \in Seq(Route) /\ DOMAIN s = 1 .. Len(s)
    BY LenProperties DEF Good, GoodTable
  <1>2. GoodTable(t) /\ NeighborsIn(s) \subseteq NeighborsIn(t)
        /\ NeighborsIn(t) \subseteq NeighborsIn(s) \union {n}
    <2>1. GoodTable(same) /\ NeighborsIn(same) = NeighborsIn(s)
      <3>1. ASSUME NEW i \in 1 .. Len(s)
            PROVE  same[i] \in Route /\ same[i].neighbor = s[i].neighbor
        <4>1. s[i] \in Route
          BY <1>1, RouteAt
        <4>2. [s[i] EXCEPT !.parent = b.parent, !.etx = b.etx] \in Route
              /\ [s[i] EXCEPT !.parent = b.parent, !.etx = b.etx].neighbor = s[i].neighbor
          BY <4>1 DEF Route
        <4> QED BY <1>1, <4>1, <4>2
      <3>2. same \in [1 .. Len(s) -> Route]
        BY <1>1, <3>1
      <3> HIDE DEF same
      <3> QED BY <1>1, <3>1, <3>2, RewrittenTable
    <2>2. new \in Route /\ new.neighbor = n
      BY DEF Route
    <2>3. ASSUME n \notin NeighborsIn(s), Len(s) < TableSize
          PROVE  GoodTable(Append(s, new))
                 /\ NeighborsIn(Append(s, new)) = NeighborsIn(s) \union {n}
      <3> HIDE DEF new
      <3> QED BY <1>1, <2>2, <2>3, LongerTable
    <2>4. Routed(e) = NeighborsIn(s)
      BY <1>1, RoutedIn
    <2> HIDE DEF same, new
    <2> QED BY <1>1, <2>1, <2>3, <2>4
  <1>3. u = [e EXCEPT !.routes = t]
    BY <1>1 DEF routingTableUpdateEntry, Engine
  <1> HIDE DEF t, u
  <1>4. u \in Engine /\ u.routes = t /\ u.info = e.info /\ u.justEvicted = e.justEvicted
    <2>1. t \in Seq(Route)
      BY <1>2 DEF GoodTable
    <2> QED BY <1>1, <1>3, <2>1 DEF Engine
  <1>5. Routed(u) = NeighborsIn(t) /\ Routed(e) = NeighborsIn(s)
    BY <1>1, <1>2, <1>4, RoutedIn DEF GoodTable
  <1> QED BY <1>2, <1>4, <1>5 DEF Good, u

(* Congestion is noted in the entry of the neighbour. *)
LEMMA CongestionNoted ==
  ASSUME NEW e, Good(e), NEW n, NEW c \in BOOLEAN
  PROVE  LET u == setNeighborCongested(e, n, c)
         IN  /\ Good(u) /\ Routed(u) = Routed(e)
             /\ u.info = e.info /\ u.justEvicted = e.justEvicted
  <1> DEFINE s == e.routes
             t == [i \in DOMAIN s |-> IF s[i].neighbor # n THEN s[i]
                                      ELSE [s[i] EXCEPT !.congested = c]]
             p == e.posted \/ (e.info.congested /\ ~ c) \/ (e.info.parent = n /\ c)
             u == setNeighborCongested(e, n, c)
  <1>1. e \in Engine /\ GoodTable(s) /\ s \in Seq(Route) /\ DOMAIN s = 1 .. Len(s)
    BY LenProperties DEF Good, GoodTable
  <1>2. GoodTable(t) /\ NeighborsIn(t) = NeighborsIn(s)
    <2>1. ASSUME NEW i \in 1 .. Len(s)
          PROVE  t[i] \in Route /\ t[i].neighbor = s[i].neighbor
      <3>1. s[i] \in Route
        BY <1>1, RouteAt
      <3>2. [s[i] EXCEPT !.congested = c] \in Route
            /\ [s[i] EXCEPT !.congested = c].neighbor = s[i].neighbor
        BY <3>1 DEF Route
      <3> QED BY <1>1, <3>1, <3>2
    <2>2. t \in [1 .. Len(s) -> Route]
      BY <1>1, <2>1
    <2> HIDE DEF t
    <2> QED BY <1>1, <2>1, <2>2, RewrittenTable
  <1>3. u = [e EXCEPT !.routes = t, !.posted = p]
    BY <1>1 DEF setNeighborCongested, Engine
  <1>4. p \in BOOLEAN
    BY <1>1, Fields
  <1> HIDE DEF t, u, p
  <1>5. u \in Engine /\ u.routes = t /\ u.info = e.info /\ u.justEvicted = e.justEvicted
    <2>1. t \in Seq(Route)
      BY <1>2 DEF GoodTable
    <2> QED BY <1>1, <1>3, <1>4, <2>1 DEF Engine
  <1>6. Routed(u) = NeighborsIn(t) /\ Routed(e) = NeighborsIn(s)
    BY <1>1, <1>2, <1>5, RoutedIn DEF GoodTable
  <1> QED BY <1>2, <1>5, <1>6 DEF Good, u

(* The fields of a world. *)
Groups    == SUBSET Neighbors
Etxs      == SUBSET (0 .. MAX_METRIC)
Intervals == Nat \ {0, 1}

LEMMA WorldFields ==
  ASSUME NEW w \in Worlds
  PROVE  /\ w.neighbors \subseteq Neighbors /\ w.etxs \subseteq Metrics
         /\ w.congestion \in BOOLEAN
         /\ w.min \in Nat /\ w.min >= 2 /\ w.max \in Nat /\ w.min <= w.max
  <1>1. w \in [neighbors : Groups, wide : BOOLEAN, etxs : Etxs, congestion : BOOLEAN,
               data : BOOLEAN, rooting : BOOLEAN, power : BOOLEAN, beacons : BOOLEAN,
               min : Intervals, max : Nat]
    <2>1. World = [neighbors : Groups, wide : BOOLEAN, etxs : Etxs, congestion : BOOLEAN,
                   data : BOOLEAN, rooting : BOOLEAN, power : BOOLEAN, beacons : BOOLEAN,
                   min : Intervals, max : Nat]
      BY DEF World, Groups, Etxs, Intervals
    <2>2. w \in World
      BY RouterAssumption
    <2> QED BY <2>1, <2>2
  <1>2. /\ w.neighbors \in Groups /\ w.etxs \in Etxs /\ w.congestion \in BOOLEAN
        /\ w.min \in Intervals /\ w.max \in Nat
    BY <1>1
  <1>3. w.min <= w.max
    BY RouterAssumption
  <1>4. w.min \in Nat /\ w.min >= 2
    <2>1. ASSUME NEW i \in Intervals PROVE i \in Nat /\ i >= 2
      BY DEF Intervals
    <2> QED BY <1>2, <2>1
  <1>5. w.neighbors \subseteq Neighbors
    BY <1>2 DEF Groups
  <1>6. w.etxs \subseteq Metrics
    <2>1. ASSUME NEW etxs \in Etxs, NEW m \in etxs PROVE m \in Metrics
      <3>1. m \in 0 .. MAX_METRIC
        BY Zenon DEF Etxs
      <3> QED BY <3>1 DEF Metrics, MAX_METRIC
    <2> QED BY SMTT(30), <1>2, <2>1
  <1> QED BY <1>2, <1>3, <1>4, <1>5, <1>6

(* What a beacon may say. *)
LEMMA BeaconFields ==
  ASSUME world \in Worlds, NEW b \in Beacons
  PROVE  /\ b.parent \in Hops \union {INVALID_ADDR} /\ b.etx \in Metrics
         /\ b.congested \in BOOLEAN
  <1>1. world.etxs \subseteq Metrics /\ world.congestion \in BOOLEAN
    BY WorldFields
  <1>2. 0 \in Metrics
    BY DEF Metrics, MAX_METRIC
  <1>3. CASE b \in [parent : {INVALID_ADDR, Elsewhere}, etx : {0},
                    congested : {FALSE, world.congestion}]
    <2> DEFINE bits == {FALSE, world.congestion}
    <2>1. b.parent \in {INVALID_ADDR, Elsewhere} /\ b.etx \in {0} /\ b.congested \in bits
      BY <1>3
    <2>2. bits \subseteq BOOLEAN
      BY <1>1
    <2> HIDE DEF bits
    <2> QED BY <1>2, <2>1, <2>2 DEF Hops
  <1>4. CASE b \in [parent : {Me, Elsewhere}, etx : world.etxs,
                    congested : {FALSE, world.congestion}]
    <2> DEFINE etxs == world.etxs
               bits == {FALSE, world.congestion}
    <2>1. b \in [parent : Hops, etx : etxs, congested : bits]
      BY <1>4 DEF Hops
    <2> HIDE DEF etxs, bits
    <2>2. b.parent \in Hops /\ b.etx \in etxs /\ b.congested \in bits
      BY <2>1
    <2> USE DEF etxs, bits
    <2> QED BY <1>1, <2>2
  <1> QED BY <1>3, <1>4 DEF Beacons

(* The routing engine's part of a beacon. *)
LEMMA RecordedBeacon ==
  ASSUME world \in Worlds, NEW e, Good(e), NEW n \in Neighbors, NEW b \in Beacons
  PROVE  LET u == Recorded(e, n, b)
         IN  /\ Good(u)
             /\ Routed(e) \subseteq Routed(u) /\ Routed(u) \subseteq Routed(e) \union {n}
             /\ u.info = e.info /\ u.justEvicted = e.justEvicted
  <1>1. CASE b.parent = INVALID_ADDR
    BY <1>1 DEF Recorded
  <1>2. CASE b.parent # INVALID_ADDR
    <2>1. b.parent \in Hops /\ b.etx \in Metrics /\ b.congested \in BOOLEAN
      BY <1>2, BeaconFields
    <2> DEFINE v == routingTableUpdateEntry(e, n, b)
               u == setNeighborCongested(v, n, b.congested)
    <2>2. /\ Good(v)
          /\ Routed(e) \subseteq Routed(v) /\ Routed(v) \subseteq Routed(e) \union {n}
          /\ v.info = e.info /\ v.justEvicted = e.justEvicted
      BY <2>1, UpdatedEntry
    <2>3. Recorded(e, n, b) = u
      BY <1>2 DEF Recorded
    <2> HIDE DEF v
    <2>4. Good(u) /\ Routed(u) = Routed(v) /\ u.info = v.info /\ u.justEvicted = v.justEvicted
      BY <2>1, <2>2, CongestionNoted
    <2> HIDE DEF u
    <2> QED BY <2>2, <2>3, <2>4
  <1> QED BY <1>1, <1>2

-----------------------------------------------------------------------------
(* The estimator's table, as LinkTable gives it. *)

Links(l) == /\ DOMAIN l \subseteq Neighbors
            /\ l \in [DOMAIN l -> Table!Link]
            /\ Cardinality(DOMAIN l) <= TableSize

\* What a call that concerns n may do to table l: evict one other neighbour, that is
\* not pinned, and give n a slot; it pins and unpins nobody.
Harmless(l, n, o) ==
  /\ Links(o.links)
  /\ o.evicted = {} \/ \E v \in DOMAIN l \ {n} : ~ l[v].pinned /\ o.evicted = {v}
  /\ DOMAIN l \ o.evicted \subseteq DOMAIN o.links
  /\ DOMAIN o.links \subseteq (DOMAIN l \ o.evicted) \union {n}
  /\ \A m \in DOMAIN o.links : o.links[m].pinned => m \in DOMAIN l /\ l[m].pinned
  /\ \A m \in DOMAIN l \ o.evicted : l[m].pinned => o.links[m].pinned

(* LinkTable counts as this module does. *)
LEMMA SameCount == \A S : Table!Cardinality(S) = Cardinality(S)
  BY DEF Table!Cardinality, Cardinality

(* A table that stays as it is. *)
LEMMA Kept ==
  ASSUME NEW l, Links(l), NEW n
  PROVE  Harmless(l, n, Table!Outcome(l, {}))
  BY DEF Harmless, Table!Outcome

(* A neighbour takes a free slot, or that of a neighbour that is not pinned. *)
LEMMA Entered ==
  ASSUME NEW l, Links(l), NEW n \in Neighbors, n \notin DOMAIN l, NEW out,
         \/ out = {} /\ Table!Room(l)
         \/ \E v \in DOMAIN l : ~ l[v].pinned /\ out = {v}
  PROVE  /\ Harmless(l, n, Table!Outcome(Table!Enter(l, n, out), out))
         /\ n \in DOMAIN Table!Enter(l, n, out)
  <1> DEFINE r == Table!Enter(l, n, out)
             D == DOMAIN l
  <1>1. IsFiniteSet(D) /\ Cardinality(D) \in Nat /\ Cardinality(D) <= TableSize
        /\ TableSize \in Nat
    BY Constants, FS_Subset, FS_CardinalityType DEF Links
  <1>2. DOMAIN r = (D \ out) \union {n}
    BY DEF Table!Enter
  <1>3. Cardinality((D \ out) \union {n}) <= TableSize
    <2>1. CASE out = {} /\ Table!Room(l)
      <3>1. (D \ out) \union {n} = D \union {n}
        BY <2>1
      <3>2. Cardinality(D \union {n}) = Cardinality(D) + 1
        BY <1>1, FS_AddElement
      <3>3. Cardinality(D) < TableSize
        BY <2>1, SameCount DEF Table!Room
      <3> QED BY <1>1, <3>1, <3>2, <3>3
    <2>2. ASSUME NEW v \in D, out = {v}
          PROVE  Cardinality((D \ out) \union {n}) <= TableSize
      <3>1. IsFiniteSet(D \ {v}) /\ Cardinality(D \ {v}) = Cardinality(D) - 1
        BY <1>1, <2>2, FS_RemoveElement
      <3> DEFINE rest == D \ {v}
      <3>2. Cardinality(rest \union {n}) = Cardinality(rest) + 1
        <4>1. IsFiniteSet(rest) /\ n \notin rest
          BY <3>1
        <4> HIDE DEF rest
        <4> QED BY <4>1, FS_AddElement
      <3>3. Cardinality((D \ {v}) \union {n}) = Cardinality(D)
        BY <1>1, <3>1, <3>2
      <3> QED BY <1>1, <2>2, <3>3
    <2> QED BY <2>1, <2>2
  <1>4. Table!Fresh \in Table!Link /\ ~ Table!Fresh.pinned
    BY Constants DEF Table!Fresh, Table!Link
  <1>5. \A m \in DOMAIN r : r[m] = IF m = n THEN Table!Fresh ELSE l[m]
    BY <1>2 DEF Table!Enter
  <1>6. r \in [DOMAIN r -> Table!Link]
    <2>1. \A m \in DOMAIN r : r[m] \in Table!Link
      BY <1>2, <1>4, <1>5 DEF Links
    <2>2. r = [m \in DOMAIN r |-> r[m]]
      BY <1>2 DEF Table!Enter
    <2> QED BY <2>1, <2>2
  <1>7. Links(r)
    BY <1>2, <1>3, <1>6 DEF Links
  <1> HIDE DEF r
  <1>8. Harmless(l, n, Table!Outcome(r, out))
    BY <1>2, <1>4, <1>5, <1>7 DEF Harmless, Table!Outcome
  <1> QED BY <1>2, <1>8 DEF r

(* The answers to a beacon of a neighbour without a slot. *)
LEMMA AdmittedOne ==
  ASSUME NEW l, Links(l), NEW n \in Neighbors, n \notin DOMAIN l, NEW recommended,
         NEW o \in Table!Admitted(l, n, recommended)
  PROVE  /\ Harmless(l, n, o)
         /\ Table!Room(l) => o.evicted = {} /\ n \in DOMAIN o.links
  <1>1. CASE Table!Room(l)
    <2>1. o = Table!Outcome(Table!Enter(l, n, {}), {})
      BY <1>1 DEF Table!Admitted
    <2>2. Harmless(l, n, o) /\ n \in DOMAIN Table!Enter(l, n, {})
      BY <1>1, <2>1, Entered
    <2> QED BY <2>1, <2>2 DEF Table!Outcome
  <1>2. ASSUME NEW v \in DOMAIN l, ~ l[v].pinned,
               o = Table!Outcome(Table!Enter(l, n, {v}), {v})
        PROVE  Harmless(l, n, o)
    <2>1. \E w \in DOMAIN l : ~ l[w].pinned /\ {v} = {w}
      BY <1>2
    <2> QED BY <1>2, <2>1, Entered
  <1>3. CASE ~ Table!Room(l) /\ o = Table!Outcome(l, {})
    BY <1>3, Kept
  <1>4. CASE ~ Table!Room(l) /\ o # Table!Outcome(l, {})
    <2>1. \/ o \in Table!Replacing(l, n, Table!Worst(l, EvictThreshold))
          \/ o \in Table!Replacing(l, n, Table!Unripe(l))
      BY <1>4 DEF Table!Admitted
    <2>2. \E v \in DOMAIN l : ~ l[v].pinned /\ o = Table!Outcome(Table!Enter(l, n, {v}), {v})
      BY <2>1 DEF Table!Replacing, Table!Worst, Table!Ripe, Table!Unripe
    <2> QED BY <1>2, <1>4, <2>2
  <1> QED BY <1>1, <1>3, <1>4

(* The answers to a forced insertion. *)
LEMMA InsertedOne ==
  ASSUME NEW l, Links(l), NEW n \in Neighbors, NEW o \in Table!Inserted(l, n)
  PROVE  /\ Harmless(l, n, o)
         /\ n \in DOMAIN l => o.evicted = {} /\ o.links = l
  <1>1. CASE o = Table!Outcome(l, {})
    BY <1>1, Kept DEF Table!Outcome
  <1>2. CASE o # Table!Outcome(l, {})
    <2>1. n \notin DOMAIN l
      BY <1>2 DEF Table!Inserted
    <2>2. CASE Table!Room(l)
      <3>1. o = Table!Outcome(Table!Enter(l, n, {}), {})
        BY <2>1, <2>2 DEF Table!Inserted
      <3> QED BY <2>1, <2>2, <3>1, Entered
    <2>3. CASE ~ Table!Room(l)
      <3>1. o \in Table!Replacing(l, n, Table!Worst(l, 0))
        BY <1>2, <2>1, <2>3 DEF Table!Inserted
      <3>2. PICK v \in DOMAIN l :
              ~ l[v].pinned /\ o = Table!Outcome(Table!Enter(l, n, {v}), {v})
        BY <3>1 DEF Table!Replacing, Table!Worst, Table!Ripe
      <3> QED BY <2>1, <3>2, Entered
    <2> QED BY <2>1, <2>2, <2>3
  <1> QED BY <1>1, <1>2

(* What the estimator may do first with a beacon. *)
LEMMA HeardFirstOne ==
  ASSUME Links(links), NEW n \in Neighbors, NEW b, NEW o \in HeardFirst(n, b)
  PROVE  /\ Harmless(links, n, o)
         /\ n \in DOMAIN links \/ Table!Room(links) => o.evicted = {} /\ n \in DOMAIN o.links
  <1>1. CASE n \in DOMAIN links
    <2>1. PICK l \in {links} \union {Table!Ripened(links, n, q) : q \in Eetx} :
            o = Table!Outcome(l, {})
      BY <1>1 DEF HeardFirst
    <2>2. CASE l = links
      BY <1>1, <2>1, <2>2, Kept DEF Table!Outcome
    <2>3. ASSUME NEW q \in Eetx, l = Table!Ripened(links, n, q)
          PROVE  Harmless(links, n, o) /\ o.evicted = {} /\ n \in DOMAIN o.links
      <3> DEFINE D == DOMAIN links
                 new == [links[n] EXCEPT !.mature = TRUE, !.eetx = q]
      <3>1. links \in [D -> Table!Link] /\ links[n] \in Table!Link
        BY <1>1 DEF Links
      <3>2. new \in Table!Link /\ new.pinned = links[n].pinned
        BY <2>3, <3>1 DEF Table!Link
      <3>3. l = [m \in D |-> IF m = n THEN new ELSE links[m]]
        <4>1. l = [links EXCEPT ![n] = new]
          <5>1. links[n] = [mature |-> links[n].mature, pinned |-> links[n].pinned,
                            eetx |-> links[n].eetx]
            BY <3>1 DEF Table!Link
          <5> QED BY <1>1, <2>3, <3>1, <5>1 DEF Table!Ripened
        <4> QED BY <1>1, <3>1, <4>1
      <3> HIDE DEF new
      <3>4. DOMAIN l = D /\ \A m \in D : l[m] = IF m = n THEN new ELSE links[m]
        BY <3>3
      <3>5. l \in [D -> Table!Link]
        BY <3>1, <3>2, <3>3
      <3>6. Links(l)
        BY <3>4, <3>5 DEF Links
      <3>7. o.links = l /\ o.evicted = {}
        BY <2>1 DEF Table!Outcome
      <3>8. \A m \in D : l[m].pinned = links[m].pinned
        BY <3>2, <3>4
      <3>9. Harmless(links, n, o)
        BY <3>4, <3>6, <3>7, <3>8 DEF Harmless
      <3> QED BY <1>1, <3>4, <3>7, <3>9
    <2> QED BY <1>1, <2>1, <2>2, <2>3
  <1>2. CASE n \notin DOMAIN links
    <2>1. o \in Table!Admitted(links, n, shouldInsert(engine, b))
      BY <1>2 DEF HeardFirst
    <2> QED BY <1>2, <2>1, AdmittedOne
  <1> QED BY <1>1, <1>2

(* Pinning. *)
LEMMA PinnedOne ==
  ASSUME NEW l, Links(l), NEW n, NEW p \in BOOLEAN, NEW r, r = Table!Repinned(l, n, p)
  PROVE  /\ Links(r) /\ DOMAIN r = DOMAIN l
         /\ n \in DOMAIN l => r[n].pinned = p
         /\ \A m \in DOMAIN l \ {n} : r[m].pinned = l[m].pinned
         /\ \A m \in DOMAIN l : r[m].mature = l[m].mature /\ r[m].eetx = l[m].eetx
  <1> DEFINE D == DOMAIN l
             new == [l[n] EXCEPT !.pinned = p]
  <1>1. CASE n \in D
    <2>1. l \in [D -> Table!Link] /\ l[n] \in Table!Link
      BY <1>1 DEF Links
    <2>2. /\ new \in Table!Link /\ new.pinned = p
          /\ new.mature = l[n].mature /\ new.eetx = l[n].eetx
      BY <2>1 DEF Table!Link
    <2>3. r = [l EXCEPT ![n] = new]
      BY <1>1 DEF Table!Repinned
    <2> HIDE DEF new
    <2>4. /\ DOMAIN r = D /\ r \in [D -> Table!Link]
          /\ \A m \in D : r[m] = IF m = n THEN new ELSE l[m]
      BY <1>1, <2>1, <2>2, <2>3
    <2> QED BY <2>2, <2>4 DEF Links
  <1>2. CASE n \notin D
    BY <1>2 DEF Table!Repinned
  <1> QED BY <1>1, <1>2

\* A beacon of a root, and the table a beacon leaves.
FromRoot(b) == b.parent # INVALID_ADDR /\ b.etx = 0
Final(l, n, b) == IF FromRoot(b) THEN Table!Repinned(l, n, TRUE) ELSE l

\* What the estimator and the routing engine's calls of it do with a beacon of n in all.
HeardAll(n, b, first, second) ==
  LET l   == Final(second.links, n, b)
      out == first.evicted \union second.evicted
  IN  /\ Links(l)
      /\ first.evicted = {} \/ \E v \in Neighbors : first.evicted = {v}
      /\ second.evicted = {} \/ \E v \in Neighbors : second.evicted = {v}
      /\ out \subseteq DOMAIN links \ {n}
      /\ \A v \in out : ~ links[v].pinned
      /\ DOMAIN links \ out \subseteq DOMAIN l
      /\ DOMAIN l \subseteq (DOMAIN links \ out) \union {n}
      /\ \A m \in DOMAIN l : l[m].pinned
           => (m \in DOMAIN links /\ links[m].pinned) \/ (m = n /\ FromRoot(b))
      /\ \A m \in DOMAIN links \ out : links[m].pinned => l[m].pinned
      /\ n \in DOMAIN links \/ Table!Room(links) => out = {} /\ n \in DOMAIN l

LEMMA HeardBeacon ==
  ASSUME Links(links), NEW n \in Neighbors, NEW b,
         NEW first \in HeardFirst(n, b), NEW second \in Rooted(first.links, n, b)
  PROVE  HeardAll(n, b, first, second)
  <1> DEFINE D == DOMAIN links
             E == DOMAIN first.links
             F == DOMAIN second.links
             out == first.evicted \union second.evicted
             l == Final(second.links, n, b)
  <1>1. /\ Harmless(links, n, first) /\ Links(first.links)
        /\ n \in D \/ Table!Room(links) => first.evicted = {} /\ n \in E
    BY HeardFirstOne DEF Harmless
  <1>2. /\ Harmless(first.links, n, second) /\ Links(second.links)
        /\ n \in E => second.evicted = {} /\ second.links = first.links
    <2>1. CASE FromRoot(b)
      <3>1. second \in Table!Inserted(first.links, n)
        BY <2>1 DEF Rooted, FromRoot
      <3> QED BY <1>1, <3>1, InsertedOne DEF Harmless
    <2>2. CASE ~ FromRoot(b)
      <3>1. second = Table!Outcome(first.links, {})
        BY <2>2 DEF Rooted, FromRoot
      <3> QED BY <1>1, <3>1, Kept DEF Harmless, Table!Outcome
    <2> QED BY <2>1, <2>2
  <1>3. /\ Links(l) /\ DOMAIN l = F
        /\ \A m \in F : l[m].pinned <=> second.links[m].pinned \/ (m = n /\ FromRoot(b))
    <2>1. CASE FromRoot(b)
      <3>1. l = Table!Repinned(second.links, n, TRUE)
        BY <2>1 DEF Final
      <3>2. /\ Links(l) /\ DOMAIN l = F
            /\ n \in F => l[n].pinned
            /\ \A m \in F \ {n} : l[m].pinned = second.links[m].pinned
        <4>1. PICK p \in BOOLEAN : p = TRUE
          OBVIOUS
        <4>2. l = Table!Repinned(second.links, n, p)
          BY <3>1, <4>1
        <4> HIDE DEF l
        <4>3. /\ Links(l) /\ DOMAIN l = F
              /\ n \in F => l[n].pinned = p
              /\ \A m \in F \ {n} : l[m].pinned = second.links[m].pinned
          BY <1>2, <4>2, PinnedOne
        <4> QED BY <4>1, <4>3
      <3> HIDE DEF l, F
      <3> QED BY <2>1, <3>2
    <2>2. CASE ~ FromRoot(b)
      BY <1>2, <2>2 DEF Final
    <2> QED BY <2>1, <2>2
  <1>4. D \subseteq Neighbors /\ E \subseteq Neighbors
    BY <1>1 DEF Links
  <1>5. /\ first.evicted = {} \/ \E v \in D \ {n} : ~ links[v].pinned /\ first.evicted = {v}
        /\ D \ first.evicted \subseteq E /\ E \subseteq (D \ first.evicted) \union {n}
        /\ \A m \in E : first.links[m].pinned => m \in D /\ links[m].pinned
        /\ \A m \in D \ first.evicted : links[m].pinned => first.links[m].pinned
    BY <1>1 DEF Harmless
  <1>6. /\ second.evicted = {}
           \/ \E v \in E \ {n} : ~ first.links[v].pinned /\ second.evicted = {v}
        /\ E \ second.evicted \subseteq F /\ F \subseteq (E \ second.evicted) \union {n}
        /\ \A m \in F : second.links[m].pinned => m \in E /\ first.links[m].pinned
        /\ \A m \in E \ second.evicted : first.links[m].pinned => second.links[m].pinned
    BY <1>2 DEF Harmless
  <1> HIDE DEF D, E, F, l
  <1>7. /\ first.evicted = {} \/ \E v \in Neighbors : first.evicted = {v}
        /\ second.evicted = {} \/ \E v \in Neighbors : second.evicted = {v}
    BY <1>4, <1>5, <1>6
  <1>8. out \subseteq D \ {n} /\ \A v \in out : ~ links[v].pinned
    BY <1>5, <1>6
  <1>9. D \ out \subseteq F /\ F \subseteq (D \ out) \union {n}
    BY <1>5, <1>6, <1>8
  <1>10. \A m \in F : l[m].pinned
           => (m \in D /\ links[m].pinned) \/ (m = n /\ FromRoot(b))
    BY <1>3, <1>5, <1>6
  <1>11. \A m \in D \ out : links[m].pinned => l[m].pinned
    BY <1>3, <1>5, <1>6, <1>9
  <1>12. n \in D \/ Table!Room(links) => out = {} /\ n \in F
    BY <1>1, <1>2, <1>6
  <1> QED BY <1>3, <1>7, <1>8, <1>9, <1>10, <1>11, <1>12 DEF HeardAll, D, F, l

-----------------------------------------------------------------------------
(* The choice of a parent. *)

(* The metric of a path is a word of 16 bits. *)
LEMMA PathEtxType ==
  ASSUME NEW e, e \in Engine, NEW l, Links(l), NEW i \in 1 .. Len(e.routes)
  PROVE  PathEtx(e, l, i) \in Metrics /\ PathEtx(e, l, i) \in Nat
         /\ PathEtx(e, l, i) <= MAX_METRIC
  <1> DEFINE n == e.routes[i].neighbor
             q == Table!getLinkQuality(l, n)
  <1>1. q \in Nat
    <2>1. CASE n \in DOMAIN l /\ l[n].mature
      <3>1. q = l[n].eetx
        BY <2>1 DEF Table!getLinkQuality
      <3>2. l[n] \in Table!Link
        BY <2>1 DEF Links
      <3>3. l[n].eetx \in Eetx
        BY <3>2 DEF Table!Link
      <3> QED BY <3>1, <3>3, Constants
    <2>2. CASE ~ (n \in DOMAIN l /\ l[n].mature)
      BY <2>2 DEF Table!getLinkQuality, Table!VERY_LARGE_EETX_VALUE
    <2> QED BY <2>1, <2>2
  <1>2. e.routes[i].etx \in Nat
    BY Fields, RouteAt
  <1>3. \A x \in Nat : Word(x) \in Nat /\ Word(x) <= MAX_METRIC
    BY DEF Word, MAX_METRIC
  <1>4. PathEtx(e, l, i) = Word(Word(q + 10) + e.routes[i].etx)
    BY DEF PathEtx
  <1> HIDE DEF q
  <1>5. q + 10 \in Nat
    BY <1>1
  <1>6. PICK w \in Nat : w = Word(q + 10)
    BY <1>3, <1>5
  <1>7. PICK x \in Nat : x = w + e.routes[i].etx
    BY <1>2
  <1>8. PathEtx(e, l, i) = Word(x)
    BY <1>4, <1>6, <1>7
  <1>9. ASSUME NEW y \in Nat, y <= MAX_METRIC PROVE y \in Metrics
    <2>1. MAX_METRIC \in Nat
      BY DEF MAX_METRIC
    <2> QED BY <1>9, <2>1 DEF Metrics
  <1> QED BY <1>3, <1>8, <1>9

(* The parent has one entry at most. *)
LEMMA CurrentOne ==
  ASSUME NEW e, Good(e)
  PROVE  /\ Usable(e) \subseteq 1 .. Len(e.routes) /\ Current(e) \subseteq Usable(e)
         /\ \A i \in Current(e) : Current(e) = {i}
         /\ \A i \in Current(e) : e.routes[i].neighbor = e.info.parent
  <1>1. e.routes \in Seq(Route) /\ DOMAIN e.routes = 1 .. Len(e.routes) /\ Once(e.routes)
    BY LenProperties DEF Good, GoodTable
  <1>2. Usable(e) \subseteq 1 .. Len(e.routes) /\ Current(e) \subseteq Usable(e)
    BY <1>1 DEF Usable, Current
  <1>3. \A i \in Current(e) : e.routes[i].neighbor = e.info.parent
    BY DEF Current
  <1>4. \A i, j \in Current(e) : i = j
    BY <1>1, <1>2, <1>3 DEF Once
  <1> QED BY <1>2, <1>3, <1>4

(* The best of the other routes, if there is one. *)
LEMMA BestOf ==
  ASSUME NEW e, Good(e), NEW l, Links(l)
  PROVE  /\ minEtx(e, l) \in Nat /\ minEtx(e, l) <= MAX_METRIC
         /\ \A i \in Candidates(e, l) : minEtx(e, l) <= PathEtx(e, l, i)
         /\ Candidates(e, l) \subseteq Usable(e) \ Current(e)
         /\ minEtx(e, l) # MAX_METRIC
              => Best(e, l) \in Candidates(e, l) /\ PathEtx(e, l, Best(e, l)) = minEtx(e, l)
  <1> DEFINE C == Candidates(e, l)
             T == {MAX_METRIC} \union {PathEtx(e, l, i) : i \in C}
  <1>1. C \subseteq Usable(e) \ Current(e) /\ C \subseteq 1 .. Len(e.routes)
    BY CurrentOne DEF Candidates
  <1>2. \A i \in C : PathEtx(e, l, i) \in Nat /\ PathEtx(e, l, i) <= MAX_METRIC
    BY <1>1, PathEtxType DEF Good
  <1>3. MAX_METRIC \in Nat
    BY DEF MAX_METRIC
  <1> HIDE DEF C
  <1>4. T \subseteq Nat /\ T # {}
    BY <1>2, <1>3
  <1>5. Min(T) \in T /\ \A y \in T : Min(T) <= y
    BY <1>4, MinOf
  <1>6. minEtx(e, l) = Min(T)
    BY DEF minEtx, C
  <1>7. minEtx(e, l) # MAX_METRIC => Best(e, l) \in C /\ PathEtx(e, l, Best(e, l)) = minEtx(e, l)
    <2> SUFFICES ASSUME minEtx(e, l) # MAX_METRIC
                 PROVE  Best(e, l) \in C /\ PathEtx(e, l, Best(e, l)) = minEtx(e, l)
      OBVIOUS
    <2> DEFINE B == {i \in C : PathEtx(e, l, i) = minEtx(e, l)}
    <2>1. B # {} /\ B \subseteq Nat
      <3>1. PICK i \in C : Min(T) = PathEtx(e, l, i)
        BY <1>5, <1>6
      <3>2. i \in B
        BY <1>6, <3>1
      <3>3. C \subseteq Nat
        <4>1. 1 .. Len(e.routes) \subseteq Nat
          BY LenProperties DEF Good, GoodTable
        <4> QED BY <1>1, <4>1
      <3> QED BY <3>2, <3>3
    <2>2. Min(B) \in B
      BY <2>1, MinOf
    <2>3. Best(e, l) = Min(B)
      BY DEF Best, C
    <2> QED BY <2>2, <2>3
  <1> HIDE DEF T
  <1>8. MAX_METRIC \in T /\ \A i \in C : PathEtx(e, l, i) \in T
    BY DEF T
  <1>9. Min(T) \in Nat
    BY <1>4, <1>5
  <1> QED BY <1>1, <1>5, <1>6, <1>7, <1>8, <1>9 DEF C

(* What is known of the parent, from its entry if it has one. *)
LEMMA RefreshedInfo ==
  ASSUME NEW e, Good(e)
  PROVE  /\ Refreshed(e) \in Info /\ Refreshed(e).parent = e.info.parent
         /\ \A i \in Current(e) : /\ Refreshed(e).etx = e.routes[i].etx
                                  /\ Refreshed(e).congested = e.routes[i].congested
  <1>1. e.info \in Info /\ e.routes \in Seq(Route)
    BY Fields DEF Good
  <1>2. CASE Current(e) = {}
    BY <1>1, <1>2 DEF Refreshed
  <1>3. ASSUME NEW i \in Current(e)
        PROVE  /\ Refreshed(e) \in Info /\ Refreshed(e).parent = e.info.parent
               /\ Refreshed(e).etx = e.routes[i].etx
               /\ Refreshed(e).congested = e.routes[i].congested
    <2> DEFINE x == e.routes[i].etx
               c == e.routes[i].congested
               info == e.info
    <2>1. Current(e) = {i} /\ i \in 1 .. Len(e.routes)
      BY <1>3, CurrentOne
    <2>2. x \in Metrics /\ c \in BOOLEAN
      BY <1>1, <2>1, RouteAt
    <2>3. Refreshed(e) = [info EXCEPT !.etx = x, !.congested = c]
      <3>1. (CHOOSE j \in Current(e) : TRUE) = i
        BY <2>1
      <3> QED BY <1>3, <3>1 DEF Refreshed
    <2> HIDE DEF x, c, info
    <2>4. info \in Info
      BY <1>1 DEF info
    <2>5. /\ Refreshed(e) \in Info /\ Refreshed(e).parent = info.parent
          /\ Refreshed(e).etx = x /\ Refreshed(e).congested = c
      BY <2>2, <2>3, <2>4 DEF Info
    <2> QED BY <2>5 DEF x, c, info
  <1> QED BY <1>2, <1>3

(* The path metric of the parent. *)
LEMMA CurrentMetric ==
  ASSUME NEW e, Good(e), NEW l
  PROVE  /\ Current(e) = {} => currentEtx(e, l) = MAX_METRIC
         /\ \A i \in Current(e) : currentEtx(e, l) = PathEtx(e, l, i)
  <1>1. ASSUME NEW i \in Current(e) PROVE currentEtx(e, l) = PathEtx(e, l, i)
    <2>1. (CHOOSE j \in Current(e) : TRUE) = i
      BY CurrentOne
    <2> QED BY <1>1, <2>1 DEF currentEtx
  <1> QED BY <1>1 DEF currentEtx

(* The new parent is another neighbour of the table; else the parent stays. *)
LEMMA Chosen ==
  ASSUME NEW e, Good(e), NEW l, Links(l)
  PROVE  /\ NextInfo(e, l) \in Info
         /\ Switches(e, l) => /\ NextInfo(e, l).parent \in Routed(e)
                              /\ NextInfo(e, l).parent \in Neighbors
                              /\ NextInfo(e, l).parent # e.info.parent
         /\ ~ Switches(e, l) => NextInfo(e, l).parent = e.info.parent
  <1>1. CASE Switches(e, l)
    <2> DEFINE b == Best(e, l)
    <2>1. b \in Usable(e) \ Current(e)
      BY <1>1, BestOf DEF Switches
    <2>2. /\ b \in 1 .. Len(e.routes) /\ e.routes \in Seq(Route)
          /\ e.routes[b].neighbor # e.info.parent
      BY <2>1, CurrentOne DEF Good, GoodTable, Current
    <2>3. /\ e.routes[b].neighbor \in Neighbors /\ e.routes[b].etx \in Metrics
          /\ e.routes[b].congested \in BOOLEAN
      BY <2>2, RouteAt
    <2>4. e.routes[b].neighbor \in Routed(e)
      BY <2>2, RoutedIn DEF NeighborsIn
    <2>5. NextInfo(e, l) = [parent |-> e.routes[b].neighbor, etx |-> e.routes[b].etx,
                            congested |-> e.routes[b].congested]
      BY <1>1 DEF NextInfo
    <2>6. e.routes[b].neighbor \in Ends
      BY <2>3 DEF Ends
    <2> HIDE DEF b
    <2> QED BY <1>1, <2>2, <2>3, <2>4, <2>5, <2>6 DEF Info
  <1>2. CASE ~ Switches(e, l)
    BY <1>2, RefreshedInfo DEF NextInfo
  <1> QED BY <1>1, <1>2

(* The pins that follow the choice. *)
LEMMA PinsFollow ==
  ASSUME NEW e, Good(e), NEW l, Links(l)
  PROVE  /\ Links(NextPins(e, l)) /\ DOMAIN NextPins(e, l) = DOMAIN l
         /\ ~ Switches(e, l) => NextPins(e, l) = l
         /\ Switches(e, l) => \A m \in DOMAIN l :
              NextPins(e, l)[m].pinned <=>
                m = NextInfo(e, l).parent \/ (m # e.info.parent /\ l[m].pinned)
         /\ \A n : Table!getLinkQuality(NextPins(e, l), n) = Table!getLinkQuality(l, n)
  <1>1. CASE Switches(e, l)
    <2> DEFINE old == e.info.parent
               new == NextInfo(e, l).parent
    <2>1. PICK r : r = Table!Repinned(l, old, FALSE)
      OBVIOUS
    <2>2. PICK s : s = Table!Repinned(r, new, TRUE)
      OBVIOUS
    <2>3. NextPins(e, l) = s
      BY <1>1, <2>1, <2>2 DEF NextPins
    <2>4. new # old
      BY <1>1, Chosen
    <2> HIDE DEF old, new
    <2>5. /\ Links(r) /\ DOMAIN r = DOMAIN l
          /\ old \in DOMAIN l => ~ r[old].pinned
          /\ \A m \in DOMAIN l \ {old} : r[m].pinned = l[m].pinned
          /\ \A m \in DOMAIN l : r[m].mature = l[m].mature /\ r[m].eetx = l[m].eetx
      <3>1. PICK p \in BOOLEAN : p = FALSE
        OBVIOUS
      <3>2. r = Table!Repinned(l, old, p)
        BY <2>1, <3>1
      <3> QED BY <3>1, <3>2, PinnedOne
    <2>6. /\ Links(s) /\ DOMAIN s = DOMAIN r
          /\ new \in DOMAIN r => s[new].pinned
          /\ \A m \in DOMAIN r \ {new} : s[m].pinned = r[m].pinned
          /\ \A m \in DOMAIN r : s[m].mature = r[m].mature /\ s[m].eetx = r[m].eetx
      <3>1. PICK p \in BOOLEAN : p = TRUE
        OBVIOUS
      <3>2. s = Table!Repinned(r, new, p)
        BY <2>2, <3>1
      <3>3. /\ Links(s) /\ DOMAIN s = DOMAIN r
            /\ new \in DOMAIN r => s[new].pinned = p
            /\ \A m \in DOMAIN r \ {new} : s[m].pinned = r[m].pinned
            /\ \A m \in DOMAIN r : s[m].mature = r[m].mature /\ s[m].eetx = r[m].eetx
        BY <2>5, <3>2, PinnedOne
      <3> QED BY <3>1, <3>3
    <2>7. \A m \in DOMAIN l : s[m].pinned <=> m = new \/ (m # old /\ l[m].pinned)
      BY <2>4, <2>5, <2>6
    <2>8. \A n : Table!getLinkQuality(s, n) = Table!getLinkQuality(l, n)
      <3>1. DOMAIN s = DOMAIN l
            /\ \A m \in DOMAIN l : s[m].mature = l[m].mature /\ s[m].eetx = l[m].eetx
        BY <2>5, <2>6
      <3> QED BY <3>1 DEF Table!getLinkQuality
    <2> QED BY <1>1, <2>3, <2>5, <2>6, <2>7, <2>8 DEF old, new
  <1>2. CASE ~ Switches(e, l)
    BY <1>2 DEF NextPins
  <1> QED BY <1>1, <1>2

(* The threshold is added without a wrap, where an alternative is far enough *)
(* from the end of the metrics, or int is wide enough.                       *)
LEMMA ThresholdAdded ==
  ASSUME NEW e, Good(e), NEW l, Links(l), ~ ThresholdWraps(e, l), minEtx(e, l) # MAX_METRIC
  PROVE  Arith(minEtx(e, l) + PARENT_SWITCH_THRESHOLD) = minEtx(e, l) + PARENT_SWITCH_THRESHOLD
  <1> DEFINE min == minEtx(e, l)
  <1>1. min \in Nat /\ Candidates(e, l) # {}
    BY BestOf
  <1>2. world.wide \/ min + PARENT_SWITCH_THRESHOLD <= MAX_METRIC
    <2> HIDE DEF min
    <2>1. min + PARENT_SWITCH_THRESHOLD \in Nat
      BY <1>1 DEF PARENT_SWITCH_THRESHOLD
    <2>2. world.wide \/ ~ (min + PARENT_SWITCH_THRESHOLD > MAX_METRIC)
      BY <1>1 DEF ThresholdWraps, min
    <2> QED BY <2>1, <2>2 DEF MAX_METRIC
  <1> HIDE DEF min
  <1>3. ASSUME min + PARENT_SWITCH_THRESHOLD <= MAX_METRIC
        PROVE  Word(min + PARENT_SWITCH_THRESHOLD) = min + PARENT_SWITCH_THRESHOLD
    BY <1>1, <1>3 DEF Word, MAX_METRIC, PARENT_SWITCH_THRESHOLD
  <1> QED BY <1>2, <1>3 DEF Arith, min

(* Looking again at the tables and pins that a choice leaves changes nothing, *)
(* unless the threshold wraps at one look or the other.                       *)
LEMMA ChoiceStays ==
  ASSUME NEW e, Good(e), NEW l, Links(l),
         NEW f, Good(f), f.routes = e.routes, f.info = NextInfo(e, l),
         ~ ThresholdWraps(e, l), ~ ThresholdWraps(f, NextPins(e, l))
  PROVE  ~ Switches(f, NextPins(e, l))
  <1> DEFINE k == NextPins(e, l)
  <1>1. Links(k) /\ \A n : Table!getLinkQuality(k, n) = Table!getLinkQuality(l, n)
    BY PinsFollow
  <1>2. \A i : PathEtx(f, k, i) = PathEtx(e, l, i)
    BY <1>1 DEF PathEtx
  <1>3. Usable(f) = Usable(e)
    BY DEF Usable
  <1>4. CASE Switches(e, l)
    <2> DEFINE b == Best(e, l)
               min == minEtx(e, l)
    <2>1. /\ min \in Nat /\ min # MAX_METRIC
          /\ b \in Candidates(e, l) /\ PathEtx(e, l, b) = min
          /\ \A i \in Candidates(e, l) : min <= PathEtx(e, l, i)
      BY <1>4, BestOf DEF Switches
    <2>2. b \in Usable(e) /\ b \notin Current(e) /\ ~ e.routes[b].congested
      BY <2>1 DEF Candidates
    <2>3. f.info.parent = e.routes[b].neighbor
      BY <1>4 DEF NextInfo
    <2>4. Current(f) = {b}
      <3>1. b \in Current(f)
        BY <1>3, <2>2, <2>3 DEF Current
      <3> QED BY <3>1, CurrentOne
    <2>5. currentEtx(f, k) = min /\ ~ Refreshed(f).congested
      BY <1>2, <2>1, <2>2, <2>4, CurrentMetric, RefreshedInfo
    <2>6. ASSUME NEW i \in Candidates(f, k)
          PROVE  min <= PathEtx(e, l, i)
      <3>1. i \in Usable(e) /\ ~ e.routes[i].congested /\ PathEtx(e, l, i) < MAX_METRIC
        BY <1>2, <1>3, <2>6 DEF Candidates
      <3>2. CASE i \in Current(e)
        <4>1. currentEtx(e, l) = PathEtx(e, l, i) /\ ~ Refreshed(e).congested
          BY <3>1, <3>2, CurrentMetric, RefreshedInfo
        <4>2. PathEtx(e, l, i) \in Nat
          BY <3>1, CurrentOne, PathEtxType DEF Good
        <4>3. PathEtx(e, l, i) # MAX_METRIC
          BY <3>1, <4>2
        <4>4. min + PARENT_SWITCH_THRESHOLD < PathEtx(e, l, i)
          BY <1>4, <2>1, <4>1, <4>3, ThresholdAdded DEF Switches
        <4> QED BY <2>1, <4>2, <4>4 DEF PARENT_SWITCH_THRESHOLD
      <3>3. CASE i \notin Current(e)
        BY <2>1, <3>1, <3>3 DEF Candidates
      <3> QED BY <3>2, <3>3
    <2>7. minEtx(f, k) = MAX_METRIC \/ min <= minEtx(f, k)
      <3> SUFFICES ASSUME minEtx(f, k) # MAX_METRIC PROVE min <= minEtx(f, k)
        OBVIOUS
      <3>1. Best(f, k) \in Candidates(f, k) /\ PathEtx(f, k, Best(f, k)) = minEtx(f, k)
        BY <1>1, BestOf
      <3> QED BY <1>2, <2>6, <3>1
    <2>8. minEtx(f, k) \in Nat
      BY <1>1, BestOf
    <2>9. minEtx(f, k) # MAX_METRIC
            => Arith(minEtx(f, k) + PARENT_SWITCH_THRESHOLD) = minEtx(f, k) + PARENT_SWITCH_THRESHOLD
      BY <1>1, ThresholdAdded
    <2> HIDE DEF k, min
    <2>10. minEtx(f, k) # MAX_METRIC => ~ (Arith(minEtx(f, k) + PARENT_SWITCH_THRESHOLD) < min)
      BY <2>1, <2>7, <2>8, <2>9 DEF PARENT_SWITCH_THRESHOLD
    <2> QED BY <2>1, <2>5, <2>10 DEF Switches, k
  <1>5. CASE ~ Switches(e, l)
    <2>1. f.info = Refreshed(e) /\ f.info.parent = e.info.parent
      BY <1>5, RefreshedInfo DEF NextInfo
    <2>2. Current(f) = Current(e)
      BY <1>3, <2>1 DEF Current
    <2>3. Candidates(f, k) = Candidates(e, l)
      BY <1>2, <1>3, <2>2 DEF Candidates
    <2>4. minEtx(f, k) = minEtx(e, l)
      BY <1>2, <2>3 DEF minEtx
    <2>5. currentEtx(f, k) = currentEtx(e, l)
      BY <1>2, <2>2 DEF currentEtx
    <2>6. Refreshed(f) = Refreshed(e)
      <3>1. CASE Current(e) = {}
        BY <2>1, <2>2, <3>1 DEF Refreshed
      <3>2. CASE Current(e) # {}
        <4> DEFINE r == e.routes[CHOOSE i \in Current(e) : TRUE]
                   old == e.info
                   new == f.info
        <4>1. new = [old EXCEPT !.etx = r.etx, !.congested = r.congested]
          BY <2>1, <3>2 DEF Refreshed
        <4>2. Refreshed(f) = [new EXCEPT !.etx = r.etx, !.congested = r.congested]
          BY <2>2, <3>2 DEF Refreshed
        <4>3. old \in Info
          BY Fields DEF Good
        <4> HIDE DEF r, old, new
        <4>4. Refreshed(f) = new
          BY <4>1, <4>2, <4>3 DEF Info
        <4> QED BY <2>1, <4>4 DEF new
      <3> QED BY <3>1, <3>2
    <2> HIDE DEF k
    <2> QED BY <1>5, <2>4, <2>5, <2>6 DEF Switches, k
  <1> QED BY <1>4, <1>5

-----------------------------------------------------------------------------
(* The invariant of tables, parent and pins. *)

Types ==
  /\ world \in Worlds /\ Links(links) /\ Good(engine)
  /\ state_is_root \in BOOLEAN /\ told \in BOOLEAN
  /\ refused \subseteq Neighbors /\ owed \subseteq Neighbors

OwnRoot   == state_is_root => Parent = Me
Announced == Parent # INVALID_ADDR \/ engine.justEvicted => told

\* Only the nodes around have slots; none is refused one where all fit.
Placed == DOMAIN links \subseteq world.neighbors /\ (Fits => refused = {})

Inv ==
  /\ Types /\ OwnRoot /\ Announced /\ Placed
  /\ ParentIsRouted /\ EvictionFollows /\ PinsReturned /\ ParentPinned

(* Where the whole neighbourhood fits, there is room for one that has no slot. *)
LEMMA RoomForMissing ==
  ASSUME Types, Placed, Fits, NEW n \in world.neighbors, n \notin DOMAIN links
  PROVE  Table!Room(links)
  <1> DEFINE W == world.neighbors
             D == DOMAIN links
  <1>1. W \subseteq Neighbors /\ D \subseteq W /\ D # W
    BY WorldFields DEF Types, Placed
  <1>2. IsFiniteSet(W)
    BY <1>1, Constants, FS_Subset
  <1>3. /\ Cardinality(W) \in Nat /\ Cardinality(D) \in Nat
        /\ Cardinality(D) <= Cardinality(W) /\ Cardinality(D) # Cardinality(W)
    <2> HIDE DEF W, D
    <2>1. IsFiniteSet(D) /\ Cardinality(D) <= Cardinality(W)
          /\ (Cardinality(W) = Cardinality(D) => W = D)
      BY <1>1, <1>2, FS_Subset
    <2> QED BY <1>1, <1>2, <2>1, FS_CardinalityType
  <1>4. Cardinality(W) <= TableSize /\ TableSize \in Nat
    BY Constants DEF Fits
  <1> HIDE DEF W, D
  <1>5. Cardinality(D) < TableSize
    BY <1>3, <1>4
  <1> QED BY <1>5, SameCount DEF Table!Room, D

LEMMA InitInv == Init => Inv
  <1> SUFFICES ASSUME Init PROVE Inv
    OBVIOUS
  <1>1. links = << >> /\ DOMAIN links = {}
    BY DEF Init
  <1>2. Links(links)
    BY <1>1, Constants, FS_EmptySet DEF Links
  <1>3. /\ engine.routes = << >> /\ engine.info = NoRoute
        /\ engine.justEvicted = FALSE /\ engine.posted = FALSE
    BY DEF Init
  <1>4. GoodTable(engine.routes) /\ Routed(engine) = {}
    <2>1. << >> \in Seq(Route) /\ Len(<< >>) = 0 /\ DOMAIN << >> = {}
      OBVIOUS
    <2> QED BY <1>3, <2>1, Constants DEF GoodTable, Once, Routed, ToSet
  <1>5. NoRoute \in Info
    BY DEF NoRoute, Info, Ends, Metrics, MAX_METRIC
  <1>6. engine \in Engine
    <2>1. << >> \in Seq(Route)
      OBVIOUS
    <2> QED BY <1>5, <2>1 DEF Init, Engine
  <1>7. NoRoute.parent = INVALID_ADDR
    BY DEF NoRoute
  <1>8. Types
    BY <1>2, <1>4, <1>6 DEF Init, Types, Good
  <1>9. OwnRoot /\ Announced /\ Placed /\ ParentIsRouted /\ ParentPinned
    BY <1>1, <1>3, <1>7, Constants
       DEF Init, OwnRoot, Announced, Placed, ParentIsRouted, ParentPinned, Parent
  <1>10. EvictionFollows /\ PinsReturned
    BY <1>1, <1>4 DEF EvictionFollows, PinsReturned
  <1> QED BY <1>8, <1>9, <1>10 DEF Inv

(* A step that leaves slots, pins, entries and the parent alone. *)
LEMMA QuietInv ==
  ASSUME Inv, Good(engine'), Routed(engine') = Routed(engine),
         engine'.info.parent = engine.info.parent,
         engine'.justEvicted => engine.justEvicted,
         Links(links'), DOMAIN links' = DOMAIN links,
         \A n \in DOMAIN links : links'[n].pinned = links[n].pinned,
         UNCHANGED <<world, state_is_root, told, refused, owed>>
  PROVE  Inv'
  <1>1. Types'
    BY DEF Inv, Types
  <1>2. OwnRoot' /\ Announced' /\ Placed'
    BY DEF Inv, OwnRoot, Announced, Placed, Parent, Fits
  <1>3. ParentIsRouted' /\ EvictionFollows' /\ PinsReturned' /\ ParentPinned'
    BY DEF Inv, ParentIsRouted, EvictionFollows, PinsReturned, ParentPinned, Parent, Fits
  <1> QED BY <1>1, <1>2, <1>3 DEF Inv

(* A step that leaves the links, and at most posts or ends the route task. *)
LEMMA PostedInv ==
  ASSUME Inv, NEW p \in BOOLEAN, engine' = [engine EXCEPT !.posted = p],
         UNCHANGED <<world, links, state_is_root, told, refused, owed>>
  PROVE  Inv'
  <1>1. Good(engine) /\ engine \in Engine /\ Links(links)
    BY DEF Inv, Types, Good
  <1>2. /\ engine' \in Engine /\ engine'.routes = engine.routes
        /\ engine'.info = engine.info /\ engine'.justEvicted = engine.justEvicted
    BY <1>1 DEF Engine
  <1>3. Good(engine') /\ Routed(engine') = Routed(engine)
    BY <1>1, <1>2 DEF Good, Routed
  <1> QED BY <1>1, <1>2, <1>3, QuietInv

LEMMA UpdateRouteInv == Inv /\ updateRouteTask => Inv'
  <1> SUFFICES ASSUME Inv, updateRouteTask PROVE Inv'
    OBVIOUS
  <1>1. CASE state_is_root
    BY <1>1, PostedInv DEF updateRouteTask
  <1>2. CASE ~ state_is_root
    <2> DEFINE next == NextInfo(engine, links)
               old  == engine.info.parent
    <2>1. /\ Good(engine) /\ engine \in Engine /\ Links(links)
          /\ Routed(engine) \subseteq Neighbors
      BY RoutedIn DEF Inv, Types, Good, GoodTable
    <2>2. /\ engine' = [engine EXCEPT !.posted = FALSE, !.justEvicted = FALSE, !.info = next]
          /\ links' = NextPins(engine, links)
          /\ owed' = IF Switches(engine, links) THEN owed \ {old} ELSE owed
          /\ UNCHANGED <<world, state_is_root, refused>>
      BY <1>2 DEF updateRouteTask
    <2>3. /\ next \in Info
          /\ Switches(engine, links) => next.parent \in Routed(engine) /\ next.parent # old
          /\ ~ Switches(engine, links) => next.parent = old
      BY <2>1, Chosen
    <2>4. /\ engine' \in Engine /\ engine'.routes = engine.routes
          /\ engine'.info = next /\ engine'.justEvicted = FALSE
      <3> HIDE DEF next
      <3> QED BY <2>1, <2>2, <2>3 DEF Engine
    <2>5. Good(engine') /\ Routed(engine') = Routed(engine)
      BY <2>1, <2>4 DEF Good, Routed
    <2>6. /\ Links(links') /\ DOMAIN links' = DOMAIN links
          /\ ~ Switches(engine, links) => links' = links
          /\ Switches(engine, links) => \A m \in DOMAIN links :
               links'[m].pinned <=> m = next.parent \/ (m # old /\ links[m].pinned)
      BY <2>1, <2>2, PinsFollow
    <2>7. Parent' = next.parent /\ Parent = old
      BY <2>4 DEF Parent
    <2>8. told' = CASE engine.justEvicted /\ engine'.info.parent = INVALID_ADDR -> FALSE
                    [] ~ engine.justEvicted /\ Switches(engine, links)
                       /\ currentEtx(engine, links) = MAX_METRIC -> TRUE
                    [] OTHER -> told
      BY <1>2 DEF updateRouteTask
    <2> HIDE DEF next, old
    <2>9. Announced' /\ told' \in BOOLEAN
      <3>1. CASE engine.justEvicted
        <4>1. told
          BY <3>1 DEF Inv, Announced
        <4>2. told' = IF next.parent = INVALID_ADDR THEN FALSE ELSE told
          BY <2>4, <2>8, <3>1
        <4> QED BY <2>4, <2>7, <4>1, <4>2 DEF Announced
      <3>2. CASE ~ engine.justEvicted
        <4>1. told' = IF Switches(engine, links) /\ currentEtx(engine, links) = MAX_METRIC
                      THEN TRUE ELSE told
          BY <2>8, <3>2
        <4>2. CASE old = INVALID_ADDR
          <5>1. Current(engine) = {}
            <6>1. \A i \in Current(engine) : engine.routes[i].neighbor \in Neighbors
              BY <2>1, CurrentOne, RouteAt DEF Good, GoodTable
            <6>2. \A i \in Current(engine) : engine.routes[i].neighbor = INVALID_ADDR
              BY <2>1, <4>2, CurrentOne DEF old
            <6> QED BY <6>1, <6>2, Constants
          <5>2. currentEtx(engine, links) = MAX_METRIC
            BY <2>1, <5>1, CurrentMetric
          <5> QED BY <2>3, <2>4, <2>7, <4>1, <4>2, <5>2 DEF Announced, Inv, Types
        <4>3. CASE old # INVALID_ADDR
          BY <2>7, <4>1, <4>3 DEF Inv, Announced
        <4> QED BY <4>2, <4>3
      <3> QED BY <3>1, <3>2
    <2>10. Types'
      <3>1. owed' \subseteq Neighbors
        BY <2>2 DEF Inv, Types
      <3> QED BY <2>2, <2>5, <2>6, <2>9, <3>1 DEF Inv, Types
    <2>11. OwnRoot' /\ Placed'
      BY <1>2, <2>2, <2>6 DEF Inv, OwnRoot, Placed, Fits
    <2>12. ParentIsRouted' /\ EvictionFollows'
      BY <1>2, <2>2, <2>3, <2>5, <2>6, <2>7 DEF Inv, ParentIsRouted, EvictionFollows
    <2>13. PinsReturned'
      <3>1. CASE Switches(engine, links)
        BY <2>2, <2>6, <2>7, <3>1 DEF Inv, PinsReturned
      <3>2. CASE ~ Switches(engine, links)
        BY <2>2, <2>3, <2>6, <2>7, <3>2 DEF Inv, PinsReturned
      <3> QED BY <3>1, <3>2
    <2>14. ParentPinned'
      <3>1. CASE Switches(engine, links)
        <4>1. Fits => Routed(engine) \subseteq DOMAIN links
          BY DEF Inv, EvictionFollows, Placed
        <4> QED BY <2>2, <2>3, <2>6, <2>7, <3>1, <4>1 DEF ParentPinned, Fits
      <3>2. CASE ~ Switches(engine, links)
        BY <2>2, <2>3, <2>6, <2>7, <3>2 DEF Inv, ParentPinned, Fits
      <3> QED BY <3>1, <3>2
    <2> QED BY <2>9, <2>10, <2>11, <2>12, <2>13, <2>14 DEF Inv
  <1> QED BY <1>1, <1>2

LEMMA BeaconInv == Inv /\ BeaconReceive => Inv'
  <1> SUFFICES ASSUME Inv, NEW n \in world.neighbors, NEW b \in Beacons,
                      NEW first \in HeardFirst(n, b),
                      NEW second \in Rooted(first.links, n, b),
                      links' = IF b.parent # INVALID_ADDR /\ b.etx = 0
                               THEN Table!Repinned(second.links, n, TRUE) ELSE second.links,
                      engine' = Recorded(Following(Following(engine, first.evicted),
                                                   second.evicted), n, b),
                      refused' = IF n \in DOMAIN links' THEN refused \ {n}
                                 ELSE refused \union {n},
                      owed' = (owed \ (first.evicted \union second.evicted)) \union
                                (IF b.etx = 0 /\ b.parent # INVALID_ADDR THEN {n} ELSE {}),
                      UNCHANGED <<world, state_is_root, told>>
               PROVE  Inv'
    BY ZenonT(40) DEF BeaconReceive, BeaconReceived
  <1> DEFINE out == first.evicted \union second.evicted
             e1  == Following(engine, first.evicted)
             e2  == Following(e1, second.evicted)
  <1>1. Types /\ Good(engine) /\ Links(links) /\ world \in Worlds /\ n \in Neighbors
    BY WorldFields DEF Inv, Types
  <1>2. HeardAll(n, b, first, second) /\ links' = Final(second.links, n, b)
    BY <1>1, HeardBeacon DEF Final, FromRoot
  <1>3. /\ Links(links')
        /\ first.evicted = {} \/ \E v \in Neighbors : first.evicted = {v}
        /\ second.evicted = {} \/ \E v \in Neighbors : second.evicted = {v}
        /\ out \subseteq DOMAIN links \ {n} /\ \A v \in out : ~ links[v].pinned
        /\ DOMAIN links \ out \subseteq DOMAIN links'
        /\ DOMAIN links' \subseteq (DOMAIN links \ out) \union {n}
        /\ \A m \in DOMAIN links' : links'[m].pinned
             => (m \in DOMAIN links /\ links[m].pinned) \/ (m = n /\ FromRoot(b))
        /\ \A m \in DOMAIN links \ out : links[m].pinned => links'[m].pinned
        /\ n \in DOMAIN links \/ Table!Room(links) => out = {} /\ n \in DOMAIN links'
    BY <1>2 DEF HeardAll
  <1>4. /\ Good(e1) /\ Routed(e1) = Routed(engine) \ first.evicted
        /\ e1.info = IF Parent \in first.evicted THEN NoRoute ELSE engine.info
        /\ e1.justEvicted = (engine.justEvicted \/ Parent \in first.evicted)
    BY <1>1, <1>3, Followed DEF Parent
  <1>5. NoRoute.parent = INVALID_ADDR /\ INVALID_ADDR \notin out /\ Me \notin out
    BY <1>1, <1>3, Constants DEF NoRoute, Links
  <1> HIDE DEF e1
  <1>6. /\ Good(e2) /\ Routed(e2) = Routed(e1) \ second.evicted
        /\ e2.info = IF e1.info.parent \in second.evicted THEN NoRoute ELSE e1.info
        /\ e2.justEvicted = (e1.justEvicted \/ e1.info.parent \in second.evicted)
    BY <1>3, <1>4, Followed
  <1> HIDE DEF e2
  <1>7. /\ Good(e2) /\ Routed(e2) = Routed(engine) \ out
        /\ e2.info.parent = IF Parent \in out THEN INVALID_ADDR ELSE Parent
        /\ e2.justEvicted => engine.justEvicted \/ Parent \in out
    BY <1>4, <1>5, <1>6 DEF Parent
  <1>8. /\ Good(engine') /\ Routed(e2) \subseteq Routed(engine')
        /\ Routed(engine') \subseteq Routed(e2) \union {n}
        /\ engine'.info = e2.info /\ engine'.justEvicted = e2.justEvicted
    <2>1. engine' = Recorded(e2, n, b)
      BY DEF e1, e2
    <2> QED BY <1>1, <1>7, <2>1, RecordedBeacon
  <1>9. Parent' = IF Parent \in out THEN INVALID_ADDR ELSE Parent
    BY <1>7, <1>8 DEF Parent
  <1>10. Fits => out = {} /\ n \in DOMAIN links'
    BY <1>1, <1>3, RoomForMissing DEF Inv
  <1> HIDE DEF out
  <1>11. Types'
    <2>1. owed' \subseteq Neighbors /\ refused' \subseteq Neighbors
      BY <1>1 DEF Types
    <2> QED BY <1>1, <1>3, <1>8, <2>1 DEF Types
  <1>12. OwnRoot'
    BY <1>5, <1>9 DEF Inv, OwnRoot
  <1>13. Announced'
    BY <1>5, <1>7, <1>8, <1>9 DEF Inv, Announced
  <1>14. Placed'
    BY <1>3, <1>10 DEF Inv, Placed, Fits
  <1>15. ParentIsRouted'
    BY <1>7, <1>8, <1>9 DEF Inv, ParentIsRouted
  <1>16. EvictionFollows'
    BY <1>3, <1>7, <1>8 DEF Inv, EvictionFollows
  <1>17. PinsReturned'
    <2> SUFFICES ASSUME NEW m \in DOMAIN links', links'[m].pinned
                 PROVE  m = Parent' \/ m \in owed'
      BY DEF PinsReturned
    <2>1. CASE m = n /\ FromRoot(b)
      BY <2>1 DEF FromRoot
    <2>2. CASE m \in DOMAIN links /\ links[m].pinned
      <3>1. m \notin out
        BY <1>3, <2>2
      <3>2. m = Parent \/ m \in owed
        BY <2>2 DEF Inv, PinsReturned
      <3> QED BY <1>9, <3>1, <3>2 DEF out
    <2> QED BY <1>3, <2>1, <2>2
  <1>18. ParentPinned'
    BY <1>3, <1>9, <1>10, Constants DEF Inv, ParentPinned, Fits
  <1> QED BY <1>11, <1>12, <1>13, <1>14, <1>15, <1>16, <1>17, <1>18 DEF Inv

LEMMA SetRootInv == Inv /\ setRoot => Inv'
  <1> SUFFICES ASSUME Inv, setRoot PROVE Inv'
    OBVIOUS
  <1> DEFINE info == [engine.info EXCEPT !.parent = Me, !.etx = 0]
  <1>1. Good(engine) /\ engine \in Engine /\ engine.info \in Info
    BY Fields DEF Inv, Types, Good
  <1>2. info \in Info /\ info.parent = Me
    <2>1. Me \in Ends /\ 0 \in Metrics
      BY DEF Ends, Metrics, MAX_METRIC
    <2> QED BY <1>1, <2>1 DEF Info
  <1>3. engine' = [engine EXCEPT !.info = info]
    BY <1>1 DEF setRoot, Engine
  <1> HIDE DEF info
  <1>4. /\ engine' \in Engine /\ engine'.routes = engine.routes
        /\ engine'.info = info /\ engine'.justEvicted = engine.justEvicted
    BY <1>1, <1>2, <1>3 DEF Engine
  <1>5. Good(engine') /\ Routed(engine') = Routed(engine) /\ Parent' = Me
    BY <1>1, <1>2, <1>4 DEF Good, Routed, Parent
  <1>6. /\ UNCHANGED <<world, links, refused>> /\ state_is_root' = TRUE
        /\ told' = (told \/ Parent = INVALID_ADDR)
        /\ owed' = owed \union ({Parent} \intersect Neighbors)
    BY DEF setRoot, Parent
  <1>7. told' = TRUE
    BY <1>6 DEF Inv, Announced, Types
  <1>8. Types'
    BY <1>5, <1>6, <1>7 DEF Inv, Types
  <1>9. OwnRoot' /\ Announced' /\ Placed' /\ ParentIsRouted' /\ EvictionFollows'
    BY <1>5, <1>6, <1>7
       DEF Inv, OwnRoot, Announced, Placed, Fits, ParentIsRouted, EvictionFollows
  <1>10. PinsReturned'
    BY <1>6 DEF Inv, Types, Links, PinsReturned
  <1>11. ParentPinned'
    BY <1>5, Constants DEF ParentPinned
  <1> QED BY <1>8, <1>9, <1>10, <1>11 DEF Inv

LEMMA UnsetRootInv == Inv /\ unsetRoot => Inv'
  <1> SUFFICES ASSUME Inv, unsetRoot PROVE Inv'
    OBVIOUS
  <1>1. Good(engine) /\ engine \in Engine
    BY DEF Inv, Types, Good
  <1>2. NoRoute \in Info /\ NoRoute.parent = INVALID_ADDR
    BY DEF NoRoute, Info, Ends, Metrics, MAX_METRIC
  <1>3. engine' = [engine EXCEPT !.info = NoRoute, !.posted = TRUE]
    BY DEF unsetRoot
  <1>4. /\ engine' \in Engine /\ engine'.routes = engine.routes
        /\ engine'.info = NoRoute /\ engine'.justEvicted = engine.justEvicted
    BY <1>1, <1>2, <1>3 DEF Engine
  <1>5. Good(engine') /\ Routed(engine') = Routed(engine) /\ Parent' = INVALID_ADDR
    BY <1>1, <1>2, <1>4 DEF Good, Routed, Parent
  <1>6. /\ state_is_root' = FALSE /\ UNCHANGED <<world, links, told, refused>>
        /\ owed' = owed \union ({Parent} \intersect Neighbors)
    BY DEF unsetRoot, Parent
  <1>7. Types'
    BY <1>5, <1>6 DEF Inv, Types
  <1>8. OwnRoot' /\ Announced' /\ Placed' /\ ParentIsRouted' /\ EvictionFollows'
    BY <1>4, <1>5, <1>6
       DEF Inv, OwnRoot, Announced, Placed, Fits, ParentIsRouted, EvictionFollows
  <1>9. PinsReturned'
    BY <1>6 DEF Inv, Types, Links, PinsReturned
  <1>10. ParentPinned'
    BY <1>5, Constants DEF ParentPinned
  <1> QED BY <1>7, <1>8, <1>9, <1>10 DEF Inv

LEMMA CongestedInv == Inv /\ NeighborCongested => Inv'
  <1> SUFFICES ASSUME Inv, NEW n, NEW c \in BOOLEAN,
                      engine' = setNeighborCongested(engine, n, c),
                      UNCHANGED <<world, links, state_is_root, told, refused, owed>>
               PROVE  Inv'
    BY DEF NeighborCongested
  <1>1. Good(engine) /\ Links(links)
    BY DEF Inv, Types
  <1>2. /\ Good(engine') /\ Routed(engine') = Routed(engine)
        /\ engine'.info = engine.info /\ engine'.justEvicted = engine.justEvicted
    BY <1>1, CongestionNoted
  <1> QED BY <1>1, <1>2, QuietInv

LEMMA LinkChangesInv == Inv /\ LinkChanges => Inv'
  <1> SUFFICES ASSUME Inv, NEW n \in DOMAIN links, NEW q \in Eetx,
                      links' = [links EXCEPT ![n].eetx = q],
                      UNCHANGED <<world, engine, state_is_root, told, refused, owed>>
               PROVE  Inv'
    BY DEF LinkChanges
  <1> DEFINE D == DOMAIN links
             new == [links[n] EXCEPT !.eetx = q]
  <1>1. Links(links) /\ Good(engine)
    BY DEF Inv, Types
  <1>2. links \in [D -> Table!Link] /\ links[n] \in Table!Link
    BY <1>1 DEF Links
  <1>3. new \in Table!Link /\ new.pinned = links[n].pinned
    BY <1>2 DEF Table!Link
  <1>4. links' = [links EXCEPT ![n] = new]
    OBVIOUS
  <1> HIDE DEF new
  <1>5. /\ DOMAIN links' = D /\ links' \in [D -> Table!Link]
        /\ \A m \in D : links'[m] = IF m = n THEN new ELSE links[m]
    BY <1>2, <1>3, <1>4
  <1>6. Links(links') /\ \A m \in D : links'[m].pinned = links[m].pinned
    BY <1>1, <1>3, <1>5 DEF Links
  <1> QED BY <1>1, <1>5, <1>6, QuietInv

LEMMA StepInv == Inv /\ [Next]_vars => Inv'
  <1> SUFFICES ASSUME Inv, [Next]_vars PROVE Inv'
    OBVIOUS
  <1> DEFINE same == UNCHANGED <<world, links, engine, state_is_root, told, refused, owed>>
  <1>1. ASSUME same PROVE Inv'
    <2>1. Good(engine) /\ Links(links)
      BY DEF Inv, Types
    <2> QED BY <1>1, <2>1, QuietInv
  <1>2. ASSUME engine' = [engine EXCEPT !.posted = TRUE],
               UNCHANGED <<world, links, state_is_root, told, refused, owed>>
        PROVE  Inv'
    BY <1>2, PostedInv
  <1>3. CASE updateRouteTask
    BY <1>3, UpdateRouteInv
  <1>4. CASE BeaconReceive
    BY <1>4, BeaconInv
  <1>5. CASE setRoot
    BY <1>5, SetRootInv
  <1>6. CASE unsetRoot
    BY <1>6, UnsetRootInv
  <1>7. CASE NeighborCongested
    BY <1>7, CongestedInv
  <1>8. CASE LinkChanges
    BY <1>8, LinkChangesInv
  <1>9. CASE RouteTimerFired \/ recomputeRoutes
    BY <1>2, <1>9 DEF RouteTimerFired, recomputeRoutes
  <1>10. CASE BeaconTimerFired
    BY <1>1, <1>2, <1>10 DEF BeaconTimerFired, remainingInterval
  <1>11. CASE sendBeaconTask \/ BeaconSendDone \/ RadioStarts \/ RadioStops
    BY <1>1, <1>11 DEF sendBeaconTask, BeaconSendDone, RadioStarts, RadioStops
  <1>12. CASE StdControlStart \/ StdControlStop \/ triggerRouteUpdate
    BY <1>1, <1>12 DEF StdControlStart, StdControlStop, triggerRouteUpdate
  <1>13. CASE UNCHANGED vars
    BY <1>1, <1>13 DEF vars
  <1> QED BY <1>3, <1>4, <1>5, <1>6, <1>7, <1>8, <1>9, <1>10, <1>11, <1>12, <1>13 DEF Next

(* The invariant of tables, parent and pins holds. *)
LEMMA InvKept == Spec => []Inv
  BY InitInv, StepInv, PTL DEF Spec

-----------------------------------------------------------------------------
(* The invariant of the beacon timer. *)

Timer == [interval : Nat, t : Nat, tHasPassed : BOOLEAN, armed : BOOLEAN]

\* An interval the timer may have, and a time to advertise in it, if one is chosen.
InBounds(k) ==
  /\ k \in Timer
  /\ k.interval >= 2 /\ k.interval <= world.max
  /\ k.t # 0 => k.t < k.interval /\ k.t >= k.interval \div 2

Clock ==
  /\ world \in Worlds /\ running \in BOOLEAN /\ radioOn \in BOOLEAN
  /\ beacon \subseteq {"posted", "sending"}
  /\ InBounds(trickle)
  /\ BeaconTimerRuns

(* A new interval. *)
LEMMA Advertising ==
  ASSUME NEW i \in Nat, i >= 2, i <= world.max, Advertise(i)
  PROVE  InBounds(trickle') /\ trickle'.armed
  <1>1. PICK r \in 0 .. i \div 2 - 1 :
          trickle' = [interval |-> i, t |-> i \div 2 + r, tHasPassed |-> FALSE, armed |-> TRUE]
    BY DEF Advertise
  <1>2. PICK h \in Nat : h = i \div 2 /\ 2 * h <= i
    OBVIOUS
  <1>3. PICK t \in Nat : t = i \div 2 + r /\ t < i /\ t >= i \div 2
    BY <1>2
  <1>4. trickle' = [interval |-> i, t |-> t, tHasPassed |-> FALSE, armed |-> TRUE]
    BY <1>1, <1>3
  <1> QED BY <1>3, <1>4 DEF InBounds, Timer

(* The same interval, with the timer started or stopped or its phase changed. *)
LEMMA SameInterval ==
  ASSUME InBounds(trickle), NEW a \in BOOLEAN, NEW p \in BOOLEAN,
         NEW k, k = [trickle EXCEPT !.tHasPassed = p, !.armed = a]
  PROVE  InBounds(k) /\ k.armed = a
  BY DEF InBounds, Timer

LEMMA InitClock == Init => Clock
  <1> SUFFICES ASSUME Init PROVE Clock
    OBVIOUS
  <1>1. world.min \in Nat /\ world.min >= 2 /\ world.min <= world.max
    BY WorldFields DEF Init
  <1>2. trickle = [interval |-> world.min, t |-> 0, tHasPassed |-> FALSE, armed |-> FALSE]
    BY DEF Init
  <1>3. InBounds(trickle)
    BY <1>1, <1>2 DEF InBounds, Timer
  <1> QED BY <1>3 DEF Init, Clock, BeaconTimerRuns

LEMMA StepClock == Clock /\ [Next]_vars => Clock'
  <1> SUFFICES ASSUME Clock, [Next]_vars PROVE Clock'
    OBVIOUS
  <1>1. /\ world.min \in Nat /\ world.min >= 2 /\ world.max \in Nat
        /\ world.min <= world.max /\ world \in Worlds
    BY WorldFields DEF Clock
  <1>2. trickle \in Timer /\ InBounds(trickle) /\ trickle.armed \in BOOLEAN
        /\ trickle.tHasPassed \in BOOLEAN
    BY DEF Clock, InBounds, Timer
  <1>3. resetInterval => InBounds(trickle') /\ trickle'.armed
    BY <1>1, Advertising DEF resetInterval
  <1>4. world' = world
    BY DEF Next, vars, updateRouteTask, sendBeaconTask, BeaconSendDone, RouteTimerFired,
           BeaconTimerFired, BeaconReceive, BeaconReceived, RadioStarts, RadioStops,
           StdControlStart, StdControlStop, setRoot, unsetRoot, NeighborCongested,
           LinkChanges, recomputeRoutes, triggerRouteUpdate
  <1>6. CASE BeaconTimerFired
    <2>1. CASE ~ (radioOn /\ running)
      <3>1. trickle' = [trickle EXCEPT !.armed = FALSE]
        BY <1>6, <2>1 DEF BeaconTimerFired
      <3>2. InBounds(trickle')
        BY <1>2, <3>1 DEF InBounds, Timer
      <3> QED BY <1>4, <1>6, <2>1, <3>2 DEF BeaconTimerFired, Clock, BeaconTimerRuns, InBounds
    <2>2. CASE radioOn /\ running /\ ~ trickle.tHasPassed
      <3>1. trickle' = [trickle EXCEPT !.tHasPassed = TRUE, !.armed = TRUE]
        BY <1>6, <2>2 DEF BeaconTimerFired, remainingInterval
      <3>2. InBounds(trickle') /\ trickle'.armed
        BY <1>2, <3>1 DEF InBounds, Timer
      <3> QED BY <1>4, <1>6, <2>2, <3>2 DEF BeaconTimerFired, Clock, BeaconTimerRuns, InBounds
    <2>3. CASE radioOn /\ running /\ trickle.tHasPassed
      <3>1. decayInterval
        BY <1>6, <2>3 DEF BeaconTimerFired
      <3> DEFINE i == Min({trickle.interval * 2, world.max})
      <3>2. i \in Nat /\ i >= 2 /\ i <= world.max
        <4> DEFINE T == {trickle.interval * 2, world.max}
        <4>1. trickle.interval \in Nat /\ trickle.interval >= 2
          BY <1>2 DEF InBounds, Timer
        <4>2. T \subseteq Nat /\ T # {} /\ \A x \in T : x >= 2
          BY <1>1, <4>1
        <4>3. Min(T) \in T /\ \A y \in T : Min(T) <= y
          BY <4>2, MinOf
        <4> QED BY <4>2, <4>3
      <3>3. Advertise(i)
        BY <3>1 DEF decayInterval
      <3> HIDE DEF i
      <3>4. InBounds(trickle') /\ trickle'.armed
        BY <3>2, <3>3, Advertising
      <3> QED BY <1>4, <1>6, <2>3, <3>4 DEF BeaconTimerFired, Clock, BeaconTimerRuns, InBounds
    <2> QED BY <2>1, <2>2, <2>3
  <1>7. CASE BeaconReceive
    <2>1. InBounds(trickle') /\ (trickle' = trickle \/ trickle'.armed)
      BY <1>2, <1>3, <1>7 DEF BeaconReceive, BeaconReceived
    <2>2. UNCHANGED <<running, radioOn, beacon>>
      BY <1>7 DEF BeaconReceive, BeaconReceived
    <2> QED BY <1>4, <2>1, <2>2 DEF Clock, BeaconTimerRuns, InBounds
  <1>8. CASE StdControlStart \/ triggerRouteUpdate
    BY <1>3, <1>4, <1>8
       DEF StdControlStart, triggerRouteUpdate, Clock, BeaconTimerRuns, InBounds
  <1>9. CASE RadioStarts
    <2>1. radioOn' = TRUE /\ trickle' = [trickle EXCEPT !.armed = @ \/ running]
          /\ UNCHANGED <<running, beacon>>
      BY <1>9 DEF RadioStarts, RadioStartDone
    <2>2. InBounds(trickle') /\ trickle'.armed = (trickle.armed \/ running)
      BY <1>2, <2>1 DEF InBounds, Timer, Clock
    <2> QED BY <1>4, <2>1, <2>2 DEF Clock, BeaconTimerRuns, InBounds
  <1>10. CASE sendBeaconTask \/ BeaconSendDone \/ RadioStops \/ StdControlStop
    <2>1. trickle' = trickle /\ beacon' \subseteq {"posted", "sending"}
      BY <1>10 DEF sendBeaconTask, BeaconSendDone, RadioStops, StdControlStop, Clock
    <2>2. CASE UNCHANGED <<running, radioOn>>
      BY <1>4, <2>1, <2>2 DEF Clock, BeaconTimerRuns, InBounds
    <2>3. CASE running' = running /\ radioOn' = FALSE
      BY <1>4, <2>1, <2>3 DEF Clock, BeaconTimerRuns, InBounds
    <2>4. CASE running' = FALSE /\ radioOn' = radioOn
      BY <1>4, <2>1, <2>4 DEF Clock, BeaconTimerRuns, InBounds
    <2>5. \/ UNCHANGED <<running, radioOn>>
          \/ running' = running /\ radioOn' = FALSE
          \/ running' = FALSE /\ radioOn' = radioOn
      BY <1>10 DEF sendBeaconTask, BeaconSendDone, RadioStops, StdControlStop
    <2> QED BY <2>2, <2>3, <2>4, <2>5
  <1>11. CASE updateRouteTask \/ RouteTimerFired \/ setRoot \/ unsetRoot \/ recomputeRoutes
    <2>1. UNCHANGED <<trickle, running, radioOn, beacon>>
      BY <1>11 DEF updateRouteTask, RouteTimerFired, setRoot, unsetRoot, recomputeRoutes
    <2> QED BY <1>4, <2>1 DEF Clock, BeaconTimerRuns, InBounds
  <1>12. CASE NeighborCongested \/ LinkChanges \/ UNCHANGED vars
    BY <1>4, <1>12
       DEF NeighborCongested, LinkChanges, vars, Clock, BeaconTimerRuns, InBounds
  <1> QED BY <1>6, <1>7, <1>8, <1>9, <1>10, <1>11, <1>12 DEF Next

(* The invariant of the beacon timer holds. *)
LEMMA ClockKept == Spec => []Clock
  BY InitClock, StepClock, PTL DEF Spec

-----------------------------------------------------------------------------
(* Type correctness: the variables keep their types, and neither table     *)
(* holds a neighbour twice or more neighbours than it has slots            *)
(* (routingTableUpdateEntry, CtpRoutingEngineP.nc:718).                    *)
THEOREM TypesKept == Spec => []TypeOK
  <1>1. Inv /\ Clock => TypeOK
    <2> SUFFICES ASSUME Inv, Clock PROVE TypeOK
      OBVIOUS
    <2>1. Types /\ Good(engine) /\ Links(links)
      BY DEF Inv, Types
    <2>2. Table!LinksOK
      BY <2>1, SameCount DEF Table!LinksOK, Links
    <2>3. engine \in [routes : Seq([neighbor : Neighbors, parent : {Me, Elsewhere},
                                    etx : 0 .. MAX_METRIC, congested : BOOLEAN]),
                      info : RouteInfo, justEvicted : BOOLEAN, posted : BOOLEAN]
      BY <2>1 DEF Good, Engine, Route, Hops, Metrics, RouteInfo, Info, Ends
    <2>4. /\ Len(engine.routes) <= TableSize
          /\ IsInjective([i \in DOMAIN engine.routes |-> engine.routes[i].neighbor])
      <3>1. DOMAIN engine.routes = 1 .. Len(engine.routes) /\ Once(engine.routes)
            /\ Len(engine.routes) <= TableSize
        BY <2>1, LenProperties DEF Good, GoodTable
      <3> QED BY <3>1 DEF Once, IsInjective
    <2>5. trickle \in [interval : Nat, t : Nat, tHasPassed : BOOLEAN, armed : BOOLEAN]
      BY DEF Clock, InBounds, Timer
    <2> QED BY <2>1, <2>2, <2>3, <2>4, <2>5 DEF TypeOK, Types, Clock
  <1> QED BY <1>1, InvKept, ClockKept, PTL

(* A node that is no root never has a parent that the estimator has        *)
(* evicted (LinkEstimator.evicted, CtpRoutingEngineP.nc:512).              *)
THEOREM ParentStays == Spec => []ParentIsRouted
  <1>1. Inv => ParentIsRouted
    BY DEF Inv
  <1> QED BY <1>1, InvKept, PTL

(* The routing table follows the estimator's: a routed neighbour without a *)
(* slot is one the estimator had no slot for (CtpRoutingEngineP.nc:829).   *)
THEOREM TableFollows == Spec => []EvictionFollows
  <1>1. Inv => EvictionFollows
    BY DEF Inv
  <1> QED BY <1>1, InvKept, PTL

(* Where every neighbour fits in the table, the parent is pinned there     *)
(* (pinNeighbor, CtpRoutingEngineP.nc:291).                                *)
THEOREM ParentHeld == Spec => []ParentPinned
  <1>1. Inv => ParentPinned
    BY DEF Inv
  <1> QED BY <1>1, InvKept, PTL

(* No pin outlives the reason it was set for, except those of roots and of *)
(* the parent a new root had (CtpRoutingEngineP.nc:285).                   *)
THEOREM PinsBack == Spec => []PinsReturned
  <1>1. Inv => PinsReturned
    BY DEF Inv
  <1> QED BY <1>1, InvKept, PTL

(* The forwarding engine knows of every route there is                     *)
(* (signal Routing.routeFound, CtpRoutingEngineP.nc:299).                  *)
THEOREM RouteTold == Spec => []RouteAnnounced
  <1>1. Inv => RouteAnnounced
    BY DEF Inv, Announced, RouteAnnounced
  <1> QED BY <1>1, InvKept, PTL

(* The beacon timer runs while routing and radio are on, in whatever order *)
(* they were started and stopped (CtpRoutingEngineP.nc:168).               *)
THEOREM TimerRuns == Spec => []BeaconTimerRuns
  <1>1. Clock => BeaconTimerRuns
    BY DEF Clock
  <1> QED BY <1>1, ClockKept, PTL

(* What remains of an interval after the advertisement is neither negative *)
(* nor more than half of it (chooseAdvertiseTime, CtpRoutingEngineP.nc:127). *)
THEOREM InSecondHalf == Spec => []Advertised
  <1>1. Clock => Advertised
    BY DEF Clock, InBounds, Advertised
  <1> QED BY <1>1, ClockKept, PTL

(* A choice of the parent is stable: the hysteresis and the congestion     *)
(* test never undo it on the same tables (updateRouteTask,                 *)
(* CtpRoutingEngineP.nc:273), for every metric where int has 32 bits, and  *)
(* where it has 16 unless the threshold wraps the best alternative.        *)
THEOREM StableChoice == Spec => NoFlapping
  <1>1. Inv /\ Inv' /\ [Next]_vars
          => [updateRouteTask /\ ~ state_is_root /\ Switches(engine', links')
                => ThresholdWraps(engine, links) \/ ThresholdWraps(engine', links')]_vars
    <2> SUFFICES ASSUME Inv, Inv', updateRouteTask, ~ state_is_root,
                        ~ ThresholdWraps(engine, links), ~ ThresholdWraps(engine', links')
                 PROVE  ~ Switches(engine', links')
      OBVIOUS
    <2>1. Good(engine) /\ Links(links) /\ engine \in Engine /\ Good(engine')
      BY DEF Inv, Types, Good
    <2> DEFINE next == NextInfo(engine, links)
    <2>2. /\ engine' = [engine EXCEPT !.posted = FALSE, !.justEvicted = FALSE, !.info = next]
          /\ links' = NextPins(engine, links)
      BY DEF updateRouteTask
    <2> HIDE DEF next
    <2>3. engine'.routes = engine.routes /\ engine'.info = next
      BY <2>1, <2>2 DEF Engine
    <2> QED BY <2>1, <2>2, <2>3, ChoiceStays DEF next
  <1> QED BY <1>1, InvKept, PTL DEF Spec, NoFlapping
==============================================================================
