---------------------------- MODULE DistinctSeqs ----------------------------
(***************************************************************************)
(* Facts about sequences: those in which nothing occurs twice, such as the *)
(* free pool entries and the queued entries of the forwarding engine, and  *)
(* the steps of an insertion sort, which is how InjGen and the delay       *)
(* pipeline sort.  The smallest and the largest member of a set of numbers.*)
(***************************************************************************)
EXTENDS Integers, SequencesExt, FiniteSetTheorems, FunctionTheorems, SequenceTheorems,
        WellFoundedInduction, TLAPS

-----------------------------------------------------------------------------
(* Sequences without repetition. *)

(* Appending a new member. *)
LEMMA AppendNew ==
  ASSUME NEW S, NEW s \in Seq(S), NEW e \in S, IsInjective(s), e \notin ToSet(s)
  PROVE  /\ Append(s, e) \in Seq(S)
         /\ IsInjective(Append(s, e))
         /\ ToSet(Append(s, e)) = ToSet(s) \union {e}
  <1>1. /\ Append(s, e) \in Seq(S) /\ Len(Append(s, e)) = Len(s) + 1 /\ Len(s) \in Nat
        /\ \A i \in 1 .. Len(s) : Append(s, e)[i] = s[i]
        /\ Append(s, e)[Len(s) + 1] = e
    OBVIOUS
  <1>2. DOMAIN Append(s, e) = 1 .. Len(s) + 1 /\ DOMAIN s = 1 .. Len(s)
    BY <1>1
  <1>3. IsInjective(Append(s, e))
    <2> SUFFICES ASSUME NEW i \in 1 .. Len(s) + 1, NEW j \in 1 .. Len(s) + 1,
                        Append(s, e)[i] = Append(s, e)[j]
                 PROVE  i = j
      BY <1>2 DEF IsInjective
    <2>1. \A k \in 1 .. Len(s) : s[k] # e
      BY <1>2 DEF ToSet
    <2> QED BY <1>1, <1>2, <2>1 DEF IsInjective
  <1>4. ToSet(Append(s, e)) = ToSet(s) \union {e}
    BY <1>1, <1>2 DEF ToSet
  <1> QED BY <1>1, <1>3, <1>4

(* What is left after the first k members. *)
LEMMA RestOfSeq ==
  ASSUME NEW S, NEW s \in Seq(S), NEW k \in 0 .. Len(s)
  PROVE  LET rest == SubSeq(s, k + 1, Len(s))
         IN  /\ rest \in Seq(S) /\ Len(rest) = Len(s) - k
             /\ \A i \in 1 .. Len(s) - k : rest[i] = s[i + k]
  <1> DEFINE rest == SubSeq(s, k + 1, Len(s))
  <1>1. Len(s) \in Nat /\ k \in Nat /\ k <= Len(s)
    BY LenProperties
  <1>2. k + 1 \in Int /\ Len(s) \in Int /\ \A i \in k + 1 .. Len(s) : s[i] \in S
    BY <1>1, LenProperties
  <1>3. /\ rest \in Seq(S)
        /\ Len(rest) = IF k + 1 <= Len(s) THEN Len(s) - (k + 1) + 1 ELSE 0
        /\ \A i \in 1 .. Len(s) - (k + 1) + 1 : rest[i] = s[(k + 1) + i - 1]
    BY <1>2, SubSeqProperties
  <1> HIDE DEF rest
  <1>4. ASSUME NEW i \in 1 .. Len(s) - k
        PROVE  rest[i] = s[i + k]
    <2>1. i \in 1 .. Len(s) - (k + 1) + 1 /\ (k + 1) + i - 1 = i + k
      BY <1>1
    <2>2. rest[i] = s[(k + 1) + i - 1]
      BY <1>3, <2>1
    <2> QED BY <2>1, <2>2
  <1>5. Len(rest) = Len(s) - k
    <2>1. Len(rest) = IF k + 1 <= Len(s) THEN Len(s) - (k + 1) + 1 ELSE 0
      BY <1>3
    <2> QED BY <1>1, <2>1
  <1> QED BY <1>3, <1>4, <1>5 DEF rest

(* Splitting into a front and a rest. *)
LEMMA SplitSeq ==
  ASSUME NEW S, NEW s \in Seq(S), NEW k \in 0 .. Len(s), IsInjective(s)
  PROVE  LET front == SubSeq(s, 1, k)
             rest  == SubSeq(s, k + 1, Len(s))
         IN  /\ front \in Seq(S) /\ rest \in Seq(S) /\ Len(front) = k
             /\ \A i \in 1 .. k : front[i] = s[i]
             /\ IsInjective(front) /\ IsInjective(rest)
             /\ ToSet(front) \union ToSet(rest) = ToSet(s)
             /\ ToSet(front) \intersect ToSet(rest) = {}
  <1> DEFINE front == SubSeq(s, 1, k)
             rest  == SubSeq(s, k + 1, Len(s))
  <1>1. Len(s) \in Nat /\ DOMAIN s = 1 .. Len(s) /\ k \in Nat /\ k <= Len(s)
        /\ \A i \in 1 .. Len(s) : s[i] \in S
    BY LenProperties
  <1>2. /\ front \in Seq(S) /\ Len(front) = k
        /\ \A i \in 1 .. k : front[i] = s[i]
    BY <1>1, SubSeqProperties
  <1>3. /\ rest \in Seq(S) /\ Len(rest) = Len(s) - k
        /\ \A i \in 1 .. Len(s) - k : rest[i] = s[i + k]
    BY RestOfSeq
  <1>4. DOMAIN front = 1 .. k /\ DOMAIN rest = 1 .. Len(s) - k
    BY <1>2, <1>3, LenProperties
  <1> HIDE DEF front, rest
  <1>5. \A i, j \in 1 .. Len(s) : s[i] = s[j] => i = j
    BY <1>1 DEF IsInjective
  <1>6. IsInjective(front)
    BY <1>1, <1>2, <1>4, <1>5 DEF IsInjective
  <1>7. IsInjective(rest)
    <2> SUFFICES ASSUME NEW i \in 1 .. Len(s) - k, NEW j \in 1 .. Len(s) - k,
                        rest[i] = rest[j]
                 PROVE  i = j
      BY <1>4 DEF IsInjective
    <2>1. i + k \in 1 .. Len(s) /\ j + k \in 1 .. Len(s) /\ s[i + k] = s[j + k]
      BY <1>1, <1>3
    <2>2. i + k = j + k
      BY <1>5, <2>1
    <2> QED BY <1>1, <2>2
  <1>8. ToSet(front) \union ToSet(rest) = ToSet(s)
    <2>1. ToSet(front) \subseteq ToSet(s)
      BY <1>1, <1>2, <1>4 DEF ToSet
    <2>2. ToSet(rest) \subseteq ToSet(s)
      <3> SUFFICES ASSUME NEW i \in 1 .. Len(s) - k PROVE rest[i] \in ToSet(s)
        BY <1>4 DEF ToSet
      <3>1. i + k \in 1 .. Len(s) /\ rest[i] = s[i + k]
        BY <1>1, <1>3
      <3> QED BY <1>1, <3>1 DEF ToSet
    <2>3. ASSUME NEW i \in 1 .. Len(s)
          PROVE  s[i] \in ToSet(front) \union ToSet(rest)
      <3>1. CASE i <= k
        BY <1>1, <1>2, <1>4, <3>1 DEF ToSet
      <3>2. CASE i > k
        <4>1. i - k \in 1 .. Len(s) - k /\ rest[i - k] = s[i]
          BY <1>1, <1>3, <3>2
        <4> QED BY <1>4, <4>1 DEF ToSet
      <3> QED BY <1>1, <3>1, <3>2
    <2>4. ToSet(s) \subseteq ToSet(front) \union ToSet(rest)
      BY <1>1, <2>3 DEF ToSet
    <2> QED BY <2>1, <2>2, <2>4
  <1>9. ToSet(front) \intersect ToSet(rest) = {}
    <2> SUFFICES ASSUME NEW i \in 1 .. k, NEW j \in 1 .. Len(s) - k, front[i] = rest[j]
                 PROVE  FALSE
      BY <1>4 DEF ToSet
    <2>1. i \in 1 .. Len(s) /\ j + k \in 1 .. Len(s) /\ s[i] = s[j + k]
      BY <1>1, <1>2, <1>3
    <2>2. i = j + k
      BY <1>5, <2>1
    <2> QED BY <1>1, <2>2
  <1> QED BY <1>2, <1>3, <1>6, <1>7, <1>8, <1>9 DEF front, rest

(* The members of a sequence are its first one and those behind it. *)
LEMMA HeadAndTail ==
  ASSUME NEW S, NEW s \in Seq(S), s # <<>>
  PROVE  /\ Head(s) \in S /\ Tail(s) \in Seq(S)
         /\ ToSet(s) = {Head(s)} \union ToSet(Tail(s))
  <1>1. Len(s) \in Nat /\ Len(s) > 0 /\ DOMAIN s = 1 .. Len(s) /\ Head(s) = s[1]
    BY LenProperties, EmptySeq
  <1>2. PICK t \in Seq(S) : /\ t = Tail(s) /\ Len(t) = Len(s) - 1
                           /\ \A i \in 1 .. Len(t) : t[i] = s[i + 1]
    BY HeadTailProperties
  <1>3. DOMAIN t = 1 .. Len(s) - 1
    BY <1>2, LenProperties
  <1>4. ASSUME NEW i \in 1 .. Len(s) - 1 PROVE t[i] \in ToSet(s)
    <2>1. i + 1 \in 1 .. Len(s) /\ t[i] = s[i + 1]
      BY <1>1, <1>2
    <2> QED BY <1>1, <2>1 DEF ToSet
  <1>5. ASSUME NEW i \in 1 .. Len(s) PROVE s[i] \in {s[1]} \union ToSet(t)
    <2>1. CASE i = 1
      BY <2>1
    <2>2. CASE i > 1
      <3>1. i - 1 \in 1 .. Len(s) - 1 /\ (i - 1) + 1 = i
        BY <1>1, <2>2
      <3>2. t[i - 1] = s[i]
        BY <1>2, <3>1
      <3> QED BY <1>3, <3>1, <3>2 DEF ToSet
    <2> QED BY <1>1, <2>1, <2>2
  <1>6. ToSet(t) \subseteq ToSet(s)
    BY <1>3, <1>4 DEF ToSet
  <1>7. ToSet(s) \subseteq {s[1]} \union ToSet(t)
    BY <1>1, <1>5 DEF ToSet
  <1>8. s[1] \in ToSet(s)
    BY <1>1 DEF ToSet
  <1>9. Head(s) \in S
    BY HeadTailProperties
  <1> QED BY <1>1, <1>2, <1>6, <1>7, <1>8, <1>9

(* Appending adds a member. *)
LEMMA AppendMembers ==
  ASSUME NEW S, NEW s \in Seq(S), NEW e \in S
  PROVE  Append(s, e) \in Seq(S) /\ ToSet(Append(s, e)) = ToSet(s) \union {e}
  <1>1. /\ Append(s, e) \in Seq(S) /\ Len(Append(s, e)) = Len(s) + 1 /\ Len(s) \in Nat
        /\ \A i \in 1 .. Len(s) : Append(s, e)[i] = s[i]
        /\ Append(s, e)[Len(s) + 1] = e
    OBVIOUS
  <1>2. DOMAIN Append(s, e) = 1 .. Len(s) + 1 /\ DOMAIN s = 1 .. Len(s)
    BY <1>1
  <1> QED BY <1>1, <1>2 DEF ToSet

(* Taking the first member out. *)
LEMMA TailDistinct ==
  ASSUME NEW S, NEW s \in Seq(S), s # <<>>, IsInjective(s)
  PROVE  /\ Tail(s) \in Seq(S) /\ IsInjective(Tail(s))
         /\ Head(s) \in ToSet(s)
         /\ ToSet(Tail(s)) = ToSet(s) \ {Head(s)}
  <1>1. Len(s) \in Nat /\ Len(s) > 0 /\ DOMAIN s = 1 .. Len(s)
    BY LenProperties, EmptySeq
  <1>2. Tail(s) = SubSeq(s, 2, Len(s))
    BY TailIsSubSeq
  <1>3. Head(s) = s[1] /\ Head(s) \in ToSet(s)
    BY <1>1 DEF ToSet
  <1>4. /\ SubSeq(s, 1, 1) \in Seq(S) /\ Len(SubSeq(s, 1, 1)) = 1
        /\ SubSeq(s, 1, 1)[1] = s[1]
        /\ Tail(s) \in Seq(S) /\ IsInjective(Tail(s))
        /\ ToSet(SubSeq(s, 1, 1)) \union ToSet(Tail(s)) = ToSet(s)
        /\ ToSet(SubSeq(s, 1, 1)) \intersect ToSet(Tail(s)) = {}
    <2>1. PICK k \in 0 .. Len(s) : k = 1
      BY <1>1
    <2>2. /\ SubSeq(s, 1, k) \in Seq(S) /\ SubSeq(s, k + 1, Len(s)) \in Seq(S)
          /\ Len(SubSeq(s, 1, k)) = k
          /\ \A i \in 1 .. k : SubSeq(s, 1, k)[i] = s[i]
          /\ IsInjective(SubSeq(s, k + 1, Len(s)))
          /\ ToSet(SubSeq(s, 1, k)) \union ToSet(SubSeq(s, k + 1, Len(s))) = ToSet(s)
          /\ ToSet(SubSeq(s, 1, k)) \intersect ToSet(SubSeq(s, k + 1, Len(s))) = {}
      BY SplitSeq
    <2>3. k + 1 = 2 /\ 1 \in 1 .. k
      BY <2>1
    <2> QED BY <1>2, <2>1, <2>2, <2>3
  <1>5. ToSet(SubSeq(s, 1, 1)) = {s[1]}
    BY <1>4, LenProperties DEF ToSet
  <1> QED BY <1>3, <1>4, <1>5

(* A sequence of distinct members of a finite set is no longer than the set. *)
LEMMA DistinctLength ==
  ASSUME NEW S, IsFiniteSet(S), NEW s \in Seq(S), IsInjective(s)
  PROVE  Len(s) <= Cardinality(S) /\ Cardinality(ToSet(s)) = Len(s)
  <1>1. Len(s) \in Nat /\ DOMAIN s = 1 .. Len(s) /\ s \in [1 .. Len(s) -> S]
    BY LenProperties
  <1>2. IsFiniteSet(1 .. Len(s)) /\ Cardinality(1 .. Len(s)) = Len(s)
    BY <1>1, FS_Interval
  <1>3. s \in Injection(1 .. Len(s), S)
    BY <1>1 DEF Injection, IsInjective
  <1>4. s \in Injection(1 .. Len(s), ToSet(s)) /\ s \in Surjection(1 .. Len(s), ToSet(s))
    BY <1>1 DEF Injection, Surjection, IsInjective, ToSet
  <1>5. Len(s) <= Cardinality(S)
    BY <1>2, <1>3, FS_Injection
  <1>6. Cardinality(ToSet(s)) = Len(s)
    BY <1>2, <1>4, FS_Surjection
  <1> QED BY <1>5, <1>6

(* A sequence that leaves out a member of the set is shorter than the set. *)
LEMMA MissingMember ==
  ASSUME NEW S, IsFiniteSet(S), NEW s \in Seq(S), IsInjective(s),
         NEW e \in S, e \notin ToSet(s)
  PROVE  Len(s) < Cardinality(S)
  <1>1. s \in Seq(S \ {e})
    <2>1. Len(s) \in Nat /\ DOMAIN s = 1 .. Len(s) /\ s \in [1 .. Len(s) -> S]
      BY LenProperties
    <2>2. \A i \in 1 .. Len(s) : s[i] \in S \ {e}
      BY <2>1 DEF ToSet
    <2> QED BY <2>1, <2>2
  <1>2. IsFiniteSet(S \ {e}) /\ Cardinality(S \ {e}) = Cardinality(S) - 1
    BY FS_RemoveElement
  <1>3. Len(s) <= Cardinality(S \ {e})
    BY <1>1, <1>2, DistinctLength
  <1>4. Cardinality(S) \in Nat /\ Len(s) \in Nat
    BY FS_CardinalityType, LenProperties
  <1> QED BY <1>2, <1>3, <1>4

\* Inserting the sequence m into q, behind its first p members.
Insertion(q, m, p) == SubSeq(q, 1, p) \o m \o SubSeq(q, p + 1, Len(q))

\* The same, member by member.
IsInsertion(r, q, m, p) ==
  /\ Len(r) = Len(q) + Len(m)
  /\ \A i \in 1 .. Len(q) + Len(m) :
       r[i] = IF i <= p THEN q[i]
              ELSE IF i <= p + Len(m) THEN m[i - p] ELSE q[i - Len(m)]

(* An insertion is one member by member. *)
LEMMA Inserted ==
  ASSUME NEW S, NEW q \in Seq(S), NEW m \in Seq(S), NEW p \in 0 .. Len(q),
         NEW r, r = Insertion(q, m, p)
  PROVE  r \in Seq(S) /\ IsInsertion(r, q, m, p)
  <1> DEFINE front == SubSeq(q, 1, p)
             rest  == SubSeq(q, p + 1, Len(q))
  <1>1. /\ Len(q) \in Nat /\ Len(m) \in Nat /\ p \in Nat /\ p <= Len(q)
        /\ \A i \in 1 .. Len(q) : q[i] \in S
    BY LenProperties
  <1>2. /\ front \in Seq(S) /\ Len(front) = p
        /\ \A i \in 1 .. p : front[i] = q[i]
    BY <1>1, SubSeqProperties
  <1>3. /\ rest \in Seq(S) /\ Len(rest) = Len(q) - p
        /\ \A i \in 1 .. Len(q) - p : rest[i] = q[i + p]
    BY <1>1, RestOfSeq
  <1>0. r = front \o m \o rest
    BY DEF Insertion
  <1> HIDE DEF front, rest
  <1>4. /\ front \o m \in Seq(S) /\ Len(front \o m) = p + Len(m)
        /\ \A i \in 1 .. p + Len(m) :
             (front \o m)[i] = IF i <= p THEN front[i] ELSE m[i - p]
    BY <1>2, ConcatProperties
  <1>5. /\ r \in Seq(S) /\ Len(r) = p + Len(m) + (Len(q) - p)
        /\ \A i \in 1 .. p + Len(m) + (Len(q) - p) :
             r[i] = IF i <= p + Len(m) THEN (front \o m)[i] ELSE rest[i - (p + Len(m))]
    BY SMTT(30), <1>0, <1>3, <1>4, ConcatProperties
  <1>6. p + Len(m) + (Len(q) - p) = Len(q) + Len(m)
    BY <1>1
  <1>7. ASSUME NEW i \in 1 .. Len(q) + Len(m)
        PROVE  r[i] = IF i <= p THEN q[i]
                      ELSE IF i <= p + Len(m) THEN m[i - p] ELSE q[i - Len(m)]
    <2>1. CASE i <= p
      BY SMTT(30), <1>1, <1>2, <1>4, <1>5, <1>6, <2>1
    <2>2. CASE p < i /\ i <= p + Len(m)
      <3>1. ~ (i <= p) /\ i \in 1 .. p + Len(m)
        BY <1>1, <2>2
      <3>2. r[i] = (front \o m)[i] /\ (front \o m)[i] = m[i - p]
        BY <1>4, <1>5, <1>6, <2>2, <3>1
      <3> QED BY <2>2, <3>1, <3>2
    <2>3. CASE p + Len(m) < i
      <3>1. /\ i - (p + Len(m)) \in 1 .. Len(q) - p
            /\ i - (p + Len(m)) + p = i - Len(m) /\ ~ (i <= p)
        BY <1>1, <2>3
      <3>2. r[i] = rest[i - (p + Len(m))]
        BY <1>1, <1>5, <1>6, <2>3
      <3> QED BY <1>1, <1>3, <2>3, <3>1, <3>2
    <2> QED BY <1>1, <2>1, <2>2, <2>3
  <1> QED BY <1>5, <1>6, <1>7 DEF IsInsertion

(* The same for sequences without repetition. *)
LEMMA InsertedDistinct ==
  ASSUME NEW S, NEW q \in Seq(S), NEW m \in Seq(S), NEW r \in Seq(S), NEW p \in 0 .. Len(q),
         IsInjective(q), IsInjective(m), ToSet(q) \intersect ToSet(m) = {},
         IsInsertion(r, q, m, p)
  PROVE  IsInjective(r)
  <1>1. /\ Len(q) \in Nat /\ Len(m) \in Nat /\ p \in Nat /\ p <= Len(q)
        /\ DOMAIN q = 1 .. Len(q) /\ DOMAIN m = 1 .. Len(m)
        /\ DOMAIN r = 1 .. Len(q) + Len(m)
    BY LenProperties DEF IsInsertion
  <1>0. \A i \in 1 .. Len(q) + Len(m) :
          r[i] = IF i <= p THEN q[i]
                 ELSE IF i <= p + Len(m) THEN m[i - p] ELSE q[i - Len(m)]
    BY DEF IsInsertion
  <1>2. /\ \A i, j \in 1 .. Len(q) : q[i] = q[j] => i = j
        /\ \A i, j \in 1 .. Len(m) : m[i] = m[j] => i = j
        /\ \A i \in 1 .. Len(q), j \in 1 .. Len(m) : q[i] # m[j]
    <2>1. \A i, j \in 1 .. Len(q) : q[i] = q[j] => i = j
      BY <1>1 DEF IsInjective
    <2>2. \A i, j \in 1 .. Len(m) : m[i] = m[j] => i = j
      BY <1>1 DEF IsInjective
    <2>3. (\A i \in 1 .. Len(q) : q[i] \in ToSet(q)) /\ \A j \in 1 .. Len(m) : m[j] \in ToSet(m)
      BY <1>1 DEF ToSet
    <2> QED BY <2>1, <2>2, <2>3
  <1> DEFINE FromQ(i) == ~ (p < i /\ i <= p + Len(m))
             PosQ(i)  == IF i <= p THEN i ELSE i - Len(m)
  <1>3. ASSUME NEW i \in 1 .. Len(q) + Len(m), FromQ(i)
        PROVE  PosQ(i) \in 1 .. Len(q) /\ r[i] = q[PosQ(i)]
    BY <1>0, <1>1, <1>3
  <1>4. ASSUME NEW i \in 1 .. Len(q) + Len(m), ~ FromQ(i)
        PROVE  i - p \in 1 .. Len(m) /\ r[i] = m[i - p]
    BY <1>0, <1>1, <1>4
  <1> HIDE DEF FromQ, PosQ
  <1>5. SUFFICES ASSUME NEW i \in 1 .. Len(q) + Len(m), NEW j \in 1 .. Len(q) + Len(m),
                        r[i] = r[j]
                 PROVE  i = j
    BY <1>1 DEF IsInjective
  <1>6. CASE FromQ(i) /\ FromQ(j)
    <2>1. PosQ(i) = PosQ(j)
      BY <1>2, <1>3, <1>5, <1>6
    <2> QED BY <1>1, <1>6, <2>1 DEF FromQ, PosQ
  <1>7. CASE ~ FromQ(i) /\ ~ FromQ(j)
    <2>1. i - p = j - p
      BY <1>2, <1>4, <1>5, <1>7
    <2> QED BY <1>1, <2>1
  <1>8. CASE FromQ(i) /\ ~ FromQ(j)
    <2>1. PosQ(i) \in 1 .. Len(q) /\ r[i] = q[PosQ(i)]
      BY <1>3, <1>8
    <2>2. j - p \in 1 .. Len(m) /\ r[j] = m[j - p]
      BY <1>4, <1>8
    <2> QED BY <1>2, <1>5, <2>1, <2>2
  <1>9. CASE ~ FromQ(i) /\ FromQ(j)
    <2>1. PosQ(j) \in 1 .. Len(q) /\ r[j] = q[PosQ(j)]
      BY <1>3, <1>9
    <2>2. i - p \in 1 .. Len(m) /\ r[i] = m[i - p]
      BY <1>4, <1>9
    <2> QED BY <1>2, <1>5, <2>1, <2>2
  <1> QED BY <1>6, <1>7, <1>8, <1>9

(* Inserting adds the members of the inserted sequence. *)
LEMMA InsertedMembers ==
  ASSUME NEW S, NEW q \in Seq(S), NEW m \in Seq(S), NEW r \in Seq(S), NEW p \in 0 .. Len(q),
         IsInsertion(r, q, m, p)
  PROVE  ToSet(r) = ToSet(q) \union ToSet(m)
  <1>1. /\ Len(q) \in Nat /\ Len(m) \in Nat /\ p \in Nat /\ p <= Len(q)
        /\ DOMAIN q = 1 .. Len(q) /\ DOMAIN m = 1 .. Len(m)
        /\ DOMAIN r = 1 .. Len(q) + Len(m)
    BY LenProperties DEF IsInsertion
  <1>0. \A i \in 1 .. Len(q) + Len(m) :
          r[i] = IF i <= p THEN q[i]
                 ELSE IF i <= p + Len(m) THEN m[i - p] ELSE q[i - Len(m)]
    BY DEF IsInsertion
  <1>2. ASSUME NEW i \in 1 .. Len(q) + Len(m)
        PROVE  r[i] \in ToSet(q) \union ToSet(m)
    <2>1. CASE i <= p
      BY SMTT(30), <1>0, <1>1, <2>1 DEF ToSet
    <2>2. CASE p < i /\ i <= p + Len(m)
      <3>1. i - p \in 1 .. Len(m) /\ r[i] = m[i - p]
        BY <1>0, <1>1, <2>2
      <3> QED BY <1>1, <3>1 DEF ToSet
    <2>3. CASE p + Len(m) < i
      <3>1. i - Len(m) \in 1 .. Len(q) /\ r[i] = q[i - Len(m)]
        BY <1>0, <1>1, <2>3
      <3> QED BY <1>1, <3>1 DEF ToSet
    <2> QED BY <1>1, <2>1, <2>2, <2>3
  <1>3. ASSUME NEW i \in 1 .. Len(q)
        PROVE  q[i] \in ToSet(r)
    <2>1. CASE i <= p
      <3>1. i \in 1 .. Len(q) + Len(m) /\ r[i] = q[i]
        BY <1>0, <1>1, <2>1
      <3> QED BY <1>1, <3>1 DEF ToSet
    <2>2. CASE p < i
      <3>1. PICK j \in 1 .. Len(q) + Len(m) : j = i + Len(m)
        BY <1>1
      <3>2. ~ (j <= p) /\ ~ (j <= p + Len(m)) /\ j - Len(m) = i
        BY <1>1, <2>2, <3>1
      <3>3. r[j] = q[i]
        BY <1>0, <3>2
      <3> QED BY <1>1, <3>3 DEF ToSet
    <2> QED BY <1>1, <2>1, <2>2
  <1>4. ASSUME NEW i \in 1 .. Len(m)
        PROVE  m[i] \in ToSet(r)
    <2>1. PICK j \in 1 .. Len(q) + Len(m) : j = i + p
      BY <1>1
    <2>2. ~ (j <= p) /\ j <= p + Len(m) /\ j - p = i
      BY <1>1, <2>1
    <2>3. r[j] = m[i]
      BY <1>0, <2>2
    <2> QED BY <1>1, <2>3 DEF ToSet
  <1> QED BY <1>1, <1>2, <1>3, <1>4 DEF ToSet

-----------------------------------------------------------------------------
(* The smallest and the largest member of a set. *)

(* The least member of a set of natural numbers. *)
LEMMA MinOf ==
  ASSUME NEW T, T \subseteq Nat, T # {}
  PROVE  Min(T) \in T /\ \A y \in T : Min(T) <= y
  <1>1. \E x \in T : \A y \in T : ~ (<<y, x>> \in OpToRel(<, Nat))
    BY NatLessThanWellFounded, WFMin
  <1>2. PICK x \in T : \A y \in T : ~ (<<y, x>> \in OpToRel(<, Nat))
    BY <1>1
  <1>3. \A y \in T : ~ (y < x)
    BY <1>2 DEF OpToRel
  <1>4. \A y \in T : x <= y
    <2> SUFFICES ASSUME NEW y \in T PROVE x <= y
      OBVIOUS
    <2>1. x \in Nat /\ y \in Nat /\ ~ (y < x)
      BY <1>3
    <2> QED BY <2>1
  <1> QED BY <1>4 DEF Min

(* The greatest member of a bounded set of natural numbers. *)
LEMMA MaxOf ==
  ASSUME NEW k \in Nat, NEW T, T \subseteq 0 .. k, T # {}
  PROVE  Max(T) \in T /\ \A y \in T : y <= Max(T)
  <1> DEFINE R == {k - x : x \in T}
  <1>1. R \subseteq Nat
    <2> SUFFICES ASSUME NEW x \in T PROVE k - x \in Nat
      OBVIOUS
    <2> QED BY x \in 0 .. k
  <1>2. R # {}
    OBVIOUS
  <1>3. Min(R) \in R /\ \A y \in R : Min(R) <= y
    BY <1>1, <1>2, MinOf
  <1>4. PICK x \in T : Min(R) = k - x
    BY <1>3
  <1>5. ASSUME NEW y \in T
        PROVE  x >= y
    <2>1. k - y \in R
      OBVIOUS
    <2>2. k - x <= k - y
      BY <1>3, <1>4, <2>1
    <2>3. x \in 0 .. k /\ y \in 0 .. k
      OBVIOUS
    <2> QED BY <2>2, <2>3
  <1> QED BY <1>5 DEF Max

(* The larger and the smaller of two numbers. *)
LEMMA MinMaxOfTwo ==
  ASSUME NEW x \in Nat, NEW y \in Nat
  PROVE  /\ Max({x, y}) = IF x >= y THEN x ELSE y
         /\ Min({x, y}) = IF x <= y THEN x ELSE y
  <1>1. {x, y} \subseteq 0 .. x + y /\ {x, y} # {}
    OBVIOUS
  <1>2. x + y \in Nat
    OBVIOUS
  <1>3. Max({x, y}) \in {x, y} /\ \A z \in {x, y} : z <= Max({x, y})
    BY <1>1, <1>2, MaxOf
  <1>4. Min({x, y}) \in {x, y} /\ \A z \in {x, y} : Min({x, y}) <= z
    BY MinOf
  <1> QED BY <1>3, <1>4

-----------------------------------------------------------------------------
(* Recursive functions on the numbers up to n. *)

(* What holds of 0 and passes from each number to the next holds of all. *)
LEMMA Upward ==
  ASSUME NEW n \in Nat, NEW P, 0 \in P, \A k \in 1 .. n : k - 1 \in P => k \in P
  PROVE  0 .. n \subseteq P
  <1> DEFINE F == (0 .. n) \ P
  <1> SUFFICES ASSUME F # {} PROVE FALSE
    OBVIOUS
  <1>1. F \subseteq Nat
    OBVIOUS
  <1>2. PICK m \in F : \A y \in F : m <= y
    <2>1. Min(F) \in F /\ \A y \in F : Min(F) <= y
      BY <1>1, MinOf
    <2> QED BY <2>1
  <1>3. m \in 1 .. n /\ m - 1 \in 0 .. n /\ ~ (m <= m - 1)
    OBVIOUS
  <1>4. m - 1 \in P
    BY <1>2, <1>3
  <1> QED BY <1>3, <1>4

\* f starts with a, and D says how it goes on.
Recurs(f, n, a, D) == f[0] = a /\ \A k \in 1 .. n : f[k] = D[k][f[k - 1]]

(* A function defined by recursion exists. *)
LEMMA Recursion ==
  ASSUME NEW n \in Nat, NEW S, NEW a \in S, NEW D \in [1 .. n -> [S -> S]]
  PROVE  \E f \in [0 .. n -> S] : Recurs(f, n, a, D)
  <1> DEFINE Is(f, m) == f[0] = a /\ \A k \in 1 .. m : f[k] = D[k][f[k - 1]]
             Has(m) == \E f \in [0 .. m -> S] : Is(f, m)
             P == {m \in 0 .. n : Has(m)}
  <1>1. 0 \in P
    <2> DEFINE f == [k \in 0 .. 0 |-> a]
    <2>1. f \in [0 .. 0 -> S] /\ Is(f, 0)
      OBVIOUS
    <2>2. Has(0)
      <3> HIDE DEF f, Is
      <3> QED BY <2>1
    <2> HIDE DEF Has
    <2> QED BY <2>2
  <1>2. ASSUME NEW m \in 1 .. n, m - 1 \in P PROVE m \in P
    <2>1. PICK f \in [0 .. m - 1 -> S] : Is(f, m - 1)
      BY <1>2
    <2> DEFINE g == [k \in 0 .. m |-> IF k = m THEN D[m][f[m - 1]] ELSE f[k]]
    <2>2. D[m][f[m - 1]] \in S
      <3>1. f[m - 1] \in S
        OBVIOUS
      <3> QED BY <3>1
    <2>3. g \in [0 .. m -> S]
      <3>1. \A k \in 0 .. m : k # m => k \in 0 .. m - 1
        OBVIOUS
      <3> QED BY <2>2, <3>1
    <2>4. g[0] = a
      BY <2>1
    <2>5. ASSUME NEW k \in 1 .. m PROVE g[k] = D[k][g[k - 1]]
      <3>1. k \in 0 .. m /\ k - 1 \in 0 .. m /\ k - 1 # m
        OBVIOUS
      <3>2. g[k - 1] = f[k - 1]
        BY <3>1
      <3>3. CASE k = m
        BY <3>2, <3>3
      <3>4. CASE k # m
        <4>1. k \in 1 .. m - 1
          BY <3>4
        <4>2. g[k] = f[k]
          BY <3>1, <3>4
        <4> QED BY <2>1, <3>2, <4>1, <4>2
      <3> QED BY <3>3, <3>4
    <2> HIDE DEF g
    <2>6. Is(g, m)
      BY <2>4, <2>5
    <2>7. Has(m)
      <3> HIDE DEF Is
      <3> QED BY <2>3, <2>6
    <2> HIDE DEF Has
    <2> QED BY <2>7
  <1>3. 0 .. n \subseteq P
    <2> HIDE DEF P
    <2> QED BY <1>1, <1>2, Upward
  <1>4. n \in P
    BY <1>3
  <1> QED BY <1>4 DEF Recurs

(* Among finitely many numbers there is a largest one. *)
LEMMA Largest ==
  ASSUME NEW n \in Nat \ {0}, NEW g \in [1 .. n -> Int]
  PROVE  \E i \in 1 .. n : \A k \in 1 .. n : g[k] <= g[i]
  <1> DEFINE Has(m) == m = 0 \/ \E i \in 1 .. m : \A k \in 1 .. m : g[k] <= g[i]
             P == {m \in 0 .. n : Has(m)}
  <1>1. 0 \in P
    OBVIOUS
  <1>2. ASSUME NEW m \in 1 .. n, m - 1 \in P PROVE m \in P
    <2> SUFFICES Has(m)
      <3> HIDE DEF Has
      <3> QED OBVIOUS
    <2>0. Has(m - 1)
      <3> HIDE DEF Has
      <3> QED BY <1>2
    <2>1. CASE m - 1 = 0
      <3>1. 1 \in 1 .. m /\ (\A k \in 1 .. m : k = 1) /\ g[1] \in Int
        BY <2>1
      <3>2. \A k \in 1 .. m : g[k] <= g[1]
        BY <3>1
      <3> QED BY <3>1, <3>2
    <2>2. CASE m - 1 # 0
      <3>1. PICK i \in 1 .. m - 1 : \A k \in 1 .. m - 1 : g[k] <= g[i]
        BY <2>0, <2>2
      <3>2. i \in 1 .. n /\ i \in 1 .. m /\ m \in 1 .. m /\ g[i] \in Int /\ g[m] \in Int
            /\ \A k \in 1 .. m : g[k] \in Int /\ (k = m \/ k \in 1 .. m - 1)
        OBVIOUS
      <3>3. CASE g[m] <= g[i]
        <4>1. \A k \in 1 .. m : g[k] <= g[i]
          BY <3>1, <3>2, <3>3
        <4> QED BY <3>2, <4>1
      <3>4. CASE g[i] <= g[m]
        <4>1. \A k \in 1 .. m : g[k] <= g[m]
          BY <3>1, <3>2, <3>4
        <4> QED BY <3>2, <4>1
      <3> QED BY <3>2, <3>3, <3>4
    <2> QED BY <2>1, <2>2
  <1>3. 0 .. n \subseteq P
    <2> HIDE DEF P
    <2> QED BY <1>1, <1>2, Upward
  <1>4. Has(n)
    <2> HIDE DEF Has
    <2> QED BY <1>3
  <1> QED BY <1>4

(* And a smallest one. *)
LEMMA Smallest ==
  ASSUME NEW n \in Nat \ {0}, NEW g \in [1 .. n -> Int]
  PROVE  \E i \in 1 .. n : \A k \in 1 .. n : g[i] <= g[k]
  <1> DEFINE h == [k \in 1 .. n |-> - g[k]]
  <1>1. h \in [1 .. n -> Int]
    OBVIOUS
  <1>2. PICK i \in 1 .. n : \A k \in 1 .. n : h[k] <= h[i]
    BY <1>1, Largest
  <1>3. ASSUME NEW k \in 1 .. n PROVE g[i] <= g[k]
    <2>1. h[k] = - g[k] /\ h[i] = - g[i] /\ h[k] <= h[i] /\ g[k] \in Int /\ g[i] \in Int
      BY <1>2
    <2> QED BY <2>1
  <1> QED BY <1>3

-----------------------------------------------------------------------------
(* Sequences that may hold a value twice. *)

(* Removing a member moves what is behind it. *)
LEMMA RemovedAt ==
  ASSUME NEW S, NEW s \in Seq(S), NEW i \in 1 .. Len(s)
  PROVE  /\ RemoveAt(s, i) \in Seq(S) /\ Len(RemoveAt(s, i)) = Len(s) - 1
         /\ \A j \in 1 .. Len(s) - 1 :
              RemoveAt(s, i)[j] = IF j < i THEN s[j] ELSE s[j + 1]
  <1>1. Len(s) \in Nat /\ DOMAIN s = 1 .. Len(s) /\ \A j \in 1 .. Len(s) : s[j] \in S
    BY LenProperties
  <1>5. RemoveAt(s, i) = SubSeq(s, 1, i - 1) \o SubSeq(s, i + 1, Len(s))
    BY DEF RemoveAt
  <1>6. PICK front \in Seq(S) : /\ front = SubSeq(s, 1, i - 1) /\ Len(front) = i - 1
                                /\ \A j \in 1 .. i - 1 : front[j] = s[j]
    <2>1. i - 1 \in Int /\ i - 1 >= 0 /\ 1 \in Int
      BY <1>1
    <2>2. \A j \in 1 .. i - 1 : s[j] \in S
      BY <1>1
    <2>3. /\ SubSeq(s, 1, i - 1) \in Seq(S)
          /\ Len(SubSeq(s, 1, i - 1)) = IF 1 <= i - 1 THEN i - 1 - 1 + 1 ELSE 0
          /\ \A j \in 1 .. i - 1 - 1 + 1 : SubSeq(s, 1, i - 1)[j] = s[1 + j - 1]
      BY <2>1, <2>2, SubSeqProperties
    <2>4. ASSUME NEW j \in 1 .. i - 1 PROVE SubSeq(s, 1, i - 1)[j] = s[j]
      <3>1. j \in 1 .. i - 1 - 1 + 1 /\ 1 + j - 1 = j
        BY <2>1
      <3> QED BY <2>3, <3>1
    <2>5. Len(SubSeq(s, 1, i - 1)) = i - 1
      BY <2>1, <2>3
    <2> QED BY <2>3, <2>4, <2>5
  <1>7. PICK rest \in Seq(S) : /\ rest = SubSeq(s, i + 1, Len(s)) /\ Len(rest) = Len(s) - i
                               /\ \A j \in 1 .. Len(s) - i : rest[j] = s[j + i]
    <2>1. i \in 0 .. Len(s)
      BY <1>1
    <2>2. /\ SubSeq(s, i + 1, Len(s)) \in Seq(S)
          /\ Len(SubSeq(s, i + 1, Len(s))) = Len(s) - i
          /\ \A j \in 1 .. Len(s) - i : SubSeq(s, i + 1, Len(s))[j] = s[j + i]
      BY <2>1, RestOfSeq
    <2> QED BY <2>2
  <1>8. /\ front \o rest \in Seq(S) /\ Len(front \o rest) = Len(front) + Len(rest)
        /\ \A j \in 1 .. Len(front) + Len(rest) :
             (front \o rest)[j] = IF j <= Len(front) THEN front[j] ELSE rest[j - Len(front)]
    BY ConcatProperties
  <1>9. (i - 1) + (Len(s) - i) = Len(s) - 1
    BY <1>1
  <1>10. ASSUME NEW j \in 1 .. Len(s) - 1
         PROVE  (front \o rest)[j] = IF j < i THEN s[j] ELSE s[j + 1]
    <2>1. (front \o rest)[j] = IF j <= i - 1 THEN front[j] ELSE rest[j - (i - 1)]
      BY <1>6, <1>7, <1>8, <1>9
    <2>2. CASE j < i
      <3>1. j \in 1 .. i - 1 /\ j <= i - 1
        BY <1>1, <2>2
      <3> QED BY <1>6, <2>1, <2>2, <3>1
    <2>3. CASE ~ (j < i)
      <3>1. j - (i - 1) \in 1 .. Len(s) - i /\ j - (i - 1) + i = j + 1 /\ ~ (j <= i - 1)
        BY <1>1, <2>3
      <3>2. rest[j - (i - 1)] = s[j - (i - 1) + i]
        BY <1>7, <3>1
      <3> QED BY <2>1, <2>3, <3>1, <3>2
    <2> QED BY <2>2, <2>3
  <1> QED BY ZenonT(40), <1>5, <1>6, <1>7, <1>8, <1>9, <1>10

(* Removing the first occurrence of a value moves what is behind it. *)
LEMMA RemoveFirstMembers ==
  ASSUME NEW S, NEW s \in Seq(S), NEW i \in 1 .. Len(s),
         \A j \in 1 .. i - 1 : s[j] # s[i]
  PROVE  /\ RemoveFirst(s, s[i]) \in Seq(S)
         /\ Len(RemoveFirst(s, s[i])) = Len(s) - 1
         /\ \A j \in 1 .. Len(s) - 1 :
              RemoveFirst(s, s[i])[j] = IF j < i THEN s[j] ELSE s[j + 1]
  <1> DEFINE I == {j \in 1 .. Len(s) : s[j] = s[i]}
  <1>1. Len(s) \in Nat /\ DOMAIN s = 1 .. Len(s) /\ \A j \in 1 .. Len(s) : s[j] \in S
    BY LenProperties
  <1>2. I # {} /\ I \subseteq Nat /\ \E j \in 1 .. Len(s) : s[j] = s[i]
    BY <1>1
  <1>3. RemoveFirst(s, s[i]) = RemoveAt(s, Min(I))
    BY <1>2 DEF RemoveFirst, SelectInSeq
  <1>4. Min(I) = i
    <2>1. Min(I) \in I /\ \A y \in I : Min(I) <= y
      BY <1>2, MinOf
    <2>2. PICK x \in I : x = Min(I)
      BY <2>1
    <2>3. x \in 1 .. Len(s) /\ s[x] = s[i] /\ x <= i
      BY <2>1, <2>2
    <2>4. ~ (x \in 1 .. i - 1)
      BY <2>3
    <2> QED BY <1>1, <2>2, <2>3, <2>4
  <1> QED BY ZenonT(40), <1>3, <1>4, RemovedAt

(* Inserting a member moves what is behind its place. *)
LEMMA InsertedAt ==
  ASSUME NEW S, NEW r \in Seq(S), NEW v \in S, NEW b \in 1 .. Len(r) + 1
  PROVE  /\ InsertAt(r, b, v) \in Seq(S) /\ Len(InsertAt(r, b, v)) = Len(r) + 1
         /\ \A i \in 1 .. Len(r) + 1 :
              InsertAt(r, b, v)[i] = IF i < b THEN r[i] ELSE IF i = b THEN v ELSE r[i - 1]
  <1>1. Len(r) \in Nat /\ <<v>> \in Seq(S) /\ Len(<<v>>) = 1 /\ <<v>>[1] = v
    BY LenProperties
  <1>2. b - 1 \in 0 .. Len(r) /\ (b - 1) + 1 = b
    BY <1>1
  <1>3. InsertAt(r, b, v) = Insertion(r, <<v>>, b - 1)
    BY <1>2 DEF InsertAt, Insertion
  <1>4. InsertAt(r, b, v) \in Seq(S) /\ IsInsertion(InsertAt(r, b, v), r, <<v>>, b - 1)
    BY <1>1, <1>2, <1>3, Inserted
  <1>5. ASSUME NEW i \in 1 .. Len(r) + 1
        PROVE  InsertAt(r, b, v)[i] = IF i < b THEN r[i] ELSE IF i = b THEN v ELSE r[i - 1]
    <2>1. InsertAt(r, b, v)[i] = IF i <= b - 1 THEN r[i]
                                 ELSE IF i <= b - 1 + 1 THEN <<v>>[i - (b - 1)] ELSE r[i - 1]
      BY <1>1, <1>4 DEF IsInsertion
    <2>2. CASE i < b
      BY <1>2, <2>1, <2>2
    <2>3. CASE i = b
      BY <1>1, <1>2, <2>1, <2>3
    <2>4. CASE i > b
      BY <1>2, <2>1, <2>4
    <2> QED BY <1>2, <2>2, <2>3, <2>4
  <1> QED BY <1>1, <1>4, <1>5 DEF IsInsertion

\* t is s with the member at place a moved left to place b.
IsMove(t, s, a, b) == /\ \A i \in 1 .. b - 1 : t[i] = s[i]
                      /\ t[b] = s[a]
                      /\ \A i \in b + 1 .. a : t[i] = s[i - 1]
                      /\ \A i \in a + 1 .. Len(s) : t[i] = s[i]

(* A member that moves left pushes those it passes to the right. *)
LEMMA MovedLeft ==
  ASSUME NEW S, NEW s \in Seq(S), NEW a \in 1 .. Len(s), NEW b \in 1 .. a,
         NEW t, t = InsertAt(RemoveAt(s, a), b, s[a])
  PROVE  t \in Seq(S) /\ Len(t) = Len(s) /\ IsMove(t, s, a, b)
  <1>1. Len(s) \in Nat /\ s[a] \in S
    BY LenProperties
  <1> DEFINE r == RemoveAt(s, a)
             v == s[a]
  <1>2. v \in S
    BY <1>1
  <1>3. /\ r \in Seq(S) /\ Len(r) = Len(s) - 1
        /\ \A j \in 1 .. Len(s) - 1 : r[j] = IF j < a THEN s[j] ELSE s[j + 1]
    BY RemovedAt
  <1>5. t = InsertAt(r, b, v) /\ v = s[a]
    OBVIOUS
  <1> HIDE DEF r, v
  <1>4. b \in 1 .. Len(r) + 1 /\ Len(r) + 1 = Len(s)
    BY <1>1, <1>3
  <1>6. /\ t \in Seq(S) /\ Len(t) = Len(s)
        /\ \A i \in 1 .. Len(s) : t[i] = IF i < b THEN r[i] ELSE IF i = b THEN v ELSE r[i - 1]
    <2>1. /\ InsertAt(r, b, v) \in Seq(S) /\ Len(InsertAt(r, b, v)) = Len(r) + 1
          /\ \A i \in 1 .. Len(r) + 1 :
               InsertAt(r, b, v)[i] = IF i < b THEN r[i] ELSE IF i = b THEN v ELSE r[i - 1]
      BY <1>2, <1>3, <1>4, InsertedAt
    <2> QED BY <1>4, <1>5, <2>1
  <1>7. ASSUME NEW i \in 1 .. b - 1 PROVE t[i] = s[i]
    <2>1. i \in 1 .. Len(s) - 1 /\ i < a /\ i < b /\ i \in 1 .. Len(s)
      BY <1>1
    <2> QED BY <1>3, <1>6, <2>1
  <1>8. t[b] = s[a]
    <2>1. b \in 1 .. Len(s) /\ ~ (b < b)
      BY <1>1
    <2> QED BY <1>5, <1>6, <2>1
  <1>9. ASSUME NEW i \in b + 1 .. a PROVE t[i] = s[i - 1]
    <2>1. i \in 1 .. Len(s) /\ ~ (i < b) /\ i # b /\ i - 1 \in 1 .. Len(s) - 1 /\ i - 1 < a
      BY <1>1
    <2> QED BY <1>3, <1>6, <2>1
  <1>10. ASSUME NEW i \in a + 1 .. Len(s) PROVE t[i] = s[i]
    <2>1. /\ i \in 1 .. Len(s) /\ ~ (i < b) /\ i # b /\ i - 1 \in 1 .. Len(s) - 1
          /\ ~ (i - 1 < a) /\ (i - 1) + 1 = i
      BY <1>1
    <2> QED BY <1>3, <1>6, <2>1
  <1> QED BY <1>6, <1>7, <1>8, <1>9, <1>10 DEF IsMove

\* The first k members are in the order of the key K.
InOrder(K, s, k) == \A i, j \in 1 .. k : i <= j => K[s[i]] <= K[s[j]]

\* The last place before a with no larger key than that at a; 0 if there is none.
Before(K, s, a) == Max({0} \union {k \in 1 .. a - 1 : K[s[k]] <= K[s[a]]})

\* The same members as often as before.
IsPermutation(t, s, n) ==
  \E p \in Bijection(1 .. n, 1 .. n) : \A i \in 1 .. n : t[i] = s[p[i]]

(* It loses nobody. *)
LEMMA MovedIsPermutation ==
  ASSUME NEW s, NEW t, NEW n \in Nat, n = Len(s),
         NEW a \in 1 .. n, NEW b \in 1 .. a, IsMove(t, s, a, b)
  PROVE  IsPermutation(t, s, n)
  <1> DEFINE D == 1 .. n
             From(i) == IF i < b \/ i > a THEN i ELSE IF i = b THEN a ELSE i - 1
             p == [i \in D |-> From(i)]
  <1>1. ASSUME NEW i \in D PROVE From(i) \in D /\ t[i] = s[From(i)]
    <2>1. CASE i < b
      BY <2>1 DEF IsMove
    <2>2. CASE i > a
      BY <2>2 DEF IsMove
    <2>3. CASE i = b
      BY <2>3 DEF IsMove
    <2>4. CASE i > b /\ i <= a
      <3>1. From(i) = i - 1 /\ i - 1 \in D /\ i \in b + 1 .. a
        BY <2>4
      <3> QED BY <3>1 DEF IsMove
    <2> QED BY <2>1, <2>2, <2>3, <2>4
  <1>2. \A i, j \in D : From(i) = From(j) => i = j
    OBVIOUS
  <1>3. ASSUME NEW k \in D PROVE \E i \in D : From(i) = k
    <2>1. CASE k < b \/ k > a
      BY <2>1
    <2>2. CASE k = a
      <3>1. b \in D /\ From(b) = k
        BY <2>2
      <3> QED BY <3>1
    <2>3. CASE k >= b /\ k < a
      <3>1. k + 1 \in D /\ From(k + 1) = k
        BY <2>3
      <3> QED BY <3>1
    <2> QED BY <2>1, <2>2, <2>3
  <1> HIDE DEF From
  <1>4. p \in Bijection(D, D)
    BY <1>1, <1>2, <1>3 DEF Bijection, Injection, Surjection, IsInjective
  <1> QED BY <1>1, <1>4 DEF IsPermutation

(* A permutation maps one to one. *)
LEMMA PermutationMaps ==
  ASSUME NEW D, NEW E, NEW p \in Bijection(D, E)
  PROVE  /\ \A i \in D : p[i] \in E
         /\ \A i, j \in D : p[i] = p[j] => i = j
         /\ \A j \in E : \E i \in D : p[i] = j
  <1>1. /\ p \in [D -> E]
        /\ \A i, j \in D : p[i] = p[j] => i = j
        /\ \A j \in E : \E i \in D : p[i] = j
    BY Fun_BijectionProperties
  <1> QED BY <1>1

(* A permutation of a permutation is one. *)
LEMMA PermutationsCompose ==
  ASSUME NEW r, NEW s, NEW t, NEW n \in Nat, IsPermutation(t, s, n), IsPermutation(s, r, n)
  PROVE  IsPermutation(t, r, n)
  <1> DEFINE D == 1 .. n
  <1>1. PICK p \in Bijection(D, D) : \A i \in D : t[i] = s[p[i]]
    BY DEF IsPermutation
  <1>2. PICK q \in Bijection(D, D) : \A i \in D : s[i] = r[q[i]]
    BY DEF IsPermutation
  <1> DEFINE u == [i \in D |-> q[p[i]]]
  <1>3. u \in Bijection(D, D)
    BY Fun_BijTransitive
  <1>4. \A i \in D : p[i] \in D
    BY PermutationMaps
  <1>5. ASSUME NEW i \in D PROVE t[i] = r[u[i]]
    BY <1>1, <1>2, <1>4
  <1> QED BY <1>3, <1>5 DEF IsPermutation

(* Every sequence is one of itself. *)
LEMMA PermutationOfItself ==
  ASSUME NEW s, NEW t, NEW n \in Nat, \A i \in 1 .. n : t[i] = s[i]
  PROVE  IsPermutation(t, s, n)
  <1> DEFINE D == 1 .. n
             p == [i \in D |-> i]
  <1>1. p \in Bijection(D, D)
    BY DEF Bijection, Injection, Surjection, IsInjective
  <1>2. \A i \in D : t[i] = s[p[i]]
    OBVIOUS
  <1> QED BY <1>1, <1>2 DEF IsPermutation

(* A permutation has the same values. *)
LEMMA PermutationValues ==
  ASSUME NEW s, NEW t, NEW n \in Nat, IsPermutation(t, s, n)
  PROVE  /\ \A i \in 1 .. n : \E j \in 1 .. n : t[i] = s[j]
         /\ \A j \in 1 .. n : \E i \in 1 .. n : t[i] = s[j]
  <1> DEFINE D == 1 .. n
  <1>1. PICK p \in Bijection(D, D) : \A i \in D : t[i] = s[p[i]]
    BY DEF IsPermutation
  <1>2. /\ \A i \in D : p[i] \in D
        /\ \A j \in D : \E i \in D : p[i] = j
    <2> HIDE DEF D
    <2> QED BY PermutationMaps
  <1>3. \A i \in D : \E j \in D : t[i] = s[j]
    BY <1>1, <1>2
  <1>4. ASSUME NEW j \in D PROVE \E i \in D : t[i] = s[j]
    <2>1. PICK i \in D : p[i] = j
      BY <1>2
    <2> QED BY <1>1, <2>1
  <1> QED BY <1>3, <1>4

\* How often x is among the first n members.
Count(s, n, x) == Cardinality({i \in 1 .. n : s[i] = x})

(* A permutation has each value as often. *)
LEMMA PermutationCounts ==
  ASSUME NEW s, NEW t, NEW n \in Nat, IsPermutation(t, s, n), NEW x
  PROVE  Count(t, n, x) = Count(s, n, x)
  <1> DEFINE D == 1 .. n
  <1>1. PICK p \in Bijection(D, D) : \A i \in D : t[i] = s[p[i]]
    BY DEF IsPermutation
  <1>2. /\ \A i \in D : p[i] \in D
        /\ \A i, j \in D : p[i] = p[j] => i = j
        /\ \A j \in D : \E i \in D : p[i] = j
    <2> HIDE DEF D
    <2> QED BY PermutationMaps
  <1> DEFINE T == {i \in D : t[i] = x}
             S == {i \in D : s[i] = x}
             q == [i \in T |-> p[i]]
  <1>3. q \in Bijection(T, S)
    <2>1. q \in [T -> S]
      BY <1>1, <1>2
    <2>2. \A i, j \in T : q[i] = q[j] => i = j
      BY <1>2
    <2>3. ASSUME NEW j \in S PROVE \E i \in T : q[i] = j
      <3>1. PICK i \in D : p[i] = j
        BY <1>2
      <3>2. i \in T
        BY <1>1, <3>1
      <3> QED BY <3>1, <3>2
    <2> HIDE DEF q, S, T
    <2> QED BY <2>1, <2>2, <2>3, Fun_IsBij
  <1>4. IsFiniteSet(T) /\ IsFiniteSet(S)
    <2>1. IsFiniteSet(D)
      BY FS_Interval
    <2> QED BY <2>1, FS_Subset
  <1>5. Cardinality(S) = Cardinality(T)
    <2> HIDE DEF q, S, T
    <2>1. ExistsBijection(T, S)
      BY <1>3 DEF ExistsBijection
    <2> QED BY <1>4, <2>1, FS_Bijection
  <1> QED BY <1>5 DEF Count

(* A step of insertion sort: the members up to place a are in order if those before it
   were, and nothing is lost. *)
LEMMA SortStep ==
  ASSUME NEW S, NEW K \in [S -> Nat], NEW s \in Seq(S), NEW a \in 2 .. Len(s),
         InOrder(K, s, a - 1),
         NEW t, t = InsertAt(RemoveAt(s, a), Before(K, s, a) + 1, s[a])
  PROVE  /\ t \in Seq(S) /\ Len(t) = Len(s)
         /\ IsPermutation(t, s, Len(s))
         /\ InOrder(K, t, a)
  <1>1. Len(s) \in Nat /\ a \in Nat /\ (\A i \in 1 .. Len(s) : s[i] \in S) /\ a \in 1 .. Len(s)
    BY LenProperties
  <1> DEFINE m == Before(K, s, a)
             M == {k \in 1 .. a - 1 : K[s[k]] <= K[s[a]]}
  <1>2. /\ m \in 0 .. a - 1
        /\ m \in {0} \union M
        /\ \A k \in M : k <= m
    <2>1. a - 1 \in Nat /\ {0} \union M \subseteq 0 .. a - 1 /\ {0} \union M # {}
      BY <1>1
    <2>2. Max({0} \union M) \in {0} \union M /\ \A y \in {0} \union M : y <= Max({0} \union M)
      BY <2>1, MaxOf
    <2> QED BY <2>1, <2>2 DEF Before
  <1> HIDE DEF m
  <1>3. m > 0 => K[s[m]] <= K[s[a]]
    BY <1>2
  <1>4. \A k \in 1 .. a - 1 : K[s[k]] <= K[s[a]] => k <= m
    BY <1>2
  <1>0. m + 1 \in 1 .. a
    <2>1. m \in 0 .. a - 1
      BY <1>2
    <2> QED BY <1>1, <2>1
  <1>5. PICK b \in 1 .. a : b = m + 1
    BY <1>0
  <1>6. t \in Seq(S) /\ Len(t) = Len(s) /\ IsMove(t, s, a, b)
    <2>1. t = InsertAt(RemoveAt(s, a), b, s[a])
      BY <1>5 DEF m
    <2> QED BY <1>1, <2>1, MovedLeft
  <1>7. IsPermutation(t, s, Len(s))
    BY <1>1, <1>6, MovedIsPermutation
  <1> HIDE DEF M
  <1>8. \A i \in 1 .. a : K[s[i]] \in Nat
    BY <1>1
  <1>9. ASSUME NEW k \in 1 .. b - 1 PROVE K[s[k]] <= K[s[a]]
    <2>1. m \in 1 .. a - 1 /\ k \in 1 .. a - 1 /\ k <= m /\ m > 0 /\ a \in 1 .. a
      BY <1>1, <1>2, <1>5
    <2>2. K[s[k]] <= K[s[m]] /\ K[s[m]] <= K[s[a]]
      BY <1>3, <2>1 DEF InOrder
    <2>3. K[s[k]] \in Nat /\ K[s[m]] \in Nat /\ K[s[a]] \in Nat
      BY <1>8, <2>1
    <2> QED BY SMTT(30), <2>2, <2>3
  <1>10. ASSUME NEW k \in b .. a - 1 PROVE K[s[a]] <= K[s[k]]
    <2>1. k \in 1 .. a - 1 /\ ~ (k <= m) /\ a \in 1 .. a
      BY <1>1, <1>2, <1>5
    <2>2. ~ (K[s[k]] <= K[s[a]])
      BY <1>4, <2>1
    <2>3. K[s[k]] \in Nat /\ K[s[a]] \in Nat
      BY <1>8, <2>1
    <2> QED BY <2>2, <2>3
  <1>11. ASSUME NEW i \in 1 .. a, NEW j \in 1 .. a, i <= j
         PROVE  K[t[i]] <= K[t[j]]
    <2>1. CASE j < b
      <3>1. i \in 1 .. b - 1 /\ j \in 1 .. b - 1 /\ i \in 1 .. a - 1 /\ j \in 1 .. a - 1
        BY <1>1, <1>11, <2>1
      <3> QED BY <1>6, <1>11, <3>1 DEF InOrder, IsMove
    <2>2. CASE i < b /\ j = b
      <3>1. i \in 1 .. b - 1
        BY <1>1, <2>2
      <3> QED BY <1>6, <1>9, <2>2, <3>1 DEF IsMove
    <2>3. CASE i < b /\ j > b
      <3>1. i \in 1 .. b - 1 /\ j \in b + 1 .. a /\ i \in 1 .. a - 1 /\ j - 1 \in 1 .. a - 1 /\ i <= j - 1
        BY <1>1, <2>3
      <3> QED BY <1>6, <3>1 DEF InOrder, IsMove
    <2>4. CASE i = b /\ j = b
      <3>1. K[s[a]] \in Nat
        BY <1>1, <1>8
      <3> QED BY SMTT(30), <1>6, <2>4, <3>1 DEF IsMove
    <2>5. CASE i = b /\ j > b
      <3>1. j \in b + 1 .. a /\ j - 1 \in b .. a - 1
        BY <1>1, <2>5
      <3> QED BY <1>6, <1>10, <2>5, <3>1 DEF IsMove
    <2>6. CASE i > b
      <3>1. /\ i \in b + 1 .. a /\ j \in b + 1 .. a /\ i - 1 <= j - 1
            /\ i - 1 \in 1 .. a - 1 /\ j - 1 \in 1 .. a - 1
        BY <1>1, <1>11, <2>6
      <3> QED BY <1>6, <3>1 DEF InOrder, IsMove
    <2> QED BY <1>1, <1>11, <2>1, <2>2, <2>3, <2>4, <2>5, <2>6
  <1> QED BY <1>6, <1>7, <1>11 DEF InOrder

(* Removing the first occurrence of a member leaves one member less. *)
LEMMA RemoveFirstType ==
  ASSUME NEW S, NEW s \in Seq(S), NEW e \in ToSet(s)
  PROVE  RemoveFirst(s, e) \in Seq(S) /\ Len(RemoveFirst(s, e)) = Len(s) - 1
  <1> DEFINE I == {i \in 1 .. Len(s) : s[i] = e}
  <1>1. Len(s) \in Nat /\ DOMAIN s = 1 .. Len(s)
    BY LenProperties
  <1>2. I # {} /\ I \subseteq Nat
    BY <1>1 DEF ToSet
  <1>3. PICK i \in I : \A y \in I : i <= y
    <2>1. Min(I) \in I /\ \A y \in I : Min(I) <= y
      BY <1>2, MinOf
    <2> QED BY <2>1
  <1>4. i \in 1 .. Len(s) /\ s[i] = e
    OBVIOUS
  <1>5. \A j \in 1 .. i - 1 : s[j] # s[i]
    <2> SUFFICES ASSUME NEW j \in 1 .. i - 1, s[j] = e PROVE FALSE
      BY <1>4
    <2>1. j \in I /\ j < i
      BY <1>1, <1>4
    <2> QED BY <1>1, <1>3, <1>4, <2>1
  <1> QED BY <1>4, <1>5, RemoveFirstMembers

(* The members of a concatenation. *)
LEMMA ConcatMembers ==
  ASSUME NEW S, NEW s \in Seq(S), NEW t \in Seq(S)
  PROVE  /\ s \o t \in Seq(S) /\ Len(s \o t) = Len(s) + Len(t)
         /\ ToSet(s \o t) = ToSet(s) \union ToSet(t)
  <1>1. PICK a \in Nat, b \in Nat : a = Len(s) /\ b = Len(t)
    BY LenProperties
  <1>2. PICK r \in Seq(S) : r = s \o t /\ Len(r) = a + b
    BY <1>1, ConcatProperties
  <1>3. \A i \in 1 .. a + b : r[i] = IF i <= a THEN s[i] ELSE t[i - a]
    BY <1>1, <1>2, ConcatProperties
  <1>4. DOMAIN s = 1 .. a /\ DOMAIN t = 1 .. b /\ DOMAIN r = 1 .. a + b
    BY <1>1, <1>2, LenProperties
  <1>5. ToSet(r) \subseteq ToSet(s) \union ToSet(t)
    <2> SUFFICES ASSUME NEW i \in 1 .. a + b PROVE r[i] \in ToSet(s) \union ToSet(t)
      BY <1>4 DEF ToSet
    <2>1. CASE i <= a
      <3>1. i \in 1 .. a /\ r[i] = s[i]
        BY <1>3, <2>1
      <3> QED BY <1>4, <3>1 DEF ToSet
    <2>2. CASE ~ (i <= a)
      <3>1. i - a \in 1 .. b /\ r[i] = t[i - a]
        BY <1>3, <2>2
      <3> QED BY <1>4, <3>1 DEF ToSet
    <2> QED BY <2>1, <2>2
  <1>6. ToSet(s) \subseteq ToSet(r)
    <2> SUFFICES ASSUME NEW i \in 1 .. a PROVE s[i] \in ToSet(r)
      BY <1>4 DEF ToSet
    <2>1. i \in 1 .. a + b /\ r[i] = s[i]
      BY <1>3
    <2> QED BY <1>4, <2>1 DEF ToSet
  <1>7. ToSet(t) \subseteq ToSet(r)
    <2> SUFFICES ASSUME NEW i \in 1 .. b PROVE t[i] \in ToSet(r)
      BY <1>4 DEF ToSet
    <2>1. a + i \in 1 .. a + b /\ ~ (a + i <= a) /\ (a + i) - a = i
      OBVIOUS
    <2>2. r[a + i] = t[i]
      BY <1>3, <2>1
    <2> QED BY <1>4, <2>1, <2>2 DEF ToSet
  <1> QED BY <1>1, <1>2, <1>5, <1>6, <1>7

(* A permutation has the same members. *)
LEMMA PermutationMembers ==
  ASSUME NEW s, NEW t, NEW n \in Nat, IsPermutation(t, s, n)
  PROVE  DOMAIN s = 1 .. n /\ DOMAIN t = 1 .. n => ToSet(t) = ToSet(s)
  <1>1. /\ \A i \in 1 .. n : \E j \in 1 .. n : t[i] = s[j]
        /\ \A j \in 1 .. n : \E i \in 1 .. n : t[i] = s[j]
    BY PermutationValues
  <1>2. SUFFICES ASSUME DOMAIN s = 1 .. n /\ DOMAIN t = 1 .. n PROVE ToSet(t) = ToSet(s)
    OBVIOUS
  <1>3. ToSet(t) \subseteq ToSet(s)
    <2> SUFFICES ASSUME NEW i \in 1 .. n PROVE t[i] \in ToSet(s)
      BY <1>2 DEF ToSet
    <2>1. PICK j \in 1 .. n : t[i] = s[j]
      BY <1>1
    <2> QED BY <1>2, <2>1 DEF ToSet
  <1>4. ToSet(s) \subseteq ToSet(t)
    <2> SUFFICES ASSUME NEW j \in 1 .. n PROVE s[j] \in ToSet(t)
      BY <1>2 DEF ToSet
    <2>1. PICK k \in 1 .. n : t[k] = s[j]
      BY <1>1
    <2> QED BY <1>2, <2>1 DEF ToSet
  <1> QED BY <1>3, <1>4
=============================================================================
