--------------------------- MODULE LspServerProofs ----------------------------
(* The server loop, for any documents, grammars, manifests and files.       *)
EXTENDS LspServer, TLAPS, FiniteSetTheorems, SequenceTheorems, NaturalsInduction, WellFoundedInduction

(* Induction over the numbers, told with sets.                              *)
Below == {pair \in Nat \X Nat : pair[1] < pair[2]}

LEMMA Induction ==
    ASSUME NEW T \in SUBSET Nat, 0 \in T, \A n \in T : n + 1 \in T
    PROVE  T = Nat
  <1> SUFFICES ASSUME Nat \ T # {} PROVE FALSE
    OBVIOUS
  <1>1. IsWellFoundedOn(Below, Nat)
    BY NatLessThanWellFounded DEF OpToRel, Below
  <1>2. PICK x \in Nat \ T : \A y \in Nat \ T : ~(<<y, x>> \in Below)
    BY <1>1, WFMin
  <1>3. x # 0 /\ x - 1 \in Nat
    OBVIOUS
  <1>4. <<x - 1, x>> \in Below
    BY <1>3 DEF Below
  <1>5. x - 1 \in T
    BY <1>2, <1>3, <1>4
  <1> QED BY <1>3, <1>5
-----------------------------------------------------------------------------
(* The queue.                                                               *)

Left(s, us, left, n) ==
    IF n = 0 THEN <<>>
    ELSE IF s[n] \in us THEN left[n - 1] ELSE Append(left[n - 1], s[n])

(* The recursion of Without defines what it says.                           *)
LEMMA WithoutIsDefined ==
    ASSUME NEW s \in Seq(Uri), NEW us
    PROVE  Without(s, us) = [n \in 0..Len(s) |-> Left(s, us, Without(s, us), n)]
  <1> DEFINE IsLeft(f, m) == f = [n \in 0..m |-> Left(s, us, f, n)]
             T == {m \in Nat : \E f : IsLeft(f, m)}
  <1>1. 0 \in T
    <2>1. IsLeft([n \in 0..0 |-> <<>>], 0)
      BY DEF Left
    <2> QED BY <2>1
  <1>2. ASSUME NEW m \in T PROVE m + 1 \in T
    <2>1. PICK f : IsLeft(f, m)
      OBVIOUS
    <2> DEFINE g == [n \in 0..(m + 1) |-> IF n = m + 1 THEN Left(s, us, f, n) ELSE f[n]]
    <2>2. \A n \in 0..m : g[n] = f[n]
      OBVIOUS
    <2>3. \A n \in 0..m : f[n] = Left(s, us, f, n)
      BY <2>1
    <2>4. \A n \in 0..(m + 1) : Left(s, us, g, n) = Left(s, us, f, n)
      <3> TAKE n \in 0..(m + 1)
      <3>1. n # 0 => n - 1 \in 0..m
        OBVIOUS
      <3> HIDE DEF g
      <3> QED BY <2>2, <3>1 DEF Left
    <2>5. \A n \in 0..(m + 1) : g[n] = Left(s, us, g, n)
      <3> TAKE n \in 0..(m + 1)
      <3>1. CASE n = m + 1
        BY <3>1, <2>4
      <3>2. CASE n \in 0..m
        BY <3>2, <2>2, <2>3, <2>4
      <3> QED BY <3>1, <3>2
    <2>6. IsLeft(g, m + 1)
      BY <2>5
    <2> QED BY <2>6
  <1>3. T = Nat
    BY <1>1, <1>2, Induction
  <1>4. \E f : IsLeft(f, Len(s))
    BY <1>3
  <1>5. Without(s, us) = CHOOSE f : IsLeft(f, Len(s))
    BY DEF Without, Left
  <1> QED BY <1>4, <1>5

Distinct(s) == \A i, j \in DOMAIN s : s[i] = s[j] => i = j

(* What is left of a prefix: of its elements the others, each once, and no  *)
(* fewer than are left of a shorter prefix.                                 *)
IsWithout(s, us, left, n) ==
    /\ left[n] \in Seq(Uri) /\ Distinct(left[n])
    /\ \A k \in 1..Len(left[n]) : \E i \in 1..n : left[n][k] = s[i] /\ s[i] \notin us
    /\ \A m \in 0..n : Len(left[m]) \in 0..Len(left[n])

LEMMA WithoutLeaves ==
    ASSUME NEW s \in Seq(Uri), Distinct(s), NEW us, NEW n \in 0..Len(s)
    PROVE  IsWithout(s, us, Without(s, us), n)
  <1> DEFINE left == Without(s, us)
             T == {m \in Nat : m <= Len(s) => IsWithout(s, us, left, m)}
  <1>0. \A m \in 0..Len(s) : left[m] = Left(s, us, left, m)
    BY WithoutIsDefined
  <1> HIDE DEF left
  <1>1. 0 \in T
    <2>1. 0 \in 0..Len(s)
      OBVIOUS
    <2>2. left[0] = <<>>
      BY <1>0, <2>1 DEF Left
    <2>3. left[0] \in Seq(Uri) /\ Len(left[0]) = 0 /\ Distinct(left[0])
      BY <2>2 DEF Distinct
    <2>4. \A m \in 0..0 : Len(left[m]) \in 0..Len(left[0])
      BY <2>3
    <2> QED BY <2>3, <2>4 DEF IsWithout
  <1>2. ASSUME NEW m \in T PROVE m + 1 \in T
    <2> SUFFICES ASSUME m + 1 <= Len(s) PROVE IsWithout(s, us, left, m + 1)
      OBVIOUS
    <2>1. IsWithout(s, us, left, m)
      OBVIOUS
    <2>2. left[m + 1] = IF s[m + 1] \in us THEN left[m] ELSE Append(left[m], s[m + 1])
      BY <2>1, <1>0 DEF Left
    <2>3. CASE s[m + 1] \in us
      <3>1. left[m + 1] = left[m]
        BY <2>2, <2>3
      <3>2. Len(left[m]) \in 0..Len(left[m])
        BY <2>1 DEF IsWithout
      <3>3. \A i \in 0..(m + 1) : Len(left[i]) \in 0..Len(left[m + 1])
        <4> TAKE i \in 0..(m + 1)
        <4> QED BY <2>1, <3>1, <3>2 DEF IsWithout
      <3>4. \A k \in 1..Len(left[m]) : \E i \in 1..(m + 1) : left[m][k] = s[i] /\ s[i] \notin us
        BY <2>1 DEF IsWithout
      <3> QED BY <2>1, <3>1, <3>3, <3>4 DEF IsWithout
    <2>4. CASE s[m + 1] \notin us
      <3> DEFINE a == left[m]
                 b == left[m + 1]
      <3>1. /\ a \in Seq(Uri) /\ Distinct(a)
            /\ \A k \in 1..Len(a) : \E i \in 1..m : a[k] = s[i] /\ s[i] \notin us
            /\ \A i \in 0..m : Len(left[i]) \in 0..Len(a)
        BY <2>1 DEF IsWithout
      <3>2. b = Append(a, s[m + 1]) /\ s[m + 1] \in Uri
        BY <2>2, <2>4
      <3> HIDE DEF a, b
      <3>3. b \in Seq(Uri) /\ Len(b) = Len(a) + 1
            /\ \A k \in 1..Len(b) : b[k] = IF k = Len(a) + 1 THEN s[m + 1] ELSE a[k]
        BY <3>1, <3>2
      <3>4. \A k \in 1..Len(b) : \E i \in 1..(m + 1) : b[k] = s[i] /\ s[i] \notin us
        <4> TAKE k \in 1..Len(b)
        <4>1. CASE k = Len(a) + 1
          <5>1. b[k] = s[m + 1] /\ m + 1 \in 1..(m + 1)
            BY <3>3, <4>1
          <5> QED BY <2>4, <5>1
        <4>2. CASE k # Len(a) + 1
          <5>1. k \in 1..Len(a) /\ b[k] = a[k]
            <6>1. Len(a) \in Nat
              BY <3>1
            <6> QED BY <3>3, <4>2, <6>1
          <5>2. PICK i \in 1..m : a[k] = s[i] /\ s[i] \notin us
            BY <3>1, <5>1
          <5>3. i \in 1..(m + 1)
            OBVIOUS
          <5> QED BY <5>1, <5>2, <5>3
        <4> QED BY <4>1, <4>2
      <3>5. \A k \in 1..Len(a) : a[k] # s[m + 1]
        BY <3>1 DEF Distinct
      <3>6. Distinct(b)
        <4>1. Len(a) \in Nat /\ DOMAIN a = 1..Len(a) /\ DOMAIN b = 1..(Len(a) + 1)
          BY <3>1, <3>3
        <4>2. \A k \in 1..Len(a) : b[k] = a[k] /\ b[k] # b[Len(a) + 1]
          BY <3>3, <3>5, <4>1
        <4>3. ASSUME NEW j \in 1..(Len(a) + 1), NEW k \in 1..(Len(a) + 1), j # k PROVE b[j] # b[k]
          <5>1. CASE j \in 1..Len(a) /\ k \in 1..Len(a)
            BY <3>1, <4>1, <4>2, <4>3, <5>1 DEF Distinct
          <5>2. CASE j = Len(a) + 1 /\ k \in 1..Len(a)
            BY <4>2, <5>2
          <5>3. CASE k = Len(a) + 1 /\ j \in 1..Len(a)
            BY <4>2, <5>3
          <5> QED BY <4>1, <4>3, <5>1, <5>2, <5>3
        <4> QED BY <3>3, <4>1, <4>3 DEF Distinct
      <3>7. \A i \in 0..(m + 1) : Len(left[i]) \in 0..Len(b)
        <4> TAKE i \in 0..(m + 1)
        <4>1. CASE i \in 0..m
          BY <3>1, <3>3, <4>1
        <4>2. CASE i = m + 1
          BY <3>1, <3>3, <4>2 DEF b
        <4> QED BY <4>1, <4>2
      <3> QED BY <3>3, <3>4, <3>6, <3>7 DEF b, IsWithout
    <2> QED BY <2>3, <2>4
  <1>3. T = Nat
    BY <1>1, <1>2, Induction
  <1> QED BY <1>3 DEF left

(* What is not taken out is left.                                           *)
LEMMA WithoutKeeps ==
    ASSUME NEW s \in Seq(Uri), Distinct(s), NEW us, NEW n \in 0..Len(s)
    PROVE  \A i \in 1..n : s[i] \notin us =>
              \E k \in 1..Len(Without(s, us)[n]) : Without(s, us)[n][k] = s[i]
  <1> DEFINE left == Without(s, us)
             Keeps(m) == \A i \in 1..m : s[i] \notin us => \E k \in 1..Len(left[m]) : left[m][k] = s[i]
             T == {m \in Nat : m <= Len(s) => Keeps(m)}
  <1>0. \A m \in 0..Len(s) : left[m] = Left(s, us, left, m) /\ left[m] \in Seq(Uri)
    BY WithoutIsDefined, WithoutLeaves DEF IsWithout
  <1> HIDE DEF left
  <1>1. 0 \in T
    OBVIOUS
  <1>2. ASSUME NEW m \in T PROVE m + 1 \in T
    <2> SUFFICES ASSUME m + 1 <= Len(s), NEW i \in 1..(m + 1), s[i] \notin us
                 PROVE  \E k \in 1..Len(left[m + 1]) : left[m + 1][k] = s[i]
      OBVIOUS
    <2>1. left[m + 1] = IF s[m + 1] \in us THEN left[m] ELSE Append(left[m], s[m + 1])
      BY <1>0 DEF Left
    <2>2. PICK a : a = left[m]
      OBVIOUS
    <2>3. a \in Seq(Uri) /\ s[m + 1] \in Uri
      BY <1>0, <2>2
    <2>4. CASE i = m + 1
      <3>1. left[m + 1] = Append(a, s[i])
        BY <2>1, <2>2, <2>4
      <3>2. Len(Append(a, s[i])) = Len(a) + 1 /\ Append(a, s[i])[Len(a) + 1] = s[i] /\ Len(a) \in Nat
        BY <2>3, <2>4
      <3> QED BY <3>1, <3>2
    <2>5. CASE i \in 1..m
      <3>1. PICK k \in 1..Len(a) : a[k] = s[i]
        BY <2>2, <2>5
      <3>2. CASE s[m + 1] \in us
        BY <2>1, <2>2, <3>1, <3>2
      <3>3. CASE s[m + 1] \notin us
        <4>1. /\ left[m + 1] = Append(a, s[m + 1]) /\ Len(a) \in Nat
              /\ Len(Append(a, s[m + 1])) = Len(a) + 1 /\ Append(a, s[m + 1])[k] = a[k]
          BY <2>1, <2>2, <2>3, <3>1, <3>3
        <4> QED BY <3>1, <4>1
      <3> QED BY <3>2, <3>3
    <2> QED BY <2>4, <2>5
  <1>3. T = Nat
    BY <1>1, <1>2, Induction
  <1> QED BY <1>3 DEF left

QueueSide ==
    /\ queue \in Seq(Uri) /\ Distinct(queue)
    /\ batch \in 0..due /\ due \in 0..Len(queue) /\ phase \in {"top", "turn"}

(* What is taken out, and what is put last, of a queue within its types.    *)
LEMMA Unscheduled ==
    ASSUME QueueSide, NEW us, Unschedule(us)
    PROVE  /\ queue' \in Seq(Uri) /\ Distinct(queue') /\ due' \in 0..Len(queue')
           /\ Range(queue') \subseteq Range(queue) \ us
  <1> DEFINE left == Without(queue, us)
  <1>1. /\ IsWithout(queue, us, left, Len(queue))
        /\ due \in 0..Len(queue)
    BY WithoutLeaves DEF QueueSide
  <1>2. queue' = left[Len(queue)] /\ due' = Len(left[due])
    BY DEF Unschedule
  <1> HIDE DEF left
  <1>3. queue' \in Seq(Uri) /\ Distinct(queue') /\ due' \in 0..Len(queue')
    BY <1>1, <1>2 DEF IsWithout
  <1>4. \A k \in 1..Len(queue') : \E i \in 1..Len(queue) : queue'[k] = queue[i] /\ queue[i] \notin us
    BY <1>1, <1>2 DEF IsWithout
  <1>5. DOMAIN queue = 1..Len(queue) /\ DOMAIN queue' = 1..Len(queue')
    BY <1>3 DEF QueueSide
  <1>6. Range(queue') \subseteq Range(queue) \ us
    BY <1>4, <1>5 DEF Range
  <1> QED BY <1>3, <1>6

LEMMA Scheduled ==
    ASSUME QueueSide, NEW us \in SUBSET Uri, Schedule(us)
    PROVE  /\ queue' \in Seq(Uri) /\ Distinct(queue') /\ due' \in 0..Len(queue')
           /\ Range(queue') \subseteq Range(queue) \cup us
  <1> DEFINE left == Without(queue, us)
  <1>1. /\ IsWithout(queue, us, left, Len(queue))
        /\ due \in 0..Len(queue)
    BY WithoutLeaves DEF QueueSide
  <1>2. PICK order \in SetToSeqs(us) :
           queue' = left[Len(queue)] \o order /\ due' = Len(left[due])
    BY DEF Schedule
  <1>3. Cardinality(us) \in Nat
    BY FS_CardinalityType, FS_Subset, ServerAssumption
  <1>4. order \in [1..Cardinality(us) -> us] /\ \A i, j \in 1..Cardinality(us) : i # j => order[i] # order[j]
    BY <1>2 DEF SetToSeqs
  <1>5. order \in Seq(us) /\ Len(order) = Cardinality(us) /\ order \in Seq(Uri)
    BY <1>3, <1>4
  <1>6. PICK a : a = left[Len(queue)]
    OBVIOUS
  <1>7. /\ a \in Seq(Uri) /\ Distinct(a) /\ due' \in 0..Len(a)
        /\ \A k \in 1..Len(a) : \E i \in 1..Len(queue) : a[k] = queue[i] /\ queue[i] \notin us
    BY <1>1, <1>2, <1>6 DEF IsWithout
  <1>8. queue' = a \o order
    BY <1>2, <1>6
  <1> HIDE DEF left
  <1>9. /\ queue' \in Seq(Uri) /\ Len(queue') = Len(a) + Len(order)
        /\ DOMAIN queue' = 1..(Len(a) + Len(order)) /\ Len(a) \in Nat /\ Len(order) \in Nat
        /\ \A k \in 1..(Len(a) + Len(order)) :
              queue'[k] = IF k <= Len(a) THEN a[k] ELSE order[k - Len(a)]
    <2>1. /\ a \o order \in Seq(Uri) /\ Len(a \o order) = Len(a) + Len(order)
          /\ \A k \in 1..Len(a) + Len(order) :
                (a \o order)[k] = IF k <= Len(a) THEN a[k] ELSE order[k - Len(a)]
      <3>1. a \in Seq(Uri) /\ order \in Seq(Uri)
        BY <1>5, <1>7
      <3> QED BY ONLY <3>1, ConcatProperties
    <2>2. PICK q, l : q = a \o order /\ l = Len(a) + Len(order)
      OBVIOUS
    <2>3. q \in Seq(Uri) /\ Len(q) = l /\ DOMAIN q = 1..l
      BY <2>1, <2>2
    <2>4. Len(a) \in Nat /\ Len(order) \in Nat
      BY <1>5, <1>7
    <2> QED BY <1>8, <2>1, <2>2, <2>3, <2>4
  <1>10. due' \in 0..Len(queue')
    BY <1>5, <1>7, <1>9
  <1>11. \A k \in 1..Len(a), i \in 1..Len(order) : a[k] # order[i]
    BY <1>5, <1>7
  <1>12. Distinct(queue')
    <2> SUFFICES ASSUME NEW i \in DOMAIN queue', NEW j \in DOMAIN queue', queue'[i] = queue'[j]
                 PROVE  i = j
      BY DEF Distinct
    <2>1. CASE i <= Len(a) /\ j <= Len(a)
      <3>1. i \in 1..Len(a) /\ j \in 1..Len(a) /\ DOMAIN a = 1..Len(a)
        BY <1>7, <1>9, <2>1
      <3>2. a[i] = a[j]
        BY <1>9, <2>1
      <3> QED BY <1>7, <3>1, <3>2 DEF Distinct
    <2>2. CASE i > Len(a) /\ j > Len(a)
      <3>1. i - Len(a) \in 1..Cardinality(us) /\ j - Len(a) \in 1..Cardinality(us)
        BY <1>5, <1>7, <1>9, <2>2
      <3>2. order[i - Len(a)] = order[j - Len(a)]
        BY <1>5, <1>7, <1>9, <2>2
      <3>3. i - Len(a) = j - Len(a)
        BY <1>4, <3>1, <3>2
      <3> QED BY <1>5, <1>7, <1>9, <3>3
    <2>3. CASE i <= Len(a) /\ j > Len(a)
      <3>1. i \in 1..Len(a) /\ j - Len(a) \in 1..Len(order)
        BY <1>9, <2>3
      <3>2. queue'[i] = a[i] /\ queue'[j] = order[j - Len(a)]
        BY <1>9, <2>3
      <3> QED BY <1>11, <3>1, <3>2
    <2>4. CASE j <= Len(a) /\ i > Len(a)
      <3>1. j \in 1..Len(a) /\ i - Len(a) \in 1..Len(order)
        BY <1>9, <2>4
      <3>2. queue'[j] = a[j] /\ queue'[i] = order[i - Len(a)]
        BY <1>9, <2>4
      <3> QED BY <1>11, <3>1, <3>2
    <2> QED BY <2>4, <1>5, <1>7, <1>9, <2>1, <2>2, <2>3
  <1>13. Range(queue') \subseteq Range(queue) \cup us
    <2> SUFFICES ASSUME NEW k \in 1..(Len(a) + Len(order)) PROVE queue'[k] \in Range(queue) \cup us
      BY <1>9 DEF Range
    <2>1. CASE k <= Len(a)
      <3>1. PICK i \in 1..Len(queue) : a[k] = queue[i]
        BY <1>5, <1>7, <2>1
      <3>2. i \in DOMAIN queue
        BY DEF QueueSide
      <3> QED BY <1>9, <2>1, <3>1, <3>2 DEF Range
    <2>2. CASE k > Len(a)
      <3>1. k - Len(a) \in 1..Len(order)
        BY <1>9, <2>2
      <3>2. queue'[k] = order[k - Len(a)]
        BY <1>9, <2>2
      <3> QED BY <1>5, <3>1, <3>2
    <2> QED BY <1>9, <2>1, <2>2
  <1> QED BY <1>9, <1>10, <1>12, <1>13

(* A queue loses only what is taken out of it, and holds what is scheduled. *)
LEMMA UnscheduledKeeps ==
    ASSUME QueueSide, NEW us, Unschedule(us)
    PROVE  Range(queue) \ us \subseteq Range(queue')
  <1> DEFINE left == Without(queue, us)
  <1>1. \A i \in 1..Len(queue) : queue[i] \notin us => \E k \in 1..Len(left[Len(queue)]) : left[Len(queue)][k] = queue[i]
    BY WithoutKeeps DEF QueueSide
  <1>2. queue' = left[Len(queue)] /\ queue' \in Seq(Uri)
    BY Unscheduled DEF Unschedule
  <1> HIDE DEF left
  <1>3. DOMAIN queue = 1..Len(queue) /\ DOMAIN queue' = 1..Len(queue')
    BY <1>2 DEF QueueSide
  <1> QED BY <1>1, <1>2, <1>3 DEF Range

LEMMA ScheduledKeeps ==
    ASSUME QueueSide, NEW us \in SUBSET Uri, Schedule(us)
    PROVE  Range(queue) \cup us \subseteq Range(queue')
  <1> DEFINE left == Without(queue, us)
  <1>1. \A i \in 1..Len(queue) : queue[i] \notin us => \E k \in 1..Len(left[Len(queue)]) : left[Len(queue)][k] = queue[i]
    BY WithoutKeeps DEF QueueSide
  <1>2. left[Len(queue)] \in Seq(Uri)
    BY WithoutLeaves DEF QueueSide, IsWithout
  <1>3. PICK order \in SetToSeqs(us) : queue' = left[Len(queue)] \o order
    BY DEF Schedule
  <1>4. IsFiniteSet(us) /\ Cardinality(us) \in Nat
    BY FS_CardinalityType, FS_Subset, ServerAssumption
  <1> DEFINE D == 1..Cardinality(us)
  <1>5. order \in [D -> us] /\ \A i, j \in D : i # j => order[i] # order[j]
    BY <1>3 DEF SetToSeqs
  <1>6. Cardinality(D) = Cardinality(us)
    <2>1. Cardinality(D) = IF 1 > Cardinality(us) THEN 0 ELSE Cardinality(us) - 1 + 1
      BY <1>4, FS_Interval
    <2> QED BY <1>4, <2>1
  <1>7. order \in Surjection(D, us)
    <2>1. order \in Injection(D, us)
      BY <1>5 DEF Injection, IsInjective
    <2> QED BY <1>4, <1>6, <2>1, FS_Injection
  <1>8. order \in Seq(Uri) /\ Len(order) = Cardinality(us)
    BY <1>4, <1>5
  <1>9. Range(order) = us
    BY <1>5, <1>7 DEF Surjection, Range
  <1> HIDE DEF left
  <1>10. Range(queue') = Range(left[Len(queue)]) \cup Range(order)
    BY <1>2, <1>3, <1>8, RangeConcatenation
  <1>11. \A x \in Range(queue) \ us : x \in Range(left[Len(queue)])
    <2>1. DOMAIN queue = 1..Len(queue)
      BY DEF QueueSide
    <2>2. DOMAIN left[Len(queue)] = 1..Len(left[Len(queue)])
      BY <1>2
    <2> QED BY <1>1, <2>1, <2>2 DEF Range
  <1> QED BY <1>9, <1>10, <1>11

(* By actions: only a message reschedules, and then no batch is running.    *)
LEMMA QueueStep == QueueSide /\ [Next]_vars => QueueSide'
  <1> SUFFICES ASSUME QueueSide, [Next]_vars PROVE QueueSide'
    OBVIOUS
  <1>1. ASSUME UNCHANGED <<queue, due>>, batch' \in 0..due, phase' \in {"top", "turn"} PROVE QueueSide'
    BY <1>1 DEF QueueSide, Distinct
  <1>2. ASSUME Handles, NEW us \in SUBSET Uri, Schedule(us) \/ Unschedule(us) PROVE QueueSide'
    <2>1. phase' = "top" /\ batch' = 0
      BY <1>2 DEF Handles
    <2>2. queue' \in Seq(Uri) /\ Distinct(queue') /\ due' \in 0..Len(queue')
      BY <1>2, Scheduled, Unscheduled
    <2>3. due' \in Nat /\ 0 \in 0..due'
      BY <2>2
    <2> QED BY <2>1, <2>2, <2>3 DEF QueueSide
  <1>3. ASSUME Handles, UNCHANGED <<queue, due>> PROVE QueueSide'
    <2>1. phase' = "top" /\ batch' = 0 /\ 0 \in 0..due
      BY <1>3 DEF Handles, QueueSide
    <2> QED BY <1>1, <1>3, <2>1
  <1>4. CASE BeginTurn
    <2>1. due \in 0..due
      BY DEF QueueSide
    <2> QED BY <1>1, <1>4, <2>1 DEF BeginTurn
  <1>5. CASE AnalyzeNext
    <2>1. /\ batch > 0 /\ queue' = Tail(queue) /\ due' = due - 1 /\ batch' = batch - 1 /\ phase' = phase
      BY <1>5 DEF AnalyzeNext
    <2>2. queue # <<>> /\ queue \in Seq(Uri) /\ Len(queue) \in Nat /\ Len(queue) > 0
      BY <2>1 DEF QueueSide
    <2>3. queue' \in Seq(Uri) /\ Len(queue') = Len(queue) - 1
          /\ \A k \in 1..Len(queue') : queue'[k] = queue[k + 1]
      BY <2>1, <2>2
    <2>4. Distinct(queue')
      <3> SUFFICES ASSUME NEW i \in 1..Len(queue'), NEW j \in 1..Len(queue'), queue'[i] = queue'[j]
                   PROVE  i = j
        BY <2>3 DEF Distinct
      <3>1. queue[i + 1] = queue[j + 1]
        BY <2>3
      <3>2. i + 1 \in DOMAIN queue /\ j + 1 \in DOMAIN queue
        BY <2>2, <2>3
      <3> QED BY <3>1, <3>2 DEF QueueSide, Distinct
    <2> QED BY <2>1, <2>2, <2>3, <2>4 DEF QueueSide
  <1>6. CASE Timeout
    BY <1>1, <1>6 DEF Timeout, QueueSide
  <1>7. CASE Initialize
    BY <1>3, <1>7 DEF Initialize
  <1>8. CASE Answer
    BY <1>3, <1>8 DEF Answer
  <1>9. CASE Reported
    <2>1. PICK files \in SUBSET reports : DidChangeWatchedFiles(files)
      BY <1>9 DEF Reported
    <2>2. Handles
      BY <2>1 DEF DidChangeWatchedFiles
    <2>3. CASE ManifestFile \in files
      <3>1. Schedule(Open) /\ Open \in SUBSET Uri
        BY <2>1, <2>3 DEF DidChangeWatchedFiles, ManifestChanged, Open
      <3> QED BY <1>2, <2>2, <3>1
    <2>4. CASE ManifestFile \notin files
      <3>1. GrammarsChanged(files)
        BY <2>1, <2>4 DEF DidChangeWatchedFiles
      <3>2. PICK us : Schedule(us) /\ us \in SUBSET Uri
        BY <3>1 DEF GrammarsChanged, Open
      <3> QED BY <1>2, <2>2, <3>2
    <2> QED BY <2>3, <2>4
  <1>10. ASSUME NEW u \in Uri, DidClose(u) PROVE QueueSide'
    BY <1>2, <1>10 DEF DidClose
  <1>11. ASSUME NEW u \in Uri, Completion(u) PROVE QueueSide'
    BY <1>3, <1>11 DEF Completion
  <1>12. ASSUME NEW u \in Uri, NEW text \in Text, DidOpen(u, text) PROVE QueueSide'
    BY <1>2, <1>12 DEF DidOpen
  <1>13. ASSUME NEW u \in Uri, NEW text \in Text, DidChange(u, text) PROVE QueueSide'
    <2>1. Handles /\ (UNCHANGED <<queue, due>> \/ Schedule({u}))
      BY <1>13 DEF DidChange
    <2> QED BY <1>2, <1>3, <2>1
  <1>14. CASE Expire
    <2>1. queue' = queue /\ due < Len(queue) /\ due' = due + 1 /\ batch' = batch /\ phase' = phase
      BY <1>14 DEF Expire
    <2>2. batch \in 0..(due + 1) /\ due + 1 \in 0..Len(queue)
      BY <2>1 DEF QueueSide
    <2> QED BY <2>1, <2>2 DEF QueueSide, Distinct
  <1>15. CASE Watch \/ (\E f \in File : EditFile(f)) \/ (\E m \in Manifest : EditManifest(m)) \/ UNCHANGED vars
    <2>1. UNCHANGED loop
      BY <1>15 DEF Watch, EditFile, EditManifest, Written, vars
    <2> QED BY <2>1 DEF loop, QueueSide, Distinct
  <1> QED BY <1>4, <1>5, <1>6, <1>7, <1>8, <1>9, <1>10, <1>11, <1>12, <1>13, <1>14, <1>15 DEF Next
-----------------------------------------------------------------------------
(* Routing.                                                                 *)

Tiers == Range(Global) \cup Range(workspace)

(* Router::resolve finds an entry of a tier, or none.                       *)
LEMMA RouteFinds == \A u : Route(u) \in Tiers \cup {NoEntry}
  <1> SUFFICES ASSUME NEW u PROVE Route(u) \in Tiers \cup {NoEntry}
    OBVIOUS
  <1>1. \A e, via : Routes!Found(e, via).entry = e
    BY DEF Routes!Found
  <1>2. Routes!NotFound.entry = NoEntry
    BY DEF Routes!NotFound
  <1>3. \A i \in DOMAIN workspace : workspace[i] \in Tiers
    BY DEF Tiers, Range
  <1>4. \A i \in DOMAIN Global : Global[i] \in Tiers
    BY DEF Tiers, Range
  <1>5. \A id \in DOMAIN ById : ById[id] \in DOMAIN Global
    <2> SUFFICES ASSUME NEW id \in {e.id : e \in Range(Global)}
                 PROVE  (CHOOSE i \in DOMAIN Global : Global[i].id = id) \in DOMAIN Global
      BY DEF ById
    <2>1. \E i \in DOMAIN Global : Global[i].id = id
      BY DEF Range
    <2> QED BY <2>1
  <1>6. \A field, wanted, via : Routes!TieBreak(field, wanted, via).entry \in Tiers \cup {NoEntry}
    <2> TAKE field, wanted, via
    <2> DEFINE claimants == Routes!Claimants(field, wanted)
               first     == {i \in claimants : \A j \in claimants : i <= j}
               best      == Global[CHOOSE i \in first : TRUE]
    <2>1. CASE first = {}
      BY <1>2, <2>1 DEF Routes!TieBreak
    <2>2. CASE first # {}
      <3>1. (CHOOSE i \in first : TRUE) \in DOMAIN Global
        BY <2>2 DEF Routes!Claimants
      <3>2. \A x : [Routes!Found(best, via) EXCEPT !.ambiguous = x].entry = best
        BY DEF Routes!Found
      <3>3. Routes!TieBreak(field, wanted, via).entry = best
        BY <2>2, <3>2 DEF Routes!TieBreak
      <3> QED BY <1>4, <3>1, <3>3
    <2> QED BY <2>1, <2>2
  <1>7. \A fits \in SUBSET Routes!Candidates(About[u].uri) :
            Routes!Foremost(fits) # {} => (CHOOSE i \in Routes!Foremost(fits) : TRUE) \in DOMAIN workspace
    BY DEF Routes!Foremost, Routes!Candidates
  <1> DEFINE doc    == About[u]
             here   == Routes!Candidates(doc.uri)
             ext    == Routes!ExtOf(doc.uri)
             named  == Routes!Foremost({i \in here : workspace[i].id = doc.id})
             serves == Routes!Foremost({i \in here : ext # NoExt /\ Routes!Claims(workspace[i], "exts", ext) > 0})
  <1>8. CASE named # {}
    <2>1. Routes!Resolve(doc).entry = workspace[CHOOSE i \in named : TRUE]
      BY <1>1, <1>8 DEF Routes!Resolve
    <2>2. (CHOOSE i \in named : TRUE) \in DOMAIN workspace
      BY <1>7, <1>8
    <2> QED BY <1>3, <2>1, <2>2 DEF Route
  <1>9. CASE named = {} /\ serves # {}
    <2>1. Routes!Resolve(doc).entry = workspace[CHOOSE i \in serves : TRUE]
      BY <1>1, <1>9 DEF Routes!Resolve
    <2>2. (CHOOSE i \in serves : TRUE) \in DOMAIN workspace
      BY <1>7, <1>9
    <2> QED BY <1>3, <2>1, <2>2 DEF Route
  <1>10. CASE named = {} /\ serves = {}
    <2>1. Routes!Resolve(doc) =
             IF doc.id \in DOMAIN ById /\ Routes!Routable(Global[ById[doc.id]])
             THEN Routes!Found(Global[ById[doc.id]], "languageId")
             ELSE IF ext = NoExt THEN Routes!NotFound ELSE Routes!TieBreak("exts", ext, "extension")
      BY <1>10 DEF Routes!Resolve
    <2> QED BY <1>1, <1>2, <1>4, <1>5, <1>6, <2>1 DEF Route
  <1> QED BY <1>8, <1>9, <1>10

(* Where a document routes to depends on the tier alone.                    *)
LEMMA RouteKeeps ==
    ASSUME NEW u, workspace' = workspace
    PROVE  Route(u)' = Route(u)
  BY DEF Route, Routes!Resolve, Routes!Candidates, Routes!Foremost, Routes!Precedes, Routes!Reach, Routes!IsScoped

IsTier == workspace \in {<<>>} \cup {Session \o Languages[m] : m \in Manifest}

(* A tier rebuilt has the session's entries and the manifest's, which are   *)
(* the workspace's.                                                         *)
LEMMA TierEntries ==
    ASSUME NEW m \in Manifest
    PROVE  /\ Range(Session \o Languages[m]) = Range(Session) \cup Range(Languages[m])
           /\ \A e \in Range(Languages[m]) : e.workspace
           /\ Range(Session \o Languages[m]) \subseteq Entry
  <1>1. Session \in Seq(Entry) /\ Languages[m] \in Seq(Entry) /\ Languages[m] \in Seq({e \in Entry : e.workspace})
    <2>1. Languages[m] \in Seq({e \in Entry : e.workspace})
      BY ServerAssumption
    <2>2. {e \in Entry : e.workspace} \subseteq Entry
      OBVIOUS
    <2>3. Languages[m] \in Seq(Entry)
      BY <2>1, <2>2
    <2> QED BY <2>1, <2>3, ServerAssumption
  <1>2. Range(Session \o Languages[m]) = Range(Session) \cup Range(Languages[m])
    BY <1>1, RangeConcatenation
  <1>3. \A e \in Range(Languages[m]) : e \in Entry /\ e.workspace
    BY <1>1 DEF Range
  <1>4. Range(Session) \subseteq Entry
    BY <1>1 DEF Range
  <1> QED BY <1>2, <1>3, <1>4

LEMMA TiersAreEntries == IsTier => Tiers \subseteq Entry
  <1> SUFFICES ASSUME IsTier PROVE Range(workspace) \subseteq Entry
    BY DEF Tiers, Entry
  <1>1. CASE workspace = <<>>
    BY <1>1 DEF Range
  <1>2. CASE \E m \in Manifest : workspace = Session \o Languages[m]
    BY <1>2, TierEntries
  <1> QED BY <1>1, <1>2 DEF IsTier
-----------------------------------------------------------------------------
(* The instances.                                                           *)

Counted == [cache : [Cache!Key -> Build \cup {NoInstance}],
            failures : [Cache!Key -> 0..QuarantineLimit]]

(* What one use of an entry's instance, a fetch or a crash, may change.     *)
Advances(I, J, e, made) ==
    /\ J \in Counted
    /\ \A k \in Cache!Key : J.cache[k] # NoInstance =>
          J.cache[k] = I.cache[k] \/ (k = Cache!KeyOf(e) /\ J.cache[k] = made)
    /\ \A k \in Cache!Key : J.failures[k] >= I.failures[k]

LEMMA GetAdvances ==
    ASSUME NEW I \in Counted, NEW e \in Entry, NEW made \in Build \cup {NoInstance}
    PROVE  /\ Advances(I, Cache!AfterGet(I, e, made), e, made)
           /\ Cache!Got(I, e, made) \in Build \cup {NoInstance}
           /\ Cache!Got(I, e, made) # NoInstance =>
                  Cache!AfterGet(I, e, made).failures[Cache!KeyOf(e)] < QuarantineLimit
  <1> DEFINE J == Cache!AfterGet(I, e, made)
             k == Cache!KeyOf(e)
  <1>1. k \in Cache!Key
    BY DEF Cache!Key
  <1>2. QuarantineLimit \in Nat \ {0}
    BY ServerAssumption
  <1>3. CASE ~Cache!NeedsBuild(I, e)
    <2>1. J = I
      BY <1>3 DEF Cache!AfterGet
    <2>2. Cache!Got(I, e, made) # NoInstance => I.failures[k] < QuarantineLimit
      BY <1>1, <1>2 DEF Cache!Got, Cache!Quarantined, Counted
    <2>3. Cache!Got(I, e, made) \in Build \cup {NoInstance}
      BY <1>1, <1>3 DEF Cache!Got, Counted
    <2> QED BY <1>1, <1>2, <2>1, <2>2, <2>3 DEF Advances, Counted
  <1>4. CASE Cache!NeedsBuild(I, e) /\ made = NoInstance
    <2>1. J = [I EXCEPT !.failures[k] = @ + 1]
      BY <1>4 DEF Cache!AfterGet, Cache!RecordFailure
    <2>2. I.failures[k] < QuarantineLimit
      BY <1>1, <1>2, <1>4 DEF Cache!NeedsBuild, Cache!Quarantined, Counted
    <2>3. Cache!Got(I, e, made) = NoInstance
      BY <1>4 DEF Cache!Got, Cache!NeedsBuild
    <2> HIDE DEF J, k
    <2>4. J \in Counted
      BY <1>1, <1>2, <2>1, <2>2 DEF Counted
    <2>5. \A x \in Cache!Key : I.failures[x] \in Int /\ J.failures[x] \in Int
      BY <1>2, <2>4 DEF Counted
    <2>6. J.cache = I.cache /\ \A x \in Cache!Key : J.failures[x] >= I.failures[x]
      BY <1>1, <2>1, <2>5 DEF Counted
    <2>7. Advances(I, J, e, made)
      BY <2>4, <2>6 DEF Advances
    <2> QED BY <2>3, <2>7 DEF J
  <1>5. CASE Cache!NeedsBuild(I, e) /\ made # NoInstance
    <2>1. J = [I EXCEPT !.cache[k] = made]
      BY <1>5 DEF Cache!AfterGet
    <2>2. I.failures[k] < QuarantineLimit
      BY <1>1, <1>2, <1>5 DEF Cache!NeedsBuild, Cache!Quarantined, Counted
    <2>3. Cache!Got(I, e, made) = made
      BY <1>5 DEF Cache!Got, Cache!NeedsBuild
    <2> HIDE DEF J, k
    <2>4. J \in Counted
      BY <1>1, <2>1 DEF Counted
    <2>5. J.failures = I.failures /\ \A x \in Cache!Key : I.failures[x] \in Int
      BY <1>2, <2>1 DEF Counted
    <2>6. \A x \in Cache!Key : J.cache[x] = I.cache[x] \/ (x = k /\ J.cache[x] = made)
      BY <1>1, <2>1 DEF Counted
    <2>7. Advances(I, J, e, made)
      BY <2>4, <2>5, <2>6 DEF Advances, k
    <2>8. J.failures[k] < QuarantineLimit
      BY <2>2, <2>5
    <2> QED BY <2>3, <2>7, <2>8 DEF J, k
  <1> QED BY <1>3, <1>4, <1>5

LEMMA CrashAdvances ==
    ASSUME NEW I \in Counted, NEW e \in Entry, NEW made \in Build \cup {NoInstance},
           Cache!Got(I, e, made) # NoInstance
    PROVE  Advances(I, Cache!RecordFailure(Cache!AfterGet(I, e, made), e), e, made)
  <1> DEFINE J == Cache!AfterGet(I, e, made)
             k == Cache!KeyOf(e)
  <1>1. k \in Cache!Key
    BY DEF Cache!Key
  <1>2. QuarantineLimit \in Nat \ {0}
    BY ServerAssumption
  <1>3. Advances(I, J, e, made) /\ J \in Counted /\ J.failures[k] < QuarantineLimit
    BY GetAdvances DEF Advances
  <1>4. Cache!RecordFailure(J, e) = [J EXCEPT !.failures[k] = @ + 1]
    BY DEF Cache!RecordFailure
  <1> HIDE DEF J, k
  <1> DEFINE L == [J EXCEPT !.failures[k] = @ + 1]
  <1>5. L \in Counted /\ L.cache = J.cache
    BY <1>1, <1>2, <1>3 DEF Counted
  <1>6. \A x \in Cache!Key : L.failures[x] >= J.failures[x]
    BY <1>1, <1>2, <1>3 DEF Counted
  <1>7. \A x \in Cache!Key : J.failures[x] \in Int /\ I.failures[x] \in Int /\ L.failures[x] \in Int
    BY <1>2, <1>3, <1>5 DEF Counted
  <1> HIDE DEF L
  <1>8. Advances(I, L, e, made)
    BY <1>3, <1>5, <1>6, <1>7 DEF Advances, k
  <1> QED BY <1>4, <1>8 DEF L, J

(* What a release may change.                                               *)
LEMMA InvalidateReleases ==
    ASSUME NEW I \in Counted, NEW es
    PROVE  /\ Cache!Invalidate(I, es) \in Counted
           /\ \A k \in Cache!Key : Cache!Invalidate(I, es).cache[k] # NoInstance =>
                 /\ Cache!Invalidate(I, es).cache[k] = I.cache[k]
                 /\ \A e \in es : k[1] # Cache!Prefix(e)
  BY ServerAssumption DEF Cache!Invalidate, Counted

(* StaleIsReported and UnderOwnKey, told of the keys.                       *)
Sound(inst, k) ==
    /\ Cache!KeyOf(inst.entry) = k
    /\ inst.entry \in Tiers
    /\ Stale(inst) => Unreported(inst.entry)

CacheSound == \A k \in Cache!Key :
    instances.cache[k] # NoInstance => Sound(instances.cache[k], k)

LEMMA SoundIsReported == CacheSound <=> StaleIsReported /\ Cache!UnderOwnKey
  BY DEF CacheSound, Sound, StaleIsReported, Cache!UnderOwnKey, Cache!Key, Tiers

Disk == [files : [File -> 0..MaxEdits], manifest : Manifest, edits : 0..MaxEdits]

CacheSide ==
    /\ session \in {"new", "initialized", "watched"} /\ IsTier
    /\ instances \in Counted /\ CacheSound
    /\ disk \in Disk /\ WritesAreEdits
    /\ reports \subseteq File \cup {ManifestFile}
    /\ missed \subseteq File \cup {ManifestFile}

(* make_instance answers with what the file is now.                         *)
LEMMA AttemptIsFresh ==
    ASSUME disk \in Disk, NEW e \in Entry
    PROVE  Attempt(e) \in Build /\ Attempt(e).entry = e /\ ~Stale(Attempt(e))
  <1>1. Writes(e) \in 0..MaxEdits
    BY ServerAssumption DEF Writes, Disk
  <1> QED BY <1>1 DEF Attempt, Build, Stale

LEMMA MadeIsFresh ==
    ASSUME disk \in Disk, NEW e \in Entry
    PROVE  \A made \in Made(e) :
              /\ made \in Build \cup {NoInstance}
              /\ made # NoInstance => made.entry = e /\ ~Stale(made)
  BY AttemptIsFresh DEF Made

Uses(e) == \E made \in Made(e) : Advances(instances, instances', e, made)

LEMMA UseKeeps ==
    ASSUME CacheSide, NEW e, e \in Tiers, Uses(e),
           UNCHANGED <<session, workspace, disk, reports, missed>>
    PROVE  CacheSide'
  <1>1. e \in Entry
    BY TiersAreEntries DEF CacheSide
  <1>2. PICK made \in Made(e) : Advances(instances, instances', e, made)
    BY DEF Uses
  <1>3. made # NoInstance => made.entry = e /\ ~Stale(made)
    BY <1>1, <1>2, MadeIsFresh DEF CacheSide
  <1>4. IsTier' /\ Tiers' = Tiers
    BY DEF CacheSide, IsTier, Tiers
  <1>5. \A inst, k : Sound(inst, k) => Sound(inst, k)'
    BY <1>4 DEF Sound, Stale, Writes, Unreported
  <1>6. CacheSound'
    <2> SUFFICES ASSUME NEW k \in Cache!Key, NEW inst, inst = instances'.cache[k], inst # NoInstance
                 PROVE  Sound(inst, k)'
      BY DEF CacheSound, Sound, Stale, Writes, Unreported
    <2>1. CASE inst = instances.cache[k]
      <3>1. Sound(inst, k)
        BY <2>1 DEF CacheSide, CacheSound
      <3> QED BY <1>5, <3>1
    <2>2. CASE k = Cache!KeyOf(e) /\ inst = made
      <3>1. made.entry = e /\ ~Stale(made)
        BY <1>3, <2>2
      <3>2. Sound(made, k)
        BY <2>2, <3>1 DEF Sound
      <3> QED BY <1>5, <2>2, <3>2
    <2> QED BY <1>2, <2>1, <2>2 DEF Advances
  <1>7. WritesAreEdits'
    BY DEF CacheSide, WritesAreEdits
  <1> QED BY <1>2, <1>4, <1>6, <1>7 DEF CacheSide, Advances

(* A release keeps to the invariant if what it spares stays in the tiers,   *)
(* and unreported.                                                          *)
LEMMA ReleaseKeeps ==
    ASSUME CacheSide, NEW es, instances' = Cache!Invalidate(instances, es), disk' = disk,
           session' \in {"new", "initialized", "watched"}, IsTier',
           reports' \subseteq reports, missed' \subseteq missed,
           \A e \in Tiers : e \notin es => e \in Tiers' /\ (Unreported(e) => Unreported(e)')
    PROVE  CacheSide'
  <1>1. /\ instances' \in Counted
        /\ \A k \in Cache!Key : instances'.cache[k] # NoInstance =>
              /\ instances'.cache[k] = instances.cache[k]
              /\ \A e \in es : k[1] # Cache!Prefix(e)
    BY InvalidateReleases DEF CacheSide
  <1>2. CacheSound'
    <2> SUFFICES ASSUME NEW k \in Cache!Key, NEW inst, inst = instances'.cache[k], inst # NoInstance
                 PROVE  Sound(inst, k)'
      BY DEF CacheSound, Sound, Stale, Writes, Unreported
    <2>1. inst = instances.cache[k] /\ \A e \in es : k[1] # Cache!Prefix(e)
      BY <1>1
    <2>2. Sound(inst, k)
      BY <2>1 DEF CacheSide, CacheSound
    <2>3. PICK x : x = inst.entry
      OBVIOUS
    <2>4. k[1] = Cache!Prefix(x)
      BY <2>2, <2>3 DEF Sound, Cache!KeyOf
    <2>5. x \in Tiers /\ x \notin es
      BY <2>1, <2>2, <2>3, <2>4 DEF Sound
    <2>6. x \in Tiers' /\ (Unreported(x) => Unreported(x)')
      BY <2>5
    <2>7. Stale(inst)' => Stale(inst)
      BY DEF Stale, Writes
    <2> QED BY <2>2, <2>3, <2>6, <2>7 DEF Sound
  <1>3. WritesAreEdits'
    BY DEF CacheSide, WritesAreEdits
  <1> QED BY <1>1, <1>2, <1>3 DEF CacheSide

(* The tier rebuilt: of the old one only what is not the workspace's is     *)
(* spared, and the session's entries are in both.                           *)
LEMMA RebuildKeeps ==
    ASSUME CacheSide, RebuildRegistry, disk' = disk,
           session' \in {"new", "initialized", "watched"},
           reports' \subseteq reports, missed' \subseteq missed
    PROVE  CacheSide'
  <1>1. PICK m \in Manifest : m = disk.manifest
    BY DEF CacheSide, Disk
  <1>2. PICK es : /\ es = {e \in Range(Global) \cup Range(workspace) \cup Range(Session \o Languages[m]) : e.workspace}
                  /\ instances' = Cache!Invalidate(instances, es)
    BY <1>1 DEF RebuildRegistry
  <1>3. workspace' = Session \o Languages[m] /\ IsTier'
    BY <1>1 DEF RebuildRegistry, IsTier
  <1>4. ASSUME NEW e \in Tiers, e \notin es PROVE e \in Tiers' /\ Unreported(e)'
    <2>1. ~e.workspace
      BY <1>2, <1>4 DEF Tiers
    <2>2. e \in Range(Global) \cup Range(Session)
      <3>1. CASE workspace = <<>>
        BY <3>1 DEF Tiers, Range
      <3>2. ASSUME NEW n \in Manifest, workspace = Session \o Languages[n] PROVE e \in Range(Global) \cup Range(Session)
        BY <2>1, <3>2, TierEntries DEF Tiers
      <3> QED BY <3>1, <3>2 DEF CacheSide, IsTier
    <2>3. e \in Tiers'
      BY <1>3, <2>2, TierEntries DEF Tiers
    <2> QED BY <2>1, <2>3 DEF Unreported, IsWatched
  <1> QED BY <1>2, <1>3, <1>4, ReleaseKeeps

(* A file written is one the client reports, or missed.                     *)
LEMMA EditKeeps ==
    ASSUME CacheSide, NEW f \in File, EditFile(f) PROVE CacheSide'
  <1>1. /\ disk.edits < MaxEdits /\ disk' = [disk EXCEPT !.files[f] = @ + 1, !.edits = @ + 1]
        /\ UNCHANGED <<workspace, instances, session>>
        /\ reports \subseteq reports' /\ missed \subseteq missed' /\ f \in reports' \cup missed'
        /\ reports' \subseteq reports \cup {f} /\ missed' \subseteq missed \cup {f}
    BY DEF EditFile, Written
  <1>2. disk \in Disk /\ disk.edits \in 0..MaxEdits /\ \A g \in File : disk.files[g] \in 0..disk.edits
    BY ServerAssumption DEF CacheSide, Disk, WritesAreEdits
  <1>3. /\ disk'.files = [disk.files EXCEPT ![f] = @ + 1]
        /\ disk'.edits = disk.edits + 1 /\ disk'.manifest = disk.manifest
    BY <1>1, <1>2 DEF Disk
  <1>4. disk' \in Disk /\ WritesAreEdits'
    <2>1. disk'.edits \in 0..MaxEdits /\ \A g \in File : disk'.files[g] \in 0..disk'.edits
      BY <1>1, <1>2, <1>3, ServerAssumption DEF Disk
    <2>2. disk'.files \in [File -> 0..MaxEdits]
      BY <1>2, <1>3, <2>1, ServerAssumption DEF Disk
    <2>3. disk' = [files |-> disk'.files, manifest |-> disk'.manifest, edits |-> disk'.edits]
      BY <1>1, <1>2 DEF Disk
    <2>4. disk'.manifest \in Manifest
      BY <1>2, <1>3 DEF Disk
    <2> QED BY <2>1, <2>2, <2>3, <2>4 DEF Disk, WritesAreEdits
  <1>5. CacheSound'
    <2> SUFFICES ASSUME NEW k \in Cache!Key, NEW inst, inst = instances'.cache[k], inst # NoInstance
                 PROVE  Sound(inst, k)'
      BY DEF CacheSound, Sound, Stale, Writes, Unreported
    <2>1. Sound(inst, k)
      BY <1>1 DEF CacheSide, CacheSound
    <2>2. PICK x : x = inst.entry
      OBVIOUS
    <2>3. Stale(inst)' => Unreported(x)'
      <3>1. CASE Source(x) = f
        BY <1>1, <3>1 DEF Unreported
      <3>2. CASE Source(x) # f
        <4>1. Writes(x)' = Writes(x)
          BY <1>2, <1>3, <3>2 DEF Writes, Disk
        <4>2. Unreported(x) => Unreported(x)'
          BY <1>1 DEF Unreported
        <4> QED BY <2>1, <2>2, <4>1, <4>2 DEF Sound, Stale
      <3> QED BY <3>1, <3>2
    <2>4. Tiers' = Tiers
      BY <1>1 DEF Tiers
    <2> QED BY <2>1, <2>2, <2>3, <2>4 DEF Sound
  <1>6. IsTier'
    BY <1>1 DEF CacheSide, IsTier
  <1> QED BY <1>1, <1>4, <1>5, <1>6 DEF CacheSide

(* A get, and a crash counted after it, are uses of the entry's instance.   *)
LEMMA GetUses ==
    ASSUME CacheSide, NEW e, e \in Tiers, NEW made \in Made(e)
    PROVE  /\ instances' = Cache!AfterGet(instances, e, made) => Uses(e)
           /\ Cache!Got(instances, e, made) # NoInstance
              /\ instances' = Cache!RecordFailure(Cache!AfterGet(instances, e, made), e) => Uses(e)
           /\ Cache!Got(instances, e, made) \in Build \cup {NoInstance}
  <1>1. e \in Entry /\ instances \in Counted
    BY TiersAreEntries DEF CacheSide
  <1>2. made \in Build \cup {NoInstance}
    BY <1>1, MadeIsFresh DEF CacheSide
  <1>3. PICK I : I = instances
    OBVIOUS
  <1>4. /\ Advances(I, Cache!AfterGet(I, e, made), e, made)
        /\ Cache!Got(I, e, made) \in Build \cup {NoInstance}
    BY <1>1, <1>2, <1>3, GetAdvances
  <1>5. Cache!Got(I, e, made) # NoInstance =>
            Advances(I, Cache!RecordFailure(Cache!AfterGet(I, e, made), e), e, made)
    BY <1>1, <1>2, <1>3, CrashAdvances
  <1> QED BY <1>3, <1>4, <1>5 DEF Uses

LEMMA AnalysisUses ==
    ASSUME CacheSide, NEW u, RunAnalysis(u)
    PROVE  instances' = instances \/ \E e \in Tiers : Uses(e)
  <1> SUFFICES ASSUME docs[u] # Nothing PROVE instances' = instances \/ \E e \in Tiers : Uses(e)
    BY DEF RunAnalysis
  <1>1. PICK e : /\ e = Route(u)
                 /\ Unserved(u, e) \/ TooLarge(u, e) \/ NoGrammar(u, e) \/ Crashed(u, e) \/ Parsed(u, e)
    BY DEF RunAnalysis
  <1>2. CASE Unserved(u, e) \/ TooLarge(u, e)
    BY <1>2 DEF Unserved, TooLarge
  <1>3. CASE NoGrammar(u, e) \/ Crashed(u, e) \/ Parsed(u, e)
    <2>1. e \in Tiers
      BY <1>1, <1>3, RouteFinds DEF NoGrammar, Crashed, Parsed, Serves
    <2>2. PICK made \in Made(e) :
             \/ instances' = Cache!AfterGet(instances, e, made)
             \/ /\ Cache!Got(instances, e, made) # NoInstance
                /\ instances' = Cache!RecordFailure(Cache!AfterGet(instances, e, made), e)
      BY <1>3 DEF NoGrammar, Crashed, Parsed
    <2> QED BY <2>1, <2>2, GetUses
  <1> QED BY <1>1, <1>2, <1>3

LEMMA CacheStep == CacheSide /\ [Next]_vars => CacheSide'
  <1> SUFFICES ASSUME CacheSide, [Next]_vars PROVE CacheSide'
    OBVIOUS
  <1>1. ASSUME UNCHANGED <<workspace, instances, disk, reports, missed>>,
               session' \in {"new", "initialized", "watched"}
        PROVE  CacheSide'
    BY <1>1 DEF CacheSide, IsTier, CacheSound, Sound, Stale, Writes, Unreported, Tiers, WritesAreEdits
  <1>2. session \in {"new", "initialized", "watched"}
    BY DEF CacheSide
  <1>3. ASSUME \/ BeginTurn \/ Timeout \/ Answer \/ Expire \/ Watch \/ UNCHANGED vars
               \/ \E u \in Uri : DidClose(u)
               \/ \E u \in Uri, text \in Text : DidOpen(u, text) \/ DidChange(u, text)
        PROVE  CacheSide'
    BY <1>1, <1>2, <1>3 DEF BeginTurn, Timeout, Answer, Expire, Watch, DidClose, DidOpen, DidChange, vars, client
  <1>4. CASE AnalyzeNext
    <2>1. UNCHANGED <<session, workspace, disk, reports, missed>> /\ \E u : RunAnalysis(u)
      BY <1>4 DEF AnalyzeNext, client
    <2>2. instances' = instances \/ \E e \in Tiers : Uses(e)
      BY <2>1, AnalysisUses
    <2> QED BY <1>1, <1>2, <2>1, <2>2, UseKeeps
  <1>5. ASSUME NEW u \in Uri, Completion(u) PROVE CacheSide'
    <2>1. PICK e, made : /\ e = Route(u) /\ e # NoEntry /\ made \in Made(e)
                         /\ instances' = Cache!AfterGet(instances, e, made)
      BY <1>5 DEF Completion, Serves
    <2>2. e \in Tiers
      BY <2>1, RouteFinds
    <2>3. Uses(e)
      BY <2>1, <2>2, GetUses
    <2>4. UNCHANGED <<session, workspace, disk, reports, missed>>
      BY <1>5 DEF Completion, client
    <2> QED BY <2>2, <2>3, <2>4, UseKeeps
  <1>6. CASE Initialize
    BY <1>6, RebuildKeeps DEF Initialize
  <1>7. CASE Reported
    <2>1. PICK files : DidChangeWatchedFiles(files)
      BY <1>7 DEF Reported
    <2>2. /\ disk' = disk /\ session' = session
          /\ reports' = reports \ files /\ missed' = missed \ files
      BY <2>1 DEF DidChangeWatchedFiles
    <2>3. CASE ManifestFile \in files
      <3>1. RebuildRegistry
        BY <2>1, <2>3 DEF DidChangeWatchedFiles, ManifestChanged
      <3> QED BY <1>2, <2>2, <3>1, RebuildKeeps
    <2>4. CASE ManifestFile \notin files
      <3>1. PICK es : /\ es = {e \in Tiers : IsWatched(e) /\ Source(e) \in files}
                      /\ instances' = Cache!Invalidate(instances, es) /\ workspace' = workspace
        BY <2>1, <2>4 DEF DidChangeWatchedFiles, GrammarsChanged, Tiers
      <3>2. IsTier' /\ Tiers' = Tiers
        BY <3>1 DEF CacheSide, IsTier, Tiers
      <3>3. \A e \in Tiers : e \notin es => e \in Tiers' /\ (Unreported(e) => Unreported(e)')
        BY <2>2, <3>1, <3>2 DEF Unreported
      <3>4. session' \in {"new", "initialized", "watched"} /\ reports' \subseteq reports /\ missed' \subseteq missed
        BY <1>2, <2>2
      <3> QED BY <2>2, <3>1, <3>2, <3>3, <3>4, ReleaseKeeps
    <2> QED BY <2>3, <2>4
  <1>8. ASSUME NEW f \in File, EditFile(f) PROVE CacheSide'
    BY <1>8, EditKeeps
  <1>9. ASSUME NEW m \in Manifest, EditManifest(m) PROVE CacheSide'
    <2>1. /\ disk.edits < MaxEdits /\ disk' = [disk EXCEPT !.manifest = m, !.edits = @ + 1]
          /\ UNCHANGED <<workspace, instances, session>>
          /\ reports \subseteq reports' /\ missed \subseteq missed'
          /\ reports' \subseteq reports \cup {ManifestFile} /\ missed' \subseteq missed \cup {ManifestFile}
      BY <1>9 DEF EditManifest, Written
    <2>2. disk' \in Disk /\ disk'.files = disk.files /\ disk'.edits = disk.edits + 1
      <3>1. disk \in Disk /\ disk.edits \in 0..MaxEdits /\ disk.edits + 1 \in 0..MaxEdits
        BY <2>1, ServerAssumption DEF CacheSide, Disk
      <3> QED BY <1>9, <2>1, <3>1 DEF Disk
    <2>3. WritesAreEdits'
      BY <2>2, ServerAssumption DEF CacheSide, Disk, WritesAreEdits
    <2>4. IsTier' /\ CacheSound'
      BY <2>1, <2>2 DEF CacheSide, IsTier, CacheSound, Sound, Stale, Writes, Unreported, Tiers
    <2> QED BY <1>2, <2>1, <2>2, <2>3, <2>4 DEF CacheSide
  <1> QED BY <1>3, <1>4, <1>5, <1>6, <1>7, <1>8, <1>9 DEF Next
-----------------------------------------------------------------------------
(* The results.                                                             *)

Shown   == [some : BOOLEAN, of : Analyzed \cup {Nothing}]
Outcome == [how : Ending, of : Analyzed \cup {Nothing}]

ResultSide ==
    /\ docs \in [Uri -> Doc \cup {Nothing}]
    /\ analyses \in [Uri -> Analysis \cup {Nothing}]
    /\ shown \in [Uri -> Shown]
    /\ outcome \in [Uri -> Outcome]
    /\ NeverAhead /\ DiagnosticsAccounted

LEMMA EndedIsOutcome ==
    ASSUME NEW how \in Ending, NEW of \in Analyzed \cup {Nothing}
    PROVE  Ended(how, of) \in Outcome
  BY DEF Ended, Outcome

LEMMA EndingsAre ==
    {"none", "unserved", "large", "quarantined", "refused", "crashed", "failed", "served"} \subseteq Ending
  BY DEF Ending

(* What one analysis leaves of a document's results: s is shown, o is how   *)
(* it ended, and a, if it is new, is of the document as it stands.          *)
Leaves(u, a, s, o) ==
    /\ analyses' = [analyses EXCEPT ![u] = a]
    /\ shown' = [shown EXCEPT ![u] = s]
    /\ outcome' = [outcome EXCEPT ![u] = o]
    /\ published' = IF s.some THEN published \cup {u} ELSE published \ {u}
    /\ \/ a = analyses[u] \/ a = Nothing
       \/ a.version = docs[u].version /\ a.of.text = docs[u].text

LEMMA AnalysisLeaves ==
    ASSUME ResultSide, CacheSide, NEW u \in Open, RunAnalysis(u)
    PROVE  \E a \in Analysis \cup {Nothing}, s \in Shown, o \in Outcome : Leaves(u, a, s, o)
  <1>1. u \in Uri /\ docs[u] \in Doc
    BY DEF Open, ResultSide
  <1>2. /\ docs[u].version \in 1..MaxVersion /\ docs[u].text \in Text
        /\ analyses[u] \in Analysis \cup {Nothing} /\ shown[u] \in Shown
        /\ analyses = [analyses EXCEPT ![u] = analyses[u]]
        /\ shown = [shown EXCEPT ![u] = shown[u]]
        /\ (u \in published <=> shown[u].some)
        /\ shown[u].some \in BOOLEAN
    BY <1>1 DEF ResultSide, Doc, Shown, DiagnosticsAccounted
  <1>3. PICK e : /\ e = Route(u)
                 /\ Unserved(u, e) \/ TooLarge(u, e) \/ NoGrammar(u, e) \/ Crashed(u, e) \/ Parsed(u, e)
    BY DEF RunAnalysis, Open
  <1>4. Silence \in Shown /\ ~Silence.some
    BY DEF Silence, Shown
  <1>5. published = IF shown[u].some THEN published \cup {u} ELSE published \ {u}
    BY <1>2
  <1>6. CASE Unserved(u, e)
    <2>0. PICK o \in Outcome : o = Ended("unserved", Nothing)
      BY EndedIsOutcome, EndingsAre
    <2>1. CASE u \in published
      BY <1>2, <1>4, <1>6, <2>0, <2>1 DEF Unserved, Leaves
    <2>2. CASE u \notin published
      BY <1>2, <1>6, <2>0, <2>2 DEF Unserved, Leaves
    <2> QED BY <2>1, <2>2
  <1>7. CASE TooLarge(u, e)
    <2> DEFINE of == [text |-> docs[u].text, inst |-> NoInstance]
               s  == [some |-> TRUE, of |-> of]
    <2>1. of \in Analyzed /\ s \in Shown /\ s.some
      BY <1>2 DEF Shown, Analyzed
    <2>2. PICK o \in Outcome : o = Ended("large", of)
      BY <2>1, EndedIsOutcome, EndingsAre
    <2>3. Leaves(u, Nothing, s, o)
      BY <1>7, <2>1, <2>2 DEF TooLarge, Leaves
    <2> HIDE DEF s
    <2> QED BY <2>1, <2>3
  <1>8. CASE NoGrammar(u, e)
    <2>0. Ended("quarantined", Nothing) \in Outcome /\ Refused(u, e) \in Outcome
      <3>1. e \in Entry
        BY <1>3, <1>8, RouteFinds, TiersAreEntries DEF NoGrammar, Serves, CacheSide
      <3>2. [text |-> docs[u].text, inst |-> Attempt(e)] \in Analyzed
        BY <1>2, <3>1, AttemptIsFresh DEF Analyzed, CacheSide
      <3> QED BY <3>2, EndedIsOutcome, EndingsAre DEF Refused
    <2>1. PICK o \in Outcome : outcome' = [outcome EXCEPT ![u] = o]
      <3>1. outcome' = [outcome EXCEPT ![u] =
               IF Cache!Quarantined(instances, e) THEN Ended("quarantined", Nothing) ELSE Refused(u, e)]
        BY <1>8 DEF NoGrammar
      <3> QED BY <2>0, <3>1
    <2>2. Leaves(u, analyses[u], shown[u], o)
      BY <1>2, <1>5, <1>8, <2>1 DEF NoGrammar, Leaves
    <2> QED BY <1>2, <2>2
  <1>9. CASE Crashed(u, e)
    <2>1. PICK made \in Made(e) :
             LET of == [text |-> docs[u].text, inst |-> Cache!Got(instances, e, made)]
             IN  outcome' = [outcome EXCEPT ![u] = Ended("crashed", of)]
      BY <1>9 DEF Crashed
    <2> DEFINE of == [text |-> docs[u].text, inst |-> Cache!Got(instances, e, made)]
    <2>2. e \in Tiers
      BY <1>3, <1>9, RouteFinds DEF Crashed, Serves
    <2>3. Cache!Got(instances, e, made) \in Build \cup {NoInstance}
      BY <2>2, GetUses
    <2>4. of \in Analyzed
      BY <1>2, <2>3 DEF Analyzed
    <2>5. PICK o \in Outcome : o = Ended("crashed", of)
      BY <2>4, EndedIsOutcome, EndingsAre
    <2>6. outcome' = [outcome EXCEPT ![u] = o]
      BY <2>1, <2>5
    <2> HIDE DEF of
    <2>7. Leaves(u, analyses[u], shown[u], o)
      BY <1>2, <1>5, <1>9, <2>6 DEF Crashed, Leaves
    <2> QED BY <1>2, <2>7
  <1>10. CASE Parsed(u, e)
    <2>1. PICK made \in Made(e), recovery \in Recovery :
             LET of == [text |-> docs[u].text, inst |-> Cache!Got(instances, e, made)]
             IN  /\ published' = IF ErrorsOf(recovery) = <<>> THEN published \ {u} ELSE published \cup {u}
                 /\ shown' = [shown EXCEPT ![u] = [some |-> ErrorsOf(recovery) # <<>>, of |-> of]]
                 /\ analyses' = IF recovery.fatal # Nothing THEN analyses
                                ELSE [analyses EXCEPT ![u] = [version |-> docs[u].version, of |-> of]]
                 /\ outcome' = [outcome EXCEPT ![u] =
                                  Ended(IF recovery.fatal # Nothing THEN "failed" ELSE "served", of)]
      BY <1>10 DEF Parsed
    <2> DEFINE inst   == Cache!Got(instances, e, made)
               of     == [text |-> docs[u].text, inst |-> inst]
               errors == ErrorsOf(recovery)
    <2>2. e \in Tiers
      BY <1>3, <1>10, RouteFinds DEF Parsed, Serves
    <2>3. inst \in Build \cup {NoInstance}
      BY <2>2, GetUses
    <2>4. of \in Analyzed /\ of.text = docs[u].text
      BY <1>2, <2>3 DEF Analyzed
    <2> HIDE DEF errors
    <2> DEFINE s == [some |-> errors # <<>>, of |-> of]
               a == [version |-> docs[u].version, of |-> of]
    <2>5. s \in Shown
      BY <2>4 DEF Shown
    <2>6. s.some <=> errors # <<>>
      OBVIOUS
    <2>7. a \in Analysis /\ a.version = docs[u].version /\ a.of.text = docs[u].text
      BY <1>2, <2>4 DEF Analysis
    <2>8. /\ shown' = [shown EXCEPT ![u] = s]
          /\ published' = IF errors = <<>> THEN published \ {u} ELSE published \cup {u}
      BY <2>1 DEF errors
    <2>9. CASE recovery.fatal # Nothing
      <3>0. PICK o \in Outcome : o = Ended("failed", of)
        BY <2>4, EndedIsOutcome, EndingsAre
      <3>1. analyses' = [analyses EXCEPT ![u] = analyses[u]] /\ outcome' = [outcome EXCEPT ![u] = o]
        BY <1>2, <2>1, <2>9, <3>0
      <3> HIDE DEF s
      <3>2. Leaves(u, analyses[u], s, o)
        BY <2>6, <2>8, <3>1 DEF Leaves
      <3> QED BY <1>2, <2>5, <3>2
    <2>10. CASE recovery.fatal = Nothing
      <3>0. PICK o \in Outcome : o = Ended("served", of)
        BY <2>4, EndedIsOutcome, EndingsAre
      <3>1. analyses' = [analyses EXCEPT ![u] = a] /\ outcome' = [outcome EXCEPT ![u] = o]
        BY <2>1, <2>10, <3>0
      <3> HIDE DEF s, a
      <3>2. Leaves(u, a, s, o)
        BY <2>6, <2>7, <2>8, <3>1 DEF Leaves
      <3> QED BY <2>5, <2>7, <3>2
    <2> QED BY <2>9, <2>10
  <1> QED BY <1>3, <1>6, <1>7, <1>8, <1>9, <1>10

(* A document's results replaced by its analysis.                           *)
LEMMA LeavesKeeps ==
    ASSUME ResultSide, NEW u \in Open, NEW a \in Analysis \cup {Nothing}, NEW s \in Shown, NEW o \in Outcome,
           Leaves(u, a, s, o), docs' = docs, Range(queue') \subseteq Range(queue)
    PROVE  ResultSide'
  <1>1. u \in Uri /\ Open' = Open
    BY DEF Open
  <1>2. /\ analyses' \in [Uri -> Analysis \cup {Nothing}] /\ shown' \in [Uri -> Shown] /\ outcome' \in [Uri -> Outcome]
        /\ docs' \in [Uri -> Doc \cup {Nothing}]
        /\ analyses'[u] = a /\ shown'[u] = s
        /\ \A x \in Uri \ {u} : analyses'[x] = analyses[x] /\ shown'[x] = shown[x]
    BY <1>1 DEF ResultSide, Leaves
  <1>3. NeverAhead'
    <2> SUFFICES ASSUME NEW x \in Open, analyses'[x] # Nothing
                 PROVE  /\ analyses'[x].version <= docs[x].version
                        /\ analyses'[x].version = docs[x].version => analyses'[x].of.text = docs[x].text
      BY <1>1 DEF NeverAhead
    <2>1. CASE analyses'[x] = analyses[x]
      BY <2>1 DEF ResultSide, NeverAhead
    <2>2. CASE x = u /\ a.version = docs[u].version /\ a.of.text = docs[u].text
      <3>1. docs[u].version \in Int
        BY <1>1, ServerAssumption DEF ResultSide, Open, Doc
      <3> QED BY <1>2, <2>2, <3>1
    <2> QED BY <1>1, <1>2, <2>1, <2>2 DEF Leaves, Open
  <1>4. DiagnosticsAccounted'
    <2>1. published' = {x \in Uri : shown'[x].some}
      <3>1. published = {x \in Uri : shown[x].some}
        BY DEF ResultSide, DiagnosticsAccounted
      <3>2. published' = IF s.some THEN published \cup {u} ELSE published \ {u}
        BY DEF Leaves
      <3> QED BY <1>1, <1>2, <3>1, <3>2
    <2>2. \A x \in Uri \ Open : analyses[x] = Nothing /\ x \notin Range(queue) \cup published
      BY DEF ResultSide, DiagnosticsAccounted
    <2>3. \A x \in Uri \ Open : analyses'[x] = Nothing /\ x \notin Range(queue') \cup published'
      BY <1>2, <2>2 DEF Leaves
    <2> QED BY <1>1, <2>1, <2>3 DEF DiagnosticsAccounted
  <1> QED BY <1>2, <1>3, <1>4 DEF ResultSide

(* A document opened or changed has a later version than its analysis.      *)
LEMMA VersionKeeps ==
    ASSUME ResultSide, NEW u \in Uri, NEW doc \in Doc, docs' = [docs EXCEPT ![u] = doc],
           docs[u] # Nothing => doc.version = docs[u].version + 1,
           analyses' = analyses \/ analyses' = [analyses EXCEPT ![u] = Nothing],
           UNCHANGED <<published, shown, outcome>>, Range(queue') \subseteq Range(queue) \cup {u}
    PROVE  ResultSide'
  <1>1. /\ docs' \in [Uri -> Doc \cup {Nothing}] /\ docs'[u] = doc /\ doc # Nothing
        /\ \A x \in Uri \ {u} : docs'[x] = docs[x]
    BY ServerAssumption DEF ResultSide
  <1>2. Open' = Open \cup {u}
    BY <1>1 DEF Open
  <1>3. /\ analyses' \in [Uri -> Analysis \cup {Nothing}]
        /\ \A x \in Uri : analyses'[x] = analyses[x] \/ analyses'[x] = Nothing
    BY DEF ResultSide
  <1>4. \A x \in Uri \ Open : analyses[x] = Nothing /\ x \notin Range(queue) \cup published
    BY DEF ResultSide, DiagnosticsAccounted
  <1>5. NeverAhead'
    <2> SUFFICES ASSUME NEW x \in Open', analyses'[x] # Nothing
                 PROVE  /\ analyses'[x].version <= docs'[x].version
                        /\ analyses'[x].version = docs'[x].version => analyses'[x].of.text = docs'[x].text
      BY DEF NeverAhead
    <2>1. x \in Uri /\ analyses'[x] = analyses[x] /\ x \in Open
      BY <1>3, <1>4 DEF Open
    <2>2. /\ analyses[x].version <= docs[x].version
          /\ analyses[x].version = docs[x].version => analyses[x].of.text = docs[x].text
      BY <2>1 DEF ResultSide, NeverAhead
    <2>3. CASE x = u
      <3>1. analyses[u].version \in Int /\ docs[u].version \in Int /\ docs'[u].version = docs[u].version + 1
        BY <1>1, <2>1, <2>3, ServerAssumption DEF ResultSide, Open, Doc, Analysis
      <3> QED BY <2>1, <2>2, <2>3, <3>1
    <2>4. CASE x # u
      BY <1>1, <2>1, <2>2, <2>4
    <2> QED BY <2>3, <2>4
  <1>6. DiagnosticsAccounted'
    <2>1. published' = {x \in Uri : shown'[x].some}
      BY DEF ResultSide, DiagnosticsAccounted
    <2>2. \A x \in Uri \ Open' : analyses'[x] = Nothing /\ x \notin Range(queue') \cup published'
      BY <1>2, <1>3, <1>4
    <2> QED BY <2>1, <2>2 DEF DiagnosticsAccounted
  <1> QED BY <1>1, <1>3, <1>5, <1>6 DEF ResultSide

LEMMA CloseKeeps ==
    ASSUME ResultSide, QueueSide, NEW u \in Uri, DidClose(u)
    PROVE  ResultSide'
  <1>1. /\ docs' = [docs EXCEPT ![u] = Nothing] /\ analyses' = [analyses EXCEPT ![u] = Nothing]
        /\ published' = published \ {u} /\ shown' = [shown EXCEPT ![u] = Silence]
        /\ outcome' = [outcome EXCEPT ![u] = Ended("none", Nothing)]
    BY DEF DidClose
  <1>2. Range(queue') \subseteq Range(queue) \ {u}
    BY Unscheduled DEF DidClose
  <1>3. Silence \in Shown /\ ~Silence.some /\ Ended("none", Nothing) \in Outcome
    BY EndedIsOutcome, EndingsAre DEF Silence, Shown
  <1>4. /\ docs' \in [Uri -> Doc \cup {Nothing}] /\ analyses' \in [Uri -> Analysis \cup {Nothing}]
        /\ shown' \in [Uri -> Shown] /\ outcome' \in [Uri -> Outcome]
        /\ docs'[u] = Nothing /\ analyses'[u] = Nothing /\ shown'[u] = Silence
        /\ \A x \in Uri \ {u} : docs'[x] = docs[x] /\ analyses'[x] = analyses[x] /\ shown'[x] = shown[x]
    BY <1>1, <1>3 DEF ResultSide
  <1>5. Open' = Open \ {u}
    BY <1>4 DEF Open
  <1>6. NeverAhead'
    BY <1>4, <1>5 DEF ResultSide, NeverAhead, Open
  <1>7. published' = {x \in Uri : shown'[x].some}
    <2>1. published = {x \in Uri : shown[x].some}
      BY DEF ResultSide, DiagnosticsAccounted
    <2> QED BY <1>1, <1>3, <1>4, <2>1
  <1>8. \A x \in Uri \ Open' : analyses'[x] = Nothing /\ x \notin Range(queue') \cup published'
    BY <1>1, <1>2, <1>4, <1>5 DEF ResultSide, DiagnosticsAccounted
  <1> QED BY <1>4, <1>6, <1>7, <1>8 DEF ResultSide, DiagnosticsAccounted

LEMMA ResultStep == ResultSide /\ QueueSide /\ CacheSide /\ [Next]_vars => ResultSide'
  <1> SUFFICES ASSUME ResultSide, QueueSide, CacheSide, [Next]_vars PROVE ResultSide'
    OBVIOUS
  <1>0. \A x \in Uri \ Open : analyses[x] = Nothing /\ x \notin Range(queue) \cup published
    BY DEF ResultSide, DiagnosticsAccounted
  <1>1. ASSUME UNCHANGED <<docs, published, shown, outcome>>, Range(queue') \subseteq Range(queue) \cup Open,
               analyses' = analyses \/ analyses' = [u \in Uri |-> Nothing]
        PROVE  ResultSide'
    <2>1. Open' = Open
      BY <1>1 DEF Open
    <2>2. analyses' \in [Uri -> Analysis \cup {Nothing}] /\ NeverAhead'
      BY <1>1, <2>1 DEF ResultSide, NeverAhead, Open
    <2>3. published' = {x \in Uri : shown'[x].some}
      BY <1>1 DEF ResultSide, DiagnosticsAccounted
    <2>4. \A x \in Uri \ Open' : analyses'[x] = Nothing /\ x \notin Range(queue') \cup published'
      BY <1>0, <1>1, <2>1
    <2> QED BY <1>1, <2>2, <2>3, <2>4 DEF ResultSide, DiagnosticsAccounted
  <1>2. ASSUME UNCHANGED <<docs, analyses, published, shown, outcome, queue>> PROVE ResultSide'
    BY <1>1, <1>2
  <1>3. ASSUME \/ BeginTurn \/ Timeout \/ Initialize \/ Answer \/ Expire \/ Watch \/ UNCHANGED vars
               \/ \E u \in Uri : Completion(u)
               \/ \E f \in File : EditFile(f)
               \/ \E m \in Manifest : EditManifest(m)
        PROVE  ResultSide'
    BY <1>2, <1>3 DEF BeginTurn, Timeout, Initialize, Answer, Expire, Watch, Completion, EditFile,
                      EditManifest, Written, vars, results, loop
  <1>4. CASE AnalyzeNext
    <2>1. RunAnalysis(Head(queue)) /\ queue' = Tail(queue) /\ docs' = docs /\ batch > 0
      BY <1>4 DEF AnalyzeNext
    <2>2. queue \in Seq(Uri) /\ Len(queue) \in Nat /\ Len(queue) > 0
      BY <2>1 DEF QueueSide
    <2>3. Head(queue) \in Range(queue) /\ Head(queue) \in Uri
      BY <2>2 DEF Range
    <2>4. Range(queue') \subseteq Range(queue)
      <3>1. /\ DOMAIN queue' = 1..(Len(queue) - 1) /\ DOMAIN queue = 1..Len(queue)
            /\ \A k \in 1..(Len(queue) - 1) : queue'[k] = queue[k + 1] /\ k + 1 \in 1..Len(queue)
        BY <2>1, <2>2
      <3> QED BY <3>1 DEF Range
    <2>5. PICK u \in Open : RunAnalysis(u)
      BY <1>0, <2>1, <2>3
    <2>6. PICK a \in Analysis \cup {Nothing}, s \in Shown, o \in Outcome : Leaves(u, a, s, o)
      BY <2>5, AnalysisLeaves
    <2> QED BY <2>1, <2>4, <2>6, LeavesKeeps
  <1>5. CASE Reported
    <2>1. PICK files : DidChangeWatchedFiles(files)
      BY <1>5 DEF Reported
    <2>2. /\ UNCHANGED <<docs, published, shown, outcome>>
          /\ IF ManifestFile \in files THEN ManifestChanged ELSE GrammarsChanged(files)
      BY <2>1 DEF DidChangeWatchedFiles
    <2>3. Open \subseteq Uri
      BY DEF Open
    <2>4. /\ \E us \in SUBSET Open : Schedule(us)
          /\ analyses' = analyses \/ analyses' = [u \in Uri |-> Nothing]
      BY <2>2 DEF ManifestChanged, GrammarsChanged
    <2>5. Range(queue') \subseteq Range(queue) \cup Open
      BY <2>3, <2>4, Scheduled
    <2> QED BY <1>1, <2>2, <2>4, <2>5
  <1>6. ASSUME NEW u \in Uri, DidClose(u) PROVE ResultSide'
    BY <1>6, CloseKeeps
  <1>7. ASSUME NEW u \in Uri, NEW text \in Text, DidOpen(u, text) PROVE ResultSide'
    <2> DEFINE doc == [version |-> IF docs[u] = Nothing THEN 1 ELSE docs[u].version + 1, text |-> text]
    <2>1. docs' = [docs EXCEPT ![u] = doc] /\ Schedule({u}) /\ UNCHANGED <<analyses, published, shown, outcome>>
      BY <1>7 DEF DidOpen, results, ResultSide
    <2>2. docs[u] # Nothing => docs[u] \in Doc /\ docs[u].version < MaxVersion
      BY <1>7 DEF DidOpen, ResultSide
    <2>3. doc \in Doc /\ (docs[u] # Nothing => doc.version = docs[u].version + 1)
      BY <2>2, ServerAssumption DEF Doc
    <2>4. Range(queue') \subseteq Range(queue) \cup {u}
      BY <2>1, Scheduled
    <2> HIDE DEF doc
    <2> QED BY <2>1, <2>3, <2>4, VersionKeeps
  <1>8. ASSUME NEW u \in Uri, NEW text \in Text, DidChange(u, text) PROVE ResultSide'
    <2>1. CASE docs[u] = Nothing
      BY <1>2, <1>8, <2>1 DEF DidChange
    <2>2. CASE docs[u] # Nothing
      <3> DEFINE doc == [version |-> docs[u].version + 1, text |-> text]
      <3>1. /\ docs' = [docs EXCEPT ![u] = doc] /\ analyses' = [analyses EXCEPT ![u] = Nothing]
            /\ Schedule({u}) /\ UNCHANGED <<published, shown, outcome>>
        BY <1>8, <2>2 DEF DidChange, ResultSide
      <3>2. docs[u] \in Doc /\ docs[u].version < MaxVersion
        BY <1>8, <2>2 DEF DidChange, ResultSide
      <3>3. doc \in Doc /\ doc.version = docs[u].version + 1
        BY <3>2, ServerAssumption DEF Doc
      <3>4. Range(queue') \subseteq Range(queue) \cup {u}
        BY <3>1, Scheduled
      <3> HIDE DEF doc
      <3> QED BY <3>1, <3>3, <3>4, VersionKeeps
    <2> QED BY <2>1, <2>2
  <1> QED BY <1>3, <1>4, <1>5, <1>6, <1>7, <1>8 DEF Next
-----------------------------------------------------------------------------
LEMMA Sides == ServerInv <=> QueueSide /\ CacheSide /\ ResultSide
  <1>1. Cache!TypeOK <=> instances \in Counted
    BY DEF Cache!TypeOK, Counted
  <1>2. DiagnosticsAccounted => published \subseteq Uri
    BY DEF DiagnosticsAccounted
  <1> QED BY <1>1, <1>2, SoundIsReported
        DEF ServerInv, TypeOK, QueueSide, Distinct, CacheSide, IsTier, Disk, ResultSide, Shown, Outcome

LEMMA ServerInit == Init => ServerInv
  <1> SUFFICES ASSUME Init PROVE QueueSide /\ CacheSide /\ ResultSide
    BY Sides
  <1>1. QueueSide
    BY DEF Init, QueueSide, Distinct
  <1>2. CacheSide
    <2>1. instances \in Counted /\ \A k \in Cache!Key : instances.cache[k] = NoInstance
      BY ServerAssumption DEF Init, Cache!Empty, Counted
    <2>2. CacheSound
      BY <2>1 DEF CacheSound
    <2>3. disk \in Disk /\ WritesAreEdits
      BY ServerAssumption DEF Init, Disk, WritesAreEdits
    <2> QED BY <2>1, <2>2, <2>3 DEF Init, CacheSide, IsTier
  <1>3. ResultSide
    <2>1. Silence \in Shown /\ ~Silence.some
      BY DEF Silence, Shown
    <2>2. Range(queue) = {} /\ \A u \in Uri : analyses[u] = Nothing /\ docs[u] = Nothing /\ shown[u] = Silence
      BY DEF Init, Range
    <2>3. published = {u \in Uri : shown[u].some}
      BY <2>1, <2>2 DEF Init
    <2>4. DiagnosticsAccounted /\ NeverAhead
      BY <2>2, <2>3 DEF Init, DiagnosticsAccounted, NeverAhead, Open
    <2>5. Ended("none", Nothing) \in Outcome
      BY EndedIsOutcome, EndingsAre
    <2> QED BY <2>1, <2>4, <2>5 DEF Init, ResultSide
  <1> QED BY <1>1, <1>2, <1>3

(* The server keeps its state in order through every step of its loop, of   *)
(* its client and of the disk.                                              *)
THEOREM ServerCorrect == Spec => []ServerInv
  BY ServerInit, Sides, QueueStep, CacheStep, ResultStep, PTL DEF Spec

(* current_analysis: what is served for a document was made from its text.  *)
THEOREM CurrentIsServed == Spec => []ServedIsCurrent
  <1>1. ServerInv => ServedIsCurrent
    BY DEF ServerInv, NeverAhead, ServedIsCurrent, IsCurrent, Open
  <1> QED BY ServerCorrect, <1>1, PTL

(* run_analysis and the close of a document keep the books of published.    *)
THEOREM PublishedIsShown == Spec => []DiagnosticsAccounted
  <1>1. ServerInv => DiagnosticsAccounted
    BY DEF ServerInv
  <1> QED BY ServerCorrect, <1>1, PTL

(* rebuild_registry and reloaded_by miss no instance a change makes stale.  *)
THEOREM StaleIsReloaded == Spec => []StaleIsReported
  <1>1. ServerInv => StaleIsReported
    BY DEF ServerInv
  <1> QED BY ServerCorrect, <1>1, PTL
-----------------------------------------------------------------------------
(* A use of an instance is a step of the cache.                             *)
LEMMA MadeIsOutcome ==
    ASSUME CacheSide, NEW e, e \in Tiers
    PROVE  e \in Entry /\ Made(e) \subseteq Cache!Outcomes(e)
  <1>1. e \in Entry
    BY TiersAreEntries DEF CacheSide
  <1> QED BY <1>1, MadeIsFresh DEF CacheSide, Cache!Outcomes, Made, Build

LEMMA CacheMoves ==
    ServerInv /\ [Next]_vars => [Cache!Next]_instances
  <1> SUFFICES ASSUME CacheSide, [Next]_vars PROVE [Cache!Next]_instances
    BY Sides
  <1>1. ASSUME NEW e, e \in Tiers, NEW made \in Made(e),
               \/ instances' = Cache!AfterGet(instances, e, made)
               \/ /\ Cache!Got(instances, e, made) # NoInstance
                  /\ instances' = Cache!RecordFailure(Cache!AfterGet(instances, e, made), e)
        PROVE  Cache!Next
    <2>1. e \in Entry /\ made \in Cache!Outcomes(e)
      BY <1>1, MadeIsOutcome
    <2>2. Cache!Fetch(e) \/ Cache!Crash(e)
      BY <1>1, <2>1 DEF Cache!Fetch, Cache!Crash
    <2> QED BY <2>1, <2>2 DEF Cache!Next
  <1>2. ASSUME NEW es \in SUBSET Entry, instances' = Cache!Invalidate(instances, es) PROVE Cache!Next
    BY <1>2 DEF Cache!Next, Cache!Reload
  <1>3. ASSUME \/ BeginTurn \/ Timeout \/ Answer \/ Expire \/ Watch \/ UNCHANGED vars
               \/ \E u \in Uri : DidClose(u)
               \/ \E u \in Uri, text \in Text : DidOpen(u, text) \/ DidChange(u, text)
               \/ \E f \in File : EditFile(f)
               \/ \E m \in Manifest : EditManifest(m)
        PROVE  instances' = instances
    BY <1>3 DEF BeginTurn, Timeout, Answer, Expire, Watch, DidClose, DidOpen, DidChange, EditFile,
                EditManifest, Written, vars
  <1>4. CASE AnalyzeNext
    <2>1. PICK u : RunAnalysis(u)
      BY <1>4 DEF AnalyzeNext
    <2>2. CASE docs[u] = Nothing
      BY <2>1, <2>2 DEF RunAnalysis
    <2>3. CASE docs[u] # Nothing
      <3>1. PICK e : /\ e = Route(u)
                     /\ \/ Unserved(u, e) \/ TooLarge(u, e) \/ NoGrammar(u, e)
                        \/ Crashed(u, e) \/ Parsed(u, e)
        BY <2>1, <2>3 DEF RunAnalysis
      <3>2. CASE Unserved(u, e) \/ TooLarge(u, e)
        BY <3>2 DEF Unserved, TooLarge
      <3>3. CASE NoGrammar(u, e) \/ Crashed(u, e) \/ Parsed(u, e)
        <4>1. e \in Tiers
          BY <3>1, <3>3, RouteFinds DEF NoGrammar, Crashed, Parsed, Serves
        <4>2. PICK made \in Made(e) :
                 \/ instances' = Cache!AfterGet(instances, e, made)
                 \/ /\ Cache!Got(instances, e, made) # NoInstance
                    /\ instances' = Cache!RecordFailure(Cache!AfterGet(instances, e, made), e)
          BY <3>3 DEF NoGrammar, Crashed, Parsed
        <4> QED BY <1>1, <4>1, <4>2
      <3> QED BY <3>1, <3>2, <3>3
    <2> QED BY <2>2, <2>3
  <1>5. ASSUME NEW u \in Uri, Completion(u) PROVE Cache!Next
    <2>1. PICK e, made : /\ e = Route(u) /\ e # NoEntry /\ made \in Made(e)
                         /\ instances' = Cache!AfterGet(instances, e, made)
      BY <1>5 DEF Completion, Serves
    <2>2. e \in Tiers
      BY <2>1, RouteFinds
    <2> QED BY <1>1, <2>1, <2>2
  <1>6. ASSUME RebuildRegistry PROVE Cache!Next
    <2>1. PICK m \in Manifest : m = disk.manifest
      BY DEF CacheSide, Disk
    <2>2. Range(Session \o Languages[m]) \subseteq Entry /\ Range(Global) \cup Range(workspace) \subseteq Entry
      BY TierEntries, TiersAreEntries DEF CacheSide, Tiers
    <2> QED BY <1>2, <1>6, <2>1, <2>2 DEF RebuildRegistry
  <1>7. CASE Initialize
    BY <1>6, <1>7 DEF Initialize
  <1>8. CASE Reported
    <2>1. PICK files : ManifestChanged \/ GrammarsChanged(files)
      BY <1>8 DEF Reported, DidChangeWatchedFiles
    <2>2. Range(Global) \cup Range(workspace) \subseteq Entry
      BY TiersAreEntries DEF CacheSide, Tiers
    <2> QED BY <1>2, <1>6, <2>1, <2>2 DEF ManifestChanged, GrammarsChanged
  <1> QED BY <1>3, <1>4, <1>5, <1>7, <1>8 DEF Next

(* Whatever the loop does with its instances, InstanceCache allows: what is *)
(* proved of the cache holds in the server.                                 *)
THEOREM InstancesAreACache == Spec => ImplementsInstanceCache
  <1>1. Init => Cache!Init
    BY DEF Init, Cache!Init
  <1> QED BY <1>1, ServerCorrect, CacheMoves, PTL DEF Spec, ImplementsInstanceCache, Cache!Spec

(* Of the loop's steps only rebuild_registry and a reported file release a  *)
(* key: every other use of an instance only ever adds to its failures.      *)
THEOREM QuarantineHolds == Spec => ReleaseNeedsReport
  <1> DEFINE Holds(e) ==
        Cache!Quarantined(instances, e) /\ ~Cache!Quarantined(instances, e)'
            => reports' # reports \/ session' # session
  <1>1. ServerInv /\ [Next]_vars => [\A e \in Entry : Holds(e)]_vars
    <2> SUFFICES ASSUME CacheSide, Next, NEW x \in Entry,
                        Cache!Quarantined(instances, x), ~Cache!Quarantined(instances, x)'
                 PROVE  reports' # reports \/ session' # session
      BY Sides
    <2> DEFINE k == Cache!KeyOf(x)
    <2>1. /\ k \in Cache!Key /\ instances \in Counted
          /\ instances.failures[k] >= QuarantineLimit /\ ~(instances'.failures[k] >= QuarantineLimit)
      BY DEF CacheSide, Cache!Key, Cache!Quarantined
    <2> HIDE DEF k
    <2>2. instances' # instances
      BY <2>1
    <2>3. ASSUME NEW e \in Tiers, Uses(e) PROVE FALSE
      <3>1. instances' \in Counted /\ instances'.failures[k] >= instances.failures[k]
        BY <2>1, <2>3 DEF Uses, Advances
      <3>2. instances.failures[k] \in Int /\ instances'.failures[k] \in Int /\ QuarantineLimit \in Int
        BY <2>1, <3>1, ServerAssumption DEF Counted
      <3> QED BY <2>1, <3>1, <3>2
    <2>4. CASE AnalyzeNext
      <3>1. PICK u : RunAnalysis(u)
        BY <2>4 DEF AnalyzeNext
      <3> QED BY <2>2, <2>3, <3>1, AnalysisUses
    <2>5. ASSUME NEW u \in Uri, Completion(u) PROVE FALSE
      <3>1. PICK e, made : /\ e = Route(u) /\ e # NoEntry /\ made \in Made(e)
                           /\ instances' = Cache!AfterGet(instances, e, made)
        BY <2>5 DEF Completion, Serves
      <3>2. e \in Tiers /\ Uses(e)
        BY <3>1, RouteFinds, GetUses
      <3> QED BY <2>3, <3>2
    <2>6. CASE Initialize
      BY <2>6 DEF Initialize
    <2>7. CASE Reported
      <3>1. PICK files \in SUBSET reports : files # {} /\ reports' = reports \ files
        BY <2>7 DEF Reported, DidChangeWatchedFiles
      <3> QED BY <3>1
    <2>8. ASSUME \/ BeginTurn \/ Timeout \/ Answer \/ Expire \/ Watch
                 \/ \E u \in Uri : DidClose(u)
                 \/ \E u \in Uri, text \in Text : DidOpen(u, text) \/ DidChange(u, text)
                 \/ \E f \in File : EditFile(f)
                 \/ \E m \in Manifest : EditManifest(m)
          PROVE  instances' = instances
      BY <2>8 DEF BeginTurn, Timeout, Answer, Expire, Watch, DidClose, DidOpen, DidChange, EditFile,
                  EditManifest, Written
    <2> QED BY <2>2, <2>4, <2>5, <2>6, <2>7, <2>8 DEF Next
  <1> QED BY ServerCorrect, <1>1, PTL DEF Spec, ReleaseNeedsReport
-----------------------------------------------------------------------------
(* What settles.                                                            *)

(* Of the entries of one time, those with one prefix are one.               *)
LEMMA OneByPrefix ==
    ASSUME NoneTwice, CacheSide, NEW e \in Tiers, NEW f \in Tiers, Cache!Prefix(e) = Cache!Prefix(f)
    PROVE  e = f
  <1>1. PICK m \in Manifest : workspace = <<>> \/ workspace = Session \o Languages[m]
    BY DEF CacheSide, Disk, IsTier
  <1>2. Tiers \subseteq Range(Global) \cup Range(Session) \cup Range(Languages[m])
    <2>1. CASE workspace = <<>>
      BY <2>1 DEF Tiers, Range
    <2>2. CASE workspace = Session \o Languages[m]
      BY <2>2, TierEntries DEF Tiers
    <2> QED BY <1>1, <2>1, <2>2
  <1> QED BY <1>2 DEF NoneTwice

LEMMA OneByKey ==
    ASSUME NoneTwice, CacheSide, NEW e \in Tiers, NEW inst, Sound(inst, Cache!KeyOf(e))
    PROVE  inst.entry = e
  <1>1. inst.entry \in Tiers /\ Cache!KeyOf(inst.entry) = Cache!KeyOf(e)
    BY DEF Sound
  <1>2. Cache!Prefix(inst.entry) = Cache!Prefix(e)
    BY <1>1 DEF Cache!KeyOf
  <1> QED BY <1>1, <1>2, OneByPrefix

(* What get returns is of the entry, and of its file as it is or as the     *)
(* client has yet to report it.                                             *)
LEMMA GotIsOfNow ==
    ASSUME NoneTwice, CacheSide, NEW e \in Tiers, NEW made \in Made(e),
           NEW inst, inst = Cache!Got(instances, e, made), inst # NoInstance
    PROVE  inst.entry = e /\ (Stale(inst) => Unreported(e))
  <1>1. CASE inst = made
    <2>1. made.entry = e /\ ~Stale(made)
      BY <1>1, TiersAreEntries, MadeIsFresh DEF CacheSide
    <2> QED BY <1>1, <2>1
  <1>2. CASE inst = instances.cache[Cache!KeyOf(e)]
    <2>1. e \in Entry /\ Cache!KeyOf(e) \in Cache!Key
      BY TiersAreEntries DEF CacheSide, Cache!Key
    <2>2. Sound(inst, Cache!KeyOf(e))
      BY <1>2, <2>1 DEF CacheSide, CacheSound
    <2>3. inst.entry = e
      BY <2>2, OneByKey
    <2> QED BY <2>2, <2>3 DEF Sound
  <1> QED BY <1>1, <1>2 DEF Cache!Got

LEMMA OfNow ==
    ASSUME NEW u, NEW of, of.text = docs[u].text, of.inst.entry = Route(u),
           Stale(of.inst) => Unreported(Route(u)), UNCHANGED <<workspace, docs, disk, reports, missed>>
    PROVE  IsOfNow(of, u)'
  <1>1. PICK e : e = Route(u)
    OBVIOUS
  <1>2. Route(u)' = e
    BY <1>1, RouteKeeps
  <1>3. (Stale(of.inst) => Unreported(e))'
    BY <1>1 DEF Stale, Unreported, Writes
  <1> QED BY <1>1, <1>2, <1>3 DEF IsOfNow

LEMMA FailureCounts ==
    ASSUME NEW I \in Counted, NEW e \in Entry
    PROVE  HasFailed(Cache!RecordFailure(I, e), e)
  <1>1. PICK k \in Cache!Key : k = Cache!KeyOf(e)
    BY DEF Cache!Key
  <1>2. I.failures[k] \in Nat
    BY ServerAssumption DEF Counted
  <1>3. Cache!RecordFailure(I, e).failures[k] = I.failures[k] + 1
    BY <1>1 DEF Cache!RecordFailure, Counted
  <1> QED BY <1>1, <1>2, <1>3 DEF HasFailed

(* A document's analysis is of its present text, by the entry that serves   *)
(* it, or says why there is none.                                           *)
LEMMA AnalysisIsFresh ==
    ASSUME NoneTwice, CacheSide, ResultSide, RoutesExplain, NEW u \in Open, RunAnalysis(u),
           UNCHANGED <<workspace, docs, disk, reports, missed>>
    PROVE  IsFresh(u)' /\ (Route(u) = NoEntry => analyses' = analyses)
  <1>1. u \in Uri /\ docs[u] # Nothing
    BY DEF Open
  <1>2. PICK e : /\ e = Route(u)
                 /\ Unserved(u, e) \/ TooLarge(u, e) \/ NoGrammar(u, e) \/ Crashed(u, e) \/ Parsed(u, e)
    BY <1>1 DEF RunAnalysis
  <1>3. Route(u)' = e
    BY <1>2, RouteKeeps
  <1>4. CASE Unserved(u, e)
    <2>1. analyses[u] = Nothing /\ (u \in published <=> shown[u].some)
      BY <1>1, <1>2, <1>4 DEF Unserved, RoutesExplain, ResultSide, DiagnosticsAccounted
    <2>2. ~shown'[u].some
      BY <1>1, <1>4, <2>1 DEF Unserved, Silence, ResultSide
    <2> QED BY <1>2, <1>3, <1>4, <2>1, <2>2 DEF Unserved, IsFresh
  <1>5. CASE TooLarge(u, e)
    <2>1. /\ e # NoEntry /\ docs[u].text \in Big /\ analyses'[u] = Nothing
          /\ shown'[u].some /\ shown'[u].of.text = docs[u].text /\ outcome'[u].how = "large"
      BY <1>1, <1>5 DEF TooLarge, ResultSide, Ended
    <2> QED BY <1>2, <1>3, <2>1 DEF IsFresh
  <1>6. CASE NoGrammar(u, e)
    <2>1. e # NoEntry /\ e \in Tiers /\ e \in Entry
      BY <1>2, <1>6, RouteFinds, TiersAreEntries DEF NoGrammar, Serves, CacheSide
    <2>2. CASE Cache!Quarantined(instances, e)
      <3>1. outcome'[u].how = "quarantined" /\ instances' = instances
        BY <1>1, <1>6, <2>2 DEF NoGrammar, ResultSide, Cache!AfterGet, Cache!NeedsBuild, Ended
      <3>2. Cache!Quarantined(instances, e)'
        BY <2>2, <3>1 DEF Cache!Quarantined
      <3> QED BY <1>2, <1>3, <2>1, <3>1, <3>2 DEF IsFresh, Cache!Quarantined
    <2>3. CASE ~Cache!Quarantined(instances, e)
      <3>1. outcome'[u] = Refused(u, e)
        BY <1>1, <1>6, <2>3 DEF NoGrammar, ResultSide
      <3>2. PICK of : of = [text |-> docs[u].text, inst |-> Attempt(e)]
        OBVIOUS
      <3>3. outcome'[u].how = "refused" /\ outcome'[u].of = of
        BY <3>1, <3>2 DEF Refused, Ended
      <3>4. of.text = docs[u].text /\ of.inst.entry = e /\ ~Stale(of.inst)
        BY <2>1, <3>2, AttemptIsFresh DEF CacheSide
      <3>5. IsOfNow(of, u)'
        BY <1>2, <3>4, OfNow
      <3>6. instances' = Cache!RecordFailure(instances, e)
        BY <1>6, <2>3 DEF NoGrammar, Cache!Got, Cache!AfterGet, Cache!NeedsBuild
      <3>7. HasFailed(instances', e)
        BY <2>1, <3>6, FailureCounts DEF CacheSide
      <3> QED BY <1>2, <1>3, <2>1, <3>3, <3>5, <3>7 DEF IsFresh
    <2> QED BY <2>2, <2>3
  <1>7. CASE Crashed(u, e)
    <2>1. e # NoEntry /\ e \in Tiers /\ e \in Entry
      BY <1>2, <1>7, RouteFinds, TiersAreEntries DEF Crashed, Serves, CacheSide
    <2>2. PICK made \in Made(e) :
             LET inst == Cache!Got(instances, e, made)
             IN  /\ inst # NoInstance
                 /\ instances' = Cache!RecordFailure(Cache!AfterGet(instances, e, made), e)
                 /\ outcome' = [outcome EXCEPT ![u] = Ended("crashed", [text |-> docs[u].text, inst |-> inst])]
      BY <1>7 DEF Crashed
    <2>3. PICK inst : inst = Cache!Got(instances, e, made)
      OBVIOUS
    <2>4. PICK of : of = [text |-> docs[u].text, inst |-> inst]
      OBVIOUS
    <2>5. outcome'[u].how = "crashed" /\ outcome'[u].of = of
      BY <1>1, <2>2, <2>3, <2>4 DEF ResultSide, Ended
    <2>6. of.text = docs[u].text /\ of.inst.entry = e /\ (Stale(of.inst) => Unreported(e))
      BY <2>1, <2>2, <2>3, <2>4, GotIsOfNow
    <2>7. IsOfNow(of, u)'
      BY <1>2, <2>6, OfNow
    <2>8. Cache!AfterGet(instances, e, made) \in Counted
      <3>1. made \in Build \cup {NoInstance}
        BY <2>1, MadeIsFresh DEF CacheSide
      <3> QED BY <2>1, <3>1, GetAdvances DEF Advances, CacheSide
    <2>9. HasFailed(instances', e)
      BY <2>1, <2>2, <2>8, FailureCounts
    <2> QED BY <1>2, <1>3, <2>1, <2>5, <2>7, <2>9 DEF IsFresh
  <1>8. CASE Parsed(u, e)
    <2>1. e # NoEntry /\ e \in Tiers
      BY <1>2, <1>8, RouteFinds DEF Parsed, Serves
    <2>2. PICK made \in Made(e), recovery \in Recovery :
             LET inst == Cache!Got(instances, e, made)
                 of   == [text |-> docs[u].text, inst |-> inst]
             IN  /\ inst # NoInstance
                 /\ shown' = [shown EXCEPT ![u] = [some |-> ErrorsOf(recovery) # <<>>, of |-> of]]
                 /\ analyses' = IF recovery.fatal # Nothing THEN analyses
                                ELSE [analyses EXCEPT ![u] = [version |-> docs[u].version, of |-> of]]
                 /\ outcome' = [outcome EXCEPT ![u] =
                                  Ended(IF recovery.fatal # Nothing THEN "failed" ELSE "served", of)]
      BY <1>8 DEF Parsed
    <2>3. PICK inst : inst = Cache!Got(instances, e, made)
      OBVIOUS
    <2>4. PICK of : of = [text |-> docs[u].text, inst |-> inst]
      OBVIOUS
    <2>5. of.text = docs[u].text /\ of.inst.entry = e /\ (Stale(of.inst) => Unreported(e))
      BY <2>1, <2>2, <2>3, <2>4, GotIsOfNow
    <2>6. IsOfNow(of, u)'
      BY <1>2, <2>5, OfNow
    <2>7. PICK how \in {"failed", "served"} :
             /\ outcome' = [outcome EXCEPT ![u] = Ended(how, of)]
             /\ how = "served" =>
                   analyses' = [analyses EXCEPT ![u] = [version |-> docs[u].version, of |-> of]]
      BY <2>2, <2>3, <2>4
    <2>8. /\ shown'[u].of = of /\ outcome'[u].how = how /\ outcome'[u].of = of
          /\ how = "served" => analyses'[u] = [version |-> docs[u].version, of |-> of]
      BY <1>1, <2>2, <2>3, <2>4, <2>7 DEF ResultSide, Ended
    <2>9. [version |-> docs[u].version, of |-> of] # Nothing
      <3>1. inst \in Build \cup {NoInstance}
        BY <2>1, <2>3, GetUses
      <3>2. docs[u] \in Doc
        BY <1>1 DEF ResultSide
      <3>3. [version |-> docs[u].version, of |-> of] \in Analysis
        BY <2>4, <3>1, <3>2 DEF Doc, Analysis, Analyzed
      <3> QED BY <3>3, ServerAssumption
    <2>10. how = "served" => IsCurrent(u)' /\ analyses'[u].of = of
      BY <1>1, <2>8, <2>9 DEF IsCurrent
    <2> QED BY <1>2, <1>3, <2>1, <2>6, <2>8, <2>10 DEF IsFresh
  <1> QED BY <1>2, <1>4, <1>5, <1>6, <1>7, <1>8

(* A step leaves what is said of an entry true: its quarantine stands, its  *)
(* failures are counted still, and a change of its file is reported still, or first told of.                *)
Spares(e) ==
    /\ Cache!Quarantined(instances, e) => Cache!Quarantined(instances', e)
    /\ HasFailed(instances, e) => HasFailed(instances', e)
    /\ Unreported(e) => Unreported(e)'
    /\ \A inst : inst.entry = e /\ Stale(inst)' /\ ~Stale(inst) => Unreported(e)'

(* A document nothing happens to stays fresh while its entry is spared.     *)
LEMMA FreshKept ==
    ASSUME NEW u \in Uri, IsFresh(u), UNCHANGED <<workspace, docs[u], analyses[u], shown[u], outcome[u]>>,
           NEW e, e = Route(u), e # NoEntry => Spares(e)
    PROVE  IsFresh(u)'
  <1>1. Route(u)' = e
    BY RouteKeeps
  <1>2. CASE e = NoEntry
    BY <1>1, <1>2 DEF IsFresh
  <1>3. ASSUME e # NoEntry, IsOfNow(outcome[u].of, u) PROVE IsOfNow(outcome[u].of, u)'
    <2>1. PICK of : of = outcome[u].of
      OBVIOUS
    <2>2. of.text = docs[u].text /\ of.inst.entry = e /\ (Stale(of.inst) => Unreported(e))
      BY <1>3, <2>1 DEF IsOfNow
    <2>3. Stale(of.inst)' => Unreported(e)'
      BY <1>3, <2>2 DEF Spares
    <2>4. IsOfNow(of, u)'
      BY <1>1, <2>2, <2>3 DEF IsOfNow
    <2> QED BY <2>1, <2>4
  <1>4. CASE e # NoEntry
    <2>1. /\ Cache!Quarantined(instances, e) => Cache!Quarantined(instances', e)
          /\ HasFailed(instances, e) => HasFailed(instances', e)
      BY <1>4 DEF Spares
    <2>2. IsCurrent(u) => IsCurrent(u)'
      BY DEF IsCurrent
    <2>3. PICK o : o = outcome[u] /\ o = outcome'[u]
      OBVIOUS
    <2>4. IsOfNow(o.of, u) => IsOfNow(o.of, u)'
      BY <1>3, <1>4, <2>3
    <2>5. Cache!Quarantined(instances', e) => Cache!Quarantined(instances, Route(u))'
      BY <1>1 DEF Cache!Quarantined
    <2> QED BY <1>1, <1>4, <2>1, <2>2, <2>3, <2>4, <2>5 DEF IsFresh
  <1> QED BY <1>2, <1>4

LEMMA SettledKept ==
    ASSUME SettledIsFresh, workspace' = workspace,
           \A u \in Uri : Settled(u)' =>
               /\ Settled(u) /\ UNCHANGED <<docs[u], analyses[u], shown[u], outcome[u]>>
               /\ \A e : e = Route(u) /\ e # NoEntry => Spares(e)
    PROVE  SettledIsFresh'
  <1> SUFFICES ASSUME NEW u \in Uri, Settled(u)' PROVE IsFresh(u)'
    BY DEF SettledIsFresh
  <1>1. IsFresh(u) /\ UNCHANGED <<docs[u], analyses[u], shown[u], outcome[u]>>
    BY DEF SettledIsFresh
  <1>2. PICK e : e = Route(u)
    OBVIOUS
  <1>3. e # NoEntry => Spares(e)
    BY <1>2
  <1> QED BY <1>1, <1>2, <1>3, FreshKept

(* A use of an instance takes no key out of quarantine, and no failure off  *)
(* its count.                                                               *)
CountHolds(I, J, e) ==
    /\ Cache!Quarantined(I, e) => Cache!Quarantined(J, e)
    /\ HasFailed(I, e) => HasFailed(J, e)

LEMMA UseHolds ==
    ASSUME CacheSide, NEW e, e \in Tiers, Uses(e), NEW f, f \in Tiers
    PROVE  CountHolds(instances, instances', f)
  <1> DEFINE k == Cache!KeyOf(f)
  <1>1. k \in Cache!Key
    BY TiersAreEntries DEF CacheSide, Cache!Key
  <1>2. /\ instances \in Counted /\ instances' \in Counted
        /\ instances'.failures[k] >= instances.failures[k]
    BY <1>1 DEF CacheSide, Uses, Advances
  <1> HIDE DEF k
  <1>3. instances.failures[k] \in Int /\ instances'.failures[k] \in Int /\ QuarantineLimit \in Int
    BY <1>1, <1>2, ServerAssumption DEF Counted
  <1>4. /\ instances.failures[k] >= QuarantineLimit => instances'.failures[k] >= QuarantineLimit
        /\ instances.failures[k] > 0 => instances'.failures[k] > 0
    BY <1>2, <1>3
  <1> QED BY <1>4 DEF k, CountHolds, Cache!Quarantined, HasFailed

(* Nor does the release of others.                                          *)
LEMMA ReleaseHolds ==
    ASSUME NoneTwice, CacheSide, NEW es \in SUBSET Tiers, NEW f \in Tiers, f \notin es
    PROVE  CountHolds(instances, Cache!Invalidate(instances, es), f)
  <1>1. Cache!KeyOf(f) \in Cache!Key
    BY TiersAreEntries DEF CacheSide, Cache!Key
  <1>2. \A e \in es : Cache!Prefix(f) # Cache!Prefix(e)
    BY OneByPrefix
  <1>3. Cache!Invalidate(instances, es).failures[Cache!KeyOf(f)] = instances.failures[Cache!KeyOf(f)]
    BY <1>1, <1>2 DEF Cache!Invalidate, Cache!KeyOf
  <1> QED BY <1>3 DEF CountHolds, Cache!Quarantined, HasFailed

(* What the client and the disk do to an entry.                             *)
LEMMA SparesIfTold ==
    ASSUME NEW e, instances' = instances, reports \subseteq reports', missed \subseteq missed',
           Writes(e)' = Writes(e) \/ Unreported(e)'
    PROVE  Spares(e)
  <1>1. Unreported(e) => Unreported(e)'
    BY DEF Unreported
  <1>2. ASSUME NEW inst, inst.entry = e, Stale(inst)', ~Stale(inst) PROVE Unreported(e)'
    BY <1>2 DEF Stale, Writes
  <1> QED BY <1>1, <1>2 DEF Spares

LEMMA SparesIfUsed ==
    ASSUME CacheSide, NEW f \in Tiers, instances' = instances \/ \E e \in Tiers : Uses(e),
           UNCHANGED <<disk, reports, missed>>
    PROVE  Spares(f)
  <1>1. CountHolds(instances, instances', f)
    BY UseHolds DEF CountHolds
  <1> QED BY <1>1 DEF CountHolds, Spares, Stale, Writes, Unreported

LEMMA EditSpares ==
    ASSUME disk \in Disk, NEW f \in File, EditFile(f), NEW e
    PROVE  Spares(e)
  <1>1. /\ disk' = [disk EXCEPT !.files[f] = @ + 1, !.edits = @ + 1] /\ instances' = instances
        /\ reports \subseteq reports' /\ missed \subseteq missed' /\ f \in reports' \cup missed'
    BY DEF EditFile, Written
  <1>2. Writes(e)' = Writes(e) \/ Unreported(e)'
    <2>1. CASE Source(e) = f
      BY <1>1, <2>1 DEF Unreported
    <2>2. CASE Source(e) # f
      BY <1>1, <2>2 DEF Writes, Disk
    <2> QED BY <2>1, <2>2
  <1> QED BY <1>1, <1>2, SparesIfTold

LEMMA FreshStep == NoneTwice /\ ServerInv /\ FreshInv /\ [Next]_vars => FreshInv'
  <1> SUFFICES ASSUME NoneTwice, QueueSide, CacheSide, ResultSide, RoutesExplain, SettledIsFresh, [Next]_vars
               PROVE  FreshInv'
    BY Sides DEF FreshInv
  (* Steps that leave the documents, their results and the queue alone.     *)
  <1>1. ASSUME UNCHANGED <<workspace, docs, analyses, shown, outcome>>, Range(queue) \subseteq Range(queue'),
               session' = "new" => session = "new", \A e \in Tiers : Spares(e)
        PROVE  FreshInv'
    <2>1. Open' = Open
      BY <1>1 DEF Open
    <2>2. RoutesExplain'
      BY <1>1, <2>1, RouteKeeps DEF RoutesExplain
    <2>3. \A u \in Uri : Settled(u)' => Settled(u)
      BY <1>1, <2>1 DEF Settled
    <2>4. SettledIsFresh'
      BY <1>1, <2>3, RouteFinds, SettledKept
    <2> QED BY <2>2, <2>4 DEF FreshInv
  <1>2. ASSUME UNCHANGED <<instances, disk, reports, missed>> PROVE \A e : Spares(e)
    BY <1>2, SparesIfTold DEF Writes
  <1>3. CASE BeginTurn \/ Timeout \/ Answer \/ Expire \/ Watch \/ UNCHANGED vars
    <2>1. /\ UNCHANGED <<workspace, docs, analyses, shown, outcome, queue, instances, disk, reports, missed>>
          /\ session' = "new" => session = "new"
      BY <1>3 DEF BeginTurn, Timeout, Answer, Expire, Watch, vars, results, client, loop
    <2> QED BY <1>1, <1>2, <2>1
  <1>4. CASE AnalyzeNext
    <2>1. RunAnalysis(Head(queue)) /\ queue' = Tail(queue) /\ batch > 0
          /\ UNCHANGED <<workspace, docs, session, disk, reports, missed>>
      BY <1>4 DEF AnalyzeNext, client
    <2>2. queue \in Seq(Uri) /\ Len(queue) \in Nat /\ Len(queue) > 0
      BY <2>1 DEF QueueSide
    <2>3. PICK h : h = Head(queue) /\ h \in Range(queue) /\ h \in Uri
      BY <2>2 DEF Range
    <2>4. h \in Open
      BY <2>3 DEF ResultSide, DiagnosticsAccounted
    <2>5. Range(queue) \subseteq Range(queue') \cup {h}
      <3> SUFFICES ASSUME NEW i \in 1..Len(queue), i # 1 PROVE queue[i] \in Range(queue')
        BY <2>2, <2>3 DEF Range
      <3>1. i - 1 \in DOMAIN queue' /\ queue'[i - 1] = queue[i]
        BY <2>1, <2>2
      <3> QED BY <3>1 DEF Range
    <2>6. IsFresh(h)' /\ (Route(h) = NoEntry => analyses' = analyses)
      BY <2>1, <2>3, <2>4, AnalysisIsFresh
    <2>7. PICK a, s, o : Leaves(h, a, s, o)
      BY <2>1, <2>3, <2>4, AnalysisLeaves
    <2>8. \A u \in Uri \ {h} : UNCHANGED <<docs[u], analyses[u], shown[u], outcome[u]>>
      BY <2>1, <2>7 DEF Leaves, ResultSide
    <2>9. \A e \in Tiers : Spares(e)
      BY <2>1, AnalysisUses, SparesIfUsed
    <2>10. Open' = Open
      BY <2>1 DEF Open
    <2>11. RoutesExplain'
      BY <2>1, <2>6, <2>8, <2>10, RouteKeeps DEF RoutesExplain
    <2>12. ASSUME NEW u \in Uri, Settled(u)' PROVE IsFresh(u)'
      <3>1. CASE u = h
        BY <2>6, <3>1
      <3>2. CASE u # h
        <4>1. IsFresh(u)
          BY <2>5, <2>10, <2>12, <3>2 DEF Settled, SettledIsFresh
        <4>2. PICK e : e = Route(u)
          OBVIOUS
        <4>3. e # NoEntry => Spares(e)
          BY <2>9, <4>2, RouteFinds
        <4> QED BY <2>1, <2>8, <3>2, <4>1, <4>2, <4>3, FreshKept
      <3> QED BY <3>1, <3>2
    <2> QED BY <2>11, <2>12 DEF FreshInv, SettledIsFresh
  <1>5. CASE Initialize
    <2>1. /\ session = "new" /\ session' = "initialized" /\ docs' = docs /\ analyses' = analyses
      BY <1>5 DEF Initialize, results
    <2>2. Open = {} /\ Open' = {}
      BY <2>1 DEF RoutesExplain, Open
    <2>3. \A u \in Uri : analyses[u] = Nothing
      BY <2>2 DEF ResultSide, DiagnosticsAccounted
    <2> QED BY <2>1, <2>2, <2>3 DEF FreshInv, RoutesExplain, SettledIsFresh, Settled
  <1>6. CASE Reported
    <2>1. PICK files : DidChangeWatchedFiles(files)
      BY <1>6 DEF Reported
    <2>2. /\ UNCHANGED <<docs, published, shown, outcome, session, disk>>
          /\ reports' = reports \ files /\ missed' = missed \ files
          /\ IF ManifestFile \in files THEN ManifestChanged ELSE GrammarsChanged(files)
      BY <2>1 DEF DidChangeWatchedFiles
    <2>3. Open' = Open /\ Open \in SUBSET Uri
      BY <2>2 DEF Open
    <2>4. CASE ManifestFile \in files
      <3>1. analyses' = [u \in Uri |-> Nothing] /\ Open \subseteq Range(queue')
        BY <2>2, <2>3, <2>4, ScheduledKeeps DEF ManifestChanged
      <3>2. \A u \in Uri : ~Settled(u)'
        BY <2>3, <3>1 DEF Settled
      <3> QED BY <2>2, <2>3, <3>1, <3>2 DEF FreshInv, RoutesExplain, SettledIsFresh
    <2>5. CASE ManifestFile \notin files
      <3>1. PICK es : /\ es = {e \in Tiers : IsWatched(e) /\ Source(e) \in files}
                      /\ instances' = Cache!Invalidate(instances, es)
                      /\ Schedule({u \in Open : Route(u) \in es})
                      /\ UNCHANGED <<workspace, analyses>>
        BY <2>2, <2>5 DEF GrammarsChanged, Tiers
      <3>2. Range(queue) \cup {u \in Open : Route(u) \in es} \subseteq Range(queue')
        BY <2>3, <3>1, ScheduledKeeps
      <3>3. ASSUME NEW e \in Tiers, e \notin es PROVE Spares(e)
        <4>1. Unreported(e) => Unreported(e)'
          BY <2>2, <3>1, <3>3 DEF Unreported
        <4>2. CountHolds(instances, instances', e)
          BY <3>1, <3>3, ReleaseHolds
        <4> QED BY <2>2, <4>1, <4>2 DEF CountHolds, Spares, Stale, Writes
      <3>4. ASSUME NEW u \in Uri, Settled(u)'
            PROVE  Settled(u) /\ \A e : e = Route(u) /\ e # NoEntry => Spares(e)
        <4>1. Settled(u) /\ Route(u) \notin es
          BY <2>3, <3>2, <3>4 DEF Settled
        <4> QED BY <3>3, <4>1, RouteFinds
      <3>5. SettledIsFresh'
        BY <2>2, <3>1, <3>4, SettledKept
      <3>6. RoutesExplain'
        BY <2>2, <2>3, <3>1, RouteKeeps DEF RoutesExplain
      <3> QED BY <3>5, <3>6 DEF FreshInv
    <2> QED BY <2>4, <2>5
  <1>7. ASSUME NEW u \in Uri, DidClose(u) PROVE FreshInv'
    <2>1. /\ docs' = [docs EXCEPT ![u] = Nothing] /\ analyses' = [analyses EXCEPT ![u] = Nothing]
          /\ shown' = [shown EXCEPT ![u] = Silence] /\ outcome' = [outcome EXCEPT ![u] = Ended("none", Nothing)]
          /\ UNCHANGED <<workspace, instances, session, disk, reports, missed>>
          /\ Range(queue) \ {u} \subseteq Range(queue')
      BY <1>7, UnscheduledKeeps DEF DidClose, client
    <2>2. Open' = Open \ {u}
      BY <2>1 DEF Open, ResultSide
    <2>3. \A x \in Uri : Settled(x)' => x # u /\ Settled(x)
      BY <2>1, <2>2 DEF Settled
    <2>4. SettledIsFresh'
      BY <1>2, <2>1, <2>3, SettledKept
    <2>5. RoutesExplain'
      BY <2>1, <2>2, RouteKeeps DEF RoutesExplain, ResultSide
    <2> QED BY <2>4, <2>5 DEF FreshInv
  <1>8. ASSUME NEW u \in Uri, Completion(u) PROVE FreshInv'
    <2>1. PICK e, made : /\ e = Route(u) /\ e # NoEntry /\ made \in Made(e)
                         /\ instances' = Cache!AfterGet(instances, e, made)
      BY <1>8 DEF Completion, Serves
    <2>2. e \in Tiers /\ Uses(e)
      BY <2>1, RouteFinds, GetUses
    <2>3. UNCHANGED <<workspace, docs, queue, results, client>>
      BY <1>8 DEF Completion
    <2>4. \A f \in Tiers : Spares(f)
      BY <2>2, <2>3, SparesIfUsed DEF client
    <2> QED BY <1>1, <2>3, <2>4 DEF results, client
  <1>9. ASSUME NEW u \in Uri, NEW doc, session # "new", docs' = [docs EXCEPT ![u] = doc],
               analyses' = analyses \/ analyses' = [analyses EXCEPT ![u] = Nothing],
               Schedule({u}), UNCHANGED <<workspace, instances, shown, outcome, client>>
        PROVE  FreshInv'
    <2>1. UNCHANGED <<session, disk, reports, missed>>
      BY <1>9 DEF client
    <2>2. Range(queue) \cup {u} \subseteq Range(queue')
      BY <1>9, ScheduledKeeps
    <2>3. \A x \in Uri \ {u} : UNCHANGED <<docs[x], analyses[x], shown[x], outcome[x]>>
      BY <1>9 DEF ResultSide
    <2>4. \A x \in Uri : Settled(x)' => x # u /\ Settled(x)
      BY <2>2, <2>3 DEF Settled, Open
    <2>5. SettledIsFresh'
      BY <1>2, <1>9, <2>1, <2>3, <2>4, SettledKept
    <2>6. RoutesExplain'
      BY <1>9, <2>1, RouteKeeps DEF RoutesExplain, ResultSide
    <2> QED BY <2>5, <2>6 DEF FreshInv
  <1>10. ASSUME NEW u \in Uri, NEW text \in Text, DidOpen(u, text) PROVE FreshInv'
    BY <1>9, <1>10 DEF DidOpen, results
  <1>11. ASSUME NEW u \in Uri, NEW text \in Text, DidChange(u, text) PROVE FreshInv'
    <2>1. CASE docs[u] = Nothing
      <3>1. /\ UNCHANGED <<workspace, docs, analyses, shown, outcome, queue, instances, session, disk, reports, missed>>
        BY <1>11, <2>1 DEF DidChange, client
      <3> QED BY <1>1, <1>2, <3>1
    <2>2. CASE docs[u] # Nothing
      BY <1>9, <1>11, <2>2 DEF DidChange
    <2> QED BY <2>1, <2>2
  <1>12. ASSUME NEW f \in File, EditFile(f) PROVE FreshInv'
    <2>1. UNCHANGED <<workspace, docs, queue, results, session>>
      BY <1>12 DEF EditFile, Written, loop
    <2>2. \A e : Spares(e)
      BY <1>12, EditSpares DEF CacheSide
    <2> QED BY <1>1, <2>1, <2>2 DEF results
  <1>13. ASSUME NEW m \in Manifest, EditManifest(m) PROVE FreshInv'
    <2>1. /\ UNCHANGED <<workspace, docs, queue, results, session, instances>>
          /\ reports \subseteq reports' /\ missed \subseteq missed' /\ disk'.files = disk.files
      BY <1>13 DEF EditManifest, Written, loop, CacheSide, Disk
    <2>2. \A e : Spares(e)
      BY <2>1, SparesIfTold DEF Writes
    <2> QED BY <1>1, <2>1, <2>2 DEF results
  <1> QED BY <1>3, <1>4, <1>5, <1>6, <1>7, <1>8, <1>10, <1>11, <1>12, <1>13 DEF Next

LEMMA FreshInit == Init => FreshInv
  BY DEF Init, FreshInv, RoutesExplain, SettledIsFresh, Settled, Open

(* Once nothing is left to run for a document, its last analysis was of its *)
(* present text and entry and of the grammar file as last reported: shown,  *)
(* if it was published, and counted against the entry, if the grammar was   *)
(* refused or crashed; where the entries declared at one time can be told   *)
(* apart by what the cache's keys hold.                                     *)
THEOREM SettledCorrect == NoneTwice /\ Spec => []FreshInv
  <1> SUFFICES ASSUME NoneTwice PROVE Spec => []FreshInv
    OBVIOUS
  <1>1. FreshInv /\ ServerInv /\ [Next]_vars => FreshInv'
    BY FreshStep
  <1> QED BY <1>1, FreshInit, ServerCorrect, PTL DEF Spec

(* Debounce, run_analysis and reload together: nothing settles with its     *)
(* last analysis of an earlier text, route or grammar file.  (What a        *)
(* refused or crashed one left on screen is of the last published one.)     *)
THEOREM SettledShowsItsOwn == NoneTwice /\ Spec => []SettledIsFresh
  <1>1. FreshInv => SettledIsFresh
    BY DEF FreshInv
  <1> QED BY SettledCorrect, <1>1, PTL
=============================================================================
