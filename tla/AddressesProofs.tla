--------------------------- MODULE AddressesProofs ---------------------------
(* What paths are, of any names: what normalizing, trimming and counting    *)
(* make of them, which folders a path is inside of, and what is kept of a   *)
(* sequence. The provers have no induction over data, so each of these is   *)
(* counted by a function over the numbers, and facts about it are by        *)
(* induction over those, told with sets.                                    *)
EXTENDS Addresses, TLAPS, FiniteSetTheorems, SequenceTheorems, NaturalsInduction, WellFoundedInduction

(* Induction over the numbers, told with sets.                              *)
Below == {pair \in Nat \X Nat : pair[1] < pair[2]}

LEMMA Least ==
    ASSUME NEW T \in SUBSET Nat, T # {}
    PROVE  \E n \in T : \A m \in T : n <= m
  <1>1. IsWellFoundedOn(Below, Nat)
    BY NatLessThanWellFounded DEF OpToRel, Below
  <1>2. PICK n \in T : \A m \in T : ~(<<m, n>> \in Below)
    BY <1>1, WFMin
  <1>3. ASSUME NEW m \in T PROVE n <= m
    <2>1. m \in Nat /\ n \in Nat /\ (m < n => <<m, n>> \in Below)
      BY DEF Below
    <2> QED BY <1>2, <2>1
  <1> QED BY <1>3

LEMMA Induction ==
    ASSUME NEW T \in SUBSET Nat, 0 \in T, \A n \in T : n + 1 \in T
    PROVE  T = Nat
  <1> SUFFICES ASSUME Nat \ T # {} PROVE FALSE
    OBVIOUS
  <1>1. PICK x \in Nat \ T : \A y \in Nat \ T : x <= y
    BY Least
  <1>2. x - 1 \in Nat /\ x - 1 \notin Nat \ T
    BY <1>1
  <1> QED BY <1>1, <1>2

(* Sequences put one after the other: each element of what FlattenSeq       *)
(* counts with is the one before and the next sequence.                     *)
Joined(ss, flat, i) == IF i = 1 THEN ss[i] ELSE flat[i - 1] \o ss[i]

(* The function FlattenSeq counts with is defined.                          *)
LEMMA FlatIsDefined ==
    ASSUME NEW S, NEW ss \in Seq(Seq(S)), ss # <<>>
    PROVE  \E flat : /\ flat = [i \in 1..Len(ss) |-> Joined(ss, flat, i)]
                     /\ FlattenSeq(ss) = flat[Len(ss)]
  <1> DEFINE IsFlat(f, m) == f = [i \in 1..m |-> Joined(ss, f, i)]
             T == {m \in Nat : \E f : IsFlat(f, m)}
  <1>1. 0 \in T
    <2>1. IsFlat([i \in 1..0 |-> <<>>], 0)
      OBVIOUS
    <2> QED BY <2>1
  <1>2. ASSUME NEW m \in T PROVE m + 1 \in T
    <2>1. PICK f : IsFlat(f, m)
      OBVIOUS
    <2> DEFINE g == [i \in 1..(m + 1) |-> IF i = m + 1 THEN Joined(ss, f, i) ELSE f[i]]
    <2>2. \A i \in 1..m : g[i] = f[i]
      OBVIOUS
    <2>3. \A i \in 1..m : f[i] = Joined(ss, f, i)
      BY <2>1
    <2>4. \A i \in 1..(m + 1) : Joined(ss, g, i) = Joined(ss, f, i)
      <3> TAKE i \in 1..(m + 1)
      <3> HIDE DEF g
      <3>1. CASE i = 1
        BY <3>1 DEF Joined
      <3>2. CASE i # 1
        <4>1. i - 1 \in 1..m
          BY <3>2
        <4>2. g[i - 1] = f[i - 1]
          BY <2>2, <4>1
        <4> QED BY <4>2 DEF Joined
      <3> QED BY <3>1, <3>2
    <2>5. \A i \in 1..(m + 1) : g[i] = Joined(ss, g, i)
      <3> TAKE i \in 1..(m + 1)
      <3>1. CASE i = m + 1
        BY <3>1, <2>4
      <3>2. CASE i \in 1..m
        BY <3>2, <2>2, <2>3, <2>4
      <3> QED BY <3>1, <3>2
    <2>6. IsFlat(g, m + 1)
      BY <2>5
    <2> HIDE DEF IsFlat, g
    <2>7. m + 1 \in Nat /\ \E h : IsFlat(h, m + 1)
      BY <2>6
    <2> QED BY <2>7
  <1>3. T = Nat
    BY <1>1, <1>2, Induction
  <1>4. \E f : IsFlat(f, Len(ss))
    <2>1. Len(ss) \in T
      BY <1>3
    <2> HIDE DEF IsFlat
    <2> QED BY <2>1
  <1> DEFINE flat == CHOOSE f : IsFlat(f, Len(ss))
  <1>5. IsFlat(flat, Len(ss))
    BY <1>4
  <1>6. FlattenSeq(ss) = flat[Len(ss)]
    BY DEF FlattenSeq, Joined
  <1> QED BY <1>5, <1>6

(* What is put one after the other has all their elements, and no others.   *)
LEMMA FlatHasAll ==
    ASSUME NEW S, NEW ss \in Seq(Seq(S))
    PROVE  /\ FlattenSeq(ss) \in Seq(S)
           /\ Range(FlattenSeq(ss)) = UNION {Range(ss[i]) : i \in DOMAIN ss}
  <1>1. CASE ss = <<>>
    <2>1. FlattenSeq(ss) = <<>>
      BY <1>1 DEF FlattenSeq
    <2>2. DOMAIN ss = {} /\ Range(<<>>) = {} /\ <<>> \in Seq(S)
      BY <1>1 DEF Range
    <2> QED BY <2>1, <2>2
  <1>2. CASE ss # <<>>
    <2>1. PICK flat : /\ flat = [i \in 1..Len(ss) |-> Joined(ss, flat, i)]
                      /\ FlattenSeq(ss) = flat[Len(ss)]
      BY <1>2, FlatIsDefined
    <2>2. \A i \in 1..Len(ss) : flat[i] = Joined(ss, flat, i)
      BY <2>1
    <2> DEFINE All(n) == UNION {Range(ss[i]) : i \in 1..n}
               Holds(n) == flat[n] \in Seq(S) /\ Range(flat[n]) = All(n)
               T == {m \in Nat : m + 1 <= Len(ss) => Holds(m + 1)}
    <2>3. Holds(1)
      <3>1. 1 \in 1..Len(ss) /\ ss[1] \in Seq(S) /\ 1..1 = {1}
        BY <1>2
      <3>2. flat[1] = ss[1]
        BY <2>2, <3>1 DEF Joined
      <3> QED BY <3>1, <3>2
    <2>4. ASSUME NEW m \in Nat, Holds(m + 1), m + 2 <= Len(ss) PROVE Holds(m + 2)
      <3>1. m + 2 \in 1..Len(ss) /\ m + 2 # 1 /\ (m + 2) - 1 = m + 1 /\ 1..(m + 2) = 1..(m + 1) \cup {m + 2}
        BY <2>4
      <3>2. PICK a, b : a = flat[m + 1] /\ b = ss[m + 2]
        OBVIOUS
      <3>a. flat[m + 2] = Joined(ss, flat, m + 2)
        BY <2>2, <3>1
      <3>b. flat[m + 2] = a \o b
        BY <3>1, <3>2, <3>a DEF Joined
      <3>3. flat[m + 2] = a \o b /\ a \in Seq(S) /\ b \in Seq(S)
        BY <2>4, <3>1, <3>2, <3>b
      <3>4. a \o b \in Seq(S) /\ Range(a \o b) = Range(a) \cup Range(b)
        BY <3>3, RangeConcatenation
      <3>5. All(m + 2) = All(m + 1) \cup Range(b)
        BY <3>1, <3>2
      <3> HIDE DEF All
      <3> QED BY <2>4, <3>2, <3>3, <3>4, <3>5
    <2> HIDE DEF Holds
    <2>5. 0 \in T
      BY <2>3
    <2>6. ASSUME NEW m \in T PROVE m + 1 \in T
      <3> SUFFICES ASSUME m + 2 <= Len(ss) PROVE Holds(m + 2)
        OBVIOUS
      <3>1. m \in Nat /\ Holds(m + 1)
        OBVIOUS
      <3> QED BY <2>4, <3>1
    <2>7. T = Nat
      BY <2>5, <2>6, Induction
    <2>8. Len(ss) - 1 \in Nat /\ (Len(ss) - 1) + 1 = Len(ss) /\ DOMAIN ss = 1..Len(ss)
      BY <1>2
    <2>9. Holds(Len(ss))
      <3>1. PICK k \in T : k = Len(ss) - 1
        BY <2>7, <2>8
      <3>2. k + 1 = Len(ss) /\ k + 1 <= Len(ss)
        BY <2>8, <3>1
      <3> QED BY <3>1, <3>2
    <2> QED BY <2>1, <2>8, <2>9 DEF Holds
  <1> QED BY <1>1, <1>2

(* The greatest of some of the first numbers, as the folds of the library   *)
(* choose it.                                                               *)
LEMMA MaxIs ==
    ASSUME NEW N \in Nat, NEW s \in SUBSET (1..N), s # {}
    PROVE  Max(s) \in s /\ \A y \in s : y <= Max(s)
  <1> DEFINE T == {N - x : x \in s}
  <1>0. \A x \in s : x \in 1..N /\ x \in Nat /\ N - x \in Nat
    OBVIOUS
  <1>1. T \in SUBSET Nat /\ T # {}
    BY <1>0
  <1>2. PICK n \in T : \A m \in T : n <= m
    BY <1>1, Least
  <1>3. PICK x \in s : n = N - x
    OBVIOUS
  <1>4. ASSUME NEW y \in s PROVE y <= x
    <2>1. N - y \in T
      OBVIOUS
    <2>2. N - x <= N - y /\ x \in Nat /\ y \in Nat
      <3>1. x \in Nat /\ y \in Nat
        BY <1>0
      <3> HIDE DEF T
      <3> QED BY <1>2, <1>3, <2>1, <3>1
    <2> QED BY ONLY <2>2, N \in Nat
  <1>5. \E z \in s : \A y \in s : z >= y
    BY <1>4
  <1>6. Max(s) \in s /\ \A y \in s : Max(s) >= y
    BY <1>5 DEF Max
  <1>7. Max(s) \in Nat /\ \A y \in s : y \in Nat
    BY <1>0, <1>6
  <1> QED BY <1>6, <1>7

(* A fold takes the greatest place of a set last; there is one such         *)
(* function, by induction over how long the sequence is.                    *)
IsFold(it, S, N, base, g) ==
    /\ it \in [SUBSET (1..N) -> S] /\ it[{}] = base
    /\ \A s \in SUBSET (1..N) : s # {} => it[s] = g[Max(s)][it[s \ {Max(s)}]]

(* Folds are defined whatever their step is.                                *)
LEMMA FoldIsDefined ==
    ASSUME NEW S, NEW base \in S, NEW N \in Nat, NEW g \in [1..N -> [S -> S]]
    PROVE  \E it : IsFold(it, S, N, base, g)
  <1> DEFINE Is(it, m) == IsFold(it, S, m, base, g)
             T == {m \in Nat : m <= N => \E it : Is(it, m)}
  <1>1. 0 \in T
    <2> DEFINE it == [s \in SUBSET (1..0) |-> base]
    <2>1. 1..0 = {} /\ {} \in SUBSET (1..0) /\ \A s \in SUBSET (1..0) : s = {}
      OBVIOUS
    <2>2. it \in [SUBSET (1..0) -> S] /\ it[{}] = base
      BY <2>1
    <2>3. \A s \in SUBSET (1..0) : s # {} => it[s] = g[Max(s)][it[s \ {Max(s)}]]
      BY <2>1
    <2>4. Is(it, 0)
      BY <2>2, <2>3 DEF IsFold
    <2> HIDE DEF Is, it
    <2> QED BY <2>4
  <1>2. ASSUME NEW m \in T PROVE m + 1 \in T
    <2> SUFFICES ASSUME m + 1 <= N PROVE \E it : Is(it, m + 1)
      OBVIOUS
    <2>0. m \in Nat /\ (m <= N => \E it : Is(it, m))
      OBVIOUS
    <2>a. m <= N
      BY <2>0
    <2>1. PICK f : Is(f, m)
      BY <2>0, <2>a
    <2> HIDE DEF T
    <2>2. m \in Nat /\ m + 1 \in 1..N /\ 1..(m + 1) = 1..m \cup {m + 1} /\ m + 1 \notin 1..m /\ 1..m \subseteq 1..N
      BY <2>0, <2>a
    <2> DEFINE h == [s \in SUBSET (1..(m + 1)) |-> IF m + 1 \in s THEN g[m + 1][f[s \ {m + 1}]] ELSE f[s]]
    <2>3. f \in [SUBSET (1..m) -> S] /\ f[{}] = base
          /\ \A s \in SUBSET (1..m) : s # {} => f[s] = g[Max(s)][f[s \ {Max(s)}]]
      BY <2>1 DEF IsFold
    <2>4. g[m + 1] \in [S -> S]
      BY <2>2
    <2>5. ASSUME NEW s \in SUBSET (1..(m + 1)) PROVE h[s] \in S
      <3>1. CASE m + 1 \in s
        <4>1. s \ {m + 1} \in SUBSET (1..m)
          BY <2>2
        <4>2. f[s \ {m + 1}] \in S
          BY <2>3, <4>1
        <4> QED BY <2>4, <3>1, <4>2
      <3>2. CASE m + 1 \notin s
        <4>1. s \in SUBSET (1..m)
          BY <2>2, <3>2
        <4> QED BY <2>3, <3>2, <4>1
      <3> QED BY <3>1, <3>2
    <2>6. ASSUME NEW s \in SUBSET (1..(m + 1)), s # {} PROVE h[s] = g[Max(s)][h[s \ {Max(s)}]]
      <3>0. m + 1 \in Nat /\ Max(s) \in s /\ \A y \in s : y <= Max(s)
        <4>1. m + 1 \in Nat
          BY <2>2
        <4> HIDE DEF T, h
        <4> QED BY <2>6, <4>1, MaxIs
      <3>1. CASE m + 1 \in s
        <4>1. Max(s) = m + 1
          <5>1. Max(s) \in 1..(m + 1) /\ m + 1 <= Max(s)
            BY <3>0, <3>1
          <5> QED BY <2>2, <5>1
        <4>2. s \ {m + 1} \in SUBSET (1..m) /\ s \ {m + 1} \in SUBSET (1..(m + 1)) /\ m + 1 \notin s \ {m + 1}
          BY <2>2
        <4>3. h[s \ {m + 1}] = f[s \ {m + 1}]
          BY <4>2
        <4>4. h[s] = g[m + 1][f[s \ {m + 1}]]
          BY <3>1
        <4> HIDE DEF h
        <4> QED BY <4>1, <4>3, <4>4
      <3>2. CASE m + 1 \notin s
        <4>1. s \in SUBSET (1..m) /\ s \ {Max(s)} \in SUBSET (1..m)
              /\ s \ {Max(s)} \in SUBSET (1..(m + 1)) /\ m + 1 \notin s \ {Max(s)}
          BY <2>2, <3>2
        <4>2. h[s] = f[s] /\ h[s \ {Max(s)}] = f[s \ {Max(s)}]
          BY <3>2, <4>1
        <4>3. f[s] = g[Max(s)][f[s \ {Max(s)}]]
          BY <2>3, <2>6, <4>1
        <4> HIDE DEF h
        <4> QED BY <4>2, <4>3
      <3> QED BY <3>1, <3>2
    <2>7. h[{}] = base
      BY <2>2, <2>3
    <2>8. h \in [SUBSET (1..(m + 1)) -> S]
      BY <2>5
    <2> HIDE DEF h
    <2>9. Is(h, m + 1)
      BY <2>6, <2>7, <2>8 DEF IsFold
    <2> HIDE DEF Is
    <2> QED BY <2>9
  <1>3. T = Nat
    <2> HIDE DEF T
    <2>1. T \in SUBSET Nat
      BY DEF T
    <2> QED BY <1>1, <1>2, <2>1, Induction
  <1>4. \E it : Is(it, N)
    <2>1. N \in T
      BY <1>3
    <2> HIDE DEF Is
    <2> QED BY <2>1
  <1> QED BY <1>4
-----------------------------------------------------------------------------
(* Normalized takes a path a name at a time.                                *)
StepOf(out, name) ==
    CASE name \in {"", "."} -> out
      [] name = ".."        -> IF out = <<>> THEN out ELSE Front(out)
      [] OTHER              -> Append(out, name)

(* What a name makes of a path is a path.                                   *)
LEMMA StepIsTyped ==
    ASSUME NEW S, NEW out \in Seq(S), NEW name \in S
    PROVE  StepOf(out, name) \in Seq(S)
  <1>1. out # <<>> => Front(out) \in Seq(S)
    BY DEF Front
  <1>2. Append(out, name) \in Seq(S)
    OBVIOUS
  <1> QED BY <1>1, <1>2 DEF StepOf

(* Normalized is the last of the paths that the names make, one after the   *)
(* other.                                                                   *)
LEMMA NormalizedBySteps ==
    ASSUME NEW S, NEW path \in Seq(S)
    PROVE  \E out \in [0..Len(path) -> Seq(S)] :
              /\ out[0] = <<>>
              /\ \A n \in 1..Len(path) : out[n] = StepOf(out[n - 1], path[n])
              /\ Normalized(path) = out[Len(path)]
  <1> DEFINE IsIter(it) == it = [s \in SUBSET (DOMAIN path) |->
                                    IF s = {} THEN <<>> ELSE StepOf(it[s \ {Max(s)}], path[Max(s)])]
             g == [n \in 1..Len(path) |-> [out \in Seq(S) |-> StepOf(out, path[n])]]
  <1>0. PICK N : N = Len(path) /\ N \in Nat /\ DOMAIN path = 1..N /\ \A n \in 1..N : path[n] \in S
    OBVIOUS
  <1>1. g \in [1..N -> [Seq(S) -> Seq(S)]]
    BY <1>0, StepIsTyped
  <1>2. PICK it \in [SUBSET (1..N) -> Seq(S)] :
              /\ it[{}] = <<>>
              /\ \A s \in SUBSET (1..N) : s # {} => it[s] = g[Max(s)][it[s \ {Max(s)}]]
    <2>1. <<>> \in Seq(S) /\ N \in Nat /\ g \in [1..N -> [Seq(S) -> Seq(S)]]
      BY <1>0, <1>1
    <2>2. PICK Out, none, h : Out = Seq(S) /\ none = <<>> /\ h = g
      OBVIOUS
    <2> HIDE DEF g
    <2>3. none \in Out /\ N \in Nat /\ h \in [1..N -> [Out -> Out]]
      BY <2>1, <2>2
    <2>4. \E it : IsFold(it, Out, N, none, h)
      BY ONLY <2>3, FoldIsDefined
    <2> QED BY <2>2, <2>4 DEF IsFold
  <1>3. ASSUME NEW s \in SUBSET (1..N), s # {} PROVE it[s] = StepOf(it[s \ {Max(s)}], path[Max(s)])
    <2>1. Max(s) \in 1..N /\ it[s \ {Max(s)}] \in Seq(S)
      BY <1>0, <1>2, <1>3, MaxIs
    <2>2. it[s] = g[Max(s)][it[s \ {Max(s)}]]
      BY <1>2, <1>3
    <2> QED BY <1>0, <2>1, <2>2
  <1>4. IsIter(it)
    BY <1>0, <1>2, <1>3
  <1> DEFINE one == CHOOSE f : IsIter(f)
  <1>5. IsIter(one)
    BY <1>4
  <1>6. Normalized(path) = one[DOMAIN path]
    BY DEF Normalized, FoldLeft, MapThenFoldSet, StepOf
  <1>7. \A s \in SUBSET (1..N) : one[s] = IF s = {} THEN <<>> ELSE StepOf(one[s \ {Max(s)}], path[Max(s)])
    BY <1>0, <1>5
  <1> DEFINE out == [n \in 0..N |-> one[1..n]]
  <1> HIDE DEF one, IsIter, g
  <1>8. out[0] = <<>>
    <2>1. 1..0 = {}
      OBVIOUS
    <2>2. out[0] = one[{}]
      BY <1>0, <2>1
    <2> QED BY <1>7, <2>2
  <1>9. ASSUME NEW n \in 1..N PROVE n - 1 \in 0..N /\ out[n] = StepOf(out[n - 1], path[n])
    <2>1. 1..n \in SUBSET (1..N) /\ n \in 1..n /\ n - 1 \in 0..N /\ n \in 0..N
      BY <1>0
    <2>2. Max(1..n) \in 1..n /\ n <= Max(1..n)
      BY <1>0, <2>1, MaxIs
    <2>3. Max(1..n) = n /\ 1..n # {} /\ (1..n) \ {n} = 1..(n - 1)
      BY <2>1, <2>2
    <2>4. one[1..n] = StepOf(one[1..(n - 1)], path[n])
      BY <1>7, <2>1, <2>3
    <2>5. out[n] = one[1..n] /\ out[n - 1] = one[1..(n - 1)]
      BY <2>1
    <2> QED BY <2>1, <2>4, <2>5
  <1> DEFINE T == {n \in Nat : n <= N => out[n] \in Seq(S)}
  <1>10. T = Nat
    <2>1. 0 \in T
      <3> HIDE DEF out
      <3>1. <<>> \in Seq(S)
        OBVIOUS
      <3> QED BY <1>8, <3>1
    <2>2. ASSUME NEW n \in T PROVE n + 1 \in T
      <3> SUFFICES ASSUME n + 1 <= N PROVE out[n + 1] \in Seq(S)
        OBVIOUS
      <3>1. n + 1 \in 1..N /\ (n + 1) - 1 = n /\ n <= N
        BY <1>0
      <3> HIDE DEF out
      <3>2. out[n] \in Seq(S) /\ path[n + 1] \in S
        BY <1>0, <3>1
      <3>3. out[n + 1] = StepOf(out[n], path[n + 1])
        BY <1>9, <3>1
      <3>4. StepOf(out[n], path[n + 1]) \in Seq(S)
        BY <3>2, StepIsTyped
      <3> QED BY <3>3, <3>4
    <2> HIDE DEF T
    <2>3. T \in SUBSET Nat
      BY DEF T
    <2> QED BY <2>1, <2>2, <2>3, Induction
  <1>11. out \in [0..N -> Seq(S)]
    <2>1. \A n \in 0..N : n \in T
      <3> HIDE DEF T
      <3> QED BY <1>0, <1>10
    <2>2. ASSUME NEW n \in 0..N PROVE out[n] \in Seq(S)
      <3>1. n \in T /\ n <= N
        <4> HIDE DEF T
        <4> QED BY <1>0, <2>1
      <3> HIDE DEF out
      <3> QED BY <3>1
    <2>3. out = [n \in 0..N |-> out[n]]
      OBVIOUS
    <2> HIDE DEF out
    <2> QED BY <2>2, <2>3
  <1>12. Normalized(path) = out[N]
    BY <1>0, <1>6
  <1> HIDE DEF out
  <1> QED BY <1>0, <1>8, <1>9, <1>11, <1>12

(* One name more at the end of a path is one step more.                     *)
LEMMA NormalizedAppend ==
    ASSUME NEW S, NEW path \in Seq(S), NEW name \in S
    PROVE  /\ Normalized(path) \in Seq(S)
           /\ Normalized(Append(path, name)) = StepOf(Normalized(path), name)
  <1>1. PICK N, longer : N = Len(path) /\ longer = Append(path, name)
    OBVIOUS
  <1>2. /\ N \in Nat /\ longer \in Seq(S) /\ Len(longer) = N + 1 /\ longer[N + 1] = name
        /\ \A n \in 1..N : longer[n] = path[n]
    BY <1>1
  <1>3. PICK f \in [0..N -> Seq(S)] :
              /\ f[0] = <<>>
              /\ \A n \in 1..N : f[n] = StepOf(f[n - 1], path[n])
              /\ Normalized(path) = f[N]
    BY <1>1, NormalizedBySteps
  <1>4. PICK h \in [0..(N + 1) -> Seq(S)] :
              /\ h[0] = <<>>
              /\ \A n \in 1..(N + 1) : h[n] = StepOf(h[n - 1], longer[n])
              /\ Normalized(longer) = h[N + 1]
    <2>1. \E h \in [0..Len(longer) -> Seq(S)] :
              /\ h[0] = <<>>
              /\ \A n \in 1..Len(longer) : h[n] = StepOf(h[n - 1], longer[n])
              /\ Normalized(longer) = h[Len(longer)]
      BY <1>2, NormalizedBySteps
    <2> QED BY <1>2, <2>1
  <1> DEFINE T == {n \in Nat : n <= N => h[n] = f[n]}
  <1>5. T = Nat
    <2>1. 0 \in T
      BY <1>3, <1>4
    <2>2. ASSUME NEW n \in T PROVE n + 1 \in T
      <3> SUFFICES ASSUME n + 1 <= N PROVE h[n + 1] = f[n + 1]
        OBVIOUS
      <3>0. n \in Nat /\ n <= N /\ h[n] = f[n]
        BY <1>2
      <3> HIDE DEF T
      <3>1. n + 1 \in 1..N /\ n + 1 \in 1..(N + 1) /\ (n + 1) - 1 = n /\ h[n] = f[n]
        BY <1>2, <3>0
      <3>2. h[n + 1] = StepOf(h[n], longer[n + 1]) /\ f[n + 1] = StepOf(f[n], path[n + 1])
        BY <1>3, <1>4, <3>1
      <3> QED BY <1>2, <3>1, <3>2
    <2> HIDE DEF T
    <2>3. T \in SUBSET Nat
      BY DEF T
    <2> QED BY <2>1, <2>2, <2>3, Induction
  <1>6. h[N] = f[N]
    <2>1. N \in T
      BY <1>2, <1>5
    <2> QED BY <1>2, <2>1
  <1>7. h[N + 1] = StepOf(h[N], longer[N + 1])
    <2>1. N + 1 \in 1..(N + 1) /\ (N + 1) - 1 = N
      BY <1>2
    <2> QED BY <1>4, <2>1
  <1>8. f[N] \in Seq(S)
    BY <1>2, <1>3
  <1> QED BY <1>1, <1>2, <1>3, <1>4, <1>6, <1>7, <1>8

(* The root is as it stands.                                                *)
LEMMA NormalizedEmpty == Normalized(<<>>) = <<>>
  <1>1. PICK S, none : S = {} /\ none = <<>>
    OBVIOUS
  <1>2. none \in Seq(S) /\ Len(none) = 0
    BY <1>1
  <1>3. \E out \in [0..Len(none) -> Seq(S)] :
              /\ out[0] = <<>>
              /\ \A n \in 1..Len(none) : out[n] = StepOf(out[n - 1], none[n])
              /\ Normalized(none) = out[Len(none)]
    BY <1>2, NormalizedBySteps
  <1>4. Normalized(none) = <<>>
    BY <1>2, <1>3
  <1> QED BY <1>1, <1>4

(* A sequence step by step.                                                 *)
UpTo(path, k) == SubSeq(path, 1, k)

(* A path is made of its starts, each a name longer than the last.          *)
LEMMA GrowsToWhole ==
    ASSUME NEW S, NEW path \in Seq(S), NEW N, N = Len(path)
    PROVE  /\ N \in Nat /\ UpTo(path, 0) = <<>> /\ UpTo(path, N) = path
           /\ \A k \in 0..N : /\ UpTo(path, k) \in Seq(S) /\ Len(UpTo(path, k)) = k
                              /\ \A i \in 1..k : UpTo(path, k)[i] = path[i]
           /\ \A k \in Nat : k + 1 <= N => /\ path[k + 1] \in S
                                          /\ UpTo(path, k + 1) = Append(UpTo(path, k), path[k + 1])
  <1>0. N \in Nat /\ path \in [1..N -> S]
    <2>1. N \in Nat
      OBVIOUS
    <2>2. path \in [1..N -> S]
      OBVIOUS
    <2> QED BY ONLY <2>1, <2>2
  <1>1. ASSUME NEW k \in 0..N
        PROVE  /\ UpTo(path, k) \in Seq(S) /\ Len(UpTo(path, k)) = k
               /\ \A i \in 1..k : UpTo(path, k)[i] = path[i]
    <2>1. k \in Nat /\ 1..k \subseteq 1..N
      BY <1>0
    <2>2. UpTo(path, k) = [i \in 1..k |-> path[i]]
      BY <1>0, <2>1 DEF UpTo
    <2>3. [i \in 1..k |-> path[i]] \in Seq(S) /\ Len([i \in 1..k |-> path[i]]) = k
      BY <1>0, <2>1
    <2> QED BY <2>2, <2>3
  <1>2. ASSUME NEW k \in Nat, k + 1 <= N
        PROVE  /\ path[k + 1] \in S
               /\ UpTo(path, k + 1) = Append(UpTo(path, k), path[k + 1])
    <2>1. k + 1 \in 1..N /\ k \in 0..N /\ k + 1 \in 0..N
      BY <1>0, <1>2
    <2>2. PICK a, b, x : a = UpTo(path, k) /\ b = UpTo(path, k + 1) /\ x = path[k + 1]
      OBVIOUS
    <2>3. /\ a \in Seq(S) /\ Len(a) = k /\ b \in Seq(S) /\ Len(b) = k + 1 /\ x \in S
          /\ \A i \in 1..k : a[i] = path[i]
          /\ \A i \in 1..(k + 1) : b[i] = path[i]
      BY <1>0, <1>1, <2>1, <2>2
    <2>4. \A i \in 1..k : Append(a, x)[i] = path[i]
      BY <2>3
    <2>5. Append(a, x)[k + 1] = x /\ Append(a, x) \in Seq(S) /\ Len(Append(a, x)) = k + 1
      BY <2>3
    <2>6. \A i \in 1..(k + 1) : Append(a, x)[i] = b[i]
      BY <2>2, <2>3, <2>4, <2>5
    <2>7. Append(a, x) = b
      BY <2>3, <2>5, <2>6
    <2> QED BY <2>1, <2>2, <2>3, <2>7
  <1>3. UpTo(path, 0) = <<>>
    <2>1. 0 \in 0..N
      BY <1>0
    <2> QED BY <1>1, <2>1
  <1>4. UpTo(path, N) = path
    <2>1. N \in 0..N
      BY <1>0
    <2> QED BY <1>0, <1>1, <2>1
  <1>5. N \in Nat
    BY <1>0
  <1> QED BY ONLY <1>1, <1>2, <1>3, <1>4, <1>5

(* A path of plain names, whatever separators follow, is as it stands.      *)
NotPlain == {"", ".", ".."}
IsPlain(path, from, to) == \A i \in from..to : path[i] \notin NotPlain
IsBlank(path, from, to) == \A i \in from..to : path[i] = ""

(* A path of plain names, whatever separators follow, is the plain names.   *)
LEMMA NormalIs ==
    ASSUME NEW S, NEW path \in Seq(S), NEW N, N = Len(path), NEW n \in 0..N,
           IsPlain(path, 1, n), IsBlank(path, n + 1, N)
    PROVE  Normalized(path) = UpTo(path, n)
  <1>a. /\ N \in Nat /\ UpTo(path, 0) = <<>> /\ UpTo(path, N) = path
        /\ \A k \in 0..N : UpTo(path, k) \in Seq(S)
    BY GrowsToWhole
  <1>b. \A k \in Nat : k + 1 <= N => /\ path[k + 1] \in S
                                   /\ UpTo(path, k + 1) = Append(UpTo(path, k), path[k + 1])
    BY GrowsToWhole
  <1>0. N \in Nat /\ n \in Nat /\ n <= N
    BY <1>a
  <1> DEFINE Is(k) == Normalized(UpTo(path, k)) = IF k <= n THEN UpTo(path, k) ELSE UpTo(path, n)
             T == {k \in Nat : k <= N => Is(k)}
  <1>1. Is(0)
    BY <1>0, <1>a, NormalizedEmpty
  <1>2. ASSUME NEW k \in Nat, k + 1 <= N, Is(k) PROVE Is(k + 1)
    <2>1. k <= N /\ k \in 0..N /\ k + 1 \in 1..N
      BY ONLY <1>0, <1>2
    <2>2. PICK a, b, x, c : a = UpTo(path, k) /\ b = UpTo(path, k + 1) /\ x = path[k + 1] /\ c = UpTo(path, n)
      OBVIOUS
    <2>3. a \in Seq(S) /\ x \in S /\ b = Append(a, x)
      BY <1>2, <1>a, <1>b, <2>1, <2>2
    <2>4. Normalized(b) = StepOf(Normalized(a), x)
      BY <2>3, NormalizedAppend
    <2>5. CASE k + 1 <= n
      <3>0. k + 1 \in 1..n /\ k <= n
        BY ONLY <1>0, <1>2, <2>5
      <3>1. Normalized(a) = a /\ x \notin NotPlain
        BY <1>2, <2>2, <3>0 DEF IsPlain
      <3>2. StepOf(a, x) = Append(a, x)
        BY <3>1 DEF StepOf, NotPlain
      <3> QED BY <2>2, <2>3, <2>4, <2>5, <3>1, <3>2
    <2>6. CASE ~(k + 1 <= n)
      <3>1. k + 1 \in (n + 1)..N /\ (k <= n => k = n)
        BY ONLY <1>0, <1>2, <2>1, <2>6
      <3>2. x = ""
        BY <2>2, <3>1 DEF IsBlank
      <3>3. Normalized(a) = c
        BY <1>2, <2>2, <3>1
      <3>4. StepOf(Normalized(a), x) = Normalized(a)
        BY <3>2 DEF StepOf
      <3> QED BY <2>2, <2>4, <2>6, <3>3, <3>4
    <2> QED BY <2>5, <2>6
  <1> HIDE DEF Is
  <1>3. T = Nat
    <2>1. T \in SUBSET Nat
      OBVIOUS
    <2>2. 0 \in T
      BY <1>1
    <2>3. ASSUME NEW k \in T PROVE k + 1 \in T
      <3>1. k \in Nat /\ (k <= N => Is(k))
        OBVIOUS
      <3>2. k + 1 <= N => k <= N
        BY <1>0, <3>1
      <3>3. k + 1 <= N => Is(k + 1)
        BY <1>2, <3>1, <3>2
      <3>4. k + 1 \in Nat
        BY <3>1
      <3> QED BY <3>3, <3>4
    <2> HIDE DEF T
    <2> QED BY <2>1, <2>2, <2>3, Induction
  <1>4. Is(N)
    <2>1. N \in T
      BY <1>0, <1>3
    <2>2. N <= N
      BY <1>0
    <2> QED BY <2>1, <2>2
  <1>5. N <= n => N = n
    BY ONLY <1>0
  <1> QED BY <1>0, <1>a, <1>4, <1>5 DEF Is

(* What normalizing leaves is plain.                                        *)
LEMMA NormalizedIsPlain ==
    ASSUME NEW S, NEW path \in Seq(S)
    PROVE  Normalized(path) \in Seq(S) /\ \A i \in DOMAIN Normalized(path) : Normalized(path)[i] \notin NotPlain
  <1>0. PICK N : N = Len(path)
    OBVIOUS
  <1>a. /\ N \in Nat /\ UpTo(path, 0) = <<>> /\ UpTo(path, N) = path
        /\ \A k \in 0..N : UpTo(path, k) \in Seq(S)
    BY <1>0, GrowsToWhole
  <1>b. \A k \in Nat : k + 1 <= N => /\ path[k + 1] \in S
                                   /\ UpTo(path, k + 1) = Append(UpTo(path, k), path[k + 1])
    BY <1>0, GrowsToWhole
  <1> DEFINE Plain(p) == p \in Seq(S) /\ \A i \in DOMAIN p : p[i] \notin NotPlain
             Is(k) == Plain(Normalized(UpTo(path, k)))
             T == {k \in Nat : k <= N => Is(k)}
  <1>2. ASSUME NEW out, Plain(out), NEW name \in S PROVE Plain(StepOf(out, name))
    <2>1. CASE name \in {"", "."}
      BY <1>2, <2>1 DEF StepOf
    <2>2. CASE name = ".."
      <3>1. StepOf(out, name) = IF out = <<>> THEN out ELSE Front(out)
        BY <2>2 DEF StepOf
      <3>2. out # <<>> => Plain(Front(out))
        BY <1>2 DEF Front
      <3> QED BY <1>2, <3>1, <3>2
    <2>3. CASE name \notin {"", ".", ".."}
      <3>1. StepOf(out, name) = Append(out, name)
        BY <2>3 DEF StepOf
      <3>2. Plain(Append(out, name))
        <4>1. Append(out, name) \in Seq(S) /\ DOMAIN Append(out, name) = 1..(Len(out) + 1) /\ Len(out) \in Nat
              /\ Append(out, name)[Len(out) + 1] = name /\ \A i \in 1..Len(out) : Append(out, name)[i] = out[i]
          BY <1>2
        <4>2. \A i \in 1..(Len(out) + 1) : i \in 1..Len(out) \/ i = Len(out) + 1
          BY <4>1
        <4>3. name \notin NotPlain
          BY <2>3 DEF NotPlain
        <4>4. \A i \in 1..Len(out) : out[i] \notin NotPlain
          BY <1>2
        <4> QED BY <4>1, <4>2, <4>3, <4>4
      <3> QED BY <3>1, <3>2
    <2> QED BY <2>1, <2>2, <2>3
  <1>3. Is(0)
    <2>1. Plain(<<>>)
      OBVIOUS
    <2> HIDE DEF Plain
    <2> QED BY <1>a, <2>1, NormalizedEmpty
  <1> HIDE DEF Plain
  <1>4. ASSUME NEW k \in Nat, k + 1 <= N, Is(k) PROVE Is(k + 1)
    <2>1. k \in 0..N
      BY <1>a, <1>4
    <2>2. PICK a, b, x : a = UpTo(path, k) /\ b = UpTo(path, k + 1) /\ x = path[k + 1]
      OBVIOUS
    <2>3. a \in Seq(S) /\ x \in S /\ b = Append(a, x)
      BY <1>a, <1>b, <1>4, <2>1, <2>2
    <2>4. Normalized(b) = StepOf(Normalized(a), x)
      BY <2>3, NormalizedAppend
    <2> QED BY <1>2, <1>4, <2>2, <2>3, <2>4
  <1> HIDE DEF Is
  <1>5. T = Nat
    <2>1. T \in SUBSET Nat
      OBVIOUS
    <2>2. 0 \in T
      BY <1>3
    <2>3. ASSUME NEW k \in T PROVE k + 1 \in T
      <3>1. k \in Nat /\ (k <= N => Is(k))
        OBVIOUS
      <3>2. k + 1 <= N => k <= N
        BY <1>a, <3>1
      <3>3. k + 1 <= N => Is(k + 1)
        BY <1>4, <3>1, <3>2
      <3>4. k + 1 \in Nat
        BY <3>1
      <3> QED BY <3>3, <3>4
    <2> HIDE DEF T
    <2> QED BY <2>1, <2>2, <2>3, Induction
  <1>6. Is(N)
    <2>1. N \in T
      BY <1>a, <1>5
    <2>2. N <= N
      BY <1>a
    <2> QED BY <2>1, <2>2
  <1> QED BY <1>a, <1>6 DEF Is, Plain

(* A path that is normalized once is normalized.                            *)
LEMMA NormalizedTwice ==
    ASSUME NEW S, NEW path \in Seq(S)
    PROVE  Normalized(Normalized(path)) = Normalized(path)
  <1>1. PICK p, N : p = Normalized(path) /\ N = Len(p)
    OBVIOUS
  <1>2. p \in Seq(S) /\ \A i \in DOMAIN p : p[i] \notin NotPlain
    BY <1>1, NormalizedIsPlain
  <1>3. N \in 0..N /\ IsPlain(p, 1, N) /\ IsBlank(p, N + 1, N)
    <2>1. N \in Nat /\ DOMAIN p = 1..N
      BY <1>1, <1>2
    <2>2. N \in 0..N /\ \A i \in (N + 1)..N : FALSE
      BY ONLY <2>1
    <2> QED BY <1>2, <2>1, <2>2 DEF IsPlain, IsBlank
  <1>4. Normalized(p) = UpTo(p, N)
    BY <1>1, <1>2, <1>3, NormalIs
  <1>5. UpTo(p, N) = p
    BY <1>1, <1>2, GrowsToWhole
  <1> QED BY <1>1, <1>4, <1>5
-----------------------------------------------------------------------------
(* js_length is counted a name at a time.                                   *)
LEMMA LengthBySteps ==
    ASSUME NEW path \in Path, NEW N, N = Len(path)
    PROVE  \E f \in [0..N -> Nat] :
              f[0] = 0 /\ (\A n \in 1..N : f[n] = f[n - 1] + 1 + Len(path[n])) /\ Length(path) = f[N]
  <1> DEFINE IsIter(it) == it = [s \in SUBSET (DOMAIN path) |->
                                    IF s = {} THEN 0 ELSE it[s \ {Max(s)}] + 1 + Len(path[Max(s)])]
             g == [n \in 1..N |-> [sum \in Nat |-> sum + 1 + Len(path[n])]]
  <1>0. N \in Nat /\ DOMAIN path = 1..N /\ \A n \in 1..N : path[n] \in Name /\ Len(path[n]) \in Nat
    <2>1. N \in Nat /\ DOMAIN path = 1..N /\ \A n \in 1..N : path[n] \in Name
      BY DEF Path
    <2> QED BY <2>1, NameAssumption
  <1>1. g \in [1..N -> [Nat -> Nat]]
    <2>1. \A n \in 1..N : Len(path[n]) \in Nat
      BY <1>0
    <2>2. ASSUME NEW n \in 1..N PROVE [sum \in Nat |-> sum + 1 + Len(path[n])] \in [Nat -> Nat]
      <3>1. PICK l : l = Len(path[n]) /\ l \in Nat
        BY <2>1
      <3>2. l \in Nat
        BY <3>1
      <3>3. ASSUME NEW sum \in Nat PROVE sum + 1 + l \in Nat
        BY <3>2
      <3> QED BY <3>1, <3>3
    <2> QED BY <2>2
  <1>2. PICK it \in [SUBSET (1..N) -> Nat] :
              /\ it[{}] = 0
              /\ \A s \in SUBSET (1..N) : s # {} => it[s] = g[Max(s)][it[s \ {Max(s)}]]
    <2>2. PICK Out, none, h : Out = Nat /\ none = 0 /\ h = g
      OBVIOUS
    <2> HIDE DEF g
    <2>3. none \in Out /\ N \in Nat /\ h \in [1..N -> [Out -> Out]]
      BY <1>0, <1>1, <2>2
    <2>4. \E it : IsFold(it, Out, N, none, h)
      BY ONLY <2>3, FoldIsDefined
    <2> QED BY <2>2, <2>4 DEF IsFold
  <1>3. ASSUME NEW s \in SUBSET (1..N), s # {} PROVE it[s] = it[s \ {Max(s)}] + 1 + Len(path[Max(s)])
    <2>1. Max(s) \in 1..N /\ it[s \ {Max(s)}] \in Nat
      BY <1>0, <1>2, <1>3, MaxIs
    <2>2. it[s] = g[Max(s)][it[s \ {Max(s)}]]
      BY <1>2, <1>3
    <2> QED BY <1>0, <2>1, <2>2
  <1>4. IsIter(it)
    BY <1>0, <1>2, <1>3
  <1> DEFINE one == CHOOSE f : IsIter(f)
  <1>5. IsIter(one)
    BY <1>4
  <1>6. Length(path) = one[DOMAIN path]
    BY DEF Length, FoldLeft, MapThenFoldSet
  <1>7. \A s \in SUBSET (1..N) : one[s] = IF s = {} THEN 0 ELSE one[s \ {Max(s)}] + 1 + Len(path[Max(s)])
    BY <1>0, <1>5
  <1> DEFINE out == [n \in 0..N |-> one[1..n]]
  <1> HIDE DEF one, IsIter, g
  <1>8. out[0] = 0
    <2>1. 1..0 = {}
      OBVIOUS
    <2>2. out[0] = one[{}]
      BY <1>0, <2>1
    <2> QED BY <1>7, <2>2
  <1>9. ASSUME NEW n \in 1..N PROVE n - 1 \in 0..N /\ out[n] = out[n - 1] + 1 + Len(path[n])
    <2>1. 1..n \in SUBSET (1..N) /\ n \in 1..n /\ n - 1 \in 0..N /\ n \in 0..N
      BY <1>0
    <2>2. Max(1..n) \in 1..n /\ n <= Max(1..n)
      BY <1>0, <2>1, MaxIs
    <2>3. Max(1..n) = n /\ 1..n # {} /\ (1..n) \ {n} = 1..(n - 1)
      BY <2>1, <2>2
    <2>4. one[1..n] = one[1..(n - 1)] + 1 + Len(path[n])
      BY <1>7, <2>1, <2>3
    <2>5. out[n] = one[1..n] /\ out[n - 1] = one[1..(n - 1)]
      BY <2>1
    <2> QED BY <2>1, <2>4, <2>5
  <1>12. Length(path) = out[N] /\ out = [n \in 0..N |-> out[n]]
    BY <1>0, <1>6
  <1> HIDE DEF out
  <1> DEFINE T == {n \in Nat : n <= N => out[n] \in Nat}
  <1>10. T = Nat
    <2>1. 0 \in T
      BY <1>8
    <2>2. ASSUME NEW n \in T PROVE n + 1 \in T
      <3> SUFFICES ASSUME n + 1 <= N PROVE out[n + 1] \in Nat
        OBVIOUS
      <3>0. n \in Nat /\ (n <= N => out[n] \in Nat)
        OBVIOUS
      <3> HIDE DEF T
      <3>1. n + 1 \in 1..N /\ (n + 1) - 1 = n /\ n <= N
        BY <1>0, <3>0
      <3>2. out[n] \in Nat /\ Len(path[n + 1]) \in Nat
        BY <1>0, <3>0, <3>1
      <3>3. out[n + 1] = out[n] + 1 + Len(path[n + 1])
        BY <1>9, <3>1
      <3> QED BY <3>2, <3>3
    <2> HIDE DEF T
    <2>3. T \in SUBSET Nat
      BY DEF T
    <2> QED BY <2>1, <2>2, <2>3, Induction
  <1>11. out \in [0..N -> Nat]
    <2>1. ASSUME NEW n \in 0..N PROVE out[n] \in Nat
      <3>1. n \in T /\ n <= N
        <4> HIDE DEF T
        <4> QED BY <1>0, <1>10
      <3> QED BY <3>1
    <2> QED BY <1>12, <2>1
  <1> QED BY <1>0, <1>8, <1>9, <1>11, <1>12

(* One name more is longer by the name and a separator.                     *)
LEMMA LengthAppend ==
    ASSUME NEW path \in Path, NEW name \in Name
    PROVE  /\ Append(path, name) \in Path
           /\ Length(path) \in Nat /\ Length(Append(path, name)) = Length(path) + 1 + Len(name)
  <1>1. PICK N, longer : N = Len(path) /\ longer = Append(path, name)
    OBVIOUS
  <1>2. /\ N \in Nat /\ longer \in Path /\ Len(longer) = N + 1 /\ longer[N + 1] = name
        /\ \A n \in 1..N : longer[n] = path[n]
    BY <1>1 DEF Path
  <1>3. PICK f \in [0..N -> Nat] :
              f[0] = 0 /\ (\A n \in 1..N : f[n] = f[n - 1] + 1 + Len(path[n])) /\ Length(path) = f[N]
    BY <1>1, LengthBySteps
  <1>4. PICK M : M = N + 1 /\ M = Len(longer) /\ M \in Nat
    BY <1>2
  <1>5. PICK h \in [0..M -> Nat] :
              h[0] = 0 /\ (\A n \in 1..M : h[n] = h[n - 1] + 1 + Len(longer[n])) /\ Length(longer) = h[M]
    BY <1>2, <1>4, LengthBySteps
  <1> DEFINE T == {n \in Nat : n <= N => h[n] = f[n]}
  <1>6. T = Nat
    <2>1. 0 \in T
      BY <1>3, <1>5
    <2>2. ASSUME NEW n \in T PROVE n + 1 \in T
      <3> SUFFICES ASSUME n + 1 <= N PROVE h[n + 1] = f[n + 1]
        OBVIOUS
      <3>0. n \in Nat /\ (n <= N => h[n] = f[n])
        OBVIOUS
      <3> HIDE DEF T
      <3>1. n + 1 \in 1..N /\ n + 1 \in 1..M /\ (n + 1) - 1 = n /\ n <= N
        BY <1>2, <1>4, <3>0
      <3>2. h[n + 1] = h[n] + 1 + Len(longer[n + 1]) /\ f[n + 1] = f[n] + 1 + Len(path[n + 1])
        BY <1>3, <1>5, <3>1
      <3> QED BY <1>2, <3>0, <3>1, <3>2
    <2> HIDE DEF T
    <2>3. T \in SUBSET Nat
      BY DEF T
    <2> QED BY <2>1, <2>2, <2>3, Induction
  <1>7. h[N] = f[N] /\ f[N] \in Nat
    <2>1. N \in T /\ N <= N /\ N \in 0..N
      <3> HIDE DEF T
      <3> QED BY <1>2, <1>6
    <2> QED BY <1>3, <2>1
  <1>8. h[M] = h[N] + 1 + Len(name)
    <2>1. M \in 1..M /\ M - 1 = N
      BY <1>2, <1>4
    <2>2. h[M] = h[M - 1] + 1 + Len(longer[M])
      BY <1>5, <2>1
    <2> QED BY <1>2, <1>4, <2>1, <2>2
  <1> QED BY <1>1, <1>2, <1>3, <1>5, <1>7, <1>8

(* The root has no length.                                                  *)
LEMMA LengthEmpty == Length(<<>>) = 0
  <1>1. PICK none, N : none = <<>> /\ N = 0
    OBVIOUS
  <1>2. none \in Path /\ N = Len(none)
    BY <1>1 DEF Path
  <1>3. PICK f \in [0..N -> Nat] :
              f[0] = 0 /\ (\A n \in 1..N : f[n] = f[n - 1] + 1 + Len(none[n])) /\ Length(none) = f[N]
    BY <1>2, LengthBySteps
  <1> QED BY <1>1, <1>3

(* A path is longer than what it starts with, by a separator a name.        *)
LEMMA LengthGrows ==
    ASSUME NEW path \in Path, NEW N, N = Len(path), NEW a \in 0..N, NEW b \in a..N
    PROVE  /\ Length(UpTo(path, a)) \in Nat /\ Length(UpTo(path, b)) \in Nat
           /\ Length(UpTo(path, a)) + (b - a) <= Length(UpTo(path, b))
           /\ b = a + 1 => Length(UpTo(path, b)) = Length(UpTo(path, a)) + 1 + Len(path[b])
  <1>a. N \in Nat /\ \A k \in 0..N : UpTo(path, k) \in Path
    BY GrowsToWhole DEF Path
  <1>b. \A k \in Nat : k + 1 <= N => /\ path[k + 1] \in Name
                                   /\ UpTo(path, k + 1) = Append(UpTo(path, k), path[k + 1])
    BY GrowsToWhole DEF Path
  <1>1. a \in Nat /\ b \in Nat /\ a <= b /\ b <= N
    BY <1>a
  <1> DEFINE len(k) == Length(UpTo(path, k))
  <1>2. ASSUME NEW k \in Nat, k + 1 <= N
        PROVE  len(k) \in Nat /\ len(k + 1) = len(k) + 1 + Len(path[k + 1]) /\ Len(path[k + 1]) \in Nat
    <2>1. k \in 0..N
      BY <1>a, <1>2
    <2>2. PICK p, name : p = UpTo(path, k) /\ name = path[k + 1]
      OBVIOUS
    <2>3. p \in Path /\ name \in Name /\ UpTo(path, k + 1) = Append(p, name)
      BY <1>a, <1>b, <1>2, <2>1, <2>2
    <2>4. Length(p) \in Nat /\ Length(Append(p, name)) = Length(p) + 1 + Len(name) /\ Len(name) \in Nat
      BY <2>3, LengthAppend, NameAssumption
    <2> QED BY <2>2, <2>3, <2>4
  <1>3. len(0) = 0
    <2>1. UpTo(path, 0) = <<>>
      BY GrowsToWhole DEF Path
    <2> QED BY <2>1, LengthEmpty
  <1> HIDE DEF len
  <1> DEFINE T == {k \in Nat : k <= N => len(k) \in Nat /\ (a <= k => len(a) + (k - a) <= len(k))}
  <1>4. 0 \in T
    <2>1. a <= 0 => a = 0
      BY ONLY <1>1
    <2> QED BY <1>3, <2>1
  <1>5. ASSUME NEW k \in T PROVE k + 1 \in T
    <2> SUFFICES ASSUME k + 1 <= N
                 PROVE  len(k + 1) \in Nat /\ (a <= k + 1 => len(a) + ((k + 1) - a) <= len(k + 1))
      OBVIOUS
    <2>0. k \in Nat /\ (k <= N => len(k) \in Nat /\ (a <= k => len(a) + (k - a) <= len(k)))
      OBVIOUS
    <2> HIDE DEF T
    <2>1. k + 1 <= N
      OBVIOUS
    <2>2. k <= N
      BY ONLY <1>a, <2>0, <2>1
    <2>3. PICK x, y, z, w : x = len(k) /\ y = len(k + 1) /\ z = Len(path[k + 1]) /\ w = len(a)
      OBVIOUS
    <2>4. x \in Nat /\ z \in Nat /\ y = x + 1 + z /\ (a <= k => w + (k - a) <= x)
      BY <1>2, <2>0, <2>1, <2>2, <2>3
    <2>5. a = k + 1 => w = y
      BY <2>3
    <2>6. w \in Nat \/ a > k
      <3>1. a <= k => a = k \/ a + 1 <= k
        BY ONLY <1>1, <2>0
      <3>2. a + 1 <= k => a + 1 <= N
        BY ONLY <1>1, <1>a, <2>0, <2>2
      <3>3. a + 1 <= N => len(a) \in Nat
        BY <1>1, <1>2
      <3>4. a = k => w = x
        BY <2>3
      <3>5. a <= k \/ a > k
        BY ONLY <1>1, <2>0
      <3> QED BY <2>3, <2>4, <3>1, <3>2, <3>3, <3>4, <3>5
    <2>7. y \in Nat /\ (a <= k + 1 => w + ((k + 1) - a) <= y)
      BY ONLY <1>1, <2>0, <2>4, <2>5, <2>6
    <2> QED BY <2>3, <2>7
  <1>6. T = Nat
    <2> HIDE DEF T
    <2>1. T \in SUBSET Nat
      BY DEF T
    <2> QED BY <1>4, <1>5, <2>1, Induction
  <1>7. a \in T /\ b \in T
    <2> HIDE DEF T
    <2> QED BY <1>1, <1>6
  <1>8. a <= N
    BY ONLY <1>a, <1>1
  <1>9. len(a) \in Nat /\ len(b) \in Nat /\ len(a) + (b - a) <= len(b)
    BY <1>1, <1>7, <1>8
  <1>10. b = a + 1 => len(b) = len(a) + 1 + Len(path[b])
    BY <1>1, <1>2
  <1> QED BY <1>9, <1>10 DEF len

(* A length is a number.                                                    *)
LEMMA LengthIsNat == ASSUME NEW path \in Path PROVE Length(path) \in Nat
  <1>1. PICK N : N = Len(path) /\ N \in Nat
    BY DEF Path
  <1>2. PICK f \in [0..N -> Nat] :
              f[0] = 0 /\ (\A n \in 1..N : f[n] = f[n - 1] + 1 + Len(path[n])) /\ Length(path) = f[N]
    BY <1>1, LengthBySteps
  <1>3. N \in 0..N
    BY <1>1
  <1> QED BY <1>2, <1>3
-----------------------------------------------------------------------------
(* What contains compares with is the folder without the separators that    *)
(* follow it.                                                               *)
LEMMA TrimmedIs ==
    ASSUME NEW path \in Path, NEW N, N = Len(path)
    PROVE  \E n \in 0..N : /\ Trimmed(path) = UpTo(path, n) /\ IsBlank(path, n + 1, N)
                           /\ n = 0 \/ path[n] # ""
  <1>0. N \in Nat
    BY DEF Path
  <1>1. PICK I : I = {i \in 1..N : path[i] # ""}
    OBVIOUS
  <1>2. Trimmed(path) = UpTo(path, IF I # {} THEN Max(I) ELSE 0)
    BY <1>1 DEF Trimmed, SelectLastInSeq, UpTo
  <1>3. CASE I = {}
    <2>1. Trimmed(path) = UpTo(path, 0)
      BY <1>2, <1>3
    <2>2. IsBlank(path, 0 + 1, N)
      <3>1. \A i \in 1..N : path[i] = ""
        BY <1>1, <1>3
      <3>2. 0 + 1 = 1
        OBVIOUS
      <3> QED BY ONLY <3>1, <3>2 DEF IsBlank
    <2>3. 0 \in 0..N
      BY <1>0
    <2> QED BY <2>1, <2>2, <2>3
  <1>4. CASE I # {}
    <2>1. PICK n : n = Max(I)
      OBVIOUS
    <2>2. I \in SUBSET (1..N)
      BY <1>1
    <2>3. n \in I /\ \A y \in I : y <= n
      BY <1>0, <1>4, <2>1, <2>2, MaxIs
    <2>4. n \in 1..N /\ path[n] # "" /\ n \in 0..N
      <3>1. n \in 1..N /\ path[n] # ""
        BY <1>1, <2>3
      <3>2. n \in 1..N
        BY <3>1
      <3>3. n \in 0..N
        BY ONLY <1>0, <3>2
      <3> QED BY <3>1, <3>3
    <2>5. IsBlank(path, n + 1, N)
      <3> SUFFICES ASSUME NEW i \in (n + 1)..N PROVE path[i] = ""
        BY DEF IsBlank
      <3>1. n \in 1..N /\ i \in (n + 1)..N
        BY <2>4
      <3>2. i \in 1..N /\ ~(i <= n)
        BY ONLY <1>0, <3>1
      <3> QED BY <1>1, <2>3, <3>2
    <2>6. Trimmed(path) = UpTo(path, n)
      BY <1>2, <1>4, <2>1
    <2> QED BY <2>4, <2>5, <2>6
  <1> QED BY <1>3, <1>4

(* Whether a part of a path is where another path starts.                   *)
LEMMA StartsWith ==
    ASSUME NEW dir \in Path, NEW D, D = Len(dir), NEW n \in 0..D, NEW path \in Path, NEW N, N = Len(path)
    PROVE  IsPrefix(UpTo(dir, n), path) <=> n <= N /\ UpTo(path, n) = UpTo(dir, n)
  <1>1. D \in Nat /\ N \in Nat /\ n \in Nat
    BY DEF Path
  <1>2. PICK s : s = UpTo(dir, n)
    OBVIOUS
  <1>3. s \in Path /\ Len(s) = n
    BY <1>2, GrowsToWhole DEF Path
  <1>4. UpTo(s, n) = s
    BY <1>3, GrowsToWhole DEF Path
  <1>5. IsPrefix(s, path) <=> n <= N /\ s = UpTo(path, n)
    BY <1>3, <1>4 DEF IsPrefix, UpTo
  <1> QED BY <1>2, <1>5

(* A folder a plain path is inside of is, written without what may follow,  *)
(* where the path starts.                                                   *)
LEMMA InsideIsNormal ==
    ASSUME NEW dir \in Path, NEW path \in Path, IsPlain(path, 1, Len(path)), Inside(dir, path)
    PROVE  \E n \in 0..Len(dir) : /\ n <= Len(path) /\ IsBlank(dir, n + 1, Len(dir))
                                  /\ UpTo(path, n) = UpTo(dir, n)
                                  /\ Normalized(dir) = UpTo(dir, n) /\ IsPrefix(Normalized(dir), path)
  <1>1. PICK D, N : D = Len(dir) /\ N = Len(path)
    OBVIOUS
  <1>2. D \in Nat /\ N \in Nat
    BY <1>1 DEF Path
  <1>3. PICK n \in 0..D : Trimmed(dir) = UpTo(dir, n) /\ IsBlank(dir, n + 1, D)
    BY <1>1, TrimmedIs
  <1>4. IsPrefix(UpTo(dir, n), path)
    BY <1>3 DEF Inside
  <1>5. n <= N /\ UpTo(path, n) = UpTo(dir, n)
    BY <1>1, <1>3, <1>4, StartsWith
  <1>6. ASSUME NEW i \in 1..n PROVE dir[i] \notin NotPlain
    <2>1. n \in 0..N /\ i \in 1..N /\ n \in Nat
      BY <1>2, <1>5
    <2>2. UpTo(dir, n)[i] = dir[i]
      BY <1>1, GrowsToWhole DEF Path
    <2>3. UpTo(path, n)[i] = path[i]
      BY <1>1, <2>1, GrowsToWhole DEF Path
    <2>4. path[i] \notin NotPlain
      BY <1>1, <2>1 DEF IsPlain
    <2> QED BY <1>5, <2>2, <2>3, <2>4
  <1>7. IsPlain(dir, 1, n)
    BY <1>6 DEF IsPlain
  <1>8. Normalized(dir) = UpTo(dir, n)
    BY <1>1, <1>3, <1>7, NormalIs DEF Path
  <1> QED BY <1>1, <1>3, <1>4, <1>5, <1>8

(* A tidy folder is, without that separator, as normalizing makes it.       *)
LEMMA TidyIsNormal ==
    ASSUME NEW dir \in Path, IsTidy(dir), NEW D, D = Len(dir)
    PROVE  \E n \in 0..D : /\ Normalized(dir) = UpTo(dir, n) /\ Trimmed(dir) = UpTo(dir, n)
                           /\ n = D \/ (n + 1 = D /\ dir[D] = "")
  <1>0. D \in Nat /\ DOMAIN dir = 1..D
    BY DEF Path
  <1>1. PICK n \in 0..D : Trimmed(dir) = UpTo(dir, n) /\ IsBlank(dir, n + 1, D) /\ (n = 0 \/ dir[n] # "")
    BY TrimmedIs
  <1>2. n \in Nat /\ n <= D
    BY <1>0
  <1>3. n = D \/ n + 1 = D
    <2> SUFFICES ASSUME n # D PROVE n + 1 = D
      OBVIOUS
    <2>1. n + 1 \in (n + 1)..D /\ n + 1 \in 1..D
      BY <1>0, <1>2
    <2>2. dir[n + 1] = ""
      BY <1>1, <2>1 DEF IsBlank
    <2> QED BY <1>0, <2>1, <2>2 DEF IsTidy
  <1>4. n + 1 = D => dir[D] = ""
    <2> SUFFICES ASSUME n + 1 = D PROVE dir[D] = ""
      OBVIOUS
    <2>1. D \in (n + 1)..D
      BY <1>0, <1>2
    <2> QED BY <1>1, <2>1 DEF IsBlank
  <1>5. ASSUME NEW i \in 1..n PROVE dir[i] \notin NotPlain
    <2>1. i \in 1..D /\ (i = D => i = n)
      BY <1>0, <1>2
    <2>2. dir[i] \notin {".", ".."} /\ (dir[i] = "" => i = D)
      BY <1>0, <2>1 DEF IsTidy
    <2>3. dir[i] # ""
      <3>1. n # 0
        BY <1>2
      <3> QED BY <1>1, <2>1, <2>2, <3>1
    <2> QED BY <2>2, <2>3 DEF NotPlain
  <1>6. IsPlain(dir, 1, n)
    BY <1>5 DEF IsPlain
  <1>7. Normalized(dir) = UpTo(dir, n)
    BY <1>1, <1>6, NormalIs DEF Path
  <1> QED BY <1>1, <1>3, <1>4, <1>7

(* Of two folders a document is in, the one whose name is longer is the     *)
(* deeper.                                                                  *)
LEMMA LongerIsDeeper ==
    ASSUME NEW s \in Path, IsTidy(s), NEW t \in Path, IsTidy(t), NEW path \in Path,
           IsPlain(path, 1, Len(path)), Inside(s, path), Inside(t, path), Length(t) <= Length(s)
    PROVE  Len(Normalized(t)) <= Len(Normalized(s)) /\ Len(Normalized(s)) \in Nat
  <1>1. PICK S, U, N : S = Len(s) /\ U = Len(t) /\ N = Len(path)
    OBVIOUS
  <1>2. S \in Nat /\ U \in Nat /\ N \in Nat
    BY <1>1 DEF Path
  <1>3. PICK n \in 0..S : n <= N /\ UpTo(path, n) = UpTo(s, n) /\ Normalized(s) = UpTo(s, n)
    BY <1>1, InsideIsNormal
  <1>4. PICK m \in 0..U : m <= N /\ UpTo(path, m) = UpTo(t, m) /\ Normalized(t) = UpTo(t, m)
    BY <1>1, InsideIsNormal
  <1>5. Len(Normalized(s)) = n /\ Len(Normalized(t)) = m
    BY <1>1, <1>3, <1>4, GrowsToWhole DEF Path
  <1>6. n = S \/ (n + 1 = S /\ s[S] = "")
    <2>1. PICK k \in 0..S : Normalized(s) = UpTo(s, k) /\ (k = S \/ (k + 1 = S /\ s[S] = ""))
      BY <1>1, TidyIsNormal
    <2>2. Len(UpTo(s, k)) = k
      BY <1>1, GrowsToWhole DEF Path
    <2> QED BY <1>5, <2>1, <2>2
  <1>7. n \in Nat /\ m \in Nat /\ n <= S /\ m <= U
    BY ONLY <1>2, <1>3, <1>4
  <1>8. PICK a : a = Length(UpTo(path, n))
    OBVIOUS
  <1>9. a \in Nat /\ Length(s) \in Nat /\ Length(t) \in Nat /\ Length(s) <= a + 1
    <2>1. UpTo(s, S) = s
      BY <1>1, GrowsToWhole DEF Path
    <2>2. n \in 0..S /\ S \in n..S
      BY ONLY <1>2, <1>7
    <2>3. Length(UpTo(s, n)) \in Nat /\ (S = n + 1 => Length(s) = Length(UpTo(s, n)) + 1 + Len(s[S]))
      <3>1. Length(UpTo(s, n)) \in Nat
            /\ (S = n + 1 => Length(UpTo(s, S)) = Length(UpTo(s, n)) + 1 + Len(s[S]))
        BY <1>1, <2>2, LengthGrows
      <3> QED BY <2>1, <3>1
    <2>4. n + 1 = S => S \in 1..S /\ s[S] = "" /\ Len(s[S]) = 0
      <3> SUFFICES ASSUME n + 1 = S PROVE S \in 1..S /\ s[S] = "" /\ Len(s[S]) = 0
        OBVIOUS
      <3>1. S \in 1..S
        BY ONLY <1>2, <1>7, n + 1 = S
      <3>2. s[S] \in Name
        BY <1>1, <3>1 DEF Path
      <3>3. n # S
        BY ONLY <1>2, <1>7, n + 1 = S
      <3> QED BY <1>6, <3>1, <3>2, <3>3, NameAssumption
    <2>5. a = Length(UpTo(s, n))
      BY <1>3, <1>8
    <2>6. Length(s) \in Nat /\ Length(t) \in Nat
      BY LengthIsNat
    <2>7. CASE n = S
      BY <2>1, <2>3, <2>5, <2>6, <2>7
    <2>8. CASE n + 1 = S
      <3>1. PICK x, l : x = Length(s) /\ l = Len(s[S])
        OBVIOUS
      <3>2. a \in Nat /\ x = a + 1 + l /\ l = 0
        BY <2>3, <2>4, <2>5, <2>8, <3>1
      <3>3. x <= a + 1
        BY ONLY <3>2
      <3> QED BY <2>6, <3>1, <3>2, <3>3
    <2> QED BY <1>6, <2>7, <2>8
  <1>10. ASSUME n < m PROVE FALSE
    <2>1. n \in 0..N /\ n + 1 \in n..N /\ n + 1 \in 0..N /\ m \in (n + 1)..N /\ n + 1 \in 1..N
      BY ONLY <1>2, <1>3, <1>4, <1>7, <1>10
    <2>2. PICK b, c, l : b = Length(UpTo(path, n + 1)) /\ c = Length(UpTo(path, m)) /\ l = Len(path[n + 1])
      OBVIOUS
    <2>3. b = a + 1 + l
      BY <1>1, <1>8, <2>1, <2>2, LengthGrows
    <2>4. b \in Nat /\ c \in Nat /\ b + (m - (n + 1)) <= c
      BY <1>1, <2>1, <2>2, LengthGrows
    <2>5. l \in Nat /\ l # 0
      <3>1. path[n + 1] \in Name
        BY <1>1, <2>1 DEF Path
      <3>2. path[n + 1] # ""
        BY <1>1, <2>1 DEF IsPlain, NotPlain
      <3> QED BY <2>2, <3>1, <3>2, NameAssumption
    <2>6. c <= Length(t)
      <3>1. UpTo(t, U) = t
        BY <1>1, GrowsToWhole DEF Path
      <3>2. m \in 0..U /\ U \in m..U
        BY ONLY <1>2, <1>7
      <3>3. Length(UpTo(t, m)) \in Nat /\ Length(UpTo(t, U)) \in Nat
            /\ Length(UpTo(t, m)) + (U - m) <= Length(UpTo(t, U))
        BY <1>1, <3>2, LengthGrows
      <3>4. c = Length(UpTo(t, m))
        BY <1>4, <2>2
      <3>5. c \in Nat /\ c + (U - m) <= Length(t)
        BY <3>1, <3>3, <3>4
      <3> QED BY ONLY <1>2, <1>7, <1>9, <3>5
    <2>7. PICK x, y : x = Length(s) /\ y = Length(t)
      OBVIOUS
    <2>8. x \in Nat /\ y \in Nat /\ x <= a + 1 /\ c <= y /\ y <= x
      BY <1>9, <2>6, <2>7
    <2> QED BY ONLY <1>7, <1>9, <1>10, <2>3, <2>4, <2>5, <2>8
  <1> QED BY <1>5, <1>7, <1>10

(* The names of an address are a path, one name a step.                     *)
LEMMA NamesArePath ==
    ASSUME NEW uri, IsAddress(uri)
    PROVE  Names(uri) \in Path /\ Len(Names(uri)) = Len(uri.steps) /\ DOMAIN Names(uri) = DOMAIN uri.steps
           /\ (uri.steps # <<>> => Names(uri) # <<>> /\ Len(uri.steps) \in DOMAIN uri.steps)
           /\ \A i \in DOMAIN uri.steps : Names(uri)[i] = uri.steps[i].name
  <1>1. PICK s, N : s = uri.steps /\ N = Len(s)
    OBVIOUS
  <1>2. s \in Seq(Range(s)) /\ \A i \in DOMAIN s : s[i].name \in Name
    BY <1>1 DEF IsAddress
  <1>3. N \in Nat /\ DOMAIN s = 1..N /\ (s # <<>> => N # 0)
    BY <1>1, <1>2
  <1>4. Names(uri) = [i \in 1..N |-> s[i].name]
    BY <1>1, <1>3 DEF Names
  <1>5. [i \in 1..N |-> s[i].name] \in Seq(Name) /\ Len([i \in 1..N |-> s[i].name]) = N
    BY <1>2, <1>3
  <1>6. s # <<>> => N \in 1..N
    BY <1>3
  <1>7. \A i \in 1..N : Names(uri)[i] = s[i].name
    BY <1>4
  <1> HIDE DEF Names
  <1>8. DOMAIN Names(uri) = 1..N /\ Len(Names(uri)) = N /\ Names(uri) \in Path
    BY <1>4, <1>5 DEF Path
  <1>9. s # <<>> => Names(uri) # <<>>
    BY <1>3, <1>8
  <1> QED BY <1>1, <1>3, <1>6, <1>7, <1>8, <1>9

(* A document editors address is where the router takes it to be.           *)
LEMMA UsualDocIs ==
    ASSUME NEW uri, IsAddress(uri), IsUsual(uri)
    PROVE  /\ FsPathOf(uri) = Place(uri)
           /\ Place(uri) # NoPath => Place(uri) \in Path /\ IsPlain(Place(uri), 1, Len(Place(uri)))
  <1>1. CASE uri.scheme # "file"
    <2>1. FsPathOf(uri) = NoPath
      BY <1>1 DEF FsPathOf
    <2>2. Place(uri) = NoPath
      BY <1>1 DEF Place, IsUsual
    <2> QED BY <2>1, <2>2
  <1>2. CASE uri.scheme = "file"
    <2>1. /\ uri.slashes /\ uri.host \in {"", "localhost"} /\ uri.steps # <<>> /\ uri.tail = ""
          /\ \A i \in DOMAIN uri.steps : /\ uri.steps[i].as \in {"plain", "escaped"}
                                         /\ uri.steps[i].name \notin {"", ".", ".."}
      BY <1>2 DEF IsUsual
    <2>2. ~Has(uri, "broken") /\ ~Has(uri, "joined")
      BY <2>1 DEF Has
    <2>3. PICK p, N : p = Names(uri) /\ N = Len(p)
      OBVIOUS
    <2>4. p \in Path /\ N = Len(uri.steps) /\ DOMAIN p = DOMAIN uri.steps
          /\ N \in DOMAIN p /\ \A i \in DOMAIN p : p[i] = uri.steps[i].name
      BY <2>1, <2>3, NamesArePath
    <2>5. N \in Nat /\ DOMAIN p = 1..N
      BY <2>3, <2>4 DEF Path
    <2>6. IsPlain(p, 1, N)
      BY <2>1, <2>4, <2>5 DEF IsPlain, NotPlain
    <2>7. IsBlank(p, N + 1, N) /\ N \in 0..N
      <3>1. \A i \in (N + 1)..N : FALSE
        BY <2>5
      <3>2. N \in 0..N
        BY <2>5
      <3> QED BY <3>1, <3>2 DEF IsBlank
    <2>8. Normalized(p) = UpTo(p, N)
      BY <2>3, <2>4, <2>6, <2>7, NormalIs DEF Path
    <2>9. UpTo(p, N) = p
      BY <2>3, <2>4, GrowsToWhole DEF Path
    <2>10. Place(uri) = p
      BY <1>2, <2>1, <2>2, <2>3, <2>8, <2>9 DEF Place
    <2>11. FsPathOf(uri) = [p EXCEPT ![N] = p[N]]
      BY <1>2, <2>1, <2>2, <2>3, <2>4 DEF FsPathOf
    <2>12. [p EXCEPT ![N] = p[N]] = p
      BY <2>4, <2>5 DEF Path
    <2> QED BY <2>3, <2>4, <2>6, <2>10, <2>11, <2>12
  <1> QED BY <1>1, <1>2
-----------------------------------------------------------------------------
(* Parts of sequences: t has the elements of s at the places I, in order;   *)
(* pi is where each is in s.                                                *)
Embeds(pi, t, s, I) ==
    /\ pi \in [1..Len(t) -> I] /\ I = {pi[k] : k \in 1..Len(t)}
    /\ \A k, l \in 1..Len(t) : k < l => pi[k] < pi[l]
    /\ \A k \in 1..Len(t) : t[k] = s[pi[k]]

(* How Kept counts.                                                         *)
Picks(f, s, N, I) ==
    f[0] = <<>> /\ \A n \in 1..N : f[n] = IF n \in I THEN Append(f[n - 1], s[n]) ELSE f[n - 1]

(* The function Kept counts with is defined.                                *)
LEMMA PicksDefined ==
    ASSUME NEW S, NEW s \in Seq(S), NEW N, N = Len(s), NEW I
    PROVE  \E f : f \in [0..N -> Seq(S)] /\ Picks(f, s, N, I)
  <1> DEFINE g == [n \in 1..N |-> [out \in Seq(S) |-> IF n \in I THEN Append(out, s[n]) ELSE out]]
  <1>0. N \in Nat /\ \A n \in 1..N : s[n] \in S
    OBVIOUS
  <1>1. g \in [1..N -> [Seq(S) -> Seq(S)]]
    <2>1. ASSUME NEW n \in 1..N, NEW out \in Seq(S) PROVE (IF n \in I THEN Append(out, s[n]) ELSE out) \in Seq(S)
      <3>1. Append(out, s[n]) \in Seq(S)
        BY <1>0
      <3> QED BY <3>1
    <2> QED BY <2>1
  <1>2. PICK it \in [SUBSET (1..N) -> Seq(S)] :
              /\ it[{}] = <<>>
              /\ \A d \in SUBSET (1..N) : d # {} => it[d] = g[Max(d)][it[d \ {Max(d)}]]
    <2>1. PICK Out, none, h : Out = Seq(S) /\ none = <<>> /\ h = g
      OBVIOUS
    <2>2. <<>> \in Seq(S)
      OBVIOUS
    <2> HIDE DEF g
    <2>3. none \in Out /\ N \in Nat /\ h \in [1..N -> [Out -> Out]]
      BY <1>0, <1>1, <2>1, <2>2
    <2>4. \E it : IsFold(it, Out, N, none, h)
      BY ONLY <2>3, FoldIsDefined
    <2> QED BY <2>1, <2>4 DEF IsFold
  <1>3. PICK f : f = [n \in 0..N |-> it[1..n]]
    OBVIOUS
  <1>4. ASSUME NEW n \in 0..N PROVE f[n] = it[1..n] /\ f[n] \in Seq(S)
    <2>1. 1..n \in SUBSET (1..N)
      BY <1>0
    <2> QED BY <1>2, <1>3, <2>1
  <1>5. f \in [0..N -> Seq(S)]
    BY <1>3, <1>4
  <1>6. f[0] = <<>>
    <2>1. 1..0 = {} /\ 0 \in 0..N
      BY <1>0
    <2> QED BY <1>2, <1>4, <2>1
  <1>7. ASSUME NEW n \in 1..N PROVE f[n] = IF n \in I THEN Append(f[n - 1], s[n]) ELSE f[n - 1]
    <2>1. 1..n \in SUBSET (1..N) /\ n \in 1..n /\ n - 1 \in 0..N /\ n \in 0..N
      BY <1>0
    <2>2. Max(1..n) \in 1..n /\ n <= Max(1..n)
      BY <1>0, <2>1, MaxIs
    <2>3. Max(1..n) = n /\ 1..n # {} /\ (1..n) \ {n} = 1..(n - 1)
      BY <2>1, <2>2
    <2>4. PICK d : d = 1..n
      OBVIOUS
    <2>5. it[d] = g[Max(d)][it[d \ {Max(d)}]]
      <3> HIDE DEF g
      <3> QED BY <1>2, <2>1, <2>3, <2>4
    <2>6. it[1..n] = g[n][it[1..(n - 1)]]
      <3> HIDE DEF g
      <3> QED BY <2>3, <2>4, <2>5
    <2>7. PICK o : o = it[1..(n - 1)] /\ o = f[n - 1] /\ o \in Seq(S)
      BY <1>4, <2>1
    <2>8. g[n][o] = IF n \in I THEN Append(o, s[n]) ELSE o
      BY <2>7
    <2> HIDE DEF g
    <2> QED BY <1>4, <2>1, <2>6, <2>7, <2>8
  <1>8. Picks(f, s, N, I)
    BY <1>6, <1>7 DEF Picks
  <1> QED BY <1>5, <1>8

(* It keeps the elements at the places, in order.                           *)
LEMMA PicksEmbed ==
    ASSUME NEW S, NEW s \in Seq(S), NEW N, N = Len(s), NEW I \in SUBSET (1..N), NEW f, Picks(f, s, N, I)
    PROVE  f[N] \in Seq(S) /\ \E pi : Embeds(pi, f[N], s, I)
  <1>0. N \in Nat /\ \A n \in 1..N : s[n] \in S
    OBVIOUS
  <1> DEFINE Part(n) == {i \in I : i <= n}
             Is(n) == f[n] \in Seq(S) /\ \E pi : Embeds(pi, f[n], s, Part(n))
             T == {n \in Nat : n <= N => Is(n)}
  <1>1. Is(0)
    <2>1. f[0] = <<>> /\ <<>> \in Seq(S) /\ Len(<<>>) = 0 /\ 1..0 = {}
      BY DEF Picks
    <2>2. Part(0) = {}
      <3>1. \A i \in I : ~(i <= 0)
        BY <1>0
      <3> QED BY <3>1
    <2> HIDE DEF Part
    <2>3. PICK pi : pi = [k \in 1..0 |-> 0]
      OBVIOUS
    <2>4. Embeds(pi, <<>>, s, {})
      BY <2>1, <2>3 DEF Embeds
    <2> QED BY <2>1, <2>2, <2>4
  <1>2. ASSUME NEW n \in Nat, n + 1 <= N, Is(n) PROVE Is(n + 1)
    <2>1. PICK t, pi : t = f[n] /\ t \in Seq(S) /\ Embeds(pi, t, s, Part(n))
      BY <1>2
    <2>2. n + 1 \in 1..N /\ (n + 1) - 1 = n
      BY <1>0, <1>2
    <2>3. f[n + 1] = IF n + 1 \in I THEN Append(t, s[n + 1]) ELSE t
      BY <2>1, <2>2 DEF Picks
    <2>4. \A i \in I : i \in Nat /\ (i <= n + 1 <=> i <= n \/ i = n + 1) /\ (i <= n => i # n + 1)
      BY <1>0
    <2>5. CASE n + 1 \notin I
      <3>1. Part(n + 1) = Part(n)
        BY <2>4, <2>5
      <3> HIDE DEF Part
      <3> QED BY <2>1, <2>3, <2>5, <3>1
    <2>6. CASE n + 1 \in I
      <3>a. Part(n + 1) = Part(n) \cup {n + 1}
        BY <2>4, <2>6
      <3>b. \A i \in Part(n) : i \in Nat /\ i <= n
        BY <2>4
      <3>c. \A i \in Part(n) : i \in Nat /\ i < n + 1
        <4> HIDE DEF Part
        <4> QED BY <1>2, <3>b
      <3>1. Part(n + 1) = Part(n) \cup {n + 1} /\ \A i \in Part(n) : i < n + 1 /\ i \in Nat
        BY <3>a, <3>c
      <3> HIDE DEF Part, Is
      <3>2. PICK u, m, x : u = Append(t, x) /\ x = s[n + 1] /\ m = Len(t)
        OBVIOUS
      <3>3. /\ m \in Nat /\ u \in Seq(S) /\ Len(u) = m + 1 /\ u[m + 1] = x /\ \A k \in 1..m : u[k] = t[k]
        BY <1>0, <2>1, <2>2, <3>2
      <3>4. PICK qi : qi = [k \in 1..(m + 1) |-> IF k = m + 1 THEN n + 1 ELSE pi[k]]
        OBVIOUS
      <3>5. 1..(m + 1) = 1..m \cup {m + 1} /\ m + 1 \in 1..(m + 1)
            /\ \A k \in 1..m : k # m + 1 /\ k < m + 1 /\ k \in 1..(m + 1)
        BY <3>3
      <3>6. /\ pi \in [1..m -> Part(n)] /\ Part(n) = {pi[k] : k \in 1..m}
            /\ \A k, l \in 1..m : k < l => pi[k] < pi[l]
            /\ \A k \in 1..m : t[k] = s[pi[k]]
        BY <2>1, <3>2 DEF Embeds
      <3>7. qi[m + 1] = n + 1 /\ \A k \in 1..m : qi[k] = pi[k] /\ pi[k] \in Part(n)
        BY <3>4, <3>5, <3>6
      <3>8. qi \in [1..(m + 1) -> Part(n + 1)]
        BY <3>1, <3>4, <3>5, <3>7
      <3>9. Part(n + 1) = {qi[k] : k \in 1..(m + 1)}
        <4>1. {qi[k] : k \in 1..(m + 1)} = {qi[k] : k \in 1..m} \cup {qi[m + 1]}
          BY <3>5
        <4>2. {qi[k] : k \in 1..m} = {pi[k] : k \in 1..m}
          BY <3>7
        <4> QED BY <3>1, <3>6, <3>7, <4>1, <4>2
      <3>10. ASSUME NEW k \in 1..(m + 1), NEW l \in 1..(m + 1), k < l PROVE qi[k] < qi[l]
        <4>1. k \in 1..m
          BY <3>3, <3>10
        <4>2. CASE l \in 1..m
          BY <3>6, <3>7, <3>10, <4>1, <4>2
        <4>3. CASE l = m + 1
          BY <3>1, <3>7, <4>1, <4>3
        <4> QED BY <3>5, <4>2, <4>3
      <3>11. \A k \in 1..(m + 1) : u[k] = s[qi[k]]
        <4>1. \A k \in 1..m : u[k] = s[qi[k]]
          BY <3>3, <3>6, <3>7
        <4>2. u[m + 1] = s[qi[m + 1]]
          BY <3>2, <3>3, <3>7
        <4> QED BY <3>5, <4>1, <4>2
      <3>12. Embeds(qi, u, s, Part(n + 1))
        BY <3>3, <3>8, <3>9, <3>10, <3>11 DEF Embeds
      <3> QED BY <2>3, <2>6, <3>2, <3>3, <3>12 DEF Is
    <2> QED BY <2>5, <2>6
  <1>3. Part(N) = I
    <2>1. \A i \in I : i <= N
      BY <1>0
    <2> QED BY <2>1
  <1> HIDE DEF Is, Part
  <1>4. T = Nat
    <2>1. T \in SUBSET Nat /\ 0 \in T
      BY <1>1
    <2>2. ASSUME NEW n \in T PROVE n + 1 \in T
      <3>1. n \in Nat /\ (n <= N => Is(n))
        OBVIOUS
      <3>2. n + 1 <= N => n <= N
        BY <1>0, <3>1
      <3>3. n + 1 <= N => Is(n + 1)
        BY <1>2, <3>1, <3>2
      <3>4. n + 1 \in Nat
        BY <3>1
      <3> QED BY <3>3, <3>4
    <2> HIDE DEF T
    <2> QED BY <2>1, <2>2, Induction
  <1>5. Is(N)
    <2>1. N \in T
      BY <1>0, <1>4
    <2>2. N <= N
      BY <1>0
    <2> QED BY <2>1, <2>2
  <1> QED BY <1>3, <1>5 DEF Is

(* Kept(s, I) has the elements of s at the places I, in order.              *)
LEMMA KeptEmbeds ==
    ASSUME NEW S, NEW s \in Seq(S), NEW I \in SUBSET DOMAIN s
    PROVE  Kept(s, I) \in Seq(S) /\ \E pi : Embeds(pi, Kept(s, I), s, I)
  <1>1. PICK N : N = Len(s)
    OBVIOUS
  <1>2. PICK f : f \in [0..N -> Seq(S)] /\ Picks(f, s, N, I)
    BY <1>1, PicksDefined
  <1> DEFINE IsOne(h) == h = [n \in 0..N |-> IF n = 0 THEN <<>>
                                  ELSE IF n \in I THEN Append(h[n - 1], s[n]) ELSE h[n - 1]]
             one == CHOOSE h : IsOne(h)
  <1>3. N \in Nat /\ 0 \in 0..N /\ (\A n \in 0..N : n = 0 \/ n \in 1..N) /\ \A n \in 1..N : n \in 0..N /\ n # 0
    BY <1>1
  <1>4. IsOne(f)
    <2>1. \A n \in 0..N : f[n] = IF n = 0 THEN <<>> ELSE IF n \in I THEN Append(f[n - 1], s[n]) ELSE f[n - 1]
      BY <1>2, <1>3 DEF Picks
    <2> QED BY <1>2, <2>1
  <1>5. IsOne(one)
    BY <1>4
  <1>6. Kept(s, I) = one[N]
    BY <1>1 DEF Kept
  <1> HIDE DEF one
  <1>7. Picks(one, s, N, I)
    BY <1>3, <1>5 DEF Picks
  <1>8. I \in SUBSET (1..N)
    BY <1>1
  <1> HIDE DEF IsOne
  <1>9. one[N] \in Seq(S) /\ \E pi : Embeds(pi, one[N], s, I)
    BY <1>1, <1>7, <1>8, PicksEmbed
  <1> QED BY <1>6, <1>9

(* Kept(s, I) has those elements, and no others.                            *)
LEMMA KeptHasThose ==
    ASSUME NEW S, NEW s \in Seq(S), NEW I \in SUBSET DOMAIN s
    PROVE  /\ Kept(s, I) \in Seq(S)
           /\ \A k \in DOMAIN Kept(s, I) : \E i \in I : Kept(s, I)[k] = s[i]
           /\ \A i \in I : \E k \in DOMAIN Kept(s, I) : Kept(s, I)[k] = s[i]
  <1>0. PICK t : t = Kept(s, I)
    OBVIOUS
  <1>1. t \in Seq(S) /\ \E pi : Embeds(pi, t, s, I)
    BY <1>0, KeptEmbeds
  <1>2. PICK pi : Embeds(pi, t, s, I)
    BY <1>1
  <1>3. DOMAIN t = 1..Len(t)
    BY <1>1
  <1>4. /\ pi \in [DOMAIN t -> I] /\ I = {pi[k] : k \in DOMAIN t}
        /\ \A k \in DOMAIN t : t[k] = s[pi[k]]
    BY <1>2, <1>3 DEF Embeds
  <1>5. \A k \in DOMAIN t : pi[k] \in I
    BY <1>4
  <1>6. ASSUME NEW i \in I PROVE \E k \in DOMAIN t : t[k] = s[i]
    BY <1>4
  <1>7. \A k \in DOMAIN t : \E i \in I : t[k] = s[i]
    BY <1>4, <1>5
  <1> QED BY <1>0, <1>1, <1>6, <1>7
==============================================================================
