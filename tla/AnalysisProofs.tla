---------------------------- MODULE AnalysisProofs ----------------------------
(* A document under edit, for any texts and any edits: the text the server  *)
(* has is the one the client shows, because every way the client names a    *)
(* place is taken for that place.                                           *)
EXTENDS Analysis, TLAPS, FiniteSetTheorems, SequenceTheorems, NaturalsInduction, WellFoundedInduction

(* Induction over the numbers, told with sets.                              *)
Below == {pair \in Nat \X Nat : pair[1] < pair[2]}

LEMMA LeastOf ==
    ASSUME NEW T \in SUBSET Nat, T # {}
    PROVE  \E n \in T : \A m \in T : n <= m
  <1>1. IsWellFoundedOn(Below, Nat)
    BY NatLessThanWellFounded DEF OpToRel, Below
  <1>2. PICK n \in T : \A m \in T : ~(<<m, n>> \in Below)
    BY <1>1, WFMin
  <1>3. ASSUME NEW m \in T PROVE n <= m
    <2>1. m \in Nat /\ n \in Nat /\ (m < n => <<m, n>> \in Below)
      BY DEF Below
    <2> QED BY <1>2, <2>1
  <1> QED BY <1>3

LEMMA Induction ==
    ASSUME NEW T \in SUBSET Nat, 0 \in T, \A n \in T : n + 1 \in T
    PROVE  T = Nat
  <1> SUFFICES ASSUME Nat \ T # {} PROVE FALSE
    OBVIOUS
  <1>1. PICK x \in Nat \ T : \A y \in Nat \ T : x <= y
    BY LeastOf
  <1>2. x - 1 \in Nat /\ x - 1 \notin Nat \ T
    BY <1>1
  <1> QED BY <1>1, <1>2

(* A function told by its first value and each next one.                    *)
Follows(f, V, N, b, g) ==
    f \in [0..N -> V] /\ f[0] = b /\ \A n \in 1..N : f[n] = g[n][f[n - 1]]

LEMMA Recursion ==
    ASSUME NEW V, NEW N \in Nat, NEW b \in V, NEW g \in [1..N -> [V -> V]]
    PROVE  \E f : Follows(f, V, N, b, g)
  <1> DEFINE Is(f, m) == f \in [0..m -> V] /\ f[0] = b /\ \A n \in 1..m : f[n] = g[n][f[n - 1]]
             T == {m \in Nat : m <= N => \E f : Is(f, m)}
  <1>1. 0 \in T
    <2>1. Is([n \in 0..0 |-> b], 0)
      OBVIOUS
    <2> QED BY <2>1
  <1>2. ASSUME NEW m \in T PROVE m + 1 \in T
    <2> SUFFICES ASSUME m + 1 <= N PROVE \E h : Is(h, m + 1)
      OBVIOUS
    <2>1. m \in Nat /\ m <= N
      OBVIOUS
    <2>2. PICK f : Is(f, m)
      BY <2>1
    <2> DEFINE h == [n \in 0..(m + 1) |-> IF n = m + 1 THEN g[m + 1][f[m]] ELSE f[n]]
    <2>3. f[m] \in V /\ m + 1 \in 1..N
      BY <2>1, <2>2
    <2>4. \A n \in 0..m : h[n] = f[n]
      BY <2>1
    <2>5. h[m + 1] = g[m + 1][h[m]] /\ h[m + 1] \in V
      BY <2>1, <2>3
    <2>6. h \in [0..(m + 1) -> V]
      <3>1. \A n \in 0..(m + 1) : n = m + 1 \/ n \in 0..m
        BY <2>1
      <3>2. \A n \in 0..(m + 1) : h[n] \in V
        BY <2>2, <2>4, <2>5, <3>1
      <3> QED BY <3>2
    <2>7. \A n \in 1..(m + 1) : h[n] = g[n][h[n - 1]]
      <3> HIDE DEF h
      <3> TAKE n \in 1..(m + 1)
      <3>1. CASE n = m + 1
        BY <2>1, <2>5, <3>1
      <3>2. CASE n \in 1..m
        <4>1. n - 1 \in 0..m /\ n \in 0..m
          BY <2>1, <3>2
        <4> QED BY <2>2, <2>4, <3>2, <4>1
      <3> QED BY <2>1, <3>1, <3>2
    <2>8. Is(h, m + 1)
      <3>1. h[0] = b
        BY <2>1, <2>2, <2>4
      <3> HIDE DEF h
      <3> QED BY <2>6, <2>7, <3>1
    <2> HIDE DEF Is, h
    <2> QED BY <2>8
  <1>3. T = Nat
    <2> HIDE DEF T
    <2>1. T \in SUBSET Nat
      BY DEF T
    <2> QED BY <1>1, <1>2, <2>1, Induction
  <1>4. PICK n \in T : n = N
    BY <1>3
  <1>5. \E f : Is(f, n)
    <2> HIDE DEF Is
    <2> QED BY <1>4
  <1> QED BY <1>4, <1>5 DEF Follows
-----------------------------------------------------------------------------
(* Lengths.                                                                 *)

LEMMA UnitsArePositive ==
    ASSUME NEW encoding, NEW c
    PROVE  UnitsOf(encoding, c) \in 1..4 /\ (c \in {"lf", "cr"} => UnitsOf(encoding, c) = 1)
  BY DEF UnitsOf

LEMMA UnitsAdd ==
    ASSUME NEW encoding, NEW s, NEW N \in Nat, Len(s) = N
    PROVE  /\ UnitsTo(encoding, s) \in [0..N -> Nat]
           /\ UnitsTo(encoding, s)[0] = 0
           /\ \A n \in 1..N : UnitsTo(encoding, s)[n] =
                                  UnitsTo(encoding, s)[n - 1] + UnitsOf(encoding, s[n])
  <1> DEFINE Is(u) == u = [n \in 0..N |-> IF n = 0 THEN 0 ELSE u[n - 1] + UnitsOf(encoding, s[n])]
  <1>1. \E u : Is(u)
    <2> DEFINE g == [n \in 1..N |-> [v \in Nat |-> v + UnitsOf(encoding, s[n])]]
    <2>1. g \in [1..N -> [Nat -> Nat]]
      BY UnitsArePositive
    <2>2. PICK f : Follows(f, Nat, N, 0, g)
      <3> HIDE DEF g
      <3>1. 0 \in Nat
        OBVIOUS
      <3> QED BY <2>1, <3>1, Recursion
    <2>3. \A n \in 1..N : f[n] = f[n - 1] + UnitsOf(encoding, s[n])
      <3> TAKE n \in 1..N
      <3>1. f[n - 1] \in Nat
        BY <2>2 DEF Follows
      <3> QED BY <2>2, <3>1 DEF Follows
    <2>4. \A n \in 0..N : f[n] = IF n = 0 THEN 0 ELSE f[n - 1] + UnitsOf(encoding, s[n])
      BY <2>2, <2>3 DEF Follows
    <2>5. Is(f)
      BY <2>2, <2>4 DEF Follows
    <2> QED BY <2>5
  <1> DEFINE u == CHOOSE u : Is(u)
  <1>2. Is(u)
    BY <1>1
  <1>3. UnitsTo(encoding, s) = u
    BY DEF UnitsTo
  <1> HIDE DEF u
  <1>4. u[0] = 0 /\ \A n \in 1..N : u[n] = u[n - 1] + UnitsOf(encoding, s[n])
    BY <1>2
  <1>5. \A n \in 0..N : u[n] \in Nat
    <2> DEFINE T == {n \in Nat : n <= N => u[n] \in Nat}
    <2>1. 0 \in T
      BY <1>4
    <2>2. ASSUME NEW n \in T PROVE n + 1 \in T
      <3> SUFFICES ASSUME n + 1 <= N PROVE u[n + 1] \in Nat
        OBVIOUS
      <3>1. u[n] \in Nat /\ n + 1 \in 1..N /\ (n + 1) - 1 = n
        OBVIOUS
      <3>2. UnitsOf(encoding, s[n + 1]) \in Nat
        BY UnitsArePositive
      <3>3. u[n + 1] = u[n] + UnitsOf(encoding, s[n + 1])
        BY <1>4, <3>1
      <3> QED BY <3>1, <3>2, <3>3
    <2>3. T = Nat
      <3> HIDE DEF u
      <3> QED BY <2>1, <2>2, Induction
    <2> QED BY <2>3
  <1>6. u \in [0..N -> Nat]
    BY <1>2, <1>5
  <1> QED BY <1>3, <1>4, <1>6

(* Every character has a length: of two places the later is further.        *)
LEMMA UnitsGrow ==
    ASSUME NEW encoding, NEW s, NEW N \in Nat, Len(s) = N, NEW a \in 0..N, NEW b \in 0..N
    PROVE  /\ UnitsTo(encoding, s)[a] \in Nat
           /\ a <= b => UnitsTo(encoding, s)[a] + (b - a) <= UnitsTo(encoding, s)[b]
           /\ a <= b <=> UnitsTo(encoding, s)[a] <= UnitsTo(encoding, s)[b]
  <1>1. PICK u : u = UnitsTo(encoding, s)
    OBVIOUS
  <1>2. u \in [0..N -> Nat] /\ \A n \in 1..N : u[n - 1] + 1 <= u[n]
    <2>1. u \in [0..N -> Nat] /\ \A n \in 1..N : u[n] = u[n - 1] + UnitsOf(encoding, s[n])
      BY <1>1, UnitsAdd
    <2>2. ASSUME NEW n \in 1..N PROVE u[n - 1] + 1 <= u[n]
      <3>1. n - 1 \in 0..N /\ UnitsOf(encoding, s[n]) \in 1..4
        BY UnitsArePositive
      <3>2. u[n - 1] \in Nat
        BY <2>1, <3>1
      <3> QED BY <2>1, <3>1, <3>2
    <2> QED BY <2>1, <2>2
  <1>3. ASSUME NEW c \in 0..N, NEW d \in 0..N, c <= d PROVE u[c] + (d - c) <= u[d]
    <2> DEFINE T == {k \in Nat : c + k <= N => u[c] + k <= u[c + k]}
    <2>1. 0 \in T
      BY <1>2
    <2>2. ASSUME NEW k \in T PROVE k + 1 \in T
      <3> SUFFICES ASSUME c + (k + 1) <= N PROVE u[c] + (k + 1) <= u[c + (k + 1)]
        OBVIOUS
      <3>1. c + k \in 0..N /\ c + (k + 1) \in 1..N /\ (c + (k + 1)) - 1 = c + k
        OBVIOUS
      <3>2. u[c] \in Nat /\ u[c + k] \in Nat /\ u[c + (k + 1)] \in Nat
        BY <1>2, <3>1
      <3>3. u[c] + k <= u[c + k]
        BY <3>1
      <3>4. u[c + k] + 1 <= u[c + (k + 1)]
        BY <1>2, <3>1
      <3> QED BY <3>2, <3>3, <3>4
    <2>3. T = Nat
      <3> HIDE DEF T
      <3>1. T \in SUBSET Nat
        BY DEF T
      <3> QED BY <2>1, <2>2, <3>1, Induction
    <2>4. PICK k \in T : k = d - c
      <3> HIDE DEF T
      <3>1. d - c \in Nat
        BY <1>3
      <3> QED BY <2>3, <3>1
    <2>5. c + k = d /\ c + k <= N
      BY <2>4
    <2>6. u[c] + k <= u[c + k]
      BY <2>5
    <2> QED BY <2>4, <2>5, <2>6
  <1>4. u[a] \in Nat /\ u[b] \in Nat
    BY <1>2
  <1>5. a <= b => u[a] + (b - a) <= u[b]
    BY <1>3
  <1>6. b <= a => u[b] + (a - b) <= u[a]
    BY <1>3
  <1>7. PICK x, y : x = u[a] /\ y = u[b]
    OBVIOUS
  <1>8. x \in Nat /\ y \in Nat /\ (a <= b => x + (b - a) <= y) /\ (b <= a => y + (a - b) <= x)
    BY <1>4, <1>5, <1>6, <1>7
  <1>9. a <= b <=> x <= y
    BY <1>8
  <1> QED BY <1>1, <1>7, <1>8, <1>9

(* A part is as long as what is to its end, less what is before it.         *)
LEMMA UnitsOfPart ==
    ASSUME NEW encoding, NEW s \in Seq(Char), NEW a \in 0..Len(s), NEW b \in a..Len(s)
    PROVE  Measure(encoding, SubSeq(s, a + 1, b)) = UnitsTo(encoding, s)[b] - UnitsTo(encoding, s)[a]
  <1>1. PICK p, u, v, N : /\ p = SubSeq(s, a + 1, b) /\ u = UnitsTo(encoding, s)
                          /\ v = UnitsTo(encoding, p) /\ N = Len(s)
    OBVIOUS
  <1>2. N \in Nat /\ a \in 0..N /\ b \in 0..N /\ a <= b
    BY <1>1
  <1>3. Len(p) = b - a /\ b - a \in Nat /\ \A k \in 1..(b - a) : p[k] = s[a + k]
    <2>1. a + 1 \in 1..(N + 1) /\ b - (a + 1) + 1 = b - a /\ b - a \in Nat
      BY <1>2
    <2>2. p \in Seq(Char) /\ Len(p) = b - a
      BY <1>1, <1>2, <2>1
    <2>3. \A k \in 1..(b - a) : p[k] = s[(a + 1) + k - 1] /\ (a + 1) + k - 1 = a + k
      BY <1>1, <1>2, <2>1
    <2> QED BY <2>1, <2>2, <2>3
  <1>4. u \in [0..N -> Nat] /\ \A n \in 1..N : u[n] = u[n - 1] + UnitsOf(encoding, s[n])
    <2>1. Len(s) = N /\ N \in Nat
      BY <1>1
    <2>2. /\ UnitsTo(encoding, s) \in [0..N -> Nat]
          /\ \A n \in 1..N : UnitsTo(encoding, s)[n] =
                                 UnitsTo(encoding, s)[n - 1] + UnitsOf(encoding, s[n])
      BY <2>1, UnitsAdd
    <2> QED BY <1>1, <2>2
  <1>5. /\ v \in [0..(b - a) -> Nat] /\ v[0] = 0
        /\ \A n \in 1..(b - a) : v[n] = v[n - 1] + UnitsOf(encoding, p[n])
    <2>1. PICK m : m = b - a /\ m \in Nat /\ m = Len(p)
      BY <1>3
    <2>2. /\ UnitsTo(encoding, p) \in [0..m -> Nat] /\ UnitsTo(encoding, p)[0] = 0
          /\ \A n \in 1..m : UnitsTo(encoding, p)[n] =
                                 UnitsTo(encoding, p)[n - 1] + UnitsOf(encoding, p[n])
      BY <2>1, UnitsAdd
    <2> QED BY <1>1, <2>1, <2>2
  <1> DEFINE T == {k \in Nat : k <= b - a => v[k] = u[a + k] - u[a]}
  <1>6. 0 \in T
    BY <1>2, <1>4, <1>5
  <1>7. ASSUME NEW k \in T PROVE k + 1 \in T
    <2> SUFFICES ASSUME k + 1 <= b - a PROVE v[k + 1] = u[a + (k + 1)] - u[a]
      OBVIOUS
    <2>1. /\ k + 1 \in 1..(b - a) /\ (k + 1) - 1 = k /\ a + (k + 1) \in 1..N /\ (a + (k + 1)) - 1 = a + k
          /\ a + k \in 0..N
      BY <1>2
    <2>2. p[k + 1] = s[a + (k + 1)]
      BY <1>3, <2>1
    <2>3. v[k] = u[a + k] - u[a]
      BY <2>1
    <2>4. v[k + 1] = v[k] + UnitsOf(encoding, s[a + (k + 1)])
      BY <1>5, <2>1, <2>2
    <2>5. u[a + (k + 1)] = u[a + k] + UnitsOf(encoding, s[a + (k + 1)])
      BY <1>4, <2>1
    <2>6. u[a + k] \in Nat /\ u[a] \in Nat /\ UnitsOf(encoding, s[a + (k + 1)]) \in 1..4
      BY <1>2, <1>4, <2>1, UnitsArePositive
    <2>7. PICK x, y, w : x = u[a + k] /\ y = u[a] /\ w = UnitsOf(encoding, s[a + (k + 1)])
      OBVIOUS
    <2>8. v[k + 1] = (x - y) + w /\ u[a + (k + 1)] = x + w
      BY <2>3, <2>4, <2>5, <2>7
    <2>9. x \in Nat /\ y \in Nat /\ w \in Nat
      BY <2>6, <2>7
    <2>10. (x - y) + w = (x + w) - y
      BY <2>9
    <2> QED BY <2>7, <2>8, <2>10
  <1>8. T = Nat
    <2> HIDE DEF T
    <2>1. T \in SUBSET Nat
      BY DEF T
    <2> QED BY <1>6, <1>7, <2>1, Induction
  <1>9. PICK k \in T : k = b - a
    BY <1>3, <1>8
  <1>10. v[b - a] = u[b] - u[a]
    <2>1. a + k = b
      BY <1>2, <1>9
    <2> QED BY <1>2, <1>9, <2>1
  <1> QED BY <1>1, <1>3, <1>10 DEF Measure

Bytes(text) == UnitsTo("utf-8", text)

LEMMA BytesOfTake ==
    ASSUME NEW text \in Seq(Char), NEW n \in 0..Len(text)
    PROVE  ByteLen(Take(text, n)) = Bytes(text)[n]
  <1>1. Measure("utf-8", SubSeq(text, 0 + 1, n)) = Bytes(text)[n] - Bytes(text)[0]
    BY UnitsOfPart DEF Bytes
  <1>2. Bytes(text)[0] = 0 /\ Bytes(text)[n] \in Nat /\ 0 + 1 = 1
    BY UnitsAdd, UnitsGrow DEF Bytes
  <1> QED BY <1>1, <1>2 DEF ByteLen, Take

(* The offset of a character's start is that character's.                   *)
LEMMA CharsAtBytes ==
    ASSUME NEW text \in Seq(Char), NEW n \in 0..Len(text)
    PROVE  CharsTo(text, Bytes(text)[n]) = n
  <1>1. \A m \in 1..Len(text) : Bytes(text)[m] <= Bytes(text)[n] <=> m <= n
    BY UnitsGrow DEF Bytes
  <1>2. {m \in 1..Len(text) : Bytes(text)[m] <= Bytes(text)[n]} = 1..n
    BY <1>1
  <1>3. Cardinality(1..n) = n
    BY FS_Interval
  <1> QED BY <1>2, <1>3 DEF CharsTo, Bytes
-----------------------------------------------------------------------------
(* Lines.                                                                   *)

LinesTo(text, n) == Cardinality({k \in 1..n : text[k] = "lf"})

LEMMA LinesStep ==
    ASSUME NEW text, NEW n \in Nat
    PROVE  /\ LinesTo(text, n) \in Nat /\ LinesTo(text, 0) = 0
           /\ LinesTo(text, n + 1) = LinesTo(text, n) + IF text[n + 1] = "lf" THEN 1 ELSE 0
  <1> DEFINE A(m) == {k \in 1..m : text[k] = "lf"}
  <1>1. IsFiniteSet(A(n)) /\ Cardinality(A(n)) \in Nat
    <2>1. IsFiniteSet(1..n)
      BY FS_Interval
    <2>2. IsFiniteSet(A(n))
      BY <2>1, FS_Subset
    <2> HIDE DEF A
    <2> QED BY <2>2, FS_CardinalityType
  <1>2. A(0) = {}
    OBVIOUS
  <1>3. A(n + 1) = IF text[n + 1] = "lf" THEN A(n) \cup {n + 1} ELSE A(n)
    OBVIOUS
  <1>4. n + 1 \notin A(n)
    OBVIOUS
  <1>5. LinesTo(text, n) = Cardinality(A(n)) /\ LinesTo(text, n + 1) = Cardinality(A(n + 1))
        /\ LinesTo(text, 0) = Cardinality(A(0))
    BY DEF LinesTo
  <1> HIDE DEF A
  <1>6. Cardinality(A(n) \cup {n + 1}) = Cardinality(A(n)) + 1
    BY <1>1, <1>4, FS_AddElement
  <1> QED BY <1>1, <1>2, <1>3, <1>5, <1>6, FS_EmptySet

(* The last line end before a place, and no other.                          *)
IsHead(text, n, h) ==
    /\ h \in 0..n /\ (h # 0 => text[h] = "lf")
    /\ \A k \in (h + 1)..n : text[k] # "lf"

LEMMA HeadIsLast ==
    ASSUME NEW text \in Seq(Char), NEW n \in 0..Len(text)
    PROVE  IsHead(text, n, LineHead(text, n))
  <1> DEFINE I == {i \in 1..n : text[i] = "lf"}
             J == {m \in 0..n : n - m \in I}
  <1>1. n \in Nat /\ Len(Take(text, n)) = n /\ \A i \in 1..n : Take(text, n)[i] = text[i]
    BY DEF Take
  <1>2. LineHead(text, n) = IF I # {} THEN Max(I) ELSE 0
    <2>1. I = {i \in 1..Len(Take(text, n)) : Newline(Take(text, n)[i])}
      BY <1>1 DEF Newline
    <2> QED BY <2>1 DEF LineHead, SelectLastInSeq
  <1>3. CASE I = {}
    <2>1. LineHead(text, n) = 0 /\ \A k \in 1..n : text[k] # "lf"
      BY <1>2, <1>3
    <2> QED BY <1>1, <2>1 DEF IsHead
  <1>4. CASE I # {}
    <2>1. J # {} /\ J \in SUBSET Nat
      <3>1. PICK i \in I : TRUE
        BY <1>4
      <3>2. n - i \in 0..n /\ n - (n - i) = i
        BY <1>1
      <3>3. n - i \in J
        BY <3>1, <3>2
      <3>4. J \in SUBSET Nat
        BY <1>1
      <3> QED BY <3>3, <3>4
    <2>2. PICK j \in J : \A m \in J : j <= m
      BY <2>1, LeastOf
    <2>3. n - j \in I /\ \A i \in I : n - j >= i
      <3>1. ASSUME NEW i \in I PROVE n - j >= i
        <4>1. n - i \in 0..n /\ n - (n - i) = i
          BY <1>1
        <4>2. n - i \in J
          BY <4>1
        <4>3. j <= n - i
          BY <2>2, <4>2
        <4> QED BY <1>1, <4>3
      <3> QED BY <3>1
    <2>4. PICK h : h = Max(I)
      OBVIOUS
    <2>5. h \in I /\ \A i \in I : h >= i
      BY <2>3, <2>4 DEF Max
    <2>6. ASSUME NEW k \in (h + 1)..n PROVE text[k] # "lf"
      <3>1. k \in 1..n /\ ~(h >= k)
        BY <1>1, <2>5
      <3> QED BY <2>5, <3>1
    <2>7. h \in 0..n /\ text[h] = "lf"
      BY <1>1, <2>5
    <2> QED BY <1>2, <1>4, <2>4, <2>6, <2>7 DEF IsHead
  <1> QED BY <1>3, <1>4

LEMMA OneHead ==
    ASSUME NEW text, NEW n \in Nat, NEW h, NEW i, IsHead(text, n, h), IsHead(text, n, i)
    PROVE  h = i
  <1>1. h \in 0..n /\ i \in 0..n
    BY DEF IsHead
  <1>2. ASSUME h < i PROVE FALSE
    BY <1>1, <1>2 DEF IsHead
  <1>3. ASSUME i < h PROVE FALSE
    BY <1>1, <1>3 DEF IsHead
  <1> QED BY <1>1, <1>2, <1>3

LEMMA HeadStep ==
    ASSUME NEW text \in Seq(Char), NEW n \in Nat, n + 1 <= Len(text)
    PROVE  /\ LineHead(text, 0) = 0
           /\ LineHead(text, n + 1) = IF text[n + 1] = "lf" THEN n + 1 ELSE LineHead(text, n)
  <1>1. n \in 0..Len(text) /\ n + 1 \in 0..Len(text) /\ 0 \in 0..Len(text)
    OBVIOUS
  <1>2. IsHead(text, n, LineHead(text, n)) /\ IsHead(text, n + 1, LineHead(text, n + 1))
        /\ IsHead(text, 0, LineHead(text, 0))
    BY <1>1, HeadIsLast
  <1>3. CASE text[n + 1] = "lf"
    <2>1. IsHead(text, n + 1, n + 1)
      BY <1>3 DEF IsHead
    <2> QED BY <1>2, <1>3, <2>1, OneHead DEF IsHead
  <1>4. CASE text[n + 1] # "lf"
    <2>1. IsHead(text, n + 1, LineHead(text, n))
      <3>1. PICK h : h = LineHead(text, n)
        OBVIOUS
      <3>2. h \in 0..n /\ (h # 0 => text[h] = "lf") /\ \A k \in (h + 1)..n : text[k] # "lf"
        BY <1>2, <3>1 DEF IsHead
      <3>3. \A k \in (h + 1)..(n + 1) : k = n + 1 \/ k \in (h + 1)..n
        BY <3>2
      <3>4. \A k \in (h + 1)..(n + 1) : text[k] # "lf"
        BY <1>4, <3>2, <3>3
      <3>5. h \in 0..(n + 1)
        BY <3>2
      <3> QED BY <3>1, <3>2, <3>4, <3>5 DEF IsHead
    <2>2. n + 1 \in Nat
      OBVIOUS
    <2>3. LineHead(text, n + 1) = LineHead(text, n)
      BY <1>2, <2>1, <2>2, OneHead
    <2> QED BY <1>2, <1>4, <2>3 DEF IsHead
  <1> QED BY <1>3, <1>4

(* The index is made line by line.                                          *)
IndexTo(text, to) ==
    /\ to \in [0..Len(text) -> Seq(Nat)] /\ to[0] = <<0>>
    /\ \A n \in 1..Len(text) :
          to[n] = IF text[n] = "lf" THEN Append(to[n - 1], Bytes(text)[n]) ELSE to[n - 1]

LEMMA IndexIsMade ==
    ASSUME NEW text \in Seq(Char)
    PROVE  \E to : IndexTo(text, to) /\ LineStarts(text) = to[Len(text)]
  <1>1. PICK N, bytes : N = Len(text) /\ bytes = Bytes(text)
    OBVIOUS
  <1>2. N \in Nat /\ bytes \in [0..N -> Nat]
    BY <1>1, UnitsAdd DEF Bytes
  <1> DEFINE Is(to) == to = [n \in 0..N |-> IF n = 0 THEN <<0>>
                                            ELSE IF text[n] = "lf" THEN Append(to[n - 1], bytes[n])
                                            ELSE to[n - 1]]
  <1>3. \E to : Is(to)
    <2> DEFINE g == [n \in 1..N |-> [v \in Seq(Nat) |->
                        IF text[n] = "lf" THEN Append(v, bytes[n]) ELSE v]]
    <2>1. g \in [1..N -> [Seq(Nat) -> Seq(Nat)]]
      <3>1. \A n \in 1..N : bytes[n] \in Nat
        BY <1>2
      <3> QED BY <3>1
    <2>2. PICK f : Follows(f, Seq(Nat), N, <<0>>, g)
      <3> HIDE DEF g
      <3>1. <<0>> \in Seq(Nat)
        OBVIOUS
      <3> QED BY <1>2, <2>1, <3>1, Recursion
    <2>3. \A n \in 1..N : f[n] = IF text[n] = "lf" THEN Append(f[n - 1], bytes[n]) ELSE f[n - 1]
      <3> TAKE n \in 1..N
      <3>1. f[n - 1] \in Seq(Nat)
        BY <1>2, <2>2 DEF Follows
      <3> QED BY <2>2, <3>1 DEF Follows
    <2> DEFINE F(n) == IF n = 0 THEN <<0>>
                       ELSE IF text[n] = "lf" THEN Append(f[n - 1], bytes[n])
                       ELSE f[n - 1]
    <2>4. ASSUME NEW n \in 0..N PROVE f[n] = F(n)
      <3>1. CASE n = 0
        BY <2>2, <3>1 DEF Follows
      <3>2. CASE n # 0
        <4>1. n \in 1..N
          BY <1>2, <3>2
        <4> HIDE DEF g
        <4> QED BY <2>3, <3>2, <4>1
      <3> QED BY <3>1, <3>2
    <2>5. f = [n \in 0..N |-> F(n)]
      <3> HIDE DEF F, g
      <3> QED BY <2>2, <2>4 DEF Follows
    <2>6. Is(f)
      BY <2>5
    <2> QED BY <2>5
  <1> DEFINE to == CHOOSE to : Is(to)
  <1>4. Is(to)
    BY <1>3
  <1>5. LineStarts(text) = to[N]
    BY <1>1 DEF LineStarts, Bytes
  <1> HIDE DEF to
  <1>6. to[0] = <<0>> /\ \A n \in 1..N : to[n] = IF text[n] = "lf" THEN Append(to[n - 1], bytes[n])
                                                 ELSE to[n - 1]
    <2> DEFINE F(n) == IF n = 0 THEN <<0>>
                       ELSE IF text[n] = "lf" THEN Append(to[n - 1], bytes[n])
                       ELSE to[n - 1]
    <2>1. to = [n \in 0..N |-> F(n)]
      BY <1>4
    <2>2. \A n \in 0..N : to[n] = F(n)
      <3> HIDE DEF F, Is
      <3> QED BY <2>1
    <2>3. to[0] = <<0>>
      <3>1. 0 \in 0..N
        BY <1>2
      <3>2. to[0] = F(0)
        BY <2>2, <3>1
      <3> HIDE DEF Is
      <3> QED BY <3>2
    <2>4. ASSUME NEW n \in 1..N
          PROVE  to[n] = IF text[n] = "lf" THEN Append(to[n - 1], bytes[n]) ELSE to[n - 1]
      <3>1. n \in 0..N /\ n # 0
        BY <1>2
      <3>2. to[n] = F(n)
        BY <2>2, <3>1
      <3> HIDE DEF Is
      <3> QED BY <3>1, <3>2
    <2> QED BY <2>3, <2>4
  <1>7. \A n \in 0..N : to[n] \in Seq(Nat)
    <2> DEFINE T == {n \in Nat : n <= N => to[n] \in Seq(Nat)}
    <2> HIDE DEF Is
    <2>1. 0 \in T
      <3>1. <<0>> \in Seq(Nat)
        OBVIOUS
      <3> QED BY <1>6, <3>1
    <2>2. ASSUME NEW n \in T PROVE n + 1 \in T
      <3> SUFFICES ASSUME n + 1 <= N PROVE to[n + 1] \in Seq(Nat)
        OBVIOUS
      <3>1. to[n] \in Seq(Nat) /\ n + 1 \in 1..N /\ (n + 1) - 1 = n /\ bytes[n + 1] \in Nat
        BY <1>2
      <3>2. to[n + 1] = IF text[n + 1] = "lf" THEN Append(to[n], bytes[n + 1]) ELSE to[n]
        BY <1>6, <3>1
      <3> QED BY <3>1, <3>2
    <2>3. T = Nat
      <3> HIDE DEF T
      <3>1. T \in SUBSET Nat
        BY DEF T
      <3> QED BY <2>1, <2>2, <3>1, Induction
    <2> QED BY <2>3
  <1>8. to \in [0..N -> Seq(Nat)]
    BY <1>4, <1>7
  <1> QED BY <1>1, <1>5, <1>6, <1>8 DEF IndexTo

(* Up to any place it has the lines up to there, the last at the place's.   *)
LEMMA IndexGrows ==
    ASSUME NEW text \in Seq(Char), NEW to, IndexTo(text, to), NEW n \in 0..Len(text)
    PROVE  /\ to[n] \in Seq(Nat) /\ Len(to[n]) = LinesTo(text, n) + 1
           /\ to[n][Len(to[n])] = Bytes(text)[LineHead(text, n)]
           /\ Range(to[n]) = {Bytes(text)[k] : k \in {k \in 0..n : k = 0 \/ text[k] = "lf"}}
  <1>1. PICK N, b : N = Len(text) /\ b = Bytes(text)
    OBVIOUS
  <1>2. N \in Nat /\ b \in [0..N -> Nat] /\ b[0] = 0
    BY <1>1, UnitsAdd DEF Bytes
  <1> DEFINE Heads(m) == {b[k] : k \in {k \in 0..m : k = 0 \/ text[k] = "lf"}}
             P(m) == /\ Len(to[m]) = LinesTo(text, m) + 1
                     /\ to[m][Len(to[m])] = b[LineHead(text, m)]
                     /\ Range(to[m]) = Heads(m)
             T == {m \in Nat : m <= N => P(m)}
  <1>3. 0 \in T
    <2>1. to[0] = <<0>>
      BY DEF IndexTo
    <2>2. LinesTo(text, 0) = 0
      BY LinesStep
    <2>3. LineHead(text, 0) = 0
      <3>1. 0 \in 0..Len(text)
        OBVIOUS
      <3>2. IsHead(text, 0, LineHead(text, 0))
        BY <3>1, HeadIsLast
      <3> QED BY <3>2 DEF IsHead
    <2>4. Range(to[0]) = {0}
      BY <2>1 DEF Range
    <2>5. Heads(0) = {0}
      BY <1>2
    <2>6. Len(to[0]) = 1 /\ to[0][1] = 0
      BY <2>1
    <2>7. P(0)
      <3> HIDE DEF Heads
      <3> QED BY <1>2, <2>2, <2>3, <2>4, <2>5, <2>6
    <2> HIDE DEF P
    <2> QED BY <2>7
  <1>4. ASSUME NEW m \in T PROVE m + 1 \in T
    <2>0. m \in Nat /\ (m <= N => P(m))
      <3> HIDE DEF P
      <3> QED OBVIOUS
    <2> SUFFICES ASSUME m + 1 <= N PROVE P(m + 1)
      <3> HIDE DEF P
      <3> QED BY <2>0
    <2> HIDE DEF T
    <2>1. m \in Nat /\ m + 1 \in 1..N /\ (m + 1) - 1 = m /\ m \in 0..N
      <3> HIDE DEF P
      <3> QED BY <1>2, <2>0
    <2>2. P(m)
      <3> HIDE DEF P
      <3> QED BY <1>2, <2>0, <2>1
    <2>3. to[m + 1] = IF text[m + 1] = "lf" THEN Append(to[m], b[m + 1]) ELSE to[m]
      BY <1>1, <2>1 DEF IndexTo
    <2>4. LinesTo(text, m) \in Nat
          /\ LinesTo(text, m + 1) = LinesTo(text, m) + IF text[m + 1] = "lf" THEN 1 ELSE 0
      BY <2>1, LinesStep
    <2>5. LineHead(text, m + 1) = IF text[m + 1] = "lf" THEN m + 1 ELSE LineHead(text, m)
      BY <1>1, <2>1, HeadStep
    <2>6. to[m] \in Seq(Nat) /\ b[m + 1] \in Nat
      <3>1. to \in [0..N -> Seq(Nat)] /\ m + 1 \in 0..N
        BY <1>1, <1>2, <2>1 DEF IndexTo
      <3> HIDE DEF P
      <3> QED BY <1>2, <2>1, <3>1
    <2>7. Heads(m + 1) = IF text[m + 1] = "lf" THEN Heads(m) \cup {b[m + 1]} ELSE Heads(m)
      <3>1. \A k \in 0..(m + 1) : k = m + 1 \/ k \in 0..m
        BY <2>1
      <3>2. \A k \in 0..m : k \in 0..(m + 1)
        BY <2>1
      <3>3. m + 1 # 0 /\ m + 1 \in 0..(m + 1)
        BY <2>1
      <3> DEFINE K(j) == {k \in 0..j : k = 0 \/ text[k] = "lf"}
      <3>4. K(m + 1) = IF text[m + 1] = "lf" THEN K(m) \cup {m + 1} ELSE K(m)
        <4> HIDE DEF P, T
        <4> QED BY <3>1, <3>2, <3>3
      <3>5. \A j : Heads(j) = {b[k] : k \in K(j)}
        OBVIOUS
      <3> HIDE DEF Heads, K, P, T
      <3>6. CASE text[m + 1] = "lf"
        <4>1. K(m + 1) = K(m) \cup {m + 1}
          BY <3>4, <3>6
        <4>2. {b[k] : k \in K(m) \cup {m + 1}} = {b[k] : k \in K(m)} \cup {b[m + 1]}
          OBVIOUS
        <4> QED BY <3>5, <3>6, <4>1, <4>2
      <3>7. CASE text[m + 1] # "lf"
        BY <3>4, <3>5, <3>7
      <3> QED BY <3>6, <3>7
    <2> HIDE DEF Heads
    <2>8. CASE text[m + 1] = "lf"
      <3>1. PICK s, x : s = to[m] /\ x = b[m + 1]
        OBVIOUS
      <3>2. s \in Seq(Nat) /\ x \in Nat /\ to[m + 1] = Append(s, x)
        BY <2>3, <2>6, <2>8, <3>1
      <3>3. Len(Append(s, x)) = Len(s) + 1 /\ Append(s, x)[Len(s) + 1] = x
        BY <3>2
      <3>4. Range(Append(s, x)) = Range(s) \cup {x}
        <4>1. DOMAIN Append(s, x) = DOMAIN s \cup {Len(s) + 1}
          BY <3>2
        <4>2. \A k \in DOMAIN s : Append(s, x)[k] = s[k]
          BY <3>2
        <4> QED BY <3>3, <4>1, <4>2 DEF Range
      <3> QED BY <2>2, <2>4, <2>5, <2>7, <2>8, <3>1, <3>2, <3>3, <3>4
    <2>9. CASE text[m + 1] # "lf"
      BY <2>2, <2>3, <2>4, <2>5, <2>7, <2>9
    <2> QED BY <2>8, <2>9
  <1>5. T = Nat
    <2> HIDE DEF T
    <2>1. T \in SUBSET Nat
      BY DEF T
    <2> QED BY <1>3, <1>4, <2>1, Induction
  <1>6. P(n)
    <2> HIDE DEF P
    <2>1. n \in Nat /\ n <= N
      BY <1>1
    <2>2. n \in T
      <3> HIDE DEF T
      <3> QED BY <1>5, <2>1
    <2> QED BY <2>1, <2>2
  <1> QED BY <1>1, <1>6 DEF IndexTo

(* What it has of a place it keeps, and what it adds is further.            *)
LEMMA IndexKeeps ==
    ASSUME NEW text \in Seq(Char), NEW to, IndexTo(text, to), NEW n \in 0..Len(text), NEW m \in n..Len(text)
    PROVE  /\ Len(to[n]) <= Len(to[m])
           /\ \A k \in 1..Len(to[n]) : to[m][k] = to[n][k]
           /\ \A k \in (Len(to[n]) + 1)..Len(to[m]) : to[m][k] > Bytes(text)[n]
  <1>1. PICK N : N = Len(text) /\ N \in Nat /\ n \in 0..N /\ m \in n..N
    OBVIOUS
  <1> DEFINE P(j) == /\ Len(to[n]) <= Len(to[j])
                     /\ \A k \in 1..Len(to[n]) : to[j][k] = to[n][k]
                     /\ \A k \in (Len(to[n]) + 1)..Len(to[j]) : to[j][k] > Bytes(text)[n]
             T == {d \in Nat : n + d <= N => P(n + d)}
  <1>2. \A j \in 0..N : to[j] \in Seq(Nat)
    BY <1>1 DEF IndexTo
  <1>3. 0 \in T
    BY <1>1, <1>2
  <1>4. ASSUME NEW d \in T PROVE d + 1 \in T
    <2> SUFFICES ASSUME n + (d + 1) <= N PROVE P(n + (d + 1))
      OBVIOUS
    <2>1. PICK j : j = n + d
      OBVIOUS
    <2>2. j \in 0..N /\ j + 1 \in 1..N /\ n + (d + 1) = j + 1 /\ (j + 1) - 1 = j
      BY <1>1, <2>1
    <2>3. P(j)
      BY <1>1, <2>1
    <2>4. to[j + 1] = to[j] \/ to[j + 1] = Append(to[j], Bytes(text)[j + 1])
      BY <1>1, <2>2 DEF IndexTo
    <2>5. to[j] \in Seq(Nat) /\ to[n] \in Seq(Nat)
      BY <1>1, <1>2, <2>2
    <2>0. Bytes(text)[j + 1] > Bytes(text)[n] /\ Bytes(text)[j + 1] \in Nat
      <3>1. n \in 0..Len(text) /\ j + 1 \in 0..Len(text) /\ n < j + 1
        BY <1>1, <2>1, <2>2
      <3>2. /\ UnitsTo("utf-8", text)[n] \in Nat /\ UnitsTo("utf-8", text)[j + 1] \in Nat
            /\ j + 1 <= n <=> UnitsTo("utf-8", text)[j + 1] <= UnitsTo("utf-8", text)[n]
        <4>1. PICK enc, k : enc = "utf-8" /\ k = j + 1
          OBVIOUS
        <4>2. n \in 0..N /\ k \in 0..N /\ Len(text) = N /\ N \in Nat
          BY <1>1, <3>1, <4>1
        <4>3. UnitsTo(enc, text)[n] \in Nat
          BY <4>2, UnitsGrow
        <4>4. UnitsTo(enc, text)[k] \in Nat /\ (k <= n <=> UnitsTo(enc, text)[k] <= UnitsTo(enc, text)[n])
          BY <4>2, UnitsGrow
        <4> QED BY <4>1, <4>3, <4>4
      <3>3. PICK x, y : x = Bytes(text)[n] /\ y = Bytes(text)[j + 1]
        OBVIOUS
      <3>4. x \in Nat /\ y \in Nat /\ (j + 1 <= n <=> y <= x)
        BY <3>2, <3>3 DEF Bytes
      <3>5. ~(j + 1 <= n)
        BY <3>1
      <3>6. y > x
        BY <3>4, <3>5
      <3> QED BY <3>3, <3>4, <3>6
    <2>6. /\ Len(to[j]) <= Len(to[j + 1]) /\ \A k \in 1..Len(to[j]) : to[j + 1][k] = to[j][k]
          /\ \A k \in (Len(to[j]) + 1)..Len(to[j + 1]) : to[j + 1][k] > Bytes(text)[n]
      <3> HIDE DEF P, T
      <3>1. PICK s, x, r : s = to[j] /\ x = Bytes(text)[j + 1] /\ r = to[j + 1]
        OBVIOUS
      <3>2. s \in Seq(Nat) /\ r \in Seq(Nat)
        BY <1>2, <2>2, <2>5, <3>1
      <3>3. CASE r = s
        BY <3>1, <3>2, <3>3
      <3>4. CASE r = Append(s, x)
        <4>1. Len(r) = Len(s) + 1 /\ (\A k \in 1..Len(s) : r[k] = s[k]) /\ r[Len(s) + 1] = x
          BY <3>2, <3>4
        <4>2. Len(s) \in Nat /\ x > Bytes(text)[n]
          BY <2>0, <3>1, <3>2
        <4>3. \A k \in (Len(s) + 1)..Len(r) : r[k] > Bytes(text)[n]
          BY <4>1, <4>2
        <4> QED BY <3>1, <3>2, <4>1, <4>2, <4>3
      <3> QED BY <2>4, <3>1, <3>3, <3>4
    <2>7. Len(to[j]) \in Nat /\ Len(to[n]) \in Nat /\ Len(to[j + 1]) \in Nat
      BY <1>2, <2>2, <2>5
    <2>8. P(j + 1)
      <3>1. Len(to[n]) <= Len(to[j]) /\ Len(to[j]) <= Len(to[j + 1])
        BY <2>3, <2>6
      <3>2. \A k \in 1..Len(to[n]) : to[j + 1][k] = to[n][k]
        <4>1. \A k \in 1..Len(to[n]) : k \in 1..Len(to[j])
          BY <2>7, <3>1
        <4> QED BY <2>3, <2>6, <4>1
      <3>3. \A k \in (Len(to[n]) + 1)..Len(to[j + 1]) : to[j + 1][k] > Bytes(text)[n]
        <4>1. \A k \in (Len(to[n]) + 1)..Len(to[j + 1]) :
                  \/ k \in (Len(to[n]) + 1)..Len(to[j]) /\ k \in 1..Len(to[j])
                  \/ k \in (Len(to[j]) + 1)..Len(to[j + 1])
          <5>1. PICK x, y, z : x = Len(to[n]) /\ y = Len(to[j]) /\ z = Len(to[j + 1])
            OBVIOUS
          <5>2. x \in Nat /\ y \in Nat /\ z \in Nat
            BY <2>7, <3>1, <5>1
          <5>3. \A k \in (x + 1)..z : (k \in (x + 1)..y /\ k \in 1..y) \/ k \in (y + 1)..z
            BY ONLY <5>2
          <5> QED BY <5>1, <5>3
        <4>2. \A k \in (Len(to[n]) + 1)..Len(to[j]) : to[j][k] > Bytes(text)[n]
          BY <2>3
        <4>3. /\ \A k \in 1..Len(to[j]) : to[j + 1][k] = to[j][k]
              /\ \A k \in (Len(to[j]) + 1)..Len(to[j + 1]) : to[j + 1][k] > Bytes(text)[n]
          BY <2>6
        <4> HIDE DEF P, T
        <4> QED BY <4>1, <4>2, <4>3
      <3>4. Len(to[n]) <= Len(to[j + 1])
        BY <2>7, <3>1
      <3> QED BY <3>2, <3>3, <3>4
    <2> QED BY <2>2, <2>8
  <1>5. T = Nat
    <2> HIDE DEF T
    <2>1. T \in SUBSET Nat
      BY DEF T
    <2> QED BY <1>3, <1>4, <2>1, Induction
  <1>6. PICK d \in T : d = m - n
    <2> HIDE DEF T
    <2>1. m - n \in Nat
      BY <1>1
    <2> QED BY <1>5, <2>1
  <1>7. n + d = m /\ n + d <= N
    BY <1>1, <1>6
  <1>8. P(n + d)
    BY <1>7
  <1> QED BY <1>7, <1>8

(* The index: the line of any place starts after the line end before it.    *)
LEMMA IndexOfPlace ==
    ASSUME NEW text \in Seq(Char), NEW n \in 0..Len(text)
    PROVE  /\ LineStarts(text) \in Seq(Nat)
           /\ Len(LineStarts(text)) = LinesTo(text, Len(text)) + 1
           /\ LinesTo(text, n) + 1 \in 1..Len(LineStarts(text))
           /\ LineStarts(text)[LinesTo(text, n) + 1] = Bytes(text)[LineHead(text, n)]
           /\ \A k \in 1..Len(LineStarts(text)) :
                 LineStarts(text)[k] <= Bytes(text)[n] <=> k <= LinesTo(text, n) + 1
           /\ Range(LineStarts(text)) =
                 {Bytes(text)[k] : k \in {k \in 0..Len(text) : k = 0 \/ text[k] = "lf"}}
  <1>1. PICK to : IndexTo(text, to) /\ LineStarts(text) = to[Len(text)]
    BY IndexIsMade
  <1>2. Len(text) \in 0..Len(text) /\ Len(text) \in n..Len(text)
    OBVIOUS
  <1>3. /\ to[Len(text)] \in Seq(Nat) /\ Len(to[Len(text)]) = LinesTo(text, Len(text)) + 1
        /\ Range(to[Len(text)]) =
              {Bytes(text)[k] : k \in {k \in 0..Len(text) : k = 0 \/ text[k] = "lf"}}
    BY <1>1, <1>2, IndexGrows
  <1>4. /\ to[n] \in Seq(Nat) /\ Len(to[n]) = LinesTo(text, n) + 1
        /\ to[n][Len(to[n])] = Bytes(text)[LineHead(text, n)]
        /\ Range(to[n]) = {Bytes(text)[k] : k \in {k \in 0..n : k = 0 \/ text[k] = "lf"}}
    BY <1>1, IndexGrows
  <1>5. /\ Len(to[n]) <= Len(to[Len(text)]) /\ \A k \in 1..Len(to[n]) : to[Len(text)][k] = to[n][k]
        /\ \A k \in (Len(to[n]) + 1)..Len(to[Len(text)]) : to[Len(text)][k] > Bytes(text)[n]
    BY <1>1, <1>2, IndexKeeps
  <1>6. LinesTo(text, n) \in Nat
    BY LinesStep
  <1>7. PICK l, L : l = Len(to[n]) /\ L = Len(to[Len(text)])
    OBVIOUS
  <1>8. l \in 1..l /\ l \in 1..L /\ l = LinesTo(text, n) + 1
    BY <1>3, <1>4, <1>5, <1>6, <1>7
  <1>9. to[Len(text)][l] = Bytes(text)[LineHead(text, n)]
    BY <1>4, <1>5, <1>7, <1>8
  <1>10. ASSUME NEW k \in 1..L PROVE to[Len(text)][k] <= Bytes(text)[n] <=> k <= l
    <2>1. to[Len(text)][k] \in Nat /\ Bytes(text)[n] \in Nat /\ l \in Nat
      <3>1. to[Len(text)][k] \in Nat
        BY <1>3, <1>7
      <3>2. Bytes(text)[n] \in Nat
        BY UnitsGrow DEF Bytes
      <3> QED BY <1>6, <1>8, <3>1, <3>2
    <2>2. CASE k <= l
      <3>1. k \in 1..l
        BY <2>1, <2>2
      <3>2. to[Len(text)][k] = to[n][k] /\ to[n][k] \in Range(to[n])
        BY <1>4, <1>5, <1>7, <3>1 DEF Range
      <3>3. PICK i \in 0..n : to[n][k] = Bytes(text)[i]
        BY <1>4, <3>2
      <3>4. i \in 0..Len(text) /\ i <= n
        OBVIOUS
      <3>5. Bytes(text)[i] <= Bytes(text)[n]
        BY <3>4, UnitsGrow DEF Bytes
      <3> QED BY <2>2, <3>2, <3>3, <3>5
    <2>3. CASE ~(k <= l)
      <3>1. k \in (l + 1)..L
        BY <2>1, <2>3
      <3>2. to[Len(text)][k] > Bytes(text)[n]
        BY <1>5, <1>7, <3>1
      <3>3. PICK x, y : x = to[Len(text)][k] /\ y = Bytes(text)[n]
        OBVIOUS
      <3>4. x \in Nat /\ y \in Nat /\ x > y
        BY <2>1, <3>2, <3>3
      <3> QED BY <2>3, <3>3, <3>4
    <2> QED BY <2>2, <2>3
  <1> QED BY <1>1, <1>3, <1>7, <1>8, <1>9, <1>10
-----------------------------------------------------------------------------
(* Places.                                                                  *)

(* After a place there is no line end, or a first one, where the next line  *)
(* starts.                                                                  *)
LEMMA NextLine ==
    ASSUME NEW text \in Seq(Char), NEW n \in 0..Len(text)
    PROVE  \/ /\ \A k \in (n + 1)..Len(text) : text[k] # "lf"
              /\ LinesTo(text, Len(text)) = LinesTo(text, n)
           \/ \E next \in (n + 1)..Len(text) :
                 /\ text[next] = "lf" /\ \A k \in (n + 1)..(next - 1) : text[k] # "lf"
                 /\ LinesTo(text, next) = LinesTo(text, n) + 1
  <1>0. PICK N : N = Len(text) /\ N \in Nat /\ n \in 0..N
    OBVIOUS
  <1>1. ASSUME NEW m \in n..N, \A k \in (n + 1)..m : text[k] # "lf"
        PROVE  LinesTo(text, m) = LinesTo(text, n)
    <2>1. \A k \in 1..m : k \in 1..n \/ k \in (n + 1)..m
      BY <1>0
    <2>2. \A k \in 1..n : k \in 1..m
      BY <1>0
    <2>3. {k \in 1..m : text[k] = "lf"} = {k \in 1..n : text[k] = "lf"}
      BY <1>1, <2>1, <2>2
    <2> QED BY <2>3 DEF LinesTo
  <1> DEFINE I == {k \in (n + 1)..N : text[k] = "lf"}
  <1>2. CASE I = {}
    <2>1. N \in n..N /\ \A k \in (n + 1)..N : text[k] # "lf"
      BY <1>0, <1>2
    <2>2. LinesTo(text, N) = LinesTo(text, n)
      BY <1>1, <2>1
    <2> QED BY <1>0, <2>1, <2>2
  <1>3. CASE I # {}
    <2>1. I \in SUBSET Nat
      BY <1>0
    <2>2. PICK next \in I : \A m \in I : next <= m
      BY <1>3, <2>1, LeastOf
    <2>3. next \in (n + 1)..N /\ text[next] = "lf"
      BY <2>2
    <2>4. next - 1 \in n..N /\ next - 1 \in Nat /\ (next - 1) + 1 = next
      BY <1>0, <2>3
    <2>5. ASSUME NEW k \in (n + 1)..(next - 1) PROVE text[k] # "lf"
      <3>1. k \in (n + 1)..N /\ ~(next <= k)
        BY <1>0, <2>3
      <3> QED BY <2>2, <3>1
    <2>6. LinesTo(text, next - 1) = LinesTo(text, n)
      BY <1>1, <2>4, <2>5
    <2>7. LinesTo(text, (next - 1) + 1) =
              LinesTo(text, next - 1) + IF text[(next - 1) + 1] = "lf" THEN 1 ELSE 0
      BY <2>4, LinesStep
    <2>8. LinesTo(text, next) = LinesTo(text, n) + 1
      BY <2>3, <2>4, <2>6, <2>7
    <2> QED BY <1>0, <2>3, <2>5, <2>8
  <1> QED BY <1>2, <1>3

(* A document whose index, if it has one, is of its text.                   *)
Sound(d, text) ==
    /\ d = [text |-> d.text, starts |-> d.starts, encoding |-> d.encoding]
    /\ d.text = text /\ text \in Seq(Char) /\ CrBeforeLf(text)
    /\ d.starts \in {NoIndex, LineStarts(text)}

LEMMA IndexIsNotEmpty ==
    ASSUME NEW text \in Seq(Char)
    PROVE  LineStarts(text) # NoIndex
  <1>1. 0 \in 0..Len(text)
    OBVIOUS
  <1>2. LineStarts(text) \in Seq(Nat) /\ LinesTo(text, 0) + 1 \in 1..Len(LineStarts(text))
    BY <1>1, IndexOfPlace
  <1> QED BY <1>2 DEF NoIndex

LEMMA StartsAreTheTexts ==
    ASSUME NEW text, NEW d, Sound(d, text)
    PROVE  Starts(d) = LineStarts(text)
  BY IndexIsNotEmpty DEF Sound, Starts

(* The span of the line a place is on starts after the line end before it,  *)
(* and ends no sooner than the place, and there if the line does.           *)
LEMMA SpanOfPlace ==
    ASSUME NEW text, NEW d, Sound(d, text), NEW n \in Stops(text)
    PROVE  \E e \in n..Len(text) :
              /\ LineSpan(d, LinesTo(text, n)) = [start |-> Bytes(text)[LineHead(text, n)],
                                                  end   |-> Bytes(text)[e]]
              /\ AtLineEnd(text, n) => e = n
  <1>1. PICK N, B, h, l, S : /\ N = Len(text) /\ B = Bytes(text) /\ h = LineHead(text, n)
                             /\ l = LinesTo(text, n) /\ S = LineStarts(text)
    OBVIOUS
  <1>2. text \in Seq(Char) /\ N \in Nat /\ n \in 0..N /\ d.text = text
    BY <1>1 DEF Sound, Stops
  <1>3. h \in 0..n
    BY <1>1, <1>2, HeadIsLast DEF IsHead
  <1>4. l \in Nat /\ S \in Seq(Nat) /\ Len(S) \in Nat /\ Len(S) = LinesTo(text, N) + 1
        /\ l + 1 \in 1..Len(S) /\ S[l + 1] = B[h]
    <2>1. n \in 0..Len(text) /\ n \in Nat
      BY <1>1, <1>2
    <2>2. l \in Nat
      BY <1>1, <2>1, LinesStep
    <2>3. /\ LineStarts(text) \in Seq(Nat) /\ Len(LineStarts(text)) = LinesTo(text, Len(text)) + 1
          /\ LinesTo(text, n) + 1 \in 1..Len(LineStarts(text))
          /\ LineStarts(text)[LinesTo(text, n) + 1] = Bytes(text)[LineHead(text, n)]
      BY <1>2, <2>1, IndexOfPlace
    <2>4. /\ S \in Seq(Nat) /\ Len(S) = LinesTo(text, N) + 1
          /\ l + 1 \in 1..Len(S) /\ S[l + 1] = B[h]
      BY <1>1, <2>3
    <2> QED BY <2>2, <2>4
  <1>5. Starts(d) = S
    BY <1>1, StartsAreTheTexts
  <1>6. LinesTo(text, N) \in Nat
    BY <1>2, LinesStep
  <1>7. Least(l, LastLine(d)) + 1 = l + 1
    BY <1>4, <1>5, <1>6 DEF Least, LastLine
  <1>8. /\ \A k \in 0..N : B[k] \in Nat /\ CharsTo(text, B[k]) = k
        /\ \A k \in 1..N : B[k] = B[k - 1] + UnitsOf("utf-8", text[k])
        /\ \A k, m \in 0..N : m < k <=> B[m] < B[k]
    <2>1. \A k \in 0..N : B[k] \in Nat /\ CharsTo(text, B[k]) = k
      BY <1>1, <1>2, CharsAtBytes, UnitsGrow DEF Bytes
    <2>2. \A k \in 1..N : B[k] = B[k - 1] + UnitsOf("utf-8", text[k])
      <3>1. PICK enc : enc = "utf-8"
        OBVIOUS
      <3>2. N \in Nat /\ Len(text) = N
        BY <1>1, <1>2
      <3>3. \A k \in 1..N : UnitsTo(enc, text)[k] =
                                 UnitsTo(enc, text)[k - 1] + UnitsOf(enc, text[k])
        BY <3>2, UnitsAdd
      <3>4. B = UnitsTo(enc, text)
        BY <1>1, <3>1 DEF Bytes
      <3> QED BY <3>1, <3>3, <3>4
    <2>3. ASSUME NEW k \in 0..N, NEW m \in 0..N PROVE m < k <=> B[m] < B[k]
      <3>1. k <= m <=> B[k] <= B[m]
        BY <1>1, <1>2, UnitsGrow DEF Bytes
      <3>2. PICK x, y : x = B[k] /\ y = B[m]
        OBVIOUS
      <3>3. x \in Nat /\ y \in Nat
        BY <2>1, <3>2
      <3> QED BY <1>2, <3>1, <3>2, <3>3
    <2> QED BY <2>1, <2>2, <2>3
  <1>9. ByteLen(text) = B[N]
    BY <1>1 DEF ByteLen, Measure, Bytes
  <1> DEFINE end == IF l + 1 = Len(S) THEN B[N] ELSE S[l + 2] - 1
             cr  == end > B[h] /\ text[CharsTo(text, end)] = "cr"
  <1>10. LineSpan(d, l) = [start |-> B[h], end |-> IF cr THEN end - 1 ELSE end]
    <2>1. (l + 1) + 1 = l + 2
      BY <1>4
    <2> QED BY <1>2, <1>4, <1>5, <1>7, <1>9, <2>1 DEF LineSpan
  <1>11. ASSUME NEW k \in 1..N, text[k] = "cr" PROVE k + 1 \in 1..N /\ text[k + 1] = "lf"
    <2>1. k \in DOMAIN text
      BY <1>1, <1>2
    <2>2. k < Len(text) /\ text[k + 1] = "lf"
      BY <1>11, <2>1 DEF Sound, CrBeforeLf
    <2> QED BY <1>1, <1>2, <2>2
  <1>12. AtLineEnd(text, n) <=> n = N \/ text[n + 1] = "lf" \/ text[n + 1] = "cr"
    BY <1>1 DEF AtLineEnd, LineBreak
  <1>13. CASE /\ \A k \in (n + 1)..N : text[k] # "lf"
              /\ LinesTo(text, N) = l
    <2>1. end = B[N]
      BY <1>4, <1>13
    <2>2. CharsTo(text, end) = N
      BY <1>2, <1>8, <2>1
    <2>3. ~cr
      <3>1. ASSUME B[N] > B[h], text[N] = "cr" PROVE FALSE
        <4>1. h < N
          <5>1. h \in 0..N /\ N \in 0..N
            BY <1>2, <1>3
          <5>2. B[h] < B[N]
            <6>1. B[h] \in Nat /\ B[N] \in Nat
              BY <1>8, <5>1
            <6> QED BY <3>1, <6>1
          <5> QED BY <1>8, <5>1, <5>2
        <4>2. N \in 1..N
          BY <1>2, <1>3, <4>1
        <4>3. N + 1 \in 1..N
          BY <1>11, <3>1, <4>2
        <4> QED BY <1>2, <4>3
      <3> QED BY <2>1, <2>2, <3>1
    <2>4. ASSUME AtLineEnd(text, n) PROVE N = n
      <3>1. ASSUME n # N PROVE FALSE
        <4>1. n + 1 \in (n + 1)..N /\ n + 1 \in 1..N
          BY <1>2, <3>1
        <4>2. text[n + 1] = "cr"
          BY <1>12, <1>13, <2>4, <3>1, <4>1
        <4>3. (n + 1) + 1 \in 1..N /\ text[(n + 1) + 1] = "lf"
          BY <1>11, <4>1, <4>2
        <4>4. (n + 1) + 1 \in (n + 1)..N
          BY <1>2, <4>3
        <4> QED BY <1>13, <4>3, <4>4
      <3> QED BY <3>1
    <2>5. N \in n..N
      BY <1>2
    <2> HIDE DEF cr, end
    <2>6. LineSpan(d, l) = [start |-> B[h], end |-> B[N]]
      BY <1>10, <2>1, <2>3
    <2> QED BY <1>1, <2>4, <2>5, <2>6
  <1>14. ASSUME NEW next \in (n + 1)..N, text[next] = "lf",
                \A k \in (n + 1)..(next - 1) : text[k] # "lf", LinesTo(text, next) = l + 1
         PROVE  \E e \in n..N : /\ LineSpan(d, l) = [start |-> B[h], end |-> B[e]]
                                /\ AtLineEnd(text, n) => e = n
    <2>1. next \in 0..N /\ next \in 1..N /\ next - 1 \in 0..N /\ next - 1 \in n..N
      BY <1>2
    <2>2. LineHead(text, next) = next
      <3>1. next - 1 \in Nat /\ (next - 1) + 1 = next /\ (next - 1) + 1 <= Len(text)
        BY <1>1, <2>1
      <3>2. LineHead(text, (next - 1) + 1) = (next - 1) + 1
        BY <1>2, <1>14, <3>1, HeadStep
      <3> QED BY <3>1, <3>2
    <2>3. l + 2 \in 1..Len(S) /\ S[l + 2] = B[next]
      <3>1. LinesTo(text, next) + 1 = l + 2
        BY <1>4, <1>14
      <3>2. LinesTo(text, next) + 1 \in 1..Len(S) /\ S[LinesTo(text, next) + 1] = B[LineHead(text, next)]
        BY <1>1, <1>2, <2>1, IndexOfPlace
      <3> QED BY <2>2, <3>1, <3>2
    <2>4. end = B[next - 1]
      <3>1. l + 1 # Len(S)
        BY <1>4, <2>3
      <3>2. end = B[next] - 1
        BY <2>3, <3>1
      <3>3. B[next] = B[next - 1] + UnitsOf("utf-8", text[next])
        BY <1>8, <2>1
      <3>4. UnitsOf("utf-8", text[next]) = 1
        BY <1>14, UnitsArePositive
      <3>5. B[next - 1] \in Nat
        BY <1>8, <2>1
      <3> HIDE DEF end, cr
      <3> QED BY <3>2, <3>3, <3>4, <3>5
    <2>5. CharsTo(text, end) = next - 1
      BY <1>8, <2>1, <2>4
    <2>6. CASE cr
      <3>1. next - 1 > h /\ text[next - 1] = "cr"
        <4>1. B[next - 1] > B[h] /\ text[next - 1] = "cr"
          BY <2>4, <2>5, <2>6
        <4>2. h \in 0..N /\ B[h] \in Nat /\ B[next - 1] \in Nat
          BY <1>2, <1>3, <1>8, <2>1
        <4>3. B[h] < B[next - 1]
          BY <4>1, <4>2
        <4> QED BY <1>8, <2>1, <4>1, <4>2, <4>3
      <3>2. next - 1 \in 1..N /\ (next - 1) - 1 = next - 2 /\ (next - 1) + 1 = next
        BY <1>2, <1>3, <2>1, <3>1
      <3>3. n # next - 1
        <4>1. ASSUME n = next - 1 PROVE FALSE
          <5>1. 0 < n /\ n < Len(text) /\ text[n] = "cr" /\ text[n + 1] = "lf"
            BY <1>1, <1>2, <1>14, <2>1, <3>1, <3>2, <4>1
          <5> QED BY <5>1 DEF Stops
        <4> QED BY <4>1
      <3>4. next - 2 \in n..N
        BY <1>2, <2>1, <3>3
      <3>5. end - 1 = B[next - 2]
        <4>1. B[next - 1] = B[(next - 1) - 1] + UnitsOf("utf-8", text[next - 1])
          BY <1>8, <3>2
        <4>2. UnitsOf("utf-8", text[next - 1]) = 1
          BY <3>1, UnitsArePositive
        <4>3. B[next - 2] \in Nat
          <5>1. next - 2 \in 0..N
            BY <1>2, <3>4
          <5> QED BY <1>8, <5>1
        <4> HIDE DEF end, cr
        <4> QED BY <2>4, <3>2, <4>1, <4>2, <4>3
      <3>6. ASSUME AtLineEnd(text, n) PROVE next - 2 = n
        <4>0. n # N /\ n + 1 \in 1..N
          BY <1>2, <2>1
        <4>1. text[n + 1] # "lf"
          <5>1. n + 1 \in (n + 1)..(next - 1)
            BY <1>2, <2>1, <3>4
          <5> QED BY <1>14, <5>1
        <4>2. text[n + 1] = "cr"
          BY <1>12, <3>6, <4>0, <4>1
        <4>3. text[(n + 1) + 1] = "lf"
          BY <1>11, <4>0, <4>2
        <4>4. ASSUME next - 2 # n PROVE FALSE
          <5>1. (n + 1) + 1 \in (n + 1)..(next - 1)
            BY <1>2, <2>1, <3>4, <4>4
          <5> QED BY <1>14, <4>3, <5>1
        <4> QED BY <4>4
      <3>7. LineSpan(d, l) = [start |-> B[h], end |-> end - 1]
        BY <1>10, <2>6
      <3> HIDE DEF end, cr
      <3> QED BY <3>4, <3>5, <3>6, <3>7
    <2>7. CASE ~cr
      <3>1. LineSpan(d, l) = [start |-> B[h], end |-> B[next - 1]]
        BY <1>10, <2>4, <2>7
      <3>2. ASSUME AtLineEnd(text, n), next - 1 # n PROVE FALSE
        <4>0. n # N /\ n + 1 \in 1..N
          BY <1>2, <2>1
        <4>1. text[n + 1] # "lf"
          <5>1. n + 1 \in (n + 1)..(next - 1)
            BY <1>2, <2>1, <3>2
          <5> QED BY <1>14, <5>1
        <4>2. text[n + 1] = "cr"
          BY <1>12, <3>2, <4>0, <4>1
        <4>3. text[(n + 1) + 1] = "lf"
          BY <1>11, <4>0, <4>2
        <4>4. (n + 1) + 1 \notin (n + 1)..(next - 1)
          BY <1>14, <4>3
        <4>5. next - 1 = n + 1
          BY <1>2, <2>1, <3>2, <4>4
        <4>6. B[next - 1] > B[h]
          <5>1. h < next - 1 /\ h \in 0..N
            BY <1>2, <1>3, <4>5
          <5>2. B[h] < B[next - 1]
            BY <1>8, <2>1, <5>1
          <5>3. B[h] \in Nat /\ B[next - 1] \in Nat
            BY <1>8, <2>1, <5>1
          <5> QED BY <5>2, <5>3
        <4>7. text[next - 1] = "cr"
          BY <4>2, <4>5
        <4> QED BY <2>4, <2>5, <2>7, <4>6, <4>7
      <3> HIDE DEF end, cr
      <3> QED BY <2>1, <3>1, <3>2
    <2> QED BY <2>6, <2>7
  <1>15. \/ /\ \A k \in (n + 1)..N : text[k] # "lf"
            /\ LinesTo(text, N) = l
         \/ \E next \in (n + 1)..N :
               /\ text[next] = "lf" /\ \A k \in (n + 1)..(next - 1) : text[k] # "lf"
               /\ LinesTo(text, next) = l + 1
    BY <1>1, <1>2, NextLine
  <1>16. CASE \E next \in (n + 1)..N :
                 /\ text[next] = "lf" /\ \A k \in (n + 1)..(next - 1) : text[k] # "lf"
                 /\ LinesTo(text, next) = l + 1
    <2> HIDE DEF end, cr
    <2> QED BY <1>1, <1>14, <1>16
  <1> HIDE DEF end, cr
  <1> QED BY <1>13, <1>15, <1>16

(* A place the client names is taken for that place: it is the first that   *)
(* has the named units before it, or the end of its line.                   *)
LEMMA OffsetOfPlace ==
    ASSUME NEW text, NEW d, Sound(d, text), NEW n \in Stops(text),
           NEW p \in Named(d.encoding, text, n)
    PROVE  OffsetAt(d, p) = Bytes(text)[n] /\ CharsTo(text, OffsetAt(d, p)) = n
  <1>1. PICK N, B, U, h, enc : /\ N = Len(text) /\ B = Bytes(text) /\ h = LineHead(text, n)
                               /\ enc = d.encoding /\ U = UnitsTo(enc, text)
    OBVIOUS
  <1>2. text \in Seq(Char) /\ N \in Nat /\ n \in 0..N /\ d.text = text
    BY <1>1 DEF Sound, Stops
  <1>3. h \in 0..n
    BY <1>1, <1>2, HeadIsLast DEF IsHead
  <1>4. PICK e \in n..N : /\ LineSpan(d, LinesTo(text, n)) = [start |-> B[h], end |-> B[e]]
                          /\ AtLineEnd(text, n) => e = n
    BY <1>1, SpanOfPlace
  <1>5. \A k \in 0..N : CharsTo(text, B[k]) = k /\ ByteLen(Take(text, k)) = B[k]
    BY <1>1, <1>2, CharsAtBytes, BytesOfTake
  <1>6. \A k \in 0..N : U[k] \in Nat
    BY <1>1, <1>2, UnitsGrow
  <1>7. \A k \in 0..N : n <= k <=> U[n] <= U[k]
    BY <1>1, <1>2, UnitsGrow
  <1>8. \A k \in h..N : Measure(enc, SubSeq(text, h + 1, k)) = U[k] - U[h]
    <2>1. h \in 0..Len(text)
      BY <1>1, <1>2, <1>3
    <2>2. ASSUME NEW k \in h..N PROVE Measure(enc, SubSeq(text, h + 1, k)) = U[k] - U[h]
      <3>1. k \in h..Len(text)
        BY <1>1
      <3> QED BY <1>1, <1>2, <2>1, <3>1, UnitsOfPart
    <2> QED BY <2>2
  <1>9. p.line = LinesTo(text, n)
        /\ (p.character = U[n] - U[h] \/ (AtLineEnd(text, n) /\ p.character = (U[n] - U[h]) + 3))
    <2>1. ClientPosition(enc, text, n) = [line |-> LinesTo(text, n), character |-> U[n] - U[h]]
      <3>1. n \in h..N
        BY <1>2, <1>3
      <3> QED BY <1>1, <1>8, <3>1 DEF ClientPosition, LinesTo
    <2> QED BY <1>1, <2>1 DEF Named
  <1> DEFINE reached == {k \in h..e : U[k] - U[h] >= p.character}
  <1>10. OffsetAt(d, p) = IF reached = {} THEN B[e] ELSE ByteLen(Take(text, Min(reached)))
    <2>1. LineSpan(d, p.line) = [start |-> B[h], end |-> B[e]]
      BY <1>4, <1>9
    <2>2. CharsTo(text, B[h]) = h /\ CharsTo(text, B[e]) = e
      BY <1>2, <1>3, <1>5
    <2>3. reached = {k \in h..e : Measure(enc, SubSeq(text, h + 1, k)) >= p.character}
      <3>1. \A k \in h..e : k \in h..N
        BY <1>2, <1>3
      <3> QED BY <1>8, <3>1
    <2> DEFINE R(f, t) == {k \in f..t : Measure(enc, SubSeq(text, f + 1, k)) >= p.character}
               Result(r, t) == IF r = {} THEN t ELSE ByteLen(Take(text, Min(r)))
    <2>4. \A sp : sp = LineSpan(d, p.line) =>
              OffsetAt(d, p) = Result(R(CharsTo(text, sp.start), CharsTo(text, sp.end)), sp.end)
      BY <1>1, <1>2 DEF OffsetAt
    <2>5. R(h, e) = reached
      BY <2>3
    <2> HIDE DEF reached, R, Result
    <2>6. OffsetAt(d, p) = Result(R(h, e), B[e])
      BY <2>1, <2>2, <2>4
    <2> QED BY <2>5, <2>6 DEF Result
  <1>11. \A k \in h..e : k \in 0..N
    BY <1>2, <1>3
  <1>12. h \in 0..N /\ e \in 0..N /\ n \in h..e
    BY <1>2, <1>3
  <1>13. CASE p.character = U[n] - U[h]
    <2>1. ASSUME NEW k \in h..e PROVE k \in reached <=> n <= k
      <3>1. PICK x, y, z : x = U[k] /\ y = U[n] /\ z = U[h]
        OBVIOUS
      <3>2. x \in Nat /\ y \in Nat /\ z \in Nat /\ (n <= k <=> y <= x)
        BY <1>2, <1>6, <1>7, <1>11, <1>12, <3>1
      <3>3. x - z >= y - z <=> y <= x
        BY <3>2
      <3>4. k \in reached <=> U[k] - U[h] >= U[n] - U[h]
        BY <1>13
      <3> QED BY <3>1, <3>2, <3>3, <3>4
    <2>2. n \in reached /\ \A k \in reached : n <= k
      BY <1>2, <1>12, <2>1
    <2>3. reached \in SUBSET Nat
      BY <1>2, <1>3, <1>11
    <2> HIDE DEF reached
    <2>4. Min(reached) = n
      <3>1. PICK m : m = Min(reached)
        OBVIOUS
      <3>2. m \in reached /\ \A k \in reached : m <= k
        BY <2>2, <3>1 DEF Min
      <3>3. m <= n /\ n <= m /\ m \in Nat /\ n \in Nat
        BY <2>2, <2>3, <3>2
      <3> QED BY <3>1, <3>3
    <2>5. OffsetAt(d, p) = B[n]
      <3>1. OffsetAt(d, p) = ByteLen(Take(text, n))
        BY <1>10, <2>2, <2>4
      <3> QED BY <1>2, <1>5, <3>1
    <2> QED BY <1>1, <1>2, <1>5, <2>5
  <1>14. CASE AtLineEnd(text, n) /\ p.character = (U[n] - U[h]) + 3
    <2>1. e = n
      BY <1>4, <1>14
    <2>2. ASSUME NEW k \in reached PROVE FALSE
      <3>1. PICK x, y, z : x = U[k] /\ y = U[n] /\ z = U[h]
        OBVIOUS
      <3>2. k \in 0..N /\ k <= n
        BY <1>2, <1>3, <1>11, <2>1
      <3>3. x \in Nat /\ y \in Nat /\ z \in Nat
        BY <1>2, <1>6, <1>12, <3>1, <3>2
      <3>4. x <= y
        BY <1>1, <1>2, <3>1, <3>2, UnitsGrow
      <3>5. x - z >= (y - z) + 3
        BY <1>14, <3>1
      <3> QED BY <3>3, <3>4, <3>5
    <2>3. OffsetAt(d, p) = B[n]
      <3>1. reached = {}
        BY <2>2
      <3> HIDE DEF reached
      <3> QED BY <1>10, <2>1, <3>1
    <2> QED BY <1>1, <1>2, <1>5, <2>3
  <1> HIDE DEF reached
  <1> QED BY <1>9, <1>13, <1>14
(* Back: what PositionAt makes of a place is what the client calls it.      *)
LEMMA PositionOfPlace ==
    ASSUME NEW text, NEW d, Sound(d, text), NEW n \in 0..Len(text)
    PROVE  PositionAt(d, Bytes(text)[n]) = ClientPosition(d.encoding, text, n)
  <1>1. PICK N, B, h, l, S : /\ N = Len(text) /\ B = Bytes(text) /\ h = LineHead(text, n)
                             /\ l = LinesTo(text, n) /\ S = LineStarts(text)
    OBVIOUS
  <1>2. text \in Seq(Char) /\ N \in Nat /\ n \in 0..N /\ d.text = text /\ Starts(d) = S
    BY <1>1, StartsAreTheTexts DEF Sound
  <1>3. h \in 0..n /\ h \in 0..N
    BY <1>1, <1>2, HeadIsLast DEF IsHead
  <1>4. l \in Nat
    BY <1>1, <1>2, LinesStep
  <1>5. CharsTo(text, B[n]) = n /\ CharsTo(text, B[h]) = h /\ Boundary(text, B[n]) = B[n]
    BY <1>1, <1>2, <1>3, CharsAtBytes DEF Boundary, Bytes
  <1>6. /\ S \in Seq(Nat) /\ l + 1 \in 1..Len(S) /\ S[l + 1] = B[h]
        /\ \A k \in 1..Len(S) : S[k] <= B[n] <=> k <= l + 1
    BY <1>1, <1>2, IndexOfPlace
  <1>7. LineOf(d, B[n]) = l
    <2>1. {k \in DOMAIN S : S[k] <= B[n]} = 1..(l + 1)
      <3>1. DOMAIN S = 1..Len(S) /\ Len(S) \in Nat
        BY <1>6
      <3>2. \A k \in 1..(l + 1) : k \in 1..Len(S) /\ k <= l + 1
        BY <1>4, <1>6, <3>1
      <3>3. \A k \in 1..Len(S) : k <= l + 1 => k \in 1..(l + 1)
        BY <1>4, <3>1
      <3> QED BY <1>6, <3>1, <3>2, <3>3
    <2>2. Cardinality(1..(l + 1)) = l + 1
      BY <1>4, FS_Interval
    <2>3. LineOf(d, B[n]) = (l + 1) - 1
      <3>1. {k \in DOMAIN Starts(d) : Starts(d)[k] <= B[n]} = 1..(l + 1)
        BY <1>2, <2>1
      <3> QED BY <2>2, <3>1 DEF LineOf
    <2> QED BY <1>4, <2>3
  <1>8. PositionAt(d, B[n]) = [line |-> l, character |-> Measure(d.encoding, Between(text, B[h], B[n]))]
    BY <1>2, <1>5, <1>6, <1>7 DEF PositionAt
  <1>9. Between(text, B[h], B[n]) = SubSeq(text, h + 1, n)
    BY <1>5 DEF Between
  <1> QED BY <1>1, <1>8, <1>9 DEF ClientPosition, LinesTo

(* The engine's row and column of a place are the client's position of it.  *)
LEMMA SiteOfPlace ==
    ASSUME NEW text, NEW d, Sound(d, text), NEW n \in 0..Len(text)
    PROVE  PositionFromSite(d, Bytes(text)[n], Row(text, n), Column(text, n)) =
               ClientPosition(d.encoding, text, n)
  <1>1. PICK h, l, S : /\ h = LineHead(text, n) /\ l = LinesTo(text, n) /\ S = LineStarts(text)
    OBVIOUS
  <1>2. text \in Seq(Char) /\ Len(text) \in Nat /\ n \in Nat /\ d.text = text /\ Starts(d) = S
    BY <1>1, StartsAreTheTexts DEF Sound
  <1>3. h \in 0..n
    BY <1>1, <1>2, HeadIsLast DEF IsHead
  <1>4. l \in Nat /\ Len(S) \in Nat /\ l + 1 \in 1..Len(S)
    <2>1. l \in Nat
      BY <1>1, <1>2, LinesStep
    <2>2. S \in Seq(Nat) /\ l + 1 \in 1..Len(S)
      BY <1>1, <1>2, IndexOfPlace
    <2> QED BY <2>1, <2>2
  <1>5. Row(text, n) = l + 1 /\ Column(text, n) = n - h + 1
    BY <1>1 DEF Row, Column, LinesTo
  <1>6. Least(Row(text, n) - 1, LastLine(d)) = l
    BY <1>2, <1>4, <1>5 DEF Least, LastLine
  <1>7. CharsTo(text, Bytes(text)[n]) = n
    BY <1>2, CharsAtBytes
  <1>8. Column(text, n) - 1 = n - h /\ Least(n - h, n) = n - h /\ n - (n - h) + 1 = h + 1
    BY <1>2, <1>3, <1>5 DEF Least
  <1>9. ColumnBefore(text, d.encoding, Bytes(text)[n], Column(text, n) - 1) =
            Measure(d.encoding, SubSeq(text, h + 1, n))
    BY <1>7, <1>8 DEF ColumnBefore
  <1> QED BY <1>1, <1>2, <1>6, <1>9 DEF PositionFromSite, ClientPosition, LinesTo

(* A diagnostic's range is the stretch it is of.                            *)
LEMMA RangeOfStretch ==
    ASSUME NEW text, NEW d, Sound(d, text), NEW n \in 0..Len(text), NEW m \in n..Len(text)
    PROVE  RangeFrom(d, Row(text, n), Column(text, n), n, m - n) =
               [start |-> ClientPosition(d.encoding, text, n),
                end   |-> ClientPosition(d.encoding, text, m)]
  <1>1. text \in Seq(Char) /\ d.text = text /\ n \in Nat /\ m \in Nat /\ m \in 0..Len(text)
        /\ n <= Len(text) /\ m <= Len(text) /\ n + (m - n) = m
    BY DEF Sound
  <1>2. ByteOfScalar(text, n) = Bytes(text)[n] /\ ByteOfScalar(text, m) = Bytes(text)[m]
    BY <1>1, BytesOfTake DEF ByteOfScalar
  <1>3. CharsTo(text, Bytes(text)[n]) = n
    BY <1>1, CharsAtBytes
  <1> QED BY <1>1, <1>2, <1>3, SiteOfPlace, PositionOfPlace DEF RangeFrom
-----------------------------------------------------------------------------
(* Texts.                                                                   *)
LEMMA JoinedTexts ==
    ASSUME NEW a \in Seq(Char), NEW b \in Seq(Char), CrBeforeLf(a), CrBeforeLf(b)
    PROVE  a \o b \in Seq(Char) /\ CrBeforeLf(a \o b)
  <1>1. PICK s, i, j : s = a \o b /\ i = Len(a) /\ j = Len(b)
    OBVIOUS
  <1>2. /\ s \in Seq(Char) /\ i \in Nat /\ j \in Nat /\ Len(s) = i + j
        /\ \A n \in 1..i : s[n] = a[n]
        /\ \A n \in 1..j : s[i + n] = b[n]
    BY <1>1
  <1>3. ASSUME NEW n \in 1..(i + j), s[n] = "cr" PROVE n < i + j /\ s[n + 1] = "lf"
    <2>1. CASE n \in 1..i
      <3>1. a[n] = "cr" /\ n \in DOMAIN a
        BY <1>1, <1>2, <1>3, <2>1
      <3>2. n < i /\ a[n + 1] = "lf"
        BY <1>1, <3>1 DEF CrBeforeLf
      <3>3. n + 1 \in 1..i
        BY <1>2, <2>1, <3>2
      <3> QED BY <1>2, <3>2, <3>3
    <2>2. CASE n \notin 1..i
      <3>1. PICK m \in 1..j : n = i + m
        <4>1. n - i \in 1..j /\ n = i + (n - i)
          BY <1>2, <2>2
        <4> QED BY <4>1
      <3>2. b[m] = "cr" /\ m \in DOMAIN b
        BY <1>1, <1>2, <1>3, <3>1
      <3>3. m < j /\ b[m + 1] = "lf"
        BY <1>1, <3>2 DEF CrBeforeLf
      <3>4. m + 1 \in 1..j /\ i + (m + 1) = n + 1
        BY <1>2, <3>1, <3>3
      <3>5. s[i + (m + 1)] = b[m + 1]
        BY <1>2, <3>4
      <3> QED BY <1>2, <3>1, <3>3, <3>4, <3>5
    <2> QED BY <2>1, <2>2
  <1>4. \A n \in DOMAIN s : s[n] = "cr" => n < Len(s) /\ s[n + 1] = "lf"
    BY <1>2, <1>3
  <1> QED BY <1>1, <1>2, <1>4 DEF CrBeforeLf

LEMMA CutTexts ==
    ASSUME NEW text \in Seq(Char), CrBeforeLf(text), NEW n \in Stops(text)
    PROVE  /\ Take(text, n) \in Seq(Char) /\ CrBeforeLf(Take(text, n))
           /\ SubSeq(text, n + 1, Len(text)) \in Seq(Char)
           /\ CrBeforeLf(SubSeq(text, n + 1, Len(text)))
  <1>1. PICK N, a, b : N = Len(text) /\ a = Take(text, n) /\ b = SubSeq(text, n + 1, N)
    OBVIOUS
  <1>2. N \in Nat /\ n \in 0..N
    BY <1>1 DEF Stops
  <1>3. a \in Seq(Char) /\ Len(a) = n /\ \A k \in 1..n : a[k] = text[k]
    BY <1>1, <1>2 DEF Take
  <1>4. b \in Seq(Char) /\ Len(b) = N - n /\ \A k \in 1..(N - n) : b[k] = text[n + k]
    BY <1>1, <1>2
  <1>5. ASSUME NEW k \in 1..N, text[k] = "cr" PROVE k < N /\ text[k + 1] = "lf"
    <2>1. k \in DOMAIN text
      BY <1>1, <1>2
    <2> QED BY <1>1, <1>5, <2>1 DEF CrBeforeLf
  <1>6. ASSUME NEW k \in 1..n, a[k] = "cr" PROVE k < n /\ a[k + 1] = "lf"
    <2>1. k < N /\ text[k + 1] = "lf" /\ text[k] = "cr"
      BY <1>2, <1>3, <1>5, <1>6
    <2>2. k # n
      BY <1>1, <1>2, <2>1 DEF Stops
    <2>3. k + 1 \in 1..n
      BY <1>2, <2>2
    <2> QED BY <1>2, <1>3, <2>1, <2>2, <2>3
  <1>7. ASSUME NEW k \in 1..(N - n), b[k] = "cr" PROVE k < N - n /\ b[k + 1] = "lf"
    <2>1. n + k \in 1..N /\ text[n + k] = "cr"
      BY <1>2, <1>4, <1>7
    <2>2. n + k < N /\ text[(n + k) + 1] = "lf"
      BY <1>5, <2>1
    <2>3. k + 1 \in 1..(N - n) /\ n + (k + 1) = (n + k) + 1
      BY <1>2, <2>2
    <2> QED BY <1>2, <1>4, <2>2, <2>3
  <1>8. CrBeforeLf(a)
    <2>1. DOMAIN a = 1..n
      BY <1>2, <1>3
    <2> QED BY <1>3, <1>6, <2>1 DEF CrBeforeLf
  <1>9. CrBeforeLf(b)
    <2>1. DOMAIN b = 1..(N - n)
      BY <1>2, <1>4
    <2> QED BY <1>4, <1>7, <2>1 DEF CrBeforeLf
  <1> QED BY <1>1, <1>3, <1>4, <1>8, <1>9
-----------------------------------------------------------------------------
(* The document is the buffer's, and its index its text's.                  *)
Kept == Sound(doc, buffer)

LEMMA EditKeeps ==
    ASSUME Kept, NEW text \in Inserted, Edit(text)
    PROVE  Kept'
  <1>1. PICK n \in Stops(buffer), m \in Stops(buffer) :
          /\ buffer' = Take(buffer, n) \o text \o SubSeq(buffer, m + 1, Len(buffer))
          /\ \E start \in Named(doc.encoding, buffer, n), end \in Named(doc.encoding, buffer, m) :
                doc' = ApplyChange(doc, [start |-> start, end |-> end], text)
    BY DEF Edit
  <1>2. PICK start \in Named(doc.encoding, buffer, n), end \in Named(doc.encoding, buffer, m) :
          doc' = ApplyChange(doc, [start |-> start, end |-> end], text)
    BY <1>1
  <1>3. CharsTo(buffer, OffsetAt(doc, start)) = n /\ CharsTo(buffer, OffsetAt(doc, end)) = m
    BY OffsetOfPlace DEF Kept
  <1>4. doc' = [doc EXCEPT !.text = buffer', !.starts = NoIndex]
    BY <1>1, <1>2, <1>3 DEF Kept, Sound, ApplyChange, Update
  <1>5. buffer \in Seq(Char) /\ CrBeforeLf(buffer) /\ text \in Seq(Char) /\ CrBeforeLf(text)
    BY AnalysisAssumption DEF Kept, Sound
  <1>6. PICK a, b : a = Take(buffer, n) /\ b = SubSeq(buffer, m + 1, Len(buffer))
    OBVIOUS
  <1>7. a \in Seq(Char) /\ CrBeforeLf(a) /\ b \in Seq(Char) /\ CrBeforeLf(b)
    BY <1>5, <1>6, CutTexts
  <1>8. a \o text \in Seq(Char) /\ CrBeforeLf(a \o text)
    BY <1>5, <1>7, JoinedTexts
  <1>9. (a \o text) \o b \in Seq(Char) /\ CrBeforeLf((a \o text) \o b)
    BY <1>7, <1>8, JoinedTexts
  <1>10. buffer' \in Seq(Char) /\ CrBeforeLf(buffer')
    BY <1>1, <1>6, <1>9
  <1> QED BY <1>4, <1>10 DEF Kept, Sound

LEMMA IndexingKeeps ==
    ASSUME Kept, doc' = Indexed(doc), UNCHANGED buffer
    PROVE  Kept'
  <1>1. Starts(doc) = LineStarts(buffer)
    BY StartsAreTheTexts DEF Kept
  <1> QED BY <1>1 DEF Kept, Sound, Indexed

LEMMA StepKeeps ==
    ASSUME Kept, [Next]_vars
    PROVE  Kept'
  <1>1. ASSUME NEW text \in Inserted, Edit(text) PROVE Kept'
    BY <1>1, EditKeeps
  <1>2. ASSUME NEW text \in Opened, Replace(text) PROVE Kept'
    <2>1. text \in Seq(Char) /\ CrBeforeLf(text)
      BY AnalysisAssumption
    <2> QED BY <1>2, <2>1 DEF Kept, Sound, Replace, Update
  <1>3. CASE Query
    BY <1>3, IndexingKeeps DEF Query
  <1>4. CASE EndParse
    BY <1>4, IndexingKeeps DEF EndParse
  <1>5. CASE UNCHANGED <<buffer, doc>>
    BY <1>5 DEF Kept, Sound
  <1>6. ASSUME NEW name, Lex(name) PROVE UNCHANGED <<buffer, doc>>
    BY <1>6 DEF Lex
  <1>7. ASSUME NEW name, OpenRule(name) PROVE UNCHANGED <<buffer, doc>>
    BY <1>7 DEF OpenRule, Announce
  <1>8. CASE CloseRule
    BY <1>5, <1>8 DEF CloseRule, Announce
  <1>9. CASE UNCHANGED vars
    BY <1>5, <1>9 DEF vars
  <1> QED BY <1>1, <1>2, <1>3, <1>4, <1>5, <1>6, <1>7, <1>8, <1>9 DEF Next

LEMMA DocumentIsKept == Spec => []Kept
  <1>1. Init => Kept
    <2> SUFFICES ASSUME Init PROVE Kept
      OBVIOUS
    <2>1. buffer \in Seq(Char) /\ CrBeforeLf(buffer)
      BY AnalysisAssumption DEF Init
    <2> QED BY <2>1 DEF Init, Kept, Sound
  <1>2. Kept /\ [Next]_vars => Kept'
    BY StepKeeps
  <1> QED BY <1>1, <1>2, PTL DEF Spec

(* After any edits at any places the client may name, in either encoding    *)
(* and however many to a notification, the server's text is the client's,   *)
(* and a line index left standing is the one of that text.                  *)
THEOREM TextsAgree == Spec => []InSync
  <1>1. Kept => InSync
    <2> SUFFICES ASSUME Kept PROVE InSync
      OBVIOUS
    <2>1. doc.text = buffer /\ buffer \in Seq(Char) /\ doc.starts \in {NoIndex, LineStarts(buffer)}
      BY DEF Kept, Sound
    <2> DEFINE heads == {n \in 0..Len(buffer) : n = 0 \/ buffer[n] = "lf"}
    <2>2. 0 \in 0..Len(buffer)
      BY <2>1
    <2>3. Range(LineStarts(buffer)) = {Bytes(buffer)[n] : n \in heads}
      BY <2>1, <2>2, IndexOfPlace
    <2>4. \A n \in heads : ByteLen(Take(buffer, n)) = Bytes(buffer)[n]
      BY <2>1, BytesOfTake
    <2>5. ToSet(LineStarts(buffer)) = Range(LineStarts(buffer))
      BY DEF ToSet, Range
    <2> HIDE DEF heads
    <2>6. ToSet(LineStarts(buffer)) = {ByteLen(Take(buffer, n)) : n \in heads}
      BY <2>3, <2>4, <2>5
    <2> QED BY <2>1, <2>6 DEF InSync, heads
  <1> QED BY <1>1, DocumentIsKept, PTL

(* Of every text the client makes so, and wherever on it a diagnostic is: a *)
(* range made of the engine's row, column and length is, on the client's    *)
(* screen, the text the diagnostic is of.                                   *)
THEOREM DiagnosticsAreOnTheirText == Spec => []DiagnosticsCoverTheirText
  <1>1. Kept => DiagnosticsCoverTheirText
    <2> SUFFICES ASSUME Kept, NEW n \in Stops(buffer), NEW m \in Stops(buffer), n <= m
                 PROVE  RangeFrom(doc, Row(buffer, n), Column(buffer, n), n, m - n) = OnScreen(n, m)
      BY DEF DiagnosticsCoverTheirText
    <2>1. n \in 0..Len(buffer) /\ m \in n..Len(buffer)
      BY DEF Stops
    <2> QED BY <2>1, RangeOfStretch DEF Kept, OnScreen
  <1> QED BY <1>1, DocumentIsKept, PTL

(* However the client names the place its cursor is at, the engine is given *)
(* the text before that place to continue.                                  *)
THEOREM CursorIsWhereItIs == Spec => []PlacesAreUnderstood(Indexed(doc))
  <1>1. Kept => PlacesAreUnderstood(Indexed(doc))
    <2> SUFFICES ASSUME Kept, NEW n \in Stops(buffer), NEW p \in Named(doc.encoding, buffer, n)
                 PROVE  Prefix(Indexed(doc), p) = Take(buffer, n)
      BY DEF PlacesAreUnderstood
    <2>1. Sound(Indexed(doc), buffer) /\ Indexed(doc).encoding = doc.encoding
          /\ Indexed(doc).text = buffer
      <3>1. Starts(doc) = LineStarts(buffer)
        BY StartsAreTheTexts DEF Kept
      <3> QED BY <3>1 DEF Kept, Sound, Indexed
    <2>2. CharsTo(buffer, OffsetAt(Indexed(doc), p)) = n
      BY <2>1, OffsetOfPlace
    <2> QED BY <2>1, <2>2 DEF Prefix
  <1> QED BY <1>1, DocumentIsKept, PTL
-----------------------------------------------------------------------------
(* The token list.                                                          *)
LEMMA GreatestOf ==
    ASSUME NEW T \in SUBSET Nat, T # {}, NEW b \in Nat, \A n \in T : n <= b
    PROVE  \E n \in T : \A m \in T : m <= n
  <1> DEFINE R == {k \in Nat : \E n \in T : k = b - n}
  <1>1. R \in SUBSET Nat /\ R # {}
    <2>1. PICK n \in T : TRUE
      OBVIOUS
    <2>2. b - n \in R
      BY <2>1
    <2> QED BY <2>2
  <1>2. PICK k \in R : \A m \in R : k <= m
    <2> HIDE DEF R
    <2> QED BY <1>1, LeastOf
  <1>3. PICK n \in T : k = b - n
    BY <1>2
  <1>4. ASSUME NEW m \in T PROVE m <= n
    <2>1. b - m \in R
      OBVIOUS
    <2>2. b - n <= b - m
      BY <1>2, <1>3, <2>1
    <2> QED BY <2>2
  <1> QED BY <1>3, <1>4

(* What comes before each member of a set, in a strict order of it.         *)
Orders(before, S) ==
    /\ before \in [S -> SUBSET S] /\ \A s \in S : s \notin before[s]
    /\ \A s, t \in S : s \in before[t] => before[s] \subseteq before[t]
    /\ \A s, t \in S : s = t \/ s \in before[t] \/ t \in before[s]

(* A sequence that has each member at the place its predecessors leave it.  *)
Ranks(list, S, before) ==
    /\ list = [k \in 1..Cardinality(S) |-> list[k]]
    /\ \A k \in 1..Cardinality(S) :
          (\E s \in S : Cardinality(before[s]) = k - 1) =>
              list[k] \in S /\ Cardinality(before[list[k]]) = k - 1

LEMMA RanksOrder ==
    ASSUME NEW S, IsFiniteSet(S), NEW before, Orders(before, S), NEW list, Ranks(list, S, before)
    PROVE  /\ list \in Seq(S) /\ Len(list) = Cardinality(S) /\ ToSet(list) = S
           /\ \A j, k \in 1..Len(list) : j < k => list[j] \in before[list[k]]
  <1>1. PICK N : N = Cardinality(S) /\ N \in Nat
    BY FS_CardinalityType
  <1>2. PICK rank : rank = [s \in S |-> Cardinality(before[s])]
    OBVIOUS
  <1>3. ASSUME NEW t \in S PROVE IsFiniteSet(before[t]) /\ rank[t] \in Nat /\ rank[t] <= N - 1
    <2>1. before[t] \in SUBSET S /\ t \notin before[t]
      BY DEF Orders
    <2>2. IsFiniteSet(before[t]) /\ Cardinality(before[t]) <= N /\ Cardinality(before[t]) # N
      BY <1>1, <2>1, FS_Subset
    <2>3. Cardinality(before[t]) \in Nat
      BY <2>2, FS_CardinalityType
    <2> QED BY <1>1, <1>2, <2>2, <2>3
  <1>4. ASSUME NEW s \in S, NEW t \in S, s \in before[t] PROVE rank[s] < rank[t]
    <2>1. before[s] \in SUBSET before[t] /\ s \notin before[s]
      BY <1>4 DEF Orders
    <2>2. IsFiniteSet(before[t]) /\ rank[s] = Cardinality(before[s]) /\ rank[t] = Cardinality(before[t])
          /\ rank[s] \in Nat /\ rank[t] \in Nat
      BY <1>2, <1>3
    <2>3. Cardinality(before[s]) <= Cardinality(before[t]) /\ Cardinality(before[s]) # Cardinality(before[t])
      BY <1>4, <2>1, <2>2, FS_Subset
    <2> QED BY <2>2, <2>3
  <1>5. ASSUME NEW s \in S, NEW t \in S, rank[s] = rank[t] PROVE s = t
    <2>1. rank[s] \in Nat /\ rank[t] \in Nat
      BY <1>3
    <2>2. s \notin before[t] /\ t \notin before[s]
      BY <1>4, <1>5, <2>1
    <2> QED BY <2>2 DEF Orders
  <1>6. ASSUME NEW n \in 0..(N - 1) PROVE \E t \in S : rank[t] = n
    <2> DEFINE f == [t \in S |-> rank[t]]
    <2>1. f \in Injection(S, 0..(N - 1))
      <3>1. \A t \in S : rank[t] \in 0..(N - 1)
        <4> TAKE t \in S
        <4>1. PICK r : r = rank[t]
          OBVIOUS
        <4>2. r \in Nat /\ r <= N - 1
          BY <1>3, <4>1
        <4>3. r \in 0..(N - 1)
          BY ONLY <1>1, <4>2
        <4> QED BY <4>1, <4>3
      <3>2. f \in [S -> 0..(N - 1)]
        BY <3>1
      <3> QED BY <1>5, <3>2 DEF Injection, IsInjective
    <2>2. IsFiniteSet(0..(N - 1)) /\ Cardinality(0..(N - 1)) = N
      BY <1>1, FS_Interval
    <2> HIDE DEF f
    <2>3. f \in Surjection(S, 0..(N - 1))
      BY <1>1, <2>1, <2>2, FS_Injection
    <2>4. \E t \in S : f[t] = n
      BY <2>3 DEF Surjection
    <2> QED BY <2>4 DEF f
  <1>7. ASSUME NEW k \in 1..N PROVE list[k] \in S /\ rank[list[k]] = k - 1
    <2>1. \E t \in S : rank[t] = k - 1
      BY <1>1, <1>6
    <2>2. \E t \in S : Cardinality(before[t]) = k - 1
      BY <1>2, <2>1
    <2> QED BY <1>1, <1>2, <2>2 DEF Ranks
  <1>8. list \in Seq(S) /\ Len(list) = N /\ DOMAIN list = 1..N
    <2>1. list \in [1..N -> S]
      BY <1>1, <1>7 DEF Ranks
    <2> QED BY <1>1, <2>1
  <1>9. ToSet(list) = S
    <2>1. ASSUME NEW t \in S PROVE \E k \in 1..N : list[k] = t
      <3>1. PICK r : r = rank[t]
        OBVIOUS
      <3>2. r + 1 \in 1..N /\ (r + 1) - 1 = r
        <4>1. r \in Nat /\ r <= N - 1
          BY <1>3, <3>1
        <4> QED BY ONLY <1>1, <4>1
      <3>3. list[r + 1] \in S /\ rank[list[r + 1]] = rank[t]
        BY <1>7, <3>1, <3>2
      <3>4. list[r + 1] = t
        BY <1>5, <3>3
      <3> QED BY <3>2, <3>4
    <2>2. ToSet(list) = {list[k] : k \in 1..N}
      BY <1>8 DEF ToSet
    <2>3. \A k \in 1..N : list[k] \in S
      BY <1>7
    <2> QED BY ONLY <2>1, <2>2, <2>3
  <1>10. ASSUME NEW j \in 1..N, NEW k \in 1..N, j < k PROVE list[j] \in before[list[k]]
    <2>1. PICK s, t : s = list[j] /\ t = list[k]
      OBVIOUS
    <2>2. s \in S /\ t \in S /\ rank[s] = j - 1 /\ rank[t] = k - 1
      BY <1>7, <2>1
    <2>3. s # t
      BY <1>10, <2>2
    <2>4. t \notin before[s]
      <3>1. ~(k - 1 < j - 1)
        BY <1>10
      <3> QED BY <1>4, <2>2, <3>1
    <2> QED BY <2>1, <2>2, <2>3, <2>4 DEF Orders
  <1> QED BY <1>1, <1>8, <1>9, <1>10

(* Tokens at places of their own.                                           *)
Placed(T) == /\ IsFiniteSet(T) /\ \A t \in T : t.si \in Nat
             /\ \A s, t \in T : s.si = t.si => s = t

Along(T) == InOrder(T, LAMBDA a, b : a.si < b.si)

LEMMA AlongTheText ==
    ASSUME NEW T, Placed(T)
    PROVE  /\ Along(T) \in Seq(T) /\ ToSet(Along(T)) = T
           /\ \A j, k \in 1..Len(Along(T)) : j < k => Along(T)[j].si < Along(T)[k].si
  <1>1. PICK before, list : /\ before = [t \in T |-> {u \in T : u.si < t.si}]
                            /\ list = Along(T)
    OBVIOUS
  <1>2. Orders(before, T)
    BY <1>1 DEF Orders, Placed
  <1>3. Ranks(list, T, before)
    <2>1. list = [k \in 1..Cardinality(T) |-> CHOOSE t \in T : Cardinality({u \in T : u.si < t.si}) = k - 1]
      BY <1>1 DEF Along, InOrder
    <2>2. ASSUME NEW k \in 1..Cardinality(T), NEW s \in T, Cardinality(before[s]) = k - 1
          PROVE  list[k] \in T /\ Cardinality(before[list[k]]) = k - 1
      <3>1. Cardinality({u \in T : u.si < s.si}) = k - 1
        BY <1>1, <2>2
      <3>2. list[k] \in T /\ Cardinality({u \in T : u.si < list[k].si}) = k - 1
        BY <2>1, <3>1
      <3> QED BY <1>1, <3>2
    <2>3. list = [k \in 1..Cardinality(T) |-> list[k]]
      <3> DEFINE Chosen(k) == CHOOSE t \in T : Cardinality({u \in T : u.si < t.si}) = k - 1
      <3>1. list = [k \in 1..Cardinality(T) |-> Chosen(k)]
        BY ONLY <2>1
      <3> HIDE DEF Chosen
      <3> QED BY ONLY <3>1
    <2> QED BY ONLY <2>2, <2>3 DEF Ranks
  <1>4. /\ list \in Seq(T) /\ ToSet(list) = T
        /\ \A j, k \in 1..Len(list) : j < k => list[j] \in before[list[k]]
    BY <1>2, <1>3, RanksOrder DEF Placed
  <1>5. ASSUME NEW j \in 1..Len(list), NEW k \in 1..Len(list), j < k PROVE list[j].si < list[k].si
    <2>1. list[k] \in T /\ list[j] \in before[list[k]]
      BY <1>4, <1>5
    <2> QED BY <1>1, <2>1
  <1> QED BY <1>1, <1>4, <1>5

(* Spans that are apart, so that between any two there is an offset of      *)
(* neither; and what they cover.                                            *)
Apart(claimed) ==
    /\ \A c \in claimed : c.start \in Nat /\ c.end \in Nat /\ c.start < c.end
    /\ \A c, d \in claimed : c = d \/ c.end < d.start \/ d.end < c.start

Covered(claimed, p) == \E c \in claimed : c.start <= p /\ p < c.end

LEMMA ShadowedIsCovered ==
    ASSUME NEW claimed, Apart(claimed), NEW p \in Nat
    PROVE  Shadowed(claimed, p) <=> Covered(claimed, p)
  <1> DEFINE before == {c \in claimed : c.start <= p}
             starts == {c.start : c \in before}
             Greatest(c) == c \in before /\ \A d \in before : d.start <= c.start
             last == CHOOSE c \in before : \A d \in before : d.start <= c.start
  <1>1. CASE before = {}
    BY <1>1 DEF Shadowed, Covered
  <1>2. CASE before # {}
    <2>1. starts \in SUBSET Nat /\ starts # {} /\ \A n \in starts : n <= p
      BY <1>2 DEF Apart
    <2>2. PICK n \in starts : \A m \in starts : m <= n
      <3> HIDE DEF starts
      <3> QED BY <2>1, GreatestOf
    <2>3. PICK b \in before : n = b.start
      BY <2>2
    <2>4. Greatest(b)
      BY <2>2, <2>3
    <2>5. Greatest(last)
      BY <2>4
    <2>6. Shadowed(claimed, p) <=> p < last.end
      BY <1>2 DEF Shadowed
    <2> HIDE DEF last
    <2>7. last \in claimed /\ last.start <= p /\ last.start \in Nat /\ last.end \in Nat
          /\ last.start < last.end
      BY <2>5 DEF Apart
    <2>8. ASSUME NEW c \in claimed, c.start <= p, p < c.end PROVE p < last.end
      <3>1. c.start <= last.start
        BY <2>5, <2>8
      <3>2. c.start \in Nat /\ c.end \in Nat
        BY DEF Apart
      <3>3. c = last \/ c.end < last.start \/ last.end < c.start
        BY <2>7 DEF Apart
      <3>4. ~(c.end < last.start)
        BY <2>7, <2>8, <3>2
      <3>5. ~(last.end < c.start)
        BY <2>7, <3>1, <3>2
      <3> QED BY <2>8, <3>3, <3>4, <3>5
    <2> QED BY <2>6, <2>7, <2>8 DEF Covered
  <1> QED BY <1>1, <1>2

LEMMA ClaimCovers ==
    ASSUME NEW claimed, Apart(claimed), NEW a \in Nat, NEW b \in Nat, a < b
    PROVE  /\ Apart(Claim(claimed, a, b))
           /\ \A p \in Nat : Covered(Claim(claimed, a, b), p) <=> Covered(claimed, p) \/ (a <= p /\ p < b)
  <1> DEFINE all == Touched(claimed, a, b)
             starts == {c.start : c \in all} \cup {a}
             ends == {c.end : c \in all} \cup {b}
  <1>1. \A c \in all : c \in claimed /\ c.start \in Nat /\ c.end \in Nat /\ c.start < c.end
                       /\ c.start <= b /\ c.end >= a
    BY DEF Touched, Apart
  <1>2. PICK lo \in starts : \A n \in starts : lo <= n
    <2>1. starts \in SUBSET Nat /\ starts # {}
      BY <1>1
    <2> HIDE DEF starts
    <2> QED BY <2>1, LeastOf
  <1>3. PICK hi \in ends : \A n \in ends : n <= hi
    <2>1. CASE \E c \in all : c.end > b
      <3>1. PICK c \in all : c.end > b
        BY <2>1
      <3>2. ASSUME NEW d \in all PROVE d.end <= c.end
        <4>1. c = d \/ c.end < d.start \/ d.end < c.start
          BY <1>1 DEF Apart
        <4>2. ~(c.end < d.start)
          BY <1>1, <3>1
        <4> QED BY <1>1, <4>1, <4>2
      <3>3. c.end \in ends /\ \A n \in ends : n <= c.end
        BY <1>1, <3>1, <3>2
      <3> QED BY <3>3
    <2>2. CASE \A c \in all : ~(c.end > b)
      <3>1. \A n \in ends : n <= b
        BY <1>1, <2>2
      <3> QED BY <3>1
    <2> QED BY <2>1, <2>2
  <1>4. lo \in Nat /\ lo <= a /\ (lo = a \/ \E c \in all : lo = c.start) /\ \A c \in all : lo <= c.start
    BY <1>1, <1>2
  <1>5. hi \in Nat /\ b <= hi /\ (hi = b \/ \E c \in all : hi = c.end) /\ \A c \in all : c.end <= hi
    BY <1>1, <1>3
  <1>6. PICK new : new = [start |-> lo, end |-> hi]
    OBVIOUS
  <1>7. Claim(claimed, a, b) = (claimed \ all) \cup {new}
    <2>1. Min(starts) = lo
      <3>1. PICK m : m = Min(starts)
        OBVIOUS
      <3>2. m \in starts /\ \A n \in starts : m <= n
        BY <1>2, <3>1 DEF Min
      <3>3. m \in Nat /\ m <= lo /\ lo <= m
        BY <1>1, <1>2, <3>2
      <3> QED BY <1>4, <3>1, <3>3
    <2>2. Max(ends) = hi
      <3>1. PICK m : m = Max(ends)
        OBVIOUS
      <3>2. m \in ends /\ \A n \in ends : m >= n
        <4>1. hi \in ends /\ \A n \in ends : hi >= n
          BY <1>1, <1>3
        <4> HIDE DEF ends
        <4> QED BY <3>1, <4>1 DEF Max
      <3>3. m \in Nat /\ m <= hi /\ hi <= m
        BY <1>1, <1>3, <3>2
      <3> QED BY <1>5, <3>1, <3>3
    <2> HIDE DEF all
    <2> QED BY <1>6, <2>1, <2>2 DEF Claim, all
  <1>8. new.start = lo /\ new.end = hi
    BY <1>6
  <1>9. ASSUME NEW d \in claimed \ all PROVE d.end < lo \/ hi < d.start
    <2>1. d.start \in Nat /\ d.end \in Nat /\ d.start < d.end /\ d \in claimed
      BY DEF Apart
    <2>2. d.start > b \/ d.end < a
      BY <2>1 DEF Touched
    <2>3. \A c \in all : c.end < d.start \/ d.end < c.start
      BY <1>1, <2>1 DEF Apart
    <2>4. CASE d.end < a
      <3>1. \A c \in all : d.end < c.start
        <4> TAKE c \in all
        <4>1. c.start \in Nat /\ c.end \in Nat /\ c.end >= a
          BY <1>1
        <4>2. ~(c.end < d.start)
          BY <2>1, <2>4, <4>1
        <4> QED BY <2>3, <4>2
      <3> HIDE DEF all, starts, ends
      <3> QED BY <1>4, <2>4, <3>1
    <2>5. CASE d.start > b
      <3>1. \A c \in all : c.end < d.start
        <4> TAKE c \in all
        <4>1. c.start \in Nat /\ c.end \in Nat /\ c.start <= b
          BY <1>1
        <4>2. ~(d.end < c.start)
          BY <2>1, <2>5, <4>1
        <4> QED BY <2>3, <4>2
      <3> HIDE DEF all, starts, ends
      <3> QED BY <1>5, <2>5, <3>1
    <2> QED BY <2>2, <2>4, <2>5
  <1>10. Apart((claimed \ all) \cup {new})
    <2>1. lo < hi
      BY <1>4, <1>5
    <2>2. \A c \in claimed \ all : c.start \in Nat /\ c.end \in Nat /\ c.start < c.end
      BY DEF Apart
    <2>3. \A c, d \in claimed \ all : c = d \/ c.end < d.start \/ d.end < c.start
      BY DEF Apart
    <2> HIDE DEF all, starts, ends
    <2> QED BY <1>4, <1>5, <1>8, <1>9, <2>1, <2>2, <2>3 DEF Apart
  <1>11. ASSUME NEW p \in Nat
         PROVE  Covered((claimed \ all) \cup {new}, p) <=> Covered(claimed, p) \/ (a <= p /\ p < b)
    <2>1. ASSUME NEW c \in claimed, c.start <= p, p < c.end
          PROVE  Covered((claimed \ all) \cup {new}, p)
      <3>1. CASE c \in all
        <4>1. lo <= c.start /\ c.end <= hi /\ c.start \in Nat /\ c.end \in Nat
          BY <1>1, <1>4, <1>5, <3>1
        <4>2. new.start <= p /\ p < new.end
          BY <1>4, <1>5, <1>8, <2>1, <4>1
        <4> QED BY <4>2 DEF Covered
      <3>2. CASE c \notin all
        BY <2>1, <3>2 DEF Covered
      <3> QED BY <3>1, <3>2
    <2>2. ASSUME a <= p, p < b PROVE Covered((claimed \ all) \cup {new}, p)
      <3>1. new.start <= p /\ p < new.end
        BY <1>4, <1>5, <1>8, <2>2
      <3> QED BY <3>1 DEF Covered
    <2>3. ASSUME lo <= p, p < hi, ~(a <= p /\ p < b) PROVE Covered(claimed, p)
      <3>1. CASE p < a
        <4>1. PICK c \in all : lo = c.start
          BY <1>4, <2>3, <3>1
        <4>2. c \in claimed /\ c.start <= p /\ p < c.end
          BY <1>1, <2>3, <3>1, <4>1
        <4> QED BY <4>2 DEF Covered
      <3>2. CASE b <= p
        <4>1. PICK c \in all : hi = c.end
          BY <1>5, <2>3, <3>2
        <4>2. c \in claimed /\ c.start <= p /\ p < c.end
          BY <1>1, <2>3, <3>2, <4>1
        <4> QED BY <4>2 DEF Covered
      <3> QED BY <2>3, <3>1, <3>2
    <2>4. ASSUME NEW c \in (claimed \ all) \cup {new}, c.start <= p, p < c.end, ~(a <= p /\ p < b)
          PROVE  Covered(claimed, p)
      <3>1. CASE c = new
        BY <1>8, <2>3, <2>4, <3>1
      <3>2. CASE c \in claimed
        BY <2>4, <3>2 DEF Covered
      <3> QED BY <2>4, <3>1, <3>2
    <2> HIDE DEF all, starts, ends
    <2>5. Covered(claimed, p) => Covered((claimed \ all) \cup {new}, p)
      BY <2>1 DEF Covered
    <2>6. Covered((claimed \ all) \cup {new}, p) /\ ~(a <= p /\ p < b) => Covered(claimed, p)
      <3> SUFFICES ASSUME Covered((claimed \ all) \cup {new}, p), ~(a <= p /\ p < b)
                   PROVE  Covered(claimed, p)
        OBVIOUS
      <3>1. PICK c \in (claimed \ all) \cup {new} : c.start <= p /\ p < c.end
        BY DEF Covered
      <3> QED BY <2>4, <3>1
    <2> QED BY <2>2, <2>5, <2>6
  <1> HIDE DEF all, starts, ends
  <1> QED BY <1>7, <1>10, <1>11

(* The tokens of a parse at their places, newest last.                      *)
IsListed(at, N) ==
    /\ N \in Nat
    /\ \A n \in 1..N : at[n].si \in Nat /\ Span(at[n]) \in Nat /\ Span(at[n]) > 0

Nothing == [claimed |-> {}, kept |-> {}]

(* The sifting of them, the newest first: after n, the n newest are done.   *)
SiftedStates(at, N) ==
    [claimed : {c \in SUBSET [start : Nat, end : Nat] : Apart(c)}, kept : SUBSET {at[n] : n \in 1..N}]

LEMMA SiftStays ==
    ASSUME NEW at, NEW N, IsListed(at, N), NEW done \in SiftedStates(at, N), NEW n \in 1..N
    PROVE  /\ Sift(done, at[n]) \in SiftedStates(at, N)
           /\ LET from == at[n].si
                  till == at[n].si + Span(at[n])
              IN  /\ from \in Nat /\ till \in Nat /\ from < till
                  /\ Sift(done, at[n]) =
                        IF Covered(done.claimed, from) THEN done
                        ELSE [claimed |-> Claim(done.claimed, from, till), kept |-> done.kept \cup {at[n]}]
  <1>1. PICK from, till : from = at[n].si /\ till = at[n].si + Span(at[n])
    OBVIOUS
  <1>2. from \in Nat /\ till \in Nat /\ from < till
    BY <1>1 DEF IsListed
  <1>3. Apart(done.claimed) /\ done.claimed \in SUBSET [start : Nat, end : Nat]
        /\ done.kept \in SUBSET {at[k] : k \in 1..N}
    BY DEF SiftedStates
  <1>4. Shadowed(done.claimed, from) <=> Covered(done.claimed, from)
    BY <1>2, <1>3, ShadowedIsCovered
  <1>5. PICK claim : claim = Claim(done.claimed, from, till)
    OBVIOUS
  <1>6. Apart(claim)
    BY <1>2, <1>3, <1>5, ClaimCovers
  <1>7. claim \in SUBSET [start : Nat, end : Nat]
    <2> SUFFICES ASSUME NEW c \in claim PROVE c \in [start : Nat, end : Nat]
      OBVIOUS
    <2>1. c.start \in Nat /\ c.end \in Nat
      BY <1>6 DEF Apart
    <2>2. c \in done.claimed \/ \E lo, hi : c = [start |-> lo, end |-> hi]
      BY <1>5 DEF Claim
    <2> QED BY <1>3, <2>1, <2>2
  <1>8. Sift(done, at[n]) = IF Covered(done.claimed, from) THEN done
                            ELSE [claimed |-> claim, kept |-> done.kept \cup {at[n]}]
    BY <1>1, <1>4, <1>5 DEF Sift
  <1>9. [claimed |-> claim, kept |-> done.kept \cup {at[n]}] \in SiftedStates(at, N)
    <2>1. done.kept \cup {at[n]} \in SUBSET {at[k] : k \in 1..N}
      BY <1>3
    <2> QED BY <1>6, <1>7, <2>1 DEF SiftedStates
  <1> QED BY <1>1, <1>2, <1>5, <1>8, <1>9

IsSifted(done, at, N) ==
    /\ done \in [0..N -> SiftedStates(at, N)] /\ done[0] = Nothing
    /\ \A n \in 1..N : done[n] = Sift(done[n - 1], at[N + 1 - n])

LEMMA ReconcileIsSifting ==
    ASSUME NEW events, NEW text, NEW N, Len(events) = N, NEW at,
           \A n \in 1..N : at[n] = Anchor(events[n], text), IsListed(at, N)
    PROVE  \E done : IsSifted(done, at, N) /\ Reconcile(events, text) = Along(done[N].kept)
  <1> DEFINE V == SiftedStates(at, N)
             F(f, n) == IF n = 0 THEN Nothing ELSE Sift(f[n - 1], Anchor(events[N + 1 - n], text))
             Is(f) == f = [n \in 0..N |-> F(f, n)]
  <1>1. N \in Nat
    BY DEF IsListed
  <1>2. ASSUME NEW n \in 1..N PROVE N + 1 - n \in 1..N /\ at[N + 1 - n] = Anchor(events[N + 1 - n], text)
    BY <1>1
  <1>3. Nothing \in V
    <2>1. Apart({})
      BY DEF Apart
    <2> QED BY <2>1 DEF SiftedStates, Nothing
  <1>4. PICK f : Follows(f, V, N, Nothing, [n \in 1..N |-> [v \in V |-> Sift(v, at[N + 1 - n])]])
    <2> DEFINE g == [n \in 1..N |-> [v \in V |-> Sift(v, at[N + 1 - n])]]
    <2>1. \A n \in 1..N, v \in V : Sift(v, at[N + 1 - n]) \in V
      BY <1>2, SiftStays
    <2>2. g \in [1..N -> [V -> V]]
      <3> HIDE DEF V
      <3> QED BY <2>1
    <2> HIDE DEF V, g
    <2>3. \E f : Follows(f, V, N, Nothing, g)
      BY <1>1, <1>3, <2>2, Recursion
    <2> QED BY <2>3 DEF g
  <1>5. /\ f \in [0..N -> V] /\ f[0] = Nothing
        /\ \A n \in 1..N : f[n] = Sift(f[n - 1], at[N + 1 - n])
    <2>1. \A n \in 1..N : n - 1 \in 0..N
      BY <1>1
    <2> HIDE DEF V
    <2> QED BY <1>4, <2>1 DEF Follows
  <1>6. \E h : Is(h)
    <2>1. \A n \in 0..N : f[n] = F(f, n)
      <3> TAKE n \in 0..N
      <3>1. CASE n = 0
        BY <1>5, <3>1
      <3>2. CASE n # 0
        <4>1. n \in 1..N
          BY <1>1, <3>2
        <4> QED BY <1>2, <1>5, <3>2, <4>1
      <3> QED BY <3>1, <3>2
    <2>2. Is(f)
      <3> HIDE DEF F, V
      <3> QED BY <1>5, <2>1
    <2> HIDE DEF Is
    <2> QED BY <2>2
  <1> DEFINE done == CHOOSE h : Is(h)
  <1>7. Is(done)
    <2> HIDE DEF Is
    <2> QED BY <1>6
  <1>8. Reconcile(events, text) = Along(done[N].kept)
    BY DEF Reconcile, Along, Nothing
  <1>9. \A n \in 0..N : done[n] = F(done, n)
    <2> HIDE DEF F, done
    <2> QED BY <1>7
  <1> HIDE DEF done, Is
  <1>10. done[0] = Nothing
    BY <1>1, <1>9
  <1>11. \A n \in 1..N : done[n] = Sift(done[n - 1], at[N + 1 - n])
    <2> TAKE n \in 1..N
    <2>1. n \in 0..N /\ n # 0
      BY <1>1
    <2>2. done[n] = Sift(done[n - 1], Anchor(events[N + 1 - n], text))
      BY <1>9, <2>1
    <2> QED BY <1>2, <2>2
  <1>12. \A n \in 0..N : done[n] \in V
    <2> DEFINE T == {n \in Nat : n <= N => done[n] \in V}
    <2> HIDE DEF V
    <2>1. 0 \in T
      BY <1>3, <1>10
    <2>2. ASSUME NEW n \in T PROVE n + 1 \in T
      <3> SUFFICES ASSUME n + 1 <= N PROVE done[n + 1] \in V
        OBVIOUS
      <3>1. n + 1 \in 1..N /\ (n + 1) - 1 = n /\ N + 1 - (n + 1) \in 1..N /\ done[n] \in V
        BY <1>1
      <3>2. done[n + 1] = Sift(done[n], at[N + 1 - (n + 1)])
        BY <1>11, <3>1
      <3>3. PICK k, was : k = N + 1 - (n + 1) /\ was = done[n]
        OBVIOUS
      <3>4. was \in SiftedStates(at, N) /\ k \in 1..N
        BY <3>1, <3>3 DEF V
      <3>5. Sift(was, at[k]) \in SiftedStates(at, N)
        BY <3>4, SiftStays
      <3> QED BY <3>2, <3>3, <3>5 DEF V
    <2>3. T = Nat
      <3> HIDE DEF T
      <3>1. T \in SUBSET Nat
        BY DEF T
      <3> QED BY <2>1, <2>2, <3>1, Induction
    <2> QED BY <2>3
  <1>13. done \in [0..N -> V]
    <2>1. DOMAIN done = 0..N /\ done = [n \in 0..N |-> done[n]]
      <3> HIDE DEF F, V
      <3> QED BY <1>7 DEF Is
    <2> HIDE DEF V
    <2> QED BY <1>12, <2>1
  <1>14. IsSifted(done, at, N)
    BY <1>10, <1>11, <1>13 DEF IsSifted
  <1> QED BY <1>8, <1>14

(* The n newest, of which those told are kept and claim what is claimed.     *)
SiftedTo(at, N, done, K, j) ==
    /\ done[j].kept = {at[n] : n \in {n \in (N + 1 - j)..N : K[n]}}
    /\ \A p \in Nat : Covered(done[j].claimed, p) <=>
          \E n \in (N + 1 - j)..N : K[n] /\ at[n].si <= p /\ p < at[n].si + Span(at[n])

LEMMA SiftedAre ==
    ASSUME NEW at, NEW N, IsListed(at, N), NEW done, IsSifted(done, at, N),
           NEW K, \A n \in 1..N : K[n] <=> ~Covered(done[N - n].claimed, at[n].si),
           NEW j \in 0..N
    PROVE  SiftedTo(at, N, done, K, j)
  <1> DEFINE Kept0(i) == {at[n] : n \in {n \in (N + 1 - i)..N : K[n]}}
             By(i, p) == \E n \in (N + 1 - i)..N : K[n] /\ at[n].si <= p /\ p < at[n].si + Span(at[n])
             P(i) == done[i].kept = Kept0(i) /\ \A p \in Nat : Covered(done[i].claimed, p) <=> By(i, p)
             T == {i \in Nat : i <= N => P(i)}
  <1>1. N \in Nat
    BY DEF IsListed
  <1>2. 0 \in T
    <2>1. (N + 1 - 0)..N = {}
      BY <1>1
    <2>2. Kept0(0) = {} /\ \A p : ~By(0, p)
      BY <2>1
    <2>3. done[0].kept = {} /\ \A p : ~Covered(done[0].claimed, p)
      BY DEF IsSifted, Nothing, Covered
    <2>4. P(0)
      <3> HIDE DEF Kept0, By
      <3> QED BY <2>2, <2>3
    <2> HIDE DEF P
    <2> QED BY <2>4
  <1>3. ASSUME NEW i \in T PROVE i + 1 \in T
    <2>0. i \in Nat /\ (i <= N => P(i))
      <3> HIDE DEF P
      <3> QED OBVIOUS
    <2> SUFFICES ASSUME i + 1 <= N PROVE P(i + 1)
      <3> HIDE DEF P
      <3> QED BY <2>0
    <2> HIDE DEF T, P
    <2>1. PICK k : k = N - i
      OBVIOUS
    <2>2. /\ k \in 1..N /\ N - k = i /\ N + 1 - (i + 1) = k /\ N + 1 - i = k + 1
          /\ i + 1 \in 1..N /\ (i + 1) - 1 = i /\ i \in 0..N /\ i <= N /\ k..N = {k} \cup (k + 1)..N
      BY <1>1, <2>0, <2>1
    <2>3. P(i)
      BY <2>0, <2>2
    <2>4. PICK c, d, t, from, till : c = done[i] /\ d = done[i + 1] /\ t = at[k] /\ from = t.si
                                     /\ till = t.si + Span(t)
      OBVIOUS
    <2>5. c \in SiftedStates(at, N) /\ d = Sift(c, t)
      BY <2>2, <2>4 DEF IsSifted
    <2>6. /\ from \in Nat /\ till \in Nat /\ from < till
          /\ d = IF Covered(c.claimed, from) THEN c
                 ELSE [claimed |-> Claim(c.claimed, from, till), kept |-> c.kept \cup {t}]
      BY <2>2, <2>4, <2>5, SiftStays
    <2>7. K[k] <=> ~Covered(c.claimed, from)
      BY <2>2, <2>4
    <2>8. Kept0(i + 1) = (IF K[k] THEN {t} ELSE {}) \cup Kept0(i)
      BY <2>2, <2>4
    <2>9. \A p : By(i + 1, p) <=> By(i, p) \/ (K[k] /\ from <= p /\ p < till)
      BY <2>2, <2>4
    <2>10. c.kept = Kept0(i) /\ \A p \in Nat : Covered(c.claimed, p) <=> By(i, p)
      BY <2>3, <2>4 DEF P
    <2>11. d.kept = Kept0(i + 1) /\ \A p \in Nat : Covered(d.claimed, p) <=> By(i + 1, p)
      <3> HIDE DEF Kept0, By
      <3>1. CASE Covered(c.claimed, from)
        BY <2>6, <2>7, <2>8, <2>9, <2>10, <3>1
      <3>2. CASE ~Covered(c.claimed, from)
        <4>1. Apart(c.claimed)
          BY <2>5 DEF SiftedStates
        <4>2. \A p \in Nat : Covered(Claim(c.claimed, from, till), p) <=>
                                 Covered(c.claimed, p) \/ (from <= p /\ p < till)
          BY <2>6, <4>1, ClaimCovers
        <4>3. d.claimed = Claim(c.claimed, from, till) /\ d.kept = c.kept \cup {t}
          BY <2>6, <3>2
        <4>4. \A p \in Nat : Covered(d.claimed, p) <=> By(i + 1, p)
          BY <2>7, <2>9, <2>10, <3>2, <4>2, <4>3
        <4>5. d.kept = Kept0(i + 1)
          BY <2>7, <2>8, <2>10, <3>2, <4>3
        <4> QED BY <4>4, <4>5
      <3> QED BY <3>1, <3>2
    <2> QED BY <2>4, <2>11 DEF P
  <1>4. T = Nat
    <2> HIDE DEF T
    <2>1. T \in SUBSET Nat
      BY DEF T
    <2> QED BY <1>2, <1>3, <2>1, Induction
  <1>5. P(j)
    <2>1. j \in T
      BY <1>4
    <2> HIDE DEF P
    <2> QED BY <1>1, <2>1
  <1> QED BY <1>5 DEF SiftedTo

(* The tokens that none kept later claims the start of are kept.            *)
Spared(at, N, kept) ==
    \A n \in 1..N : kept[n] <=>
        \A m \in (n + 1)..N : kept[m] => ~(at[m].si <= at[n].si /\ at[n].si < at[m].si + Span(at[m]))

LEMMA OneSparing ==
    ASSUME NEW at, NEW N \in Nat, NEW K, NEW L, Spared(at, N, K), Spared(at, N, L)
    PROVE  \A n \in 1..N : K[n] <=> L[n]
  <1> DEFINE D == {n \in 1..N : ~(K[n] <=> L[n])}
  <1> SUFFICES ASSUME D # {} PROVE FALSE
    OBVIOUS
  <1>1. D \in SUBSET Nat /\ \A n \in D : n <= N
    OBVIOUS
  <1>2. PICK n \in D : \A m \in D : m <= n
    <2> HIDE DEF D
    <2> QED BY <1>1, GreatestOf
  <1>3. n \in 1..N /\ ~(K[n] <=> L[n])
    BY <1>2
  <1>4. ASSUME NEW m \in (n + 1)..N PROVE K[m] <=> L[m]
    <2>1. m \notin D /\ m \in 1..N
      <3>1. m \in Nat /\ n \in Nat /\ ~(m <= n) /\ m \in 1..N
        BY <1>3
      <3> HIDE DEF D
      <3> QED BY <1>2, <3>1
    <2> QED BY <2>1
  <1> DEFINE Free(m) == ~(at[m].si <= at[n].si /\ at[n].si < at[m].si + Span(at[m]))
  <1>5. (K[n] <=> \A m \in (n + 1)..N : K[m] => Free(m)) /\ (L[n] <=> \A m \in (n + 1)..N : L[m] => Free(m))
    BY <1>3 DEF Spared
  <1> HIDE DEF Free, D
  <1> QED BY <1>3, <1>4, <1>5

LEMMA TheKeptAre ==
    ASSUME NEW at, NEW N, IsListed(at, N), NEW done, IsSifted(done, at, N)
    PROVE  \E K \in [1..N -> BOOLEAN] :
              Spared(at, N, K) /\ done[N].kept = {at[n] : n \in {n \in 1..N : K[n]}}
  <1>1. PICK K : K = [n \in 1..N |-> ~Covered(done[N - n].claimed, at[n].si)]
    OBVIOUS
  <1>2. K \in [1..N -> BOOLEAN] /\ \A n \in 1..N : K[n] <=> ~Covered(done[N - n].claimed, at[n].si)
    BY <1>1
  <1>3. N \in Nat
    BY DEF IsListed
  <1>4. ASSUME NEW n \in 1..N
        PROVE  K[n] <=> \A m \in (n + 1)..N : K[m] =>
                            ~(at[m].si <= at[n].si /\ at[n].si < at[m].si + Span(at[m]))
    <2>1. N - n \in 0..N /\ N + 1 - (N - n) = n + 1 /\ at[n].si \in Nat
      BY <1>3 DEF IsListed
    <2>2. PICK j, p : j = N - n /\ p = at[n].si
      OBVIOUS
    <2>3. j \in 0..N /\ p \in Nat
      BY <2>1, <2>2
    <2>4. Covered(done[j].claimed, p) <=>
             \E m \in (N + 1 - j)..N : K[m] /\ at[m].si <= p /\ p < at[m].si + Span(at[m])
      <3>1. SiftedTo(at, N, done, K, j)
        BY <1>2, <2>3, SiftedAre
      <3> QED BY <2>3, <3>1 DEF SiftedTo
    <2>5. K[n] <=> ~Covered(done[j].claimed, p)
      BY <1>2, <2>2
    <2>6. N + 1 - j = n + 1
      BY <2>1, <2>2
    <2> QED BY <2>2, <2>4, <2>5, <2>6
  <1>5. done[N].kept = {at[n] : n \in {n \in 1..N : K[n]}}
    <2>1. N \in 0..N /\ N + 1 - N = 1
      BY <1>3
    <2>2. done[N].kept = {at[n] : n \in {n \in (N + 1 - N)..N : K[n]}}
      <3>1. SiftedTo(at, N, done, K, N)
        BY <1>2, <2>1, SiftedAre
      <3> QED BY <3>1 DEF SiftedTo
    <2> QED BY <2>1, <2>2
  <1> QED BY <1>2, <1>4, <1>5 DEF Spared

(* The list, of events that have places.                                    *)
IsContract(list, at, N, kept) ==
    /\ kept \in [1..N -> BOOLEAN] /\ Spared(at, N, kept)
    /\ ToSet(list) = {at[n] : n \in {n \in 1..N : kept[n]}}
    /\ list \in Seq({at[n] : n \in 1..N})
    /\ \A j, k \in 1..Len(list) : j < k => list[j].si < list[k].si

LEMMA ReconcileKeepsContract ==
    ASSUME NEW events, NEW text, NEW N, Len(events) = N, NEW at,
           \A n \in 1..N : at[n] = Anchor(events[n], text), IsListed(at, N)
    PROVE  \E kept : IsContract(Reconcile(events, text), at, N, kept)
  <1>1. PICK done : IsSifted(done, at, N) /\ Reconcile(events, text) = Along(done[N].kept)
    BY ReconcileIsSifting
  <1>2. PICK K \in [1..N -> BOOLEAN] :
           Spared(at, N, K) /\ done[N].kept = {at[n] : n \in {n \in 1..N : K[n]}}
    BY <1>1, TheKeptAre
  <1>3. PICK T : T = {at[n] : n \in {n \in 1..N : K[n]}}
    OBVIOUS
  <1>4. N \in Nat
    BY DEF IsListed
  <1>5. Placed(T)
    <2>1. IsFiniteSet(T)
      <3>1. IsFiniteSet(1..N)
        BY <1>4, FS_Interval
      <3>2. PICK f, D : D = {n \in 1..N : K[n]} /\ f = [n \in D |-> at[n]]
        OBVIOUS
      <3>3. IsFiniteSet(D)
        BY <3>1, <3>2, FS_Subset
      <3>4. f \in Surjection(D, T)
        BY <1>3, <3>2 DEF Surjection
      <3> QED BY <3>3, <3>4, FS_Surjection
    <2>2. \A t \in T : t.si \in Nat
      BY <1>3 DEF IsListed
    <2>3. ASSUME NEW m \in 1..N, NEW n \in 1..N, K[m], K[n], at[m].si = at[n].si PROVE m = n
      <3>1. ASSUME NEW i \in 1..N, NEW k \in 1..N, i < k, K[i], K[k], at[i].si = at[k].si PROVE FALSE
        <4>1. k \in (i + 1)..N
          BY <1>4, <3>1
        <4>2. ~(at[k].si <= at[i].si /\ at[i].si < at[k].si + Span(at[k]))
          BY <1>2, <3>1, <4>1 DEF Spared
        <4>3. PICK x, y : x = at[k].si /\ y = Span(at[k])
          OBVIOUS
        <4>4. x \in Nat /\ y \in Nat /\ y > 0
          BY <4>3 DEF IsListed
        <4>5. x <= x /\ x < x + y
          BY <4>4
        <4> QED BY <3>1, <4>2, <4>3, <4>5
      <3>2. ~(m < n) /\ ~(n < m)
        BY <2>3, <3>1
      <3> QED BY <1>4, <3>2
    <2>4. \A s, t \in T : s.si = t.si => s = t
      BY <1>3, <2>3
    <2> QED BY <2>1, <2>2, <2>4 DEF Placed
  <1>6. PICK list : list = Along(T) /\ list = Reconcile(events, text)
    BY <1>1, <1>2, <1>3
  <1>7. /\ list \in Seq(T) /\ ToSet(list) = T
        /\ \A j, k \in 1..Len(list) : j < k => list[j].si < list[k].si
    BY <1>5, <1>6, AlongTheText
  <1>8. list \in Seq({at[n] : n \in 1..N})
    <2>1. T \subseteq {at[n] : n \in 1..N}
      BY <1>3
    <2> HIDE <1>3
    <2> QED BY <1>7, <2>1
  <1> QED BY <1>2, <1>3, <1>6, <1>7, <1>8 DEF IsContract
-----------------------------------------------------------------------------
(* Tokens on their text.                                                    *)
IsFromTo(text, t, p, q) ==
    /\ p \in 0..Len(text) /\ q \in p..Len(text)
    /\ t.si = Bytes(text)[p] /\ t.len = Bytes(text)[q] - Bytes(text)[p]
    /\ t.src = SubSeq(text, p + 1, q) /\ Len(t.src) = q - p
    /\ t.ri = Row(text, p) /\ t.ci = Column(text, p)

OnText(text, t) == \E p, q : IsFromTo(text, t, p, q)

LEMMA HoldsAtBytes ==
    ASSUME NEW text \in Seq(Char), NEW p \in 0..Len(text), NEW src
    PROVE  Holds(text, Bytes(text)[p], src) <=>
              p + Len(src) <= Len(text) /\ SubSeq(text, p + 1, p + Len(src)) = src
  BY CharsAtBytes, BytesOfTake DEF Holds

(* Of a text with no \r on its own, the last line break before a place that *)
(* may be named is a \n.                                                    *)
LEMMA BreakIsHead ==
    ASSUME NEW text \in Seq(Char), CrBeforeLf(text), NEW n \in Stops(text)
    PROVE  SelectLastInSeq(Take(text, n), LineBreak) = LineHead(text, n)
  <1> DEFINE I == {i \in 1..n : LineBreak(text[i])}
  <1>1. n \in Nat /\ n \in 0..Len(text) /\ Len(Take(text, n)) = n
        /\ \A i \in 1..n : Take(text, n)[i] = text[i]
    BY DEF Take, Stops
  <1>2. PICK from : from = SelectLastInSeq(Take(text, n), LineBreak)
    OBVIOUS
  <1>3. from = IF I # {} THEN Max(I) ELSE 0
    <2>1. I = {i \in 1..Len(Take(text, n)) : LineBreak(Take(text, n)[i])}
      BY <1>1
    <2> QED BY <1>2, <2>1 DEF SelectLastInSeq
  <1>4. IsHead(text, n, from)
    <2>1. CASE I = {}
      <3>1. from = 0 /\ \A k \in 1..n : text[k] # "lf"
        BY <1>3, <2>1 DEF LineBreak
      <3> QED BY <1>1, <3>1 DEF IsHead
    <2>2. CASE I # {}
      <3>1. I \in SUBSET Nat /\ \A i \in I : i <= n
        BY <1>1
      <3>2. PICK h \in I : \A i \in I : i <= h
        <4> HIDE DEF I
        <4> QED BY <1>1, <2>2, <3>1, GreatestOf
      <3>3. from \in I /\ \A i \in I : from >= i
        <4>1. from = Max(I)
          BY <1>3, <2>2
        <4>2. h \in I /\ \A i \in I : h >= i
          BY <3>1, <3>2
        <4> HIDE DEF I
        <4> QED BY <4>1, <4>2 DEF Max
      <3>4. from \in 1..n /\ text[from] \in {"lf", "cr"}
        BY <3>3 DEF LineBreak
      <3>5. text[from] # "cr"
        <4> SUFFICES ASSUME text[from] = "cr" PROVE FALSE
          OBVIOUS
        <4>1. from \in DOMAIN text /\ Len(text) \in Nat /\ n <= Len(text)
          BY <1>1, <3>4
        <4>2. from < Len(text) /\ text[from + 1] = "lf"
          BY <4>1 DEF CrBeforeLf
        <4>3. from # n
          BY <1>1, <3>4, <4>2 DEF Stops
        <4>4. from + 1 \in 1..n
          BY <1>1, <3>4, <4>3
        <4>5. from + 1 \in I
          BY <4>2, <4>4 DEF LineBreak
        <4>6. from >= from + 1
          <5> HIDE DEF I
          <5> QED BY <3>3, <4>5
        <4> QED BY <3>4, <4>6
      <3>6. ASSUME NEW k \in (from + 1)..n PROVE text[k] # "lf"
        <4>1. k \in 1..n /\ ~(from >= k)
          BY <1>1, <3>4
        <4>2. k \notin I
          <5> HIDE DEF I
          <5> QED BY <3>3, <4>1
        <4> QED BY <4>1, <4>2 DEF LineBreak
      <3> QED BY <1>1, <3>4, <3>5, <3>6 DEF IsHead
    <2> QED BY <2>1, <2>2
  <1>5. IsHead(text, n, LineHead(text, n))
    BY <1>1, HeadIsLast
  <1> QED BY <1>1, <1>2, <1>4, <1>5, OneHead

LinesGrow(text, n, m, lfs) ==
    lfs \in Nat /\ LinesTo(text, n) \in Nat /\ LinesTo(text, m) = LinesTo(text, n) + lfs

LEMMA LinesOfPart ==
    ASSUME NEW text \in Seq(Char), NEW n \in 0..Len(text), NEW m \in n..Len(text), NEW src,
           src = SubSeq(text, n + 1, m)
    PROVE  LinesGrow(text, n, m, Cardinality({i \in DOMAIN src : Newline(src[i])}))
  <1>1. PICK len : len = m - n
    OBVIOUS
  <1>2. n \in Nat /\ m \in Nat /\ len \in Nat /\ n + len = m /\ m <= Len(text) /\ Len(text) \in Nat
    BY <1>1
  <1>3. DOMAIN src = 1..len /\ \A i \in 1..len : src[i] = text[n + i]
    <2>1. src \in Seq(Char) /\ Len(src) = m - (n + 1) + 1 /\ m - (n + 1) + 1 = len
      BY <1>1, <1>2
    <2>2. \A i \in 1..len : src[i] = text[(n + 1) + i - 1] /\ (n + 1) + i - 1 = n + i
      BY <1>1, <1>2, <2>1
    <2> QED BY <2>1, <2>2
  <1> DEFINE T == {k \in Nat : k <= len => LinesTo(text, n + k) = LinesTo(text, n) + LinesTo(src, k)}
  <1>4. 0 \in T
    <2>1. LinesTo(src, 0) = 0 /\ LinesTo(text, n) \in Nat /\ n + 0 = n
      BY <1>2, LinesStep
    <2> QED BY <2>1
  <1>5. ASSUME NEW k \in T PROVE k + 1 \in T
    <2> SUFFICES ASSUME k + 1 <= len PROVE LinesTo(text, n + (k + 1)) = LinesTo(text, n) + LinesTo(src, k + 1)
      OBVIOUS
    <2>1. k \in Nat /\ k + 1 \in 1..len /\ n + k \in Nat /\ (n + k) + 1 = n + (k + 1)
      BY <1>2
    <2>2. LinesTo(text, n + k) = LinesTo(text, n) + LinesTo(src, k)
      BY <1>2, <2>1
    <2>3. src[k + 1] = text[(n + k) + 1]
      BY <1>3, <2>1
    <2>4. PICK a, b, c, d, e, x : /\ a = LinesTo(text, n + k) /\ b = LinesTo(text, (n + k) + 1)
                                  /\ c = LinesTo(src, k) /\ d = LinesTo(src, k + 1) /\ e = LinesTo(text, n)
                                  /\ x = IF src[k + 1] = "lf" THEN 1 ELSE 0
      OBVIOUS
    <2>5. a \in Nat /\ c \in Nat /\ e \in Nat /\ x \in Nat
      BY <1>2, <2>1, <2>4, LinesStep
    <2>6. b = a + x /\ d = c + x
      BY <2>1, <2>3, <2>4, LinesStep
    <2>7. a = e + c
      BY <2>2, <2>4
    <2>8. b = e + d
      BY ONLY <2>5, <2>6, <2>7
    <2> QED BY <2>1, <2>4, <2>8
  <1>6. T = Nat
    <2> HIDE DEF T
    <2>1. T \in SUBSET Nat
      BY DEF T
    <2> QED BY <1>4, <1>5, <2>1, Induction
  <1>7. LinesTo(text, n + len) = LinesTo(text, n) + LinesTo(src, len)
    <2>1. len \in T
      BY <1>2, <1>6
    <2> QED BY <1>2, <2>1
  <1>8. LinesTo(src, len) = Cardinality({i \in DOMAIN src : Newline(src[i])})
    BY <1>3 DEF LinesTo, Newline
  <1>9. LinesTo(src, len) \in Nat /\ LinesTo(text, n) \in Nat
    BY <1>2, LinesStep
  <1> QED BY <1>2, <1>7, <1>8, <1>9 DEF LinesGrow

LEMMA HeadOfPart ==
    ASSUME NEW text \in Seq(Char), NEW n \in 0..Len(text), NEW m \in n..Len(text),
           \A i \in (n + 1)..m : text[i] # "lf"
    PROVE  LineHead(text, m) = LineHead(text, n)
  <1>1. m \in 0..Len(text) /\ m \in Nat
    OBVIOUS
  <1>2. IsHead(text, n, LineHead(text, n)) /\ IsHead(text, m, LineHead(text, m))
    BY <1>1, HeadIsLast
  <1>3. PICK h : h = LineHead(text, n)
    OBVIOUS
  <1>4. IsHead(text, m, h)
    <2>1. h \in 0..n /\ (h # 0 => text[h] = "lf") /\ \A k \in (h + 1)..n : text[k] # "lf"
      BY <1>2, <1>3 DEF IsHead
    <2>2. \A k \in (h + 1)..m : k \in (h + 1)..n \/ k \in (n + 1)..m
      BY <1>1, <2>1
    <2>3. h \in 0..m
      BY <1>1, <2>1
    <2> QED BY <2>1, <2>2, <2>3 DEF IsHead
  <1> QED BY <1>1, <1>2, <1>3, <1>4, OneHead

(* Wherever its matcher reports it, before its text or after, a token is    *)
(* anchored on it (or on the same text just after).                         *)
LEMMA AnchorPuts ==
    ASSUME NEW text \in Seq(Char), CrBeforeLf(text), NEW n \in Stops(text), NEW m \in Stops(text), n <= m,
           NEW name, NEW at \in {n, m}
    PROVE  OnText(text, Anchor(TokenAt(text, name, at, n, m), text))
  <1>1. PICK N, B, src, t : N = Len(text) /\ B = Bytes(text) /\ src = SubSeq(text, n + 1, m)
                            /\ t = TokenAt(text, name, at, n, m)
    OBVIOUS
  <1>2. N \in Nat /\ n \in 0..N /\ m \in 0..N /\ m \in n..N /\ at \in 0..N
    BY <1>1 DEF Stops
  <1>3. Len(src) = m - n /\ \A i \in 1..(m - n) : src[i] = text[n + i]
    BY <1>1, <1>2
  <1>4. ByteLen(src) = B[m] - B[n] /\ B[n] \in Nat /\ B[m] \in Nat /\ B[n] + (m - n) <= B[m]
    <2>1. Measure("utf-8", src) = B[m] - B[n]
      BY <1>1, <1>2, UnitsOfPart DEF Bytes
    <2> QED BY <1>1, <1>2, <2>1, UnitsGrow DEF Bytes, ByteLen
  <1>5. t = [name |-> name, si |-> B[at], ri |-> Row(text, at), ci |-> Column(text, at),
             len |-> B[m] - B[n], src |-> src]
    BY <1>1, <1>2, <1>4, BytesOfTake DEF TokenAt
  <1>6. Holds(text, B[n], src)
    <2>1. n + Len(src) = m
      BY <1>2, <1>3
    <2>2. n + Len(src) <= Len(text) /\ SubSeq(text, n + 1, n + Len(src)) = src
      BY <1>1, <1>2, <2>1
    <2>3. n \in 0..Len(text)
      BY <1>1, <1>2
    <2> QED BY <1>1, <2>2, <2>3, HoldsAtBytes
  <1>7. CASE at = n
    <2>1. Anchor(t, text) = t
      BY <1>5, <1>6, <1>7 DEF Anchor
    <2>2. t.si = B[n] /\ t.len = B[m] - B[n] /\ t.src = src /\ t.ri = Row(text, n) /\ t.ci = Column(text, n)
      BY <1>5, <1>7
    <2>3. IsFromTo(text, t, n, m)
      BY <1>1, <1>2, <1>3, <2>2 DEF IsFromTo
    <2> QED BY <1>1, <2>1, <2>3 DEF OnText
  <1>8. CASE at = m /\ n < m /\ Holds(text, B[m], src)
    <2>1. Anchor(t, text) = t
      BY <1>5, <1>8 DEF Anchor
    <2>2. PICK q : q = m + (m - n)
      OBVIOUS
    <2>3. q \in m..N /\ SubSeq(text, m + 1, q) = src /\ Len(src) = q - m
      <3>1. m + Len(src) <= Len(text) /\ SubSeq(text, m + 1, m + Len(src)) = src
        BY <1>1, <1>2, <1>8, HoldsAtBytes
      <3>2. m + Len(src) = q
        BY <1>3, <2>2
      <3>3. SubSeq(text, m + 1, q) = src /\ q <= N
        BY <1>1, <3>1, <3>2
      <3>4. n \in Nat /\ m \in Nat /\ n < m /\ q = m + (m - n)
        BY <1>2, <1>8, <2>2
      <3>5. q \in m..N /\ q - m = m - n
        BY ONLY <1>2, <3>3, <3>4
      <3> QED BY <1>3, <3>3, <3>5
    <2>4. B[m] - B[n] = B[q] - B[m]
      <3>1. Measure("utf-8", SubSeq(text, m + 1, q)) = B[q] - B[m]
        BY <1>1, <1>2, <2>3, UnitsOfPart DEF Bytes
      <3> QED BY <1>4, <2>3, <3>1 DEF ByteLen
    <2>5. t.si = B[m] /\ t.len = B[q] - B[m] /\ t.src = src /\ t.ri = Row(text, m) /\ t.ci = Column(text, m)
      BY <1>5, <1>8, <2>4
    <2>6. IsFromTo(text, t, m, q)
      BY <1>1, <1>2, <2>3, <2>5 DEF IsFromTo
    <2> QED BY <1>1, <2>1, <2>6 DEF OnText
  <1>9. CASE at = m /\ n < m /\ ~Holds(text, B[m], src)
    <2>1. t.si - t.len = B[n] /\ t.len > 0 /\ t.len <= t.si
      <3>1. PICK x, y : x = B[n] /\ y = B[m]
        OBVIOUS
      <3>2. x \in Nat /\ y \in Nat /\ x + (m - n) <= y /\ n \in Nat /\ m \in Nat /\ n < m
        BY <1>2, <1>4, <1>9, <3>1
      <3>3. y - (y - x) = x /\ y - x > 0 /\ y - x <= y
        BY ONLY <3>2
      <3> QED BY <1>5, <1>9, <3>1, <3>3
    <2>2. Anchor(t, text) = Moved(t, text)
      BY <1>5, <1>6, <1>9, <2>1 DEF Anchor
    <2> DEFINE lfs == Cardinality({i \in DOMAIN src : Newline(src[i])})
               spans == \E i \in DOMAIN src : LineBreak(src[i])
               ri == IF t.ri > lfs THEN t.ri - lfs ELSE 0
               ci == IF spans \/ t.ci <= Len(src) THEN n - LineHead(text, n) + 1 ELSE t.ci - Len(src)
    <2>3. Moved(t, text) = [t EXCEPT !.si = B[n], !.ri = ri, !.ci = ci]
      <3>1. CharsTo(text, t.si - t.len) = n
        BY <1>1, <1>2, <2>1, CharsAtBytes
      <3>2. SelectLastInSeq(Take(text, n), LineBreak) = LineHead(text, n) /\ Len(Take(text, n)) = n
        BY <1>1, <1>2, BreakIsHead DEF Take
      <3>3. t.src = src
        BY <1>5
      <3> QED BY <2>1, <3>1, <3>2, <3>3 DEF Moved
    <2>4. ri = Row(text, n)
      <3>1. lfs \in Nat /\ LinesTo(text, n) \in Nat /\ LinesTo(text, m) = LinesTo(text, n) + lfs
        <4>1. n \in 0..Len(text) /\ m \in n..Len(text) /\ src = SubSeq(text, n + 1, m)
          BY <1>1, <1>2
        <4>2. LinesGrow(text, n, m, lfs)
          BY <4>1, LinesOfPart
        <4> HIDE DEF lfs
        <4> QED BY <4>2 DEF LinesGrow
      <3>2. Row(text, m) = LinesTo(text, m) + 1 /\ Row(text, n) = LinesTo(text, n) + 1 /\ t.ri = Row(text, m)
        BY <1>5, <1>9 DEF Row, LinesTo
      <3>3. PICK x, y, z : x = LinesTo(text, n) /\ y = LinesTo(text, m) /\ z = lfs
        OBVIOUS
      <3>4. x \in Nat /\ z \in Nat /\ y = x + z
        BY <3>1, <3>3
      <3>5. y + 1 > z /\ (y + 1) - z = x + 1
        BY ONLY <3>4
      <3> HIDE DEF lfs
      <3> QED BY <3>2, <3>3, <3>5 DEF ri
    <2>5. ci = Column(text, n)
      <3>1. Column(text, n) = n - LineHead(text, n) + 1 /\ t.ci = m - LineHead(text, m) + 1
        BY <1>5, <1>9 DEF Column
      <3>2. CASE ~spans
        <4>1. ASSUME NEW k \in (n + 1)..m PROVE text[k] # "lf"
          <5>1. k - n \in 1..(m - n) /\ n + (k - n) = k
            BY <1>2
          <5>2. k - n \in DOMAIN src /\ src[k - n] = text[k]
            BY <1>1, <1>2, <1>3, <5>1
          <5> QED BY <3>2, <5>2 DEF LineBreak
        <4>2. LineHead(text, m) = LineHead(text, n)
          BY <1>1, <1>2, <4>1, HeadOfPart
        <4>3. LineHead(text, n) \in 0..n
          BY <1>1, <1>2, HeadIsLast DEF IsHead
        <4>4. PICK h : h = LineHead(text, n)
          OBVIOUS
        <4>5. (m - h + 1) - (m - n) = n - h + 1 /\ ~(m - h + 1 <= m - n)
          <5>1. h \in 0..n /\ m \in Nat /\ n \in Nat
            BY <1>2, <4>3, <4>4
          <5> QED BY ONLY <5>1
        <4> QED BY <1>3, <3>1, <3>2, <4>2, <4>4, <4>5 DEF ci
      <3>3. CASE spans
        BY <3>1, <3>3 DEF ci
      <3> QED BY <3>2, <3>3
    <2> HIDE DEF ri, ci
    <2>6. PICK a : a = Anchor(t, text)
      OBVIOUS
    <2>7. a.si = B[n] /\ a.len = B[m] - B[n] /\ a.src = src /\ a.ri = Row(text, n) /\ a.ci = Column(text, n)
      <3>1. a = [t EXCEPT !.si = B[n], !.ri = Row(text, n), !.ci = Column(text, n)]
        BY <2>2, <2>3, <2>4, <2>5, <2>6
      <3>2. a = [name |-> name, si |-> B[n], ri |-> Row(text, n), ci |-> Column(text, n),
                 len |-> B[m] - B[n], src |-> src]
        BY ONLY <1>5, <3>1
      <3> QED BY ONLY <3>2
    <2>8. IsFromTo(text, a, n, m)
      BY <1>1, <1>2, <1>3, <2>7 DEF IsFromTo
    <2> QED BY <1>1, <2>6, <2>8 DEF OnText
  <1> QED BY <1>2, <1>7, <1>8, <1>9
-----------------------------------------------------------------------------
(* A parse is of the buffer, and its events are tokens of it.               *)
Stretches(text) ==
    {s \in [name : DOMAIN Convention, from : Stops(text), till : Stops(text), at : Stops(text)] :
        s.from <= s.till /\ s.at \in {s.from, s.till}}

Lexed(text) == {TokenAt(text, s.name, s.at, s.from, s.till) : s \in Stretches(text)}

ParsedInv == Kept /\ lex \in Seq(Lexed(buffer))

LEMMA LexKeeps ==
    ASSUME ParsedInv, NEW name \in DOMAIN Convention, Lex(name)
    PROVE  ParsedInv'
  <1>1. PICK n \in Stops(doc.text), m \in Stops(doc.text) :
          /\ n <= m
          /\ \E at \in {n} \cup (IF name \in Late THEN {m} ELSE {}) :
                lex' = Append(lex, TokenAt(doc.text, name, at, n, m))
    BY DEF Lex
  <1>2. PICK at \in {n, m} : lex' = Append(lex, TokenAt(doc.text, name, at, n, m))
    BY <1>1
  <1>3. doc.text = buffer
    BY DEF ParsedInv, Kept, Sound
  <1>4. PICK s : s = [name |-> name, from |-> n, till |-> m, at |-> at]
    OBVIOUS
  <1>5. s \in Stretches(buffer)
    BY <1>1, <1>3, <1>4 DEF Stretches
  <1>6. TokenAt(buffer, s.name, s.at, s.from, s.till) \in Lexed(buffer)
    BY <1>5 DEF Lexed
  <1>7. PICK t : t = TokenAt(buffer, name, at, n, m)
    OBVIOUS
  <1>8. t \in Lexed(buffer)
    BY <1>4, <1>6, <1>7
  <1>9. UNCHANGED <<buffer, doc>>
    BY DEF Lex
  <1>10. lex \in Seq(Lexed(buffer)) /\ lex' = Append(lex, t)
    BY <1>2, <1>3, <1>7 DEF ParsedInv
  <1>11. lex' \in Seq(Lexed(buffer))
    BY <1>8, <1>10
  <1>12. Kept'
    BY <1>9 DEF ParsedInv, Kept, Sound
  <1>13. Lexed(buffer)' = Lexed(buffer)
    BY <1>9 DEF Lexed, Stretches
  <1> QED BY <1>11, <1>12, <1>13 DEF ParsedInv

LEMMA ParsedIsKept == Spec => []ParsedInv
  <1>1. Init => ParsedInv
    <2>1. Init => Kept
      <3> SUFFICES ASSUME Init PROVE Kept
        OBVIOUS
      <3>1. buffer \in Seq(Char) /\ CrBeforeLf(buffer)
        BY AnalysisAssumption DEF Init
      <3> QED BY <3>1 DEF Init, Kept, Sound
    <2>2. Init => lex \in Seq(Lexed(buffer))
      BY DEF Init
    <2> QED BY <2>1, <2>2 DEF ParsedInv
  <1>2. ParsedInv /\ [Next]_vars => ParsedInv'
    <2> SUFFICES ASSUME ParsedInv, [Next]_vars PROVE ParsedInv'
      OBVIOUS
    <2>1. Kept'
      BY StepKeeps DEF ParsedInv
    <2>2. CASE lex' = <<>>
      <3>1. <<>> \in Seq(Lexed(buffer)')
        OBVIOUS
      <3>2. lex' \in Seq(Lexed(buffer)')
        BY <2>2, <3>1
      <3> QED BY <2>1, <3>2 DEF ParsedInv
    <2>3. CASE UNCHANGED <<buffer, lex>>
      <3>1. Lexed(buffer)' = Lexed(buffer)
        BY <2>3 DEF Lexed, Stretches
      <3> QED BY <2>1, <2>3, <3>1 DEF ParsedInv
    <2>4. ASSUME NEW text \in Inserted, Edit(text) PROVE lex' = <<>>
      BY <2>4 DEF Edit, Still
    <2>5. ASSUME NEW text \in Opened, Replace(text) PROVE lex' = <<>>
      BY <2>5 DEF Replace, Still
    <2>6. CASE Query
      BY <2>3, <2>6 DEF Query
    <2>7. ASSUME NEW name \in DOMAIN Convention, Lex(name) PROVE ParsedInv'
      BY <2>7, LexKeeps
    <2>8. ASSUME NEW name, OpenRule(name) PROVE UNCHANGED <<buffer, lex>>
      BY <2>8 DEF OpenRule, Announce
    <2>9. CASE CloseRule
      BY <2>3, <2>9 DEF CloseRule, Announce
    <2>10. CASE EndParse
      BY <2>2, <2>10 DEF EndParse
    <2>11. CASE UNCHANGED vars
      BY <2>3, <2>11 DEF vars
    <2> QED BY <2>2, <2>3, <2>4, <2>5, <2>6, <2>7, <2>8, <2>9, <2>10, <2>11 DEF Next
  <1> QED BY <1>1, <1>2, PTL DEF Spec

(* The events at their places.                                              *)
LEMMA EventsArePlaced ==
    ASSUME ParsedInv, NEW N, N = Len(lex), NEW at, at = [n \in 1..N |-> Anchor(lex[n], buffer)]
    PROVE  IsListed(at, N) /\ \A n \in 1..N : OnText(buffer, at[n])
  <1>1. N \in Nat /\ \A n \in 1..N : lex[n] \in Lexed(buffer)
    BY DEF ParsedInv
  <1>2. buffer \in Seq(Char) /\ CrBeforeLf(buffer)
    BY DEF ParsedInv, Kept, Sound
  <1>3. ASSUME NEW n \in 1..N PROVE OnText(buffer, at[n])
    <2>0. lex[n] \in Lexed(buffer)
      BY <1>1
    <2>1. PICK s \in Stretches(buffer) : lex[n] = TokenAt(buffer, s.name, s.at, s.from, s.till)
      BY <2>0 DEF Lexed
    <2>2. PICK a, i, j : a = s.at /\ i = s.from /\ j = s.till
      OBVIOUS
    <2>3. i \in Stops(buffer) /\ j \in Stops(buffer) /\ i <= j /\ a \in {i, j}
      BY <2>2 DEF Stretches
    <2>4. OnText(buffer, Anchor(TokenAt(buffer, s.name, a, i, j), buffer))
      BY <1>2, <2>3, AnchorPuts
    <2> QED BY <2>1, <2>2, <2>4
  <1>4. ASSUME NEW n \in 1..N PROVE at[n].si \in Nat /\ Span(at[n]) \in Nat /\ Span(at[n]) > 0
    <2>1. PICK t : t = at[n]
      OBVIOUS
    <2>2. PICK p, q : IsFromTo(buffer, t, p, q)
      BY <1>3, <2>1 DEF OnText
    <2>3. PICK x, y : x = Bytes(buffer)[p] /\ y = Bytes(buffer)[q]
      OBVIOUS
    <2>4. p \in 0..Len(buffer) /\ q \in 0..Len(buffer) /\ p <= q
      BY <1>2, <2>2 DEF IsFromTo
    <2>5. x \in Nat /\ y \in Nat /\ x <= y
      BY <1>2, <2>3, <2>4, UnitsGrow DEF Bytes
    <2>6. t.si = x /\ t.len = y - x
      BY <2>2, <2>3 DEF IsFromTo
    <2> QED BY <2>1, <2>5, <2>6 DEF Span
  <1> QED BY <1>1, <1>3, <1>4 DEF IsListed

LEMMA ListIsContract ==
    ASSUME ParsedInv, NEW N, N = Len(lex), NEW at, at = [n \in 1..N |-> Anchor(lex[n], buffer)]
    PROVE  \E kept : IsContract(Reconcile(lex, buffer), at, N, kept)
  <1>1. IsListed(at, N)
    BY EventsArePlaced
  <1>2. \A n \in 1..N : at[n] = Anchor(lex[n], buffer)
    OBVIOUS
  <1> QED BY <1>1, <1>2, ReconcileKeepsContract

(* A token that its matcher reports late, or twice, or after others of its  *)
(* text: the list is of the tokens announced, each at its place, those that *)
(* none kept later claims the start of, in the order of the text.           *)
THEOREM ListKeepsContract == Spec => []ReconciledIsContract
  <1>1. ParsedInv => ReconciledIsContract
    <2> SUFFICES ASSUME ParsedInv PROVE ReconciledIsContract
      OBVIOUS
    <2>1. PICK N, at : N = Len(lex) /\ at = [n \in 1..N |-> Anchor(lex[n], buffer)]
      OBVIOUS
    <2>2. PICK K : IsContract(Reconcile(lex, buffer), at, N, K)
      BY <2>1, ListIsContract
    <2>3. N \in Nat /\ DOMAIN lex = 1..N /\ doc.text = buffer
      BY <2>1 DEF ParsedInv, Kept, Sound
    <2> DEFINE Free(f, n) == \A m \in (n + 1)..N :
                                f[m] => ~(at[m].si <= at[n].si /\ at[n].si < at[m].si + Span(at[m]))
               Is(f) == f = [n \in 1..N |-> Free(f, n)]
               kept == CHOOSE f : Is(f)
    <2>4. Is(K)
      <3>1. K \in [1..N -> BOOLEAN] /\ \A n \in 1..N : K[n] <=> Free(K, n)
        BY <2>2 DEF IsContract, Spared
      <3>2. \A n \in 1..N : Free(K, n) \in BOOLEAN
        OBVIOUS
      <3> HIDE DEF Free
      <3>3. \A n \in 1..N : K[n] = Free(K, n)
        BY <3>1, <3>2
      <3> QED BY <3>1, <3>3
    <2>5. Is(kept)
      <3> HIDE DEF Is
      <3> QED BY <2>4
    <2>6. \A n \in 1..N : kept[n] <=> K[n]
      <3> HIDE DEF kept
      <3>1. Spared(at, N, kept)
        <4>1. \A n \in 1..N : kept[n] = Free(kept, n)
          <5> HIDE DEF Free
          <5> QED BY <2>5
        <4> QED BY <4>1 DEF Spared
      <3>2. Spared(at, N, K)
        BY <2>2 DEF IsContract
      <3> QED BY <2>3, <3>1, <3>2, OneSparing
    <2>7. PICK list : list = Reconcile(lex, buffer)
      OBVIOUS
    <2>8. ToSet(list) = {at[n] : n \in {n \in 1..N : K[n]}}
          /\ \A j, k \in 1..Len(list) : j < k => list[j].si < list[k].si
          /\ Len(list) \in Nat
      BY <2>2, <2>7 DEF IsContract
    <2>9. ToSet(list) = {at[n] : n \in {n \in 1..N : kept[n]}}
      <3> HIDE DEF kept
      <3> QED BY <2>6, <2>8
    <2>10. \A k \in 1..(Len(list) - 1) : list[k].si < list[k + 1].si
      BY <2>8
    <2> QED BY <2>1, <2>3, <2>7, <2>9, <2>10 DEF ReconciledIsContract, Reconciled
  <1> QED BY <1>1, ParsedIsKept, PTL

LEMMA ListIsOnText ==
    ASSUME ParsedInv
    PROVE  /\ Reconciled \in Seq(ToSet(Reconciled)) /\ \A t \in ToSet(Reconciled) : OnText(buffer, t)
  <1>1. PICK N, at : N = Len(lex) /\ at = [n \in 1..N |-> Anchor(lex[n], buffer)]
    OBVIOUS
  <1>2. PICK K : IsContract(Reconcile(lex, buffer), at, N, K)
    BY <1>1, ListIsContract
  <1>3. Reconciled = Reconcile(lex, buffer)
    BY DEF ParsedInv, Kept, Sound, Reconciled
  <1>4. \A n \in 1..N : OnText(buffer, at[n])
    BY <1>1, EventsArePlaced
  <1>5. PICK list : list = Reconciled
    OBVIOUS
  <1>6. ToSet(list) = {at[n] : n \in {n \in 1..N : K[n]}} /\ list \in Seq({at[n] : n \in 1..N})
    BY <1>2, <1>3, <1>5 DEF IsContract
  <1>7. list \in Seq(ToSet(list))
    BY <1>6 DEF ToSet
  <1> QED BY <1>4, <1>5, <1>6, <1>7

(* What there is of a token of the list, told in characters.                *)
LEMMA TokenIsThere ==
    ASSUME NEW text \in Seq(Char), NEW t, NEW p, NEW q, IsFromTo(text, t, p, q)
    PROVE  /\ p \in 0..Len(text) /\ q \in p..Len(text) /\ q \in 0..Len(text)
           /\ CharsTo(text, t.si) = p /\ p + Len(t.src) = q /\ t.si + t.len = Bytes(text)[q]
           /\ Holds(text, t.si, t.src) /\ t.ri = Row(text, p) /\ t.ci = Column(text, p)
  <1>1. /\ p \in 0..Len(text) /\ q \in p..Len(text) /\ q \in 0..Len(text)
        /\ p \in Nat /\ q \in Nat /\ Len(text) \in Nat
    BY DEF IsFromTo
  <1>2. CharsTo(text, t.si) = p
    BY <1>1, CharsAtBytes DEF IsFromTo
  <1>3. p + Len(t.src) = q
    BY <1>1 DEF IsFromTo
  <1>4. t.si + t.len = Bytes(text)[q]
    <2>1. PICK x, y : x = Bytes(text)[p] /\ y = Bytes(text)[q]
      OBVIOUS
    <2>2. x \in Nat /\ y \in Nat /\ x + (y - x) = y
      BY <1>1, <2>1, UnitsGrow DEF Bytes
    <2> QED BY <2>1, <2>2 DEF IsFromTo
  <1>5. Holds(text, t.si, t.src)
    <2>1. p + Len(t.src) <= Len(text) /\ SubSeq(text, p + 1, p + Len(t.src)) = t.src
      BY <1>1, <1>3 DEF IsFromTo
    <2>2. Holds(text, Bytes(text)[p], t.src)
      BY <1>1, <2>1, HoldsAtBytes
    <2> QED BY <2>2 DEF IsFromTo
  <1> QED BY <1>1, <1>2, <1>3, <1>4, <1>5 DEF IsFromTo

(* Wherever its matcher reports it, a token of the list is on its text, and *)
(* its row and column are those of the text.                                *)
THEOREM TokensAreOnTheirText == Spec => []TokensOnTheirText
  <1>1. ParsedInv => TokensOnTheirText
    <2> SUFFICES ASSUME ParsedInv, NEW t \in ToSet(Reconciled)
                 PROVE  /\ Holds(buffer, t.si, t.src)
                        /\ t.ri = Row(buffer, CharsTo(buffer, t.si))
                        /\ t.ci = Column(buffer, CharsTo(buffer, t.si))
      BY DEF TokensOnTheirText, ParsedInv, Kept, Sound
    <2>1. OnText(buffer, t)
      BY ListIsOnText
    <2>2. PICK p, q : IsFromTo(buffer, t, p, q)
      BY <2>1 DEF OnText
    <2>3. buffer \in Seq(Char)
      BY DEF ParsedInv, Kept, Sound
    <2> QED BY <2>2, <2>3, TokenIsThere
  <1> QED BY <1>1, ParsedIsKept, PTL

(* An offset is in a token if the character there is of it, and the range   *)
(* made for the token is its stretch.                                       *)
LEMMA RangeOfToken ==
    ASSUME NEW text, NEW d, Sound(d, text), NEW t, OnText(text, t), NEW n \in 0..Len(text)
    PROVE  LET from == CharsTo(text, t.si) IN
           /\ t.si <= Bytes(text)[n] /\ Bytes(text)[n] < t.si + t.len <=> from <= n /\ n < from + Len(t.src)
           /\ TokenRange(t, d) = [start |-> ClientPosition(d.encoding, text, from),
                                  end   |-> ClientPosition(d.encoding, text, from + Len(t.src))]
  <1>1. text \in Seq(Char) /\ d.text = text
    BY DEF Sound
  <1>2. PICK p, q : IsFromTo(text, t, p, q)
    BY DEF OnText
  <1>3. PICK B : B = Bytes(text)
    OBVIOUS
  <1>4. /\ p \in 0..Len(text) /\ q \in 0..Len(text) /\ CharsTo(text, t.si) = p /\ p + Len(t.src) = q
        /\ t.si = B[p] /\ t.si + t.len = B[q]
    <2>1. /\ p \in 0..Len(text) /\ q \in 0..Len(text) /\ CharsTo(text, t.si) = p
          /\ p + Len(t.src) = q /\ t.si + t.len = Bytes(text)[q]
      BY <1>1, <1>2, TokenIsThere
    <2>2. t.si = Bytes(text)[p]
      BY <1>2 DEF IsFromTo
    <2> QED BY <1>3, <2>1, <2>2
  <1>5. /\ B[p] <= B[n] <=> p <= n
        /\ B[n] < B[q] <=> n < q
    <2>1. /\ p <= n <=> B[p] <= B[n]
          /\ q <= n <=> B[q] <= B[n]
          /\ B[p] \in Nat /\ B[q] \in Nat /\ B[n] \in Nat
      <3>1. PICK N : N = Len(text) /\ N \in Nat /\ p \in 0..N /\ q \in 0..N /\ n \in 0..N
        BY <1>1, <1>4
      <3>2. \A a, b \in 0..N : B[a] \in Nat /\ (a <= b <=> B[a] <= B[b])
        <4> TAKE a, b \in 0..N
        <4> QED BY <1>1, <1>3, <3>1, UnitsGrow DEF Bytes
      <3> QED BY <3>1, <3>2
    <2>2. PICK x, y : x = B[q] /\ y = B[n]
      OBVIOUS
    <2>3. x \in Nat /\ y \in Nat /\ (q <= n <=> x <= y) /\ q \in Nat /\ n \in Nat
      BY <1>1, <1>4, <2>1, <2>2
    <2>4. y < x <=> n < q
      BY ONLY <2>3
    <2> QED BY <2>1, <2>2, <2>4
  <1>6. Least(B[q], ByteLen(text)) = B[q]
    <2>1. PICK N : N = Len(text) /\ N \in 0..Len(text) /\ q <= N
      BY <1>1, <1>4
    <2>2. ByteLen(text) = B[N]
      BY <1>3, <2>1 DEF ByteLen, Measure, Bytes
    <2>3. B[q] <= B[N] /\ B[q] \in Nat /\ B[N] \in Nat
      <3>1. N \in Nat /\ q \in 0..N /\ N \in 0..N /\ Len(text) = N
        BY <1>1, <1>4, <2>1
      <3>2. Bytes(text)[q] \in Nat /\ Bytes(text)[N] \in Nat
            /\ (q <= N <=> Bytes(text)[q] <= Bytes(text)[N])
        BY <3>1, UnitsGrow DEF Bytes
      <3> QED BY <1>3, <2>1, <3>2
    <2>4. PICK x, y : x = B[q] /\ y = B[N]
      OBVIOUS
    <2>5. Least(x, y) = x
      BY <2>3, <2>4 DEF Least
    <2> QED BY <2>2, <2>4, <2>5
  <1>7. PositionAt(d, B[p]) = ClientPosition(d.encoding, text, p)
        /\ PositionAt(d, B[q]) = ClientPosition(d.encoding, text, q)
    BY <1>3, <1>4, PositionOfPlace
  <1> QED BY <1>1, <1>3, <1>4, <1>5, <1>6, <1>7 DEF TokenRange

(* However the client names its cursor's place, the engine is given the     *)
(* text before it; what is found under the cursor is a token that is there, *)
(* with its range on the screen, and one is found if there is one.          *)
THEOREM CursorIsOnItsToken == Spec => []CursorIsUnderstood
  <1>1. ParsedInv => CursorIsUnderstood
    <2> SUFFICES ASSUME ParsedInv PROVE CursorIsUnderstood
      OBVIOUS
    <2>1. PICK list, indexed : list = Reconciled /\ indexed = Indexed(doc)
      OBVIOUS
    <2>2. Sound(indexed, buffer) /\ indexed.encoding = doc.encoding /\ indexed.text = buffer
      <3>1. Starts(doc) = LineStarts(buffer)
        BY StartsAreTheTexts DEF ParsedInv, Kept
      <3> QED BY <2>1, <3>1 DEF ParsedInv, Kept, Sound, Indexed
    <2>3. buffer \in Seq(Char)
      BY DEF ParsedInv, Kept, Sound
    <2>4. PlacesAreUnderstood(indexed)
      BY <2>2, OffsetOfPlace DEF PlacesAreUnderstood, Prefix
    <2>5. list \in Seq(ToSet(list)) /\ \A t \in ToSet(list) : OnText(buffer, t)
      BY <2>1, ListIsOnText
    <2>6. ASSUME NEW n \in Stops(buffer), NEW under,
                 under = TokenUnder(list, indexed, ClientPosition(doc.encoding, buffer, n))
          PROVE  /\ \A t \in under : IsUnder(n, t) /\ OnItsText(t, TokenRange(t, indexed))
                 /\ under = {} => \A t \in ToSet(list) : ~IsUnder(n, t)
      <3>1. n \in 0..Len(buffer)
        BY DEF Stops
      <3>2. PICK offset : offset = Bytes(buffer)[n]
        OBVIOUS
      <3>3. OffsetAt(indexed, ClientPosition(doc.encoding, buffer, n)) = offset
        BY <2>2, <3>2, OffsetOfPlace DEF Named
      <3> DEFINE Covers(t) == t.si <= offset /\ offset < t.si + t.len
                 I == {k \in 1..Len(list) : Covers(list[k])}
                 first == IF I # {} THEN Min(I) ELSE 0
      <3>4. under = {list[k] : k \in {first} \ {0}}
        BY <2>6, <3>3 DEF TokenUnder, SelectInSeq
      <3>5. ASSUME NEW t \in ToSet(list)
            PROVE  (Covers(t) <=> IsUnder(n, t)) /\ OnItsText(t, TokenRange(t, indexed))
        BY <2>2, <2>5, <3>1, <3>2, RangeOfToken DEF IsUnder, OnItsText, OnScreen
      <3>6. \A k \in 1..Len(list) : list[k] \in ToSet(list)
        BY <2>5
      <3>7. CASE I = {}
        <4>1. under = {}
          BY <3>4, <3>7
        <4>2. \A t \in ToSet(list) : ~Covers(t)
          BY <2>5, <3>7 DEF ToSet
        <4> QED BY <3>5, <4>1, <4>2
      <3>8. CASE I # {}
        <4>1. PICK k \in I : \A m \in I : k <= m
          <5>1. I \in SUBSET Nat
            OBVIOUS
          <5> HIDE DEF I
          <5> QED BY <3>8, <5>1, LeastOf
        <4>2. first \in I
          <5>1. \E x \in I : \A y \in I : x =< y
            BY <4>1
          <5> HIDE DEF I
          <5> QED BY <3>8, <5>1 DEF Min
        <4>3. first # 0 /\ first \in 1..Len(list) /\ Covers(list[first])
          <5> HIDE DEF first
          <5> QED BY <4>2
        <4>4. under = {list[first]}
          <5> HIDE DEF first
          <5> QED BY <3>4, <4>3
        <4> HIDE DEF first, Covers
        <4> QED BY <3>5, <3>6, <4>3, <4>4
      <3> QED BY <3>7, <3>8
    <2> QED BY <2>1, <2>4, <2>6 DEF CursorIsUnderstood
  <1> QED BY <1>1, ParsedIsKept, PTL
-----------------------------------------------------------------------------
(* The columns of many tokens, visited in any order.                       *)
(* The cursors at the places of a text, each with the length before it.     *)
Cursors(encoding, text) ==
    {[chars |-> n, units |-> UnitsTo(encoding, text)[n]] : n \in 0..Len(text)}

Walks(encoding, text) == [at : Cursors(encoding, text), from : Cursors(encoding, text)]

LEMMA AdvancedCounts ==
    ASSUME NEW encoding, NEW text \in Seq(Char), NEW c \in Cursors(encoding, text),
           NEW n \in 0..Len(text), c.chars <= n
    PROVE  /\ Advanced(encoding, text, c, n) = [chars |-> n, units |-> UnitsTo(encoding, text)[n]]
           /\ Advanced(encoding, text, c, n) \in Cursors(encoding, text)
           /\ c.chars \in 0..Len(text) /\ c.units = UnitsTo(encoding, text)[c.chars]
  <1>1. PICK a \in 0..Len(text) : c = [chars |-> a, units |-> UnitsTo(encoding, text)[a]]
    BY DEF Cursors
  <1>2. PICK x, y : x = UnitsTo(encoding, text)[a] /\ y = UnitsTo(encoding, text)[n]
    OBVIOUS
  <1>3. n \in a..Len(text)
    BY <1>1
  <1>4. Measure(encoding, SubSeq(text, a + 1, n)) = y - x
    BY <1>2, <1>3, UnitsOfPart
  <1>5. x \in Nat /\ y \in Nat
    BY <1>2, UnitsGrow
  <1>6. x + (y - x) = y
    BY <1>5
  <1>7. Advanced(encoding, text, c, n) = [chars |-> n, units |-> y]
    BY <1>1, <1>2, <1>4, <1>6 DEF Advanced
  <1> QED BY <1>1, <1>2, <1>7 DEF Cursors

CountedAs(encoding, text, token) ==
    [column |-> ColumnBefore(text, encoding, token.si, token.ci - 1),
     chars  |-> Least(token.ci - 1, CharsTo(text, token.si))]

LEMMA ColumnIsCounted ==
    ASSUME NEW encoding, NEW text \in Seq(Char), NEW walk \in Walks(encoding, text),
           NEW si \in Nat, NEW ci \in Nat \ {0}
    PROVE  LET c == ColumnAt(encoding, text, walk, si, ci)
           IN  /\ c.walk \in Walks(encoding, text)
               /\ c.column = ColumnBefore(text, encoding, si, ci - 1) /\ c.column \in Nat
               /\ c.chars = Least(ci - 1, CharsTo(text, si)) /\ c.chars \in Nat
  <1>1. PICK n, k, N : n = CharsTo(text, si) /\ k = Least(ci - 1, n) /\ N = Len(text)
    OBVIOUS
  <1>2. N \in Nat /\ n \in 0..N
    <2>1. {m \in 1..N : UnitsTo("utf-8", text)[m] <= si} \subseteq 1..N /\ N \in Nat
      BY <1>1
    <2>2. IsFiniteSet(1..N) /\ Cardinality(1..N) = N
      BY <2>1, FS_Interval
    <2>3. Cardinality({m \in 1..N : UnitsTo("utf-8", text)[m] <= si}) \in 0..N
      BY <2>1, <2>2, FS_Subset, FS_CardinalityType
    <2> QED BY <1>1, <2>1, <2>3 DEF CharsTo
  <1>3. k \in 0..n /\ n - k \in 0..N /\ n - k <= n /\ n - (n - k) = k
    <2>1. PICK m \in Nat : m = ci - 1
      OBVIOUS
    <2>2. k = IF m < n THEN m ELSE n
      BY <1>1, <2>1 DEF Least
    <2>3. n \in Nat /\ n <= N
      BY <1>2
    <2> QED BY ONLY <1>2, <2>1, <2>2, <2>3
  <1>4. PICK U : U = UnitsTo(encoding, text)
    OBVIOUS
  <1>5. U[n] \in Nat /\ U[n - k] \in Nat /\ U[n - k] <= U[n]
    <2>1. \A a, b \in 0..N : U[a] \in Nat /\ (a <= b <=> U[a] <= U[b])
      <3> TAKE a, b \in 0..N
      <3> QED BY <1>1, <1>2, <1>4, UnitsGrow
    <2> QED BY <1>2, <1>3, <2>1
  <1>6. ColumnBefore(text, encoding, si, ci - 1) = U[n] - U[n - k]
    <2>1. ColumnBefore(text, encoding, si, ci - 1) = Measure(encoding, SubSeq(text, n - k + 1, n))
      BY <1>1 DEF ColumnBefore
    <2>2. n - k \in 0..Len(text) /\ n \in (n - k)..Len(text)
      BY <1>1, <1>2, <1>3
    <2>3. Measure(encoding, SubSeq(text, (n - k) + 1, n)) = U[n] - U[n - k]
      BY <1>4, <2>2, UnitsOfPart
    <2> QED BY <2>1, <2>3
  <1>7. U[n] - U[n - k] \in Nat
    <2>1. PICK x, y : x = U[n] /\ y = U[n - k]
      OBVIOUS
    <2>2. x - y \in Nat
      BY <1>5, <2>1
    <2> QED BY <2>1, <2>2
  <1>8. walk.at \in Cursors(encoding, text) /\ walk.from \in Cursors(encoding, text)
        /\ walk = [at |-> walk.at, from |-> walk.from]
    BY DEF Walks
  <1>9. walk.at.chars \in Nat /\ walk.from.chars \in Nat
    BY <1>8 DEF Cursors
  <1>10. PICK at, from : at = Advanced(encoding, text, walk.at, n)
                         /\ from = Advanced(encoding, text, walk.from, n - k)
    OBVIOUS
  <1>11. PICK c : c = ColumnAt(encoding, text, walk, si, ci)
    OBVIOUS
  <1>12. c = IF n < walk.at.chars
             THEN [walk |-> walk, chars |-> k, column |-> ColumnBefore(text, encoding, si, ci - 1)]
             ELSE IF n - k < walk.from.chars
             THEN [walk |-> [walk EXCEPT !.at = at], chars |-> k,
                   column |-> ColumnBefore(text, encoding, si, ci - 1)]
             ELSE [walk |-> [at |-> at, from |-> from], chars |-> k, column |-> at.units - from.units]
    BY <1>1, <1>10, <1>11 DEF ColumnAt
  <1>13. CASE n < walk.at.chars
    BY <1>1, <1>3, <1>6, <1>7, <1>11, <1>12, <1>13
  <1>14. CASE ~(n < walk.at.chars) /\ n - k < walk.from.chars
    <2>1. walk.at.chars <= n
      BY <1>2, <1>9, <1>14
    <2>2. at \in Cursors(encoding, text)
      BY <1>1, <1>2, <1>8, <1>10, <2>1, AdvancedCounts
    <2>3. [walk EXCEPT !.at = at] \in Walks(encoding, text)
      BY <2>2 DEF Walks
    <2> QED BY <1>1, <1>3, <1>6, <1>7, <1>11, <1>12, <1>14, <2>3
  <1>15. CASE ~(n < walk.at.chars) /\ ~(n - k < walk.from.chars)
    <2>1. walk.at.chars <= n /\ walk.from.chars <= n - k
      BY <1>2, <1>3, <1>9, <1>15
    <2>2. at \in Cursors(encoding, text) /\ at.units = U[n]
      BY <1>1, <1>2, <1>4, <1>8, <1>10, <2>1, AdvancedCounts
    <2>3. from \in Cursors(encoding, text) /\ from.units = U[n - k]
      BY <1>1, <1>3, <1>4, <1>8, <1>10, <2>1, AdvancedCounts
    <2>4. [at |-> at, from |-> from] \in Walks(encoding, text)
      BY <2>2, <2>3 DEF Walks
    <2> QED BY <1>1, <1>3, <1>6, <1>7, <1>11, <1>12, <1>15, <2>2, <2>3, <2>4
  <1> QED BY <1>13, <1>14, <1>15
(* What the columns of tokens are, in whatever order they are visited.      *)
Counted(encoding, text, tokens, N) == [k \in 1..N |-> CountedAs(encoding, text, tokens[k])]

LEMMA ColumnsAreCounted ==
    ASSUME NEW encoding, NEW text \in Seq(Char), NEW tokens, NEW N \in Nat, Len(tokens) = N,
           \A k \in 1..N : tokens[k].si \in Nat /\ tokens[k].ci \in Nat \ {0}
    PROVE  ColumnsOf(encoding, text, tokens) = Counted(encoding, text, tokens, N)
  <1> DEFINE C == [column : Nat, chars : Nat]
             V == [walk : Walks(encoding, text), columns : Seq(C)]
             At(v, n) == ColumnAt(encoding, text, v.walk, tokens[n].si, tokens[n].ci)
             Visited(v, n) == [walk    |-> At(v, n).walk,
                               columns |-> Append(v.columns, [column |-> At(v, n).column,
                                                              chars  |-> At(v, n).chars])]
             b == [walk |-> NoWalk, columns |-> <<>>]
             F(f, n) == IF n = 0 THEN b ELSE Visited(f[n - 1], n)
             Is(f) == f = [n \in 0..N |-> F(f, n)]
  <1>1. b \in V
    <2>1. 0 \in 0..Len(text) /\ UnitsTo(encoding, text)[0] = 0
      BY UnitsAdd
    <2>2. AtStart \in Cursors(encoding, text)
      BY <2>1 DEF AtStart, Cursors
    <2>3. <<>> \in Seq(C)
      OBVIOUS
    <2> QED BY <2>2, <2>3 DEF Walks, NoWalk
  <1>2. ASSUME NEW v \in V, NEW n \in 1..N
        PROVE  /\ Visited(v, n) \in V
               /\ Visited(v, n).columns = Append(v.columns, CountedAs(encoding, text, tokens[n]))
    <2>1. v.walk \in Walks(encoding, text) /\ v.columns \in Seq(C)
      OBVIOUS
    <2>2. PICK c : c = At(v, n)
      OBVIOUS
    <2>3. /\ c.walk \in Walks(encoding, text) /\ c.column \in Nat /\ c.chars \in Nat
          /\ [column |-> c.column, chars |-> c.chars] = CountedAs(encoding, text, tokens[n])
      <3>1. PICK si, ci : si = tokens[n].si /\ ci = tokens[n].ci
        OBVIOUS
      <3>2. si \in Nat /\ ci \in Nat \ {0} /\ c = ColumnAt(encoding, text, v.walk, si, ci)
        BY <2>2, <3>1
      <3>3. /\ c.walk \in Walks(encoding, text)
            /\ c.column = ColumnBefore(text, encoding, si, ci - 1) /\ c.column \in Nat
            /\ c.chars = Least(ci - 1, CharsTo(text, si)) /\ c.chars \in Nat
        BY <2>1, <3>2, ColumnIsCounted
      <3> QED BY <3>1, <3>3 DEF CountedAs
    <2>4. [column |-> c.column, chars |-> c.chars] \in C
      BY <2>3
    <2>5. Append(v.columns, [column |-> c.column, chars |-> c.chars]) \in Seq(C)
      BY <2>1, <2>4
    <2> QED BY <2>2, <2>3, <2>5
  <1>3. \E h : Is(h)
    <2> DEFINE g == [n \in 1..N |-> [v \in V |-> Visited(v, n)]]
    <2>1. g \in [1..N -> [V -> V]]
      <3> HIDE DEF V, Visited
      <3> QED BY <1>2
    <2>2. PICK f : Follows(f, V, N, b, g)
      <3> HIDE DEF V, g, b
      <3> QED BY <1>1, <2>1, Recursion
    <2>3. /\ f \in [0..N -> V] /\ f[0] = b
          /\ \A n \in 1..N : f[n] = Visited(f[n - 1], n)
      <3>1. \A n \in 1..N : n - 1 \in 0..N
        OBVIOUS
      <3> HIDE DEF V, Visited, b
      <3> QED BY <2>2, <3>1 DEF Follows
    <2>4. \A n \in 0..N : f[n] = F(f, n)
      <3> TAKE n \in 0..N
      <3> HIDE DEF Visited, b
      <3>1. n # 0 => n \in 1..N
        OBVIOUS
      <3> QED BY <2>3, <3>1
    <2>5. Is(f)
      <3> HIDE DEF F, V
      <3> QED BY <2>3, <2>4
    <2> HIDE DEF Is
    <2> QED BY <2>5
  <1> DEFINE after == CHOOSE h : Is(h)
  <1>4. Is(after)
    <2> HIDE DEF Is
    <2> QED BY <1>3
  <1>5. ColumnsOf(encoding, text, tokens) = after[N].columns
    BY DEF ColumnsOf
  <1>6. \A n \in 0..N : after[n] = F(after, n)
    <2> HIDE DEF F, after
    <2> QED BY <1>4
  <1> DEFINE Done(n) == after[n] \in V /\ after[n].columns = Counted(encoding, text, tokens, n)
             T == {n \in Nat : n <= N => Done(n)}
  <1> HIDE DEF after, Is, V, Visited
  <1>7. 0 \in T
    <2>1. after[0] = b
      BY <1>6
    <2>2. Counted(encoding, text, tokens, 0) = <<>>
      BY DEF Counted
    <2> QED BY <1>1, <2>1, <2>2
  <1>8. ASSUME NEW n \in T PROVE n + 1 \in T
    <2> SUFFICES ASSUME n + 1 <= N PROVE Done(n + 1)
      OBVIOUS
    <2>1. n + 1 \in 1..N /\ n + 1 \in 0..N /\ n + 1 # 0 /\ (n + 1) - 1 = n /\ n \in Nat /\ n <= N
      OBVIOUS
    <2>2. after[n] \in V /\ after[n].columns = Counted(encoding, text, tokens, n)
      BY <2>1
    <2>3. after[n + 1] = Visited(after[n], n + 1)
      BY <1>6, <2>1
    <2>4. PICK was, m : was = after[n] /\ m = n + 1
      OBVIOUS
    <2>5. Visited(was, m) \in V
          /\ Visited(was, m).columns = Append(was.columns, CountedAs(encoding, text, tokens[m]))
      BY <1>2, <2>1, <2>2, <2>4
    <2>6. Append(Counted(encoding, text, tokens, n), CountedAs(encoding, text, tokens[n + 1])) =
              Counted(encoding, text, tokens, n + 1)
      <3> DEFINE X(k) == CountedAs(encoding, text, tokens[k])
      <3> HIDE DEF X
      <3>1. Append([k \in 1..n |-> X(k)], X(n + 1)) = [k \in 1..(n + 1) |-> X(k)]
        BY <2>1
      <3> QED BY <3>1 DEF X, Counted
    <2> QED BY <2>2, <2>3, <2>4, <2>5, <2>6
  <1>9. T = Nat
    <2> HIDE DEF T
    <2>1. T \in SUBSET Nat
      BY DEF T
    <2> QED BY <1>7, <1>8, <2>1, Induction
  <1>10. Done(N)
    <2>1. N \in T
      <3> HIDE DEF T
      <3> QED BY <1>9
    <2> HIDE DEF Done
    <2> QED BY <2>1
  <1> QED BY <1>5, <1>10
-----------------------------------------------------------------------------
(* The events of rules.                                                     *)
(* The tokens rules open and close at: any stretch, or none at the end.     *)
Runs(text) ==
    {run \in (0..Len(text)) \X (0..Len(text)) :
        run[1] < run[2] \/ (run[1] = run[2] /\ run[1] = Len(text))}

RunToken(text, run) ==
    TokenAt(text, IF run[1] = run[2] THEN "#ZZ" ELSE "#OB", run[1], run[1], run[2])

RuleTokens(text) == {RunToken(text, run) : run \in Runs(text)}

RuledInv ==
    /\ Kept
    /\ rules \in Seq(ToSet(rules))
    /\ \A e \in ToSet(rules) : e.token \in {NoToken} \cup RuleTokens(buffer)
    /\ cursor.open \in Nat /\ cursor.close \in Nat

LEMMA AnnounceKeeps ==
    ASSUME RuledInv, NEW e, Announce(e), NEW o, NEW c, NEW q,
           cursor' = [open |-> o, close |-> c, past |-> q] \/ UNCHANGED cursor, o \in Nat, c \in Nat, e.token \in {NoToken} \cup RuleTokens(buffer), Kept'
    PROVE  RuledInv'
  <1>1. rules' = Append(rules, e) /\ buffer' = buffer
    BY DEF Announce
  <1>2. PICK S, r : S = ToSet(rules) /\ r = rules'
    OBVIOUS
  <1>3. rules \in Seq(S) /\ r = Append(rules, e)
    BY <1>1, <1>2 DEF RuledInv
  <1>4. r \in Seq(S \cup {e}) /\ Len(r) = Len(rules) + 1 /\ Len(rules) \in Nat
        /\ \A k \in 1..Len(r) : r[k] = IF k <= Len(rules) THEN rules[k] ELSE e
    BY <1>3
  <1>5. ToSet(r) \subseteq S \cup {e}
    BY <1>4 DEF ToSet
  <1>6. r \in Seq(ToSet(r))
    BY <1>4 DEF ToSet
  <1>7. \A x \in ToSet(r) : x.token \in {NoToken} \cup RuleTokens(buffer)
    BY <1>2, <1>5 DEF RuledInv
  <1>8. rules' \in Seq(ToSet(rules')) /\ \A x \in ToSet(rules') : x.token \in {NoToken} \cup RuleTokens(buffer)
    BY <1>2, <1>6, <1>7
  <1>9. (cursor.open \in Nat /\ cursor.close \in Nat)'
    BY DEF RuledInv
  <1>10. RuleTokens(buffer)' = RuleTokens(buffer)
    BY <1>1
  <1> QED BY <1>1, <1>8, <1>9, <1>10 DEF RuledInv

LEMMA RunsAreTheTexts ==
    ASSUME Kept, NEW least \in Nat, NEW run \in TokenFrom(least)
    PROVE  /\ run \in Runs(buffer) /\ run[1] \in Nat /\ least <= run[1]
           /\ Token(run) = RunToken(buffer, run)
  <1>1. doc.text = buffer /\ buffer \in Seq(Char)
    BY DEF Kept, Sound
  <1>2. run \in (0..Len(buffer)) \X (0..Len(buffer))
    BY <1>1 DEF TokenFrom, Stops
  <1>3. run[1] \in 0..Len(buffer) /\ run[1] \in Nat
    BY <1>2
  <1>4. (run[1] < run[2] \/ (run[1] = run[2] /\ run[1] = Len(buffer))) /\ run[1] >= least
    BY <1>1 DEF TokenFrom
  <1>5. least <= run[1]
    BY <1>3, <1>4
  <1> QED BY <1>1, <1>2, <1>3, <1>4, <1>5 DEF Runs, RunToken, Token

LEMMA RulesAreKept == Spec => []RuledInv
  <1>1. Init => RuledInv
    <2> SUFFICES ASSUME Init PROVE RuledInv
      OBVIOUS
    <2>1. Kept
      <3>1. buffer \in Seq(Char) /\ CrBeforeLf(buffer)
        BY AnalysisAssumption DEF Init
      <3> QED BY <3>1 DEF Init, Kept, Sound
    <2>2. rules = <<>> /\ cursor.open = 0 /\ cursor.close = 0
      BY DEF Init, Fresh
    <2>3. ToSet(rules) = {} /\ rules \in Seq({})
      BY <2>2 DEF ToSet
    <2> QED BY <2>1, <2>2, <2>3 DEF RuledInv
  <1>2. RuledInv /\ [Next]_vars => RuledInv'
    <2> SUFFICES ASSUME RuledInv, [Next]_vars PROVE RuledInv'
      OBVIOUS
    <2>1. Kept'
      BY StepKeeps DEF RuledInv
    <2>2. CASE rules' = <<>> /\ cursor'.open \in Nat /\ cursor'.close \in Nat
      <3>1. ToSet(<<>>) = {} /\ <<>> \in Seq({})
        BY DEF ToSet
      <3> QED BY <2>1, <2>2, <3>1 DEF RuledInv
    <2>3. CASE UNCHANGED <<buffer, rules, cursor>>
      BY <2>1, <2>3 DEF RuledInv
    <2>4. ASSUME NEW text \in Inserted, Edit(text) PROVE rules' = <<>> /\ UNCHANGED cursor
      BY <2>4 DEF Edit, Still
    <2>5. ASSUME NEW text \in Opened, Replace(text) PROVE rules' = <<>> /\ UNCHANGED cursor
      BY <2>5 DEF Replace, Still
    <2>6. CASE Query
      BY <2>3, <2>6 DEF Query
    <2>7. ASSUME NEW name \in DOMAIN Convention, Lex(name) PROVE UNCHANGED <<buffer, rules, cursor>>
      BY <2>7 DEF Lex
    <2>8. ASSUME NEW least \in Nat, NEW run \in TokenFrom(least)
          PROVE  run[1] \in Nat /\ run[1] + 1 \in Nat /\ Token(run) \in RuleTokens(buffer)
      <3>1. run \in Runs(buffer) /\ run[1] \in Nat /\ Token(run) = RunToken(buffer, run)
        BY RunsAreTheTexts DEF RuledInv
      <3> QED BY <3>1 DEF RuleTokens
    <2>9. ASSUME NEW name, OpenRule(name) PROVE RuledInv'
      <3> DEFINE Event(token) == [i |-> Cardinality(Opens) + 1, name |-> name, state |-> "open",
                                  token |-> token, forced |-> FALSE]
      <3>1. CASE Announce(Event(NoToken)) /\ UNCHANGED cursor
        <4>1. PICK e : e = Event(NoToken)
          OBVIOUS
        <4>2. Announce(e) /\ e.token = NoToken /\ 0 \in Nat
          BY <3>1, <4>1
        <4> QED BY <2>1, <3>1, <4>2, AnnounceKeeps
      <3>2. ASSUME NEW run \in TokenFrom(cursor.open), Announce(Event(Token(run))),
                   cursor' = [open |-> run[1], close |-> run[1], past |-> run[2]]
            PROVE  RuledInv'
        <4>1. PICK e : e = Event(Token(run))
          OBVIOUS
        <4>2. run[1] \in Nat /\ Token(run) \in RuleTokens(buffer)
          BY <2>8 DEF RuledInv
        <4>3. Announce(e) /\ e.token \in RuleTokens(buffer)
          BY <3>2, <4>1, <4>2
        <4> QED BY <2>1, <3>2, <4>2, <4>3, AnnounceKeeps
      <3> QED BY <2>9, <3>1, <3>2 DEF OpenRule
    <2>10. CASE CloseRule
      <3>1. PICK i, name : i = Max(Standing) /\ name = rules[CHOOSE n \in Opens : rules[n].i = i].name
        OBVIOUS
      <3> DEFINE Event(token, forced) ==
                     [i |-> i, name |-> name, state |-> "close", token |-> token, forced |-> forced]
      <3>2. \/ \E forced \in BOOLEAN : Announce(Event(NoToken, forced)) /\ UNCHANGED cursor
            \/ \E run \in TokenFrom(cursor.close) :
                  /\ Announce(Event(Token(run), FALSE))
                  /\ cursor' = [open |-> run[1] + 1, close |-> run[1], past |-> run[2]]
        BY <2>10, <3>1 DEF CloseRule
      <3>3. ASSUME NEW forced \in BOOLEAN, Announce(Event(NoToken, forced)), UNCHANGED cursor
            PROVE  RuledInv'
        <4>1. PICK e : e = Event(NoToken, forced)
          OBVIOUS
        <4>2. Announce(e) /\ e.token = NoToken /\ 0 \in Nat
          BY <3>3, <4>1
        <4> QED BY <2>1, <3>3, <4>2, AnnounceKeeps
      <3>4. ASSUME NEW run \in TokenFrom(cursor.close), Announce(Event(Token(run), FALSE)),
                   cursor' = [open |-> run[1] + 1, close |-> run[1], past |-> run[2]]
            PROVE  RuledInv'
        <4>1. PICK e : e = Event(Token(run), FALSE)
          OBVIOUS
        <4>2. run[1] \in Nat /\ run[1] + 1 \in Nat /\ Token(run) \in RuleTokens(buffer)
          BY <2>8 DEF RuledInv
        <4>3. Announce(e) /\ e.token \in RuleTokens(buffer)
          BY <3>4, <4>1, <4>2
        <4> QED BY <2>1, <3>4, <4>2, <4>3, AnnounceKeeps
      <3> QED BY <3>2, <3>3, <3>4
    <2>11. CASE EndParse
      BY <2>2, <2>11 DEF EndParse, Fresh
    <2>12. CASE UNCHANGED vars
      BY <2>3, <2>12 DEF vars
    <2>13. (rules' = <<>> /\ UNCHANGED cursor) => RuledInv'
      BY <2>2 DEF RuledInv
    <2> QED BY <2>3, <2>4, <2>5, <2>6, <2>7, <2>9, <2>10, <2>11, <2>12, <2>13 DEF Next
  <1> QED BY <1>1, <1>2, PTL DEF Spec

(* A finite set's members as a sequence.                                    *)
LEMMA SequenceOf ==
    ASSUME NEW S, IsFiniteSet(S), NEW X, S \subseteq X
    PROVE  SetToSeq(S) \in Seq(X)
  <1>1. PICK n : n = Cardinality(S) /\ n \in Nat
    BY FS_CardinalityType
  <1>2. \E f \in [1..n -> S] : IsInjective(f)
    <2>1. Bijection(1..n, S) # {}
      BY <1>1, FS_CardinalityType DEF ExistsBijection
    <2> QED BY <2>1 DEF Bijection, Injection
  <1>3. SetToSeq(S) \in [1..n -> S]
    BY <1>1, <1>2 DEF SetToSeq
  <1> QED BY <1>1, <1>3

(* What the outline has of a parse so far: what is open, and what closed.   *)
Symbolized(ids, tokens) == [i : ids, open : tokens, end : tokens]

OutlineStates(ids, tokens) ==
    {s \in [open : SUBSET [i : ids, token : tokens], closed : Seq(Symbolized(ids, tokens))] :
        IsFiniteSet(s.open)}

LEMMA ListedStays ==
    ASSUME NEW ids, NEW tokens, NEW done \in OutlineStates(ids, tokens), NEW e,
           e.i \in ids, e.token \in {NoToken} \cup tokens
    PROVE  Listed(done, e) \in OutlineStates(ids, tokens)
  <1> DEFINE Symbol(o) == [i |-> o.i, open |-> o.token, end |-> IF e.token = NoToken THEN o.token ELSE e.token]
  <1>1. /\ done = [open |-> done.open, closed |-> done.closed]
        /\ done.open \in SUBSET [i : ids, token : tokens] /\ IsFiniteSet(done.open)
        /\ done.closed \in Seq(Symbolized(ids, tokens))
    BY DEF OutlineStates
  <1>2. PICK begun, rest : begun = {o \in done.open : o.i = e.i} /\ rest = done.open \ begun
    OBVIOUS
  <1>3. /\ begun \in SUBSET [i : ids, token : tokens] /\ IsFiniteSet(begun)
        /\ rest \in SUBSET [i : ids, token : tokens] /\ IsFiniteSet(rest)
    <2>1. begun \subseteq done.open /\ rest \subseteq done.open
      BY <1>2
    <2>2. IsFiniteSet(begun) /\ IsFiniteSet(rest)
      BY <1>1, <2>1, FS_Subset
    <2> QED BY <1>1, <2>1, <2>2
  <1>4. PICK symbols : symbols = {Symbol(o) : o \in begun}
    OBVIOUS
  <1>5. symbols \subseteq Symbolized(ids, tokens)
    BY <1>3, <1>4 DEF Symbolized
  <1>6. IsFiniteSet(symbols)
    <2> DEFINE f == [o \in begun |-> Symbol(o)]
    <2>1. f \in Surjection(begun, symbols)
      BY <1>4 DEF Surjection
    <2> QED BY <1>3, <2>1, FS_Surjection
  <1>7. SetToSeq(symbols) \in Seq(Symbolized(ids, tokens))
    BY <1>5, <1>6, SequenceOf
  <1>8. PICK ended : ended = SetToSeq(symbols)
    OBVIOUS
  <1>9. done.closed \o ended \in Seq(Symbolized(ids, tokens))
    BY <1>1, <1>7, <1>8
  <1>10. Listed(done, e) =
            IF e.name \notin Outlined \/ (e.state = "open" /\ e.token = NoToken) THEN done
            ELSE IF e.state = "open" THEN [done EXCEPT !.open = rest \cup {[i |-> e.i, token |-> e.token]}]
            ELSE IF e.token = NoToken /\ ~e.forced THEN [done EXCEPT !.open = rest]
            ELSE [open |-> rest, closed |-> done.closed \o ended]
    BY <1>2, <1>4, <1>8 DEF Listed
  <1>11. CASE e.token # NoToken
    <2>1. [i |-> e.i, token |-> e.token] \in [i : ids, token : tokens]
      BY <1>11
    <2>2. PICK wider : wider = rest \cup {[i |-> e.i, token |-> e.token]}
      OBVIOUS
    <2>3. IsFiniteSet(wider) /\ wider \in SUBSET [i : ids, token : tokens]
      BY <1>3, <2>1, <2>2, FS_AddElement
    <2>4. [done EXCEPT !.open = wider] \in OutlineStates(ids, tokens)
      BY <1>1, <2>3 DEF OutlineStates
    <2>5. [open |-> rest, closed |-> done.closed \o ended] \in OutlineStates(ids, tokens)
      BY <1>3, <1>9 DEF OutlineStates
    <2> QED BY <1>10, <1>11, <2>2, <2>4, <2>5
  <1>12. CASE e.token = NoToken
    <2>1. [done EXCEPT !.open = rest] \in OutlineStates(ids, tokens)
      BY <1>1, <1>3 DEF OutlineStates
    <2>2. [open |-> rest, closed |-> done.closed \o ended] \in OutlineStates(ids, tokens)
      BY <1>3, <1>9 DEF OutlineStates
    <2> QED BY <1>10, <1>12, <2>1, <2>2
  <1> QED BY <1>11, <1>12

(* The outline follows the events one by one.                               *)
LEMMA OutlineFollows ==
    ASSUME NEW events, events \in Seq(ToSet(events)), NEW tokens,
           \A e \in ToSet(events) : e.token \in {NoToken} \cup tokens
    PROVE  \E after : /\ after \in [0..Len(events) -> OutlineStates({e.i : e \in ToSet(events)}, tokens)]
                      /\ after[0] = [open |-> {}, closed |-> <<>>]
                      /\ \A n \in 1..Len(events) : after[n] = Listed(after[n - 1], events[n])
                      /\ Closed(events) = after[Len(events)].closed
  <1> DEFINE ids == {e.i : e \in ToSet(events)}
             V == OutlineStates(ids, tokens)
             b == [open |-> {}, closed |-> <<>>]
             N == Len(events)
             F(f, n) == IF n = 0 THEN b ELSE Listed(f[n - 1], events[n])
             Is(f) == f = [n \in 0..N |-> F(f, n)]
  <1>1. N \in Nat /\ \A n \in 1..N : events[n] \in ToSet(events)
    OBVIOUS
  <1>2. b \in V
    <2>1. IsFiniteSet({})
      BY FS_EmptySet
    <2>2. {} \in SUBSET [i : ids, token : tokens] /\ <<>> \in Seq(Symbolized(ids, tokens))
      OBVIOUS
    <2> HIDE DEF ids
    <2> QED BY <2>1, <2>2 DEF OutlineStates
  <1>3. ASSUME NEW v \in V, NEW n \in 1..N PROVE Listed(v, events[n]) \in V
    <2>1. PICK e : e = events[n]
      OBVIOUS
    <2>2. e \in ToSet(events) /\ e.i \in ids
      BY <1>1, <2>1
    <2>3. Listed(v, e) \in OutlineStates(ids, tokens)
      <3> HIDE DEF ids
      <3> QED BY <2>2, ListedStays
    <2> QED BY <2>1, <2>3
  <1> HIDE DEF N, V, ids
  <1>4. \E h : Is(h)
    <2> DEFINE g == [n \in 1..N |-> [v \in V |-> Listed(v, events[n])]]
    <2>1. g \in [1..N -> [V -> V]]
      BY <1>3
    <2>2. PICK f : Follows(f, V, N, b, g)
      <3> HIDE DEF g, b
      <3> QED BY <1>1, <1>2, <2>1, Recursion
    <2>3. /\ f \in [0..N -> V] /\ f[0] = b
          /\ \A n \in 1..N : f[n] = Listed(f[n - 1], events[n])
      <3>1. \A n \in 1..N : n - 1 \in 0..N
        BY <1>1
      <3> HIDE DEF b
      <3> QED BY <2>2, <3>1 DEF Follows
    <2>4. \A n \in 0..N : f[n] = F(f, n)
      <3> TAKE n \in 0..N
      <3> HIDE DEF b
      <3>1. n # 0 => n \in 1..N
        BY <1>1
      <3> QED BY <2>3, <3>1
    <2>5. Is(f)
      <3> HIDE DEF F
      <3> QED BY <2>3, <2>4
    <2> HIDE DEF Is
    <2> QED BY <2>5
  <1> DEFINE after == CHOOSE h : Is(h)
  <1>5. Is(after)
    <2> HIDE DEF Is
    <2> QED BY <1>4
  <1>6. Closed(events) = after[N].closed
    BY DEF Closed, N
  <1>7. \A n \in 0..N : after[n] = F(after, n)
    <2> HIDE DEF F, after
    <2> QED BY <1>5
  <1> DEFINE T == {n \in Nat : n <= N => after[n] \in V}
  <1> HIDE DEF after, Is
  <1>8. 0 \in T
    BY <1>1, <1>2, <1>7
  <1>9. ASSUME NEW n \in T PROVE n + 1 \in T
    <2> SUFFICES ASSUME n + 1 <= N PROVE after[n + 1] \in V
      OBVIOUS
    <2>1. n + 1 \in 1..N /\ n + 1 \in 0..N /\ n + 1 # 0 /\ (n + 1) - 1 = n /\ after[n] \in V
      BY <1>1
    <2>2. after[n + 1] = Listed(after[n], events[n + 1])
      BY <1>7, <2>1
    <2> QED BY <1>3, <2>1, <2>2
  <1>10. T = Nat
    <2> HIDE DEF T
    <2>1. T \in SUBSET Nat
      BY DEF T
    <2> QED BY <1>8, <1>9, <2>1, Induction
  <1>11. \A n \in 0..N : after[n] \in V
    <2> TAKE n \in 0..N
    <2>1. n \in T /\ n <= N
      <3> HIDE DEF T
      <3> QED BY <1>1, <1>10
    <2> QED BY <2>1
  <1>12. after = [n \in 0..N |-> after[n]]
    <2>1. after = [n \in 0..N |-> F(after, n)]
      BY <1>5 DEF Is
    <2> HIDE DEF F
    <2> QED BY <2>1
  <1>13. after[0] = b /\ \A n \in 1..N : after[n] = Listed(after[n - 1], events[n])
    <2>1. 0 \in 0..N /\ \A n \in 1..N : n \in 0..N /\ n # 0
      BY <1>1
    <2> QED BY <1>7, <2>1
  <1>14. after \in [0..N -> V]
    BY <1>11, <1>12
  <1> QED BY <1>6, <1>13, <1>14 DEF V, N, ids

(* The symbols of a parse are from one of its tokens to another.            *)
LEMMA SymbolsHaveTokens ==
    ASSUME NEW events, events \in Seq(ToSet(events)), NEW tokens,
           \A e \in ToSet(events) : e.token \in {NoToken} \cup tokens
    PROVE  Closed(events) \in Seq(Symbolized({e.i : e \in ToSet(events)}, tokens))
  <1>1. PICK N, V : N = Len(events) /\ V = OutlineStates({e.i : e \in ToSet(events)}, tokens)
    OBVIOUS
  <1>2. PICK after \in [0..N -> V] : Closed(events) = after[N].closed
    BY <1>1, OutlineFollows
  <1>3. N \in 0..N
    BY <1>1
  <1> QED BY <1>1, <1>2, <1>3 DEF OutlineStates

(* A token of a rule: where it begins, and what the client takes the end of *)
(* its length for.                                                          *)
IsFrom(text, t, n) ==
    /\ n \in 0..Len(text) /\ t.si = Bytes(text)[n] /\ t.si \in Nat /\ CharsTo(text, t.si) = n
    /\ t.ri = Row(text, n) /\ t.ci = Column(text, n) /\ t.ci \in Nat \ {0}

TakenFor(encoding, text, place, n) ==
    LET p == ClientPosition(encoding, text, n)
    IN  /\ place.line = p.line
        /\ \/ place.character = p.character
           \/ AtLineEnd(text, n) /\ place.character >= p.character

EndWithin(text, n, m) == Min({k \in n..m : k = m \/ AtLineEnd(text, k)})

Lengthened(encoding, text, t, n) ==
    [ClientPosition(encoding, text, n) EXCEPT !.character = @ + Max({1, Measure(encoding, t.src)})]

LEMMA RunIsFrom ==
    ASSUME NEW text \in Seq(Char), NEW run \in Runs(text), NEW t, t = RunToken(text, run)
    PROVE  /\ IsFrom(text, t, run[1]) /\ run[2] \in run[1]..Len(text)
           /\ t.src = SubSeq(text, run[1] + 1, run[2]) /\ run[1] + Len(t.src) = run[2]
  <1>1. PICK n, m, N : n = run[1] /\ m = run[2] /\ N = Len(text)
    OBVIOUS
  <1>2. N \in Nat /\ n \in 0..N /\ m \in 0..N /\ n \in Nat /\ m \in Nat /\ n <= m /\ m <= N
    <2>1. n \in 0..N /\ m \in 0..N /\ N \in Nat /\ (n < m \/ n = m)
      BY <1>1 DEF Runs
    <2> QED BY <2>1
  <1>3. /\ t.si = ByteLen(Take(text, n)) /\ t.ri = Row(text, n) /\ t.ci = Column(text, n)
        /\ t.src = SubSeq(text, n + 1, m)
    BY <1>1 DEF RunToken, TokenAt
  <1>4. t.si = Bytes(text)[n] /\ t.si \in Nat /\ CharsTo(text, t.si) = n
    <2>1. n \in 0..Len(text)
      BY <1>1, <1>2
    <2>2. ByteLen(Take(text, n)) = Bytes(text)[n] /\ CharsTo(text, Bytes(text)[n]) = n
      BY <2>1, BytesOfTake, CharsAtBytes
    <2>3. Bytes(text)[n] \in Nat
      BY <1>1, <1>2, UnitsGrow DEF Bytes
    <2> QED BY <1>3, <2>2, <2>3
  <1>5. t.ci \in Nat \ {0}
    <2>1. n \in 0..Len(text)
      BY <1>1, <1>2
    <2>2. PICK h : h = LineHead(text, n) /\ h \in 0..n
      BY <2>1, HeadIsLast DEF IsHead
    <2>3. n - h + 1 \in Nat \ {0}
      BY <1>2, <2>2
    <2> QED BY <1>3, <2>2, <2>3 DEF Column
  <1>6. n + Len(t.src) = m
    <2>1. Len(SubSeq(text, n + 1, m)) = m - (n + 1) + 1
      BY <1>1, <1>2
    <2> QED BY <1>2, <1>3, <2>1
  <1>7. m \in n..N /\ n \in 0..Len(text)
    BY <1>1, <1>2
  <1> QED BY <1>1, <1>3, <1>4, <1>5, <1>6, <1>7 DEF IsFrom

(* The place is on the line of the token's start, and all of it is before.  *)
LEMMA EndIsOnLine ==
    ASSUME NEW text \in Seq(Char), NEW n \in 0..Len(text), NEW m \in n..Len(text), NEW e, e = EndWithin(text, n, m)
    PROVE  /\ e \in n..m /\ (e = m \/ AtLineEnd(text, e))
           /\ \A i \in (n + 1)..e : text[i] # "lf"
  <1>1. PICK S : S = {k \in n..m : k = m \/ AtLineEnd(text, k)}
    OBVIOUS
  <1>2. S \in SUBSET Nat /\ m \in S /\ n \in Nat /\ m \in Nat /\ n <= m /\ m <= Len(text) /\ Len(text) \in Nat
    BY <1>1
  <1>3. PICK g \in S : \A k \in S : g <= k
    BY <1>2, LeastOf
  <1>4. Min(S) \in S /\ \A k \in S : Min(S) <= k
    BY <1>3 DEF Min
  <1>5. e = Min(S)
    BY <1>1 DEF EndWithin
  <1>6. e \in S /\ \A k \in S : e <= k
    BY <1>4, <1>5
  <1>7. e \in n..m /\ (e = m \/ AtLineEnd(text, e)) /\ e \in Nat
    BY <1>1, <1>2, <1>6
  <1>8. ASSUME NEW i \in (n + 1)..e, text[i] = "lf" PROVE FALSE
    <2>1. i - 1 \in n..m /\ i - 1 \in Nat /\ (i - 1) + 1 = i /\ i - 1 < e
      BY <1>2, <1>7
    <2>2. AtLineEnd(text, i - 1)
      BY <1>8, <2>1 DEF AtLineEnd, LineBreak
    <2>3. i - 1 \in S
      BY <1>1, <2>1, <2>2
    <2>4. e <= i - 1
      BY <1>6, <2>3
    <2> QED BY <1>7, <2>1, <2>4
  <1> QED BY <1>7, <1>8

LEMMA LinesOfLine ==
    ASSUME NEW text \in Seq(Char), NEW n \in 0..Len(text), NEW e \in n..Len(text),
           \A i \in (n + 1)..e : text[i] # "lf"
    PROVE  {k \in 1..e : text[k] = "lf"} = {k \in 1..n : text[k] = "lf"}
  <1>1. n \in Nat /\ e \in Nat /\ n <= e
    OBVIOUS
  <1>2. \A k \in 1..e : k \in 1..n \/ k \in (n + 1)..e
    BY <1>1
  <1>3. \A k \in 1..n : k \in 1..e
    BY <1>1
  <1> QED BY <1>2, <1>3

(* A token's length takes the client to its end, or, if the token goes on   *)
(* below, past the end of the line: which is that end to the client.        *)
LEMMA RunIsTakenToItsEnd ==
    ASSUME NEW text \in Seq(Char), NEW run \in Runs(text), NEW t, t = RunToken(text, run), NEW encoding
    PROVE  TakenFor(encoding, text, Lengthened(encoding, text, t, run[1]), EndWithin(text, run[1], run[2]))
  <1>1. PICK n, m, e, N : n = run[1] /\ m = run[2] /\ e = EndWithin(text, run[1], run[2]) /\ N = Len(text)
    OBVIOUS
  <1>2. /\ N \in Nat /\ n \in 0..N /\ m \in n..N /\ n \in Nat /\ m \in Nat
        /\ (n < m \/ (n = m /\ n = N)) /\ t.src = SubSeq(text, n + 1, m)
    <2>1. n \in 0..N /\ m \in n..N /\ t.src = SubSeq(text, n + 1, m)
      BY <1>1, RunIsFrom DEF IsFrom
    <2>2. n < m \/ (n = m /\ n = N)
      BY <1>1 DEF Runs
    <2> QED BY <1>1, <2>1, <2>2
  <1>3. n \in 0..Len(text) /\ m \in n..Len(text) /\ e = EndWithin(text, n, m)
    BY <1>1, <1>2
  <1>4. e \in n..m /\ (e = m \/ AtLineEnd(text, e)) /\ \A i \in (n + 1)..e : text[i] # "lf"
    BY <1>3, EndIsOnLine
  <1>5. e \in Nat /\ e \in n..Len(text) /\ e \in 0..N /\ n <= e /\ e <= m
    BY <1>1, <1>2, <1>4
  <1>6. PICK h : h = LineHead(text, n) /\ h \in 0..n
    BY <1>3, HeadIsLast DEF IsHead
  <1>7. LineHead(text, e) = h
    BY <1>3, <1>4, <1>5, <1>6, HeadOfPart
  <1>8. PICK l : l = Cardinality({k \in 1..n : text[k] = "lf"})
    OBVIOUS
  <1>9. Cardinality({k \in 1..e : text[k] = "lf"}) = l
    BY <1>3, <1>4, <1>5, <1>8, LinesOfLine
  <1>10. PICK U : U = UnitsTo(encoding, text)
    OBVIOUS
  <1>11. \A a, b \in 0..N : U[a] \in Nat /\ (a <= b => U[a] + (b - a) <= U[b])
    <2> TAKE a, b \in 0..N
    <2> QED BY <1>1, <1>2, <1>10, UnitsGrow
  <1>12. /\ Measure(encoding, SubSeq(text, h + 1, n)) = U[n] - U[h]
         /\ Measure(encoding, SubSeq(text, h + 1, e)) = U[e] - U[h]
         /\ Measure(encoding, t.src) = U[m] - U[n]
    <2>1. h \in 0..Len(text) /\ n \in h..Len(text) /\ e \in h..Len(text)
      BY <1>3, <1>5, <1>6
    <2>2. Measure(encoding, SubSeq(text, n + 1, m)) = U[m] - U[n]
      BY <1>3, <1>10, UnitsOfPart
    <2>3. /\ Measure(encoding, SubSeq(text, h + 1, n)) = U[n] - U[h]
          /\ Measure(encoding, SubSeq(text, h + 1, e)) = U[e] - U[h]
      BY <1>10, <2>1, UnitsOfPart
    <2> QED BY <1>2, <2>2, <2>3
  <1>13. PICK x, y, z, w : x = U[n] /\ y = U[h] /\ z = U[e] /\ w = U[m]
    OBVIOUS
  <1>14. /\ x \in Nat /\ y \in Nat /\ z \in Nat /\ w \in Nat /\ y <= x /\ x <= z /\ z <= w
         /\ x + (m - n) <= w
    <2>1. h \in 0..N /\ h <= n /\ n \in 0..N /\ m \in 0..N /\ n <= m
      BY <1>2, <1>6
    <2>2. U[h] + (n - h) <= U[n] /\ U[n] + (e - n) <= U[e] /\ U[e] + (m - e) <= U[m] /\ U[n] + (m - n) <= U[m]
      BY <1>5, <1>11, <2>1
    <2>3. U[n] \in Nat /\ U[h] \in Nat /\ U[e] \in Nat /\ U[m] \in Nat
      BY <1>5, <1>11, <2>1
    <2>4. n - h \in Nat /\ e - n \in Nat /\ m - e \in Nat
      BY <1>2, <1>5, <1>6
    <2>5. /\ y + (n - h) <= x /\ x + (e - n) <= z /\ z + (m - e) <= w /\ x + (m - n) <= w
          /\ x \in Nat /\ y \in Nat /\ z \in Nat /\ w \in Nat
      BY <1>13, <2>2, <2>3
    <2> QED BY <2>4, <2>5
  <1>15. PICK g : g = Max({1, w - x})
    OBVIOUS
  <1>16. g = IF w - x >= 1 THEN w - x ELSE 1
    <2>1. PICK v : v = w - x /\ v \in Nat
      <3>1. w - x \in Nat
        BY <1>14
      <3> QED BY <3>1
    <2>2. PICK top : top = IF v >= 1 THEN v ELSE 1
      OBVIOUS
    <2>3. top \in {1, v} /\ \A u \in {1, v} : top >= u
      BY <2>1, <2>2
    <2>4. \A u \in {1, v} : (\A r \in {1, v} : u >= r) => u = top
      BY <2>1, <2>2
    <2>5. Max({1, v}) \in {1, v} /\ \A u \in {1, v} : Max({1, v}) >= u
      BY <2>3 DEF Max
    <2>6. Max({1, v}) = top
      BY <2>4, <2>5
    <2> QED BY <1>15, <2>1, <2>2, <2>6
  <1>17. (e = m /\ n < m => (x - y) + g = z - y) /\ (x - y) + g >= z - y
    <2>1. g >= w - x /\ g \in Nat /\ (w - x >= 1 => g = w - x)
      BY <1>14, <1>16
    <2>2. (x - y) + g >= z - y
      BY <1>14, <2>1
    <2>3. ASSUME e = m, n < m PROVE (x - y) + g = z - y
      <3>1. z = w
        BY <1>13, <2>3
      <3>2. w - x >= 1
        BY <1>2, <1>14, <2>3
      <3> QED BY <1>14, <2>1, <3>1, <3>2
    <2> QED BY <2>2, <2>3
  <1>18. ClientPosition(encoding, text, n) = [line |-> l, character |-> x - y]
    BY <1>6, <1>8, <1>12, <1>13 DEF ClientPosition
  <1>19. ClientPosition(encoding, text, e) = [line |-> l, character |-> z - y]
    BY <1>7, <1>9, <1>12, <1>13 DEF ClientPosition
  <1>20. Lengthened(encoding, text, t, n) = [line |-> l, character |-> (x - y) + g]
    BY <1>12, <1>13, <1>15, <1>18 DEF Lengthened
  <1>21. (e = m /\ n < m) \/ AtLineEnd(text, e)
    <2>1. CASE n = m /\ n = N
      <3>1. e = Len(text)
        BY <1>1, <1>5, <2>1
      <3> QED BY <3>1 DEF AtLineEnd
    <2>2. CASE n < m
      BY <1>4, <2>2
    <2> QED BY <1>2, <2>1, <2>2
  <1>22. PICK p, place : p = ClientPosition(encoding, text, e) /\ place = Lengthened(encoding, text, t, n)
    OBVIOUS
  <1>23. p.line = l /\ p.character = z - y /\ place.line = l /\ place.character = (x - y) + g
    BY <1>19, <1>20, <1>22
  <1>24. /\ place.line = p.line
         /\ place.character = p.character \/ (AtLineEnd(text, e) /\ place.character >= p.character)
    BY <1>17, <1>21, <1>23
  <1> QED BY <1>1, <1>22, <1>24 DEF TakenFor

(* The slots of the symbols' tokens: two to a symbol.                       *)
SlotToken(symbols) ==
    [slot \in 1..(2 * Len(symbols)) |->
        IF slot % 2 = 1 THEN symbols[(slot + 1) \div 2].open ELSE symbols[slot \div 2].end]

SlotBefore(token, a, b) == token[a].si < token[b].si \/ (token[a].si = token[b].si /\ a < b)

SlotOrder(token) == InOrder(DOMAIN token, LAMBDA a, b : SlotBefore(token, a, b))

(* Every slot is visited.                                                   *)
Slots(token, M) == M \in Nat /\ DOMAIN token = 1..M /\ \A a \in 1..M : token[a].si \in Nat

Visits(order, M) ==
    /\ order \in Seq(1..M) /\ Len(order) = M /\ DOMAIN order = 1..M
    /\ \A k \in 1..M : order[k] \in 1..M
    /\ \A slot \in 1..M : \E k \in 1..M : order[k] = slot

LEMMA EverySlotIsVisited ==
    ASSUME NEW token, NEW M, Slots(token, M)
    PROVE  Visits(SlotOrder(token), M)
  <1> USE DEF Slots
  <1>1. PICK before, list : /\ before = [b \in 1..M |-> {a \in 1..M : SlotBefore(token, a, b)}]
                            /\ list = SlotOrder(token)
    OBVIOUS
  <1>2. IsFiniteSet(1..M) /\ Cardinality(1..M) = M
    BY FS_Interval
  <1>3. Orders(before, 1..M)
    <2>1. before \in [1..M -> SUBSET (1..M)]
      BY <1>1
    <2>2. \A a, b \in 1..M : a \in before[b] <=> SlotBefore(token, a, b)
      BY <1>1
    <2>3. \A a \in 1..M : ~SlotBefore(token, a, a)
      BY DEF SlotBefore
    <2>4. ASSUME NEW a \in 1..M, NEW b \in 1..M, NEW c \in 1..M,
                 SlotBefore(token, a, b), SlotBefore(token, b, c)
          PROVE  SlotBefore(token, a, c)
      <3>1. PICK x, y, z : x = token[a].si /\ y = token[b].si /\ z = token[c].si
        OBVIOUS
      <3>2. x \in Nat /\ y \in Nat /\ z \in Nat /\ a \in Nat /\ b \in Nat /\ c \in Nat
            /\ (x < y \/ (x = y /\ a < b)) /\ (y < z \/ (y = z /\ b < c))
        BY <2>4, <3>1 DEF SlotBefore
      <3>3. x < z \/ (x = z /\ a < c)
        BY ONLY <3>2
      <3> QED BY <3>1, <3>3 DEF SlotBefore
    <2>5. \A a, b \in 1..M : a = b \/ SlotBefore(token, a, b) \/ SlotBefore(token, b, a)
      <3> TAKE a, b \in 1..M
      <3>1. PICK x, y : x = token[a].si /\ y = token[b].si
        OBVIOUS
      <3>2. x \in Nat /\ y \in Nat /\ a \in Nat /\ b \in Nat
        BY <3>1
      <3>3. a = b \/ (x < y \/ (x = y /\ a < b)) \/ (y < x \/ (y = x /\ b < a))
        BY ONLY <3>2
      <3> QED BY <3>1, <3>3 DEF SlotBefore
    <2>6. ASSUME NEW b \in 1..M, NEW c \in 1..M, b \in before[c] PROVE before[b] \subseteq before[c]
      <3> SUFFICES ASSUME NEW a \in before[b] PROVE a \in before[c]
        OBVIOUS
      <3>1. a \in 1..M
        BY <2>1
      <3> QED BY <2>2, <2>4, <2>6, <3>1
    <2> QED BY <2>1, <2>2, <2>3, <2>5, <2>6 DEF Orders
  <1>4. Ranks(list, 1..M, before)
    <2> DEFINE Chosen(k) == CHOOSE s \in 1..M : Cardinality({r \in 1..M : SlotBefore(token, r, s)}) = k - 1
    <2>1. list = [k \in 1..M |-> Chosen(k)]
      BY <1>1, <1>2 DEF SlotOrder, InOrder
    <2>2. ASSUME NEW k \in 1..M, NEW s \in 1..M, Cardinality(before[s]) = k - 1
          PROVE  list[k] \in 1..M /\ Cardinality(before[list[k]]) = k - 1
      <3>1. Cardinality({r \in 1..M : SlotBefore(token, r, s)}) = k - 1
        BY <1>1, <2>2
      <3>2. Chosen(k) \in 1..M /\ Cardinality({r \in 1..M : SlotBefore(token, r, Chosen(k))}) = k - 1
        BY <3>1
      <3>3. list[k] = Chosen(k)
        BY <2>1
      <3> HIDE DEF Chosen
      <3> QED BY <1>1, <3>2, <3>3
    <2> HIDE DEF Chosen
    <2>3. list = [k \in 1..M |-> list[k]]
      BY ONLY <2>1
    <2> QED BY <1>2, <2>2, <2>3 DEF Ranks
  <1>5. list \in Seq(1..M) /\ Len(list) = M /\ ToSet(list) = 1..M
    BY <1>2, <1>3, <1>4, RanksOrder
  <1>6. DOMAIN list = 1..M /\ \A slot \in 1..M : \E k \in 1..M : list[k] = slot
    <2>1. DOMAIN list = 1..M
      BY <1>5
    <2>2. {list[k] : k \in DOMAIN list} = 1..M
      BY <1>5 DEF ToSet
    <2> QED BY <2>1, <2>2
  <1>7. \A k \in 1..M : list[k] \in 1..M
    BY <1>5
  <1> QED BY <1>1, <1>5, <1>6, <1>7 DEF Visits

(* A slot's place is its token's.                                           *)
SlotPlaces(token, d) ==
    LET order   == SlotOrder(token)
        columns == ColumnsOf(d.encoding, d.text, [k \in DOMAIN order |-> token[order[k]]])
    IN  [slot \in DOMAIN token |->
            [line      |-> Least(token[slot].ri - 1, LastLine(d)),
             character |-> columns[CHOOSE k \in DOMAIN order : order[k] = slot].column]]

Charted(text, token, M) ==
    M \in Nat /\ DOMAIN token = 1..M /\ \A a \in 1..M : token[a] \in RuleTokens(text)

LEMMA SlotsArePlaced ==
    ASSUME NEW text, NEW d, Sound(d, text), NEW M, NEW token, Charted(text, token, M), NEW slot \in 1..M
    PROVE  SlotPlaces(token, d)[slot] = ClientPosition(d.encoding, text, CharsTo(text, token[slot].si))
  <1>1. text \in Seq(Char) /\ d.text = text
    BY DEF Sound
  <1>2. ASSUME NEW a \in 1..M
        PROVE  /\ token[a].si \in Nat /\ token[a].ci \in Nat \ {0}
               /\ \E n \in 0..Len(text) : IsFrom(text, token[a], n)
    <2>1. PICK run \in Runs(text) : token[a] = RunToken(text, run)
      BY DEF RuleTokens, Charted
    <2>2. PICK t, n : t = token[a] /\ n = run[1]
      OBVIOUS
    <2>3. IsFrom(text, t, n)
      BY <1>1, <2>1, <2>2, RunIsFrom
    <2> QED BY <2>2, <2>3 DEF IsFrom
  <1>3. PICK order : order = SlotOrder(token)
    OBVIOUS
  <1>4. /\ DOMAIN order = 1..M /\ \A k \in 1..M : order[k] \in 1..M
        /\ \A s \in 1..M : \E k \in 1..M : order[k] = s
    <2>1. Slots(token, M)
      BY <1>2 DEF Slots, Charted
    <2>2. Visits(order, M)
      BY <1>3, <2>1, EverySlotIsVisited
    <2> QED BY <2>2 DEF Visits
  <1>5. PICK visited : visited = [k \in 1..M |-> token[order[k]]]
    OBVIOUS
  <1>6. /\ Len(visited) = M
        /\ \A k \in 1..M : visited[k] = token[order[k]] /\ order[k] \in 1..M
    <2>1. Len(visited) = M
      BY <1>5 DEF Charted
    <2> QED BY <1>4, <1>5, <2>1
  <1>7. \A k \in 1..M : visited[k].si \in Nat /\ visited[k].ci \in Nat \ {0}
    BY <1>2, <1>6
  <1>8. ColumnsOf(d.encoding, text, visited) = Counted(d.encoding, text, visited, M)
    BY <1>1, <1>6, <1>7, ColumnsAreCounted DEF Charted
  <1>9. PICK columns : columns = ColumnsOf(d.encoding, text, visited)
    OBVIOUS
  <1>10. PICK k : k = CHOOSE n \in DOMAIN order : order[n] = slot
    OBVIOUS
  <1>11. k \in 1..M /\ order[k] = slot
    BY <1>4, <1>10
  <1>12. columns[k].column = ColumnBefore(text, d.encoding, token[slot].si, token[slot].ci - 1)
    BY <1>6, <1>8, <1>9, <1>11 DEF Counted, CountedAs
  <1>13. SlotPlaces(token, d)[slot] = [line |-> Least(token[slot].ri - 1, LastLine(d)), character |-> columns[k].column]
    BY <1>1, <1>3, <1>4, <1>5, <1>9, <1>10 DEF SlotPlaces, Charted
  <1>14. PICK n \in 0..Len(text) : IsFrom(text, token[slot], n)
    BY <1>2
  <1>15. SlotPlaces(token, d)[slot] = PositionFromSite(d, Bytes(text)[n], Row(text, n), Column(text, n))
    BY <1>1, <1>12, <1>13, <1>14 DEF PositionFromSite, IsFrom
  <1> QED BY <1>14, <1>15, SiteOfPlace DEF IsFrom

LEMMA RangeOfSymbol ==
    ASSUME NEW text, NEW d, Sound(d, text), NEW ids,
           NEW symbols \in Seq(Symbolized(ids, RuleTokens(text))), NEW n \in DOMAIN symbols
    PROVE  LET range == Ranges(symbols, d)[n]
               from  == CharsTo(text, symbols[n].end.si)
           IN  /\ range.start = ClientPosition(d.encoding, text, CharsTo(text, symbols[n].open.si))
               /\ TakenFor(d.encoding, text, range.end,
                           EndWithin(text, from, from + Len(symbols[n].end.src)))
  <1>1. PICK L : L = Len(symbols) /\ L \in Nat /\ n \in 1..L /\ n \in Nat
    OBVIOUS
  <1>2. PICK token : token = SlotToken(symbols)
    OBVIOUS
  <1>3. \A a \in 1..L : symbols[a].open \in RuleTokens(text) /\ symbols[a].end \in RuleTokens(text)
    <2>1. \A a \in 1..L : symbols[a] \in Symbolized(ids, RuleTokens(text))
      BY <1>1
    <2> HIDE DEF RuleTokens
    <2> QED BY <2>1 DEF Symbolized
  <1>4. 2 * L \in Nat /\ DOMAIN token = 1..(2 * L)
    BY <1>1, <1>2 DEF SlotToken
  <1>5. ASSUME NEW a \in 1..(2 * L) PROVE token[a] \in RuleTokens(text)
    <2>1. CASE a % 2 = 1
      <3>1. (a + 1) \div 2 \in 1..L
        BY <1>1, <2>1
      <3> QED BY <1>1, <1>2, <1>3, <2>1, <3>1 DEF SlotToken
    <2>2. CASE a % 2 # 1
      <3>1. a \div 2 \in 1..L
        BY <1>1, <2>2
      <3> QED BY <1>1, <1>2, <1>3, <2>2, <3>1 DEF SlotToken
    <2> QED BY <2>1, <2>2
  <1>6. 2 * n - 1 \in 1..(2 * L) /\ 2 * n \in 1..(2 * L)
    BY <1>1
  <1>7. token[2 * n - 1] = symbols[n].open /\ token[2 * n] = symbols[n].end
    <2>1. (2 * n - 1) % 2 = 1 /\ (2 * n - 1 + 1) \div 2 = n /\ (2 * n) % 2 # 1 /\ (2 * n) \div 2 = n
      BY <1>1
    <2> QED BY <1>1, <1>2, <1>6, <2>1 DEF SlotToken
  <1>8. PICK place : place = SlotPlaces(token, d)
    OBVIOUS
  <1>9. /\ place[2 * n - 1] = ClientPosition(d.encoding, text, CharsTo(text, symbols[n].open.si))
        /\ place[2 * n] = ClientPosition(d.encoding, text, CharsTo(text, symbols[n].end.si))
    <2>1. PICK M, i, j : M = 2 * L /\ i = 2 * n - 1 /\ j = 2 * n
      OBVIOUS
    <2>2. Charted(text, token, M)
      BY <1>4, <1>5, <2>1 DEF Charted
    <2>3. i \in 1..M /\ j \in 1..M
      BY <1>6, <2>1
    <2>4. /\ SlotPlaces(token, d)[i] = ClientPosition(d.encoding, text, CharsTo(text, token[i].si))
          /\ SlotPlaces(token, d)[j] = ClientPosition(d.encoding, text, CharsTo(text, token[j].si))
      BY <2>2, <2>3, SlotsArePlaced
    <2> QED BY <1>7, <1>8, <2>1, <2>4
  <1>10. Ranges(symbols, d)[n] =
            [start |-> place[2 * n - 1],
             end   |-> [place[2 * n] EXCEPT !.character = @ + Max({1, Measure(d.encoding, symbols[n].end.src)})]]
    <2>1. Ranges(symbols, d) =
            [s \in DOMAIN symbols |->
                [start |-> SlotPlaces(SlotToken(symbols), d)[2 * s - 1],
                 end   |-> [SlotPlaces(SlotToken(symbols), d)[2 * s] EXCEPT
                               !.character = @ + Max({1, Measure(d.encoding, symbols[s].end.src)})]]]
      BY DEF Ranges, SlotToken, SlotPlaces, SlotOrder, SlotBefore, InOrder
    <2> QED BY <1>2, <1>8, <2>1
  <1>11. PICK run \in Runs(text) : symbols[n].end = RunToken(text, run)
    BY <1>1, <1>3 DEF RuleTokens
  <1>12. PICK t, from, till : t = symbols[n].end /\ from = run[1] /\ till = run[2]
    OBVIOUS
  <1>13. text \in Seq(Char)
    BY DEF Sound
  <1>14. /\ CharsTo(text, t.si) = from /\ from + Len(t.src) = till
         /\ TakenFor(d.encoding, text, Lengthened(d.encoding, text, t, from), EndWithin(text, from, till))
    <2>1. IsFrom(text, t, from) /\ from + Len(t.src) = till
      BY <1>11, <1>12, <1>13, RunIsFrom
    <2>2. TakenFor(d.encoding, text, Lengthened(d.encoding, text, t, from), EndWithin(text, from, till))
      BY <1>11, <1>12, <1>13, RunIsTakenToItsEnd
    <2> QED BY <2>1, <2>2 DEF IsFrom
  <1>15. PICK range, end : range = Ranges(symbols, d)[n] /\ end = Lengthened(d.encoding, text, t, from)
    OBVIOUS
  <1>16. range.end = end
    <2>1. place[2 * n] = ClientPosition(d.encoding, text, from)
      BY <1>9, <1>12, <1>14
    <2>2. end = [place[2 * n] EXCEPT !.character = @ + Max({1, Measure(d.encoding, t.src)})]
      BY <1>15, <2>1 DEF Lengthened
    <2>3. range.end = [place[2 * n] EXCEPT !.character = @ + Max({1, Measure(d.encoding, symbols[n].end.src)})]
      BY <1>10, <1>15
    <2> QED BY <1>12, <2>2, <2>3
  <1>17. range.start = place[2 * n - 1]
    BY <1>10, <1>15
  <1> QED BY <1>9, <1>12, <1>14, <1>15, <1>16, <1>17

(* Of every text the client makes and every parse of it, a diagnostic's     *)
(* range is on the text it is of; and a symbol of the outline is shown from *)
(* its first token to the end of its last, or of the line that one starts   *)
(* on, whatever stretches of the text the grammar's tokens are, over lines  *)
(* or empty at the end.                                                     *)
THEOREM RangesAreOnTheirText == Spec => []RangesCoverTheirText
  <1>1. RuledInv /\ DiagnosticsCoverTheirText => RangesCoverTheirText
    <2> SUFFICES ASSUME RuledInv, DiagnosticsCoverTheirText, NEW n \in DOMAIN Closed(rules)
                 PROVE  /\ Ranges(Closed(rules), doc)[n].start =
                               ClientPosition(doc.encoding, buffer, CharsTo(buffer, Closed(rules)[n].open.si))
                        /\ IsTakenFor(Ranges(Closed(rules), doc)[n].end, EndOnItsLine(Closed(rules)[n].end))
      BY DEF RangesCoverTheirText
    <2>1. PICK symbols, ids : symbols = Closed(rules) /\ ids = {e.i : e \in ToSet(rules)}
      OBVIOUS
    <2>2. symbols \in Seq(Symbolized(ids, RuleTokens(buffer)))
      BY <2>1, SymbolsHaveTokens DEF RuledInv
    <2>3. Sound(doc, buffer)
      BY DEF RuledInv, Kept
    <2>4. PICK from : from = CharsTo(buffer, symbols[n].end.si)
      OBVIOUS
    <2>5. /\ Ranges(symbols, doc)[n].start =
                 ClientPosition(doc.encoding, buffer, CharsTo(buffer, symbols[n].open.si))
          /\ TakenFor(doc.encoding, buffer, Ranges(symbols, doc)[n].end,
                      EndWithin(buffer, from, from + Len(symbols[n].end.src)))
      BY <2>1, <2>2, <2>3, <2>4, RangeOfSymbol
    <2>6. EndOnItsLine(symbols[n].end) = EndWithin(buffer, from, from + Len(symbols[n].end.src))
      BY <2>4 DEF EndOnItsLine, EndWithin
    <2>7. IsTakenFor(Ranges(symbols, doc)[n].end, EndOnItsLine(symbols[n].end))
      BY <2>5, <2>6 DEF IsTakenFor, TakenFor
    <2> QED BY <2>1, <2>5, <2>7
  <1> QED BY <1>1, RulesAreKept, DiagnosticsAreOnTheirText, PTL
-----------------------------------------------------------------------------
(* The nesting of symbols whose spans tell which is inside which.           *)
Enclosing(S, x) == {a \in S : a # x /\ Encloses(a, x)}
Shallow(S, x)   == Cardinality(Enclosing(S, x)) < MaxDepth

Laminar(S) ==
    /\ IsFiniteSet(S) /\ \A s \in S : s.open.si \in Nat /\ s.end.si \in Nat
    /\ \A a, b \in S : Encloses(a, b) /\ Encloses(b, a) => a = b
    /\ \A a, b, x \in S : Encloses(a, x) /\ Encloses(b, x) => Encloses(a, b) \/ Encloses(b, a)

LEMMA EnclosingIsTransitive ==
    ASSUME NEW S, Laminar(S), NEW a \in S, NEW b \in S, NEW x \in S, Encloses(a, b), Encloses(b, x)
    PROVE  Encloses(a, x)
  <1>1. PICK p, q, r, u, v, w : /\ p = a.open.si /\ q = b.open.si /\ r = x.open.si
                                /\ u = a.end.si /\ v = b.end.si /\ w = x.end.si
    OBVIOUS
  <1>2. p \in Nat /\ q \in Nat /\ r \in Nat /\ u \in Nat /\ v \in Nat /\ w \in Nat
    BY <1>1 DEF Laminar
  <1>3. p <= q /\ v <= u /\ q <= r /\ w <= v
    BY <1>1 DEF Encloses
  <1>4. p <= r /\ w <= u
    BY ONLY <1>2, <1>3
  <1> QED BY <1>1, <1>4 DEF Encloses

LEMMA EnclosingGrows ==
    ASSUME NEW S, Laminar(S), NEW x \in S, NEW a \in Enclosing(S, x)
    PROVE  /\ a \in S /\ Enclosing(S, a) \subseteq Enclosing(S, x)
           /\ IsFiniteSet(Enclosing(S, x)) /\ Cardinality(Enclosing(S, a)) \in Nat
           /\ Cardinality(Enclosing(S, x)) \in Nat
           /\ Cardinality(Enclosing(S, a)) < Cardinality(Enclosing(S, x))
  <1>1. a \in S /\ a # x /\ Encloses(a, x)
    BY DEF Enclosing
  <1>2. ASSUME NEW b \in Enclosing(S, a) PROVE b \in Enclosing(S, x)
    <2>1. b \in S /\ b # a /\ Encloses(b, a)
      BY DEF Enclosing
    <2>2. Encloses(b, x)
      BY <1>1, <2>1, EnclosingIsTransitive
    <2>3. b # x
      BY <1>1, <2>1 DEF Laminar
    <2> QED BY <2>1, <2>2, <2>3 DEF Enclosing
  <1>3. Enclosing(S, x) \subseteq S /\ Enclosing(S, a) \subseteq S /\ IsFiniteSet(S)
    BY DEF Enclosing, Laminar
  <1>4. IsFiniteSet(Enclosing(S, x)) /\ IsFiniteSet(Enclosing(S, a))
    BY <1>3, FS_Subset
  <1>5. a \notin Enclosing(S, a)
    BY DEF Enclosing
  <1>6. Enclosing(S, a) # Enclosing(S, x) /\ Enclosing(S, a) \subseteq Enclosing(S, x)
    BY <1>2, <1>5
  <1>7. Cardinality(Enclosing(S, a)) \in Nat /\ Cardinality(Enclosing(S, x)) \in Nat
    BY <1>4, FS_CardinalityType
  <1>8. Cardinality(Enclosing(S, a)) <= Cardinality(Enclosing(S, x))
        /\ Cardinality(Enclosing(S, a)) # Cardinality(Enclosing(S, x))
    BY <1>4, <1>6, FS_Subset
  <1> QED BY <1>1, <1>4, <1>6, <1>7, <1>8

(* A symbol is too deep exactly if the symbols around it that are not are   *)
(* too many.                                                                *)
LEMMA DeepInShallow ==
    ASSUME NEW S, Laminar(S), NEW x \in S, NEW around,
           around = {a \in Enclosing(S, x) : Shallow(S, a)}
    PROVE  /\ IsFiniteSet(around) /\ Cardinality(around) \in Nat
           /\ (Cardinality(around) < MaxDepth <=> Shallow(S, x))
           /\ Shallow(S, x) => around = Enclosing(S, x)
  <1>1. MaxDepth \in Nat
    BY AnalysisAssumption
  <1>2. IsFiniteSet(Enclosing(S, x)) /\ Cardinality(Enclosing(S, x)) \in Nat
    <2>1. Enclosing(S, x) \subseteq S /\ IsFiniteSet(S)
      BY DEF Enclosing, Laminar
    <2>2. IsFiniteSet(Enclosing(S, x))
      BY <2>1, FS_Subset
    <2> QED BY <2>2, FS_CardinalityType
  <1>3. IsFiniteSet(around) /\ Cardinality(around) \in Nat /\ Cardinality(around) <= Cardinality(Enclosing(S, x))
    <2>1. around \subseteq Enclosing(S, x)
      OBVIOUS
    <2>2. IsFiniteSet(around) /\ Cardinality(around) <= Cardinality(Enclosing(S, x))
      BY <1>2, <2>1, FS_Subset
    <2> QED BY <2>2, FS_CardinalityType
  <1>4. ASSUME Shallow(S, x) PROVE around = Enclosing(S, x)
    <2>1. ASSUME NEW a \in Enclosing(S, x) PROVE Shallow(S, a)
      <3>1. PICK k, l : k = Cardinality(Enclosing(S, a)) /\ l = Cardinality(Enclosing(S, x))
        OBVIOUS
      <3>2. k \in Nat /\ l \in Nat /\ k < l
        BY <3>1, EnclosingGrows
      <3>3. l < MaxDepth
        BY <1>4, <3>1 DEF Shallow
      <3>4. k < MaxDepth
        BY <1>1, <3>2, <3>3
      <3> QED BY <3>1, <3>4 DEF Shallow
    <2> QED BY <2>1
  <1>5. ASSUME ~Shallow(S, x), around # Enclosing(S, x) PROVE ~(Cardinality(around) < MaxDepth)
    <2>1. PICK deep : deep = {a \in Enclosing(S, x) : ~Shallow(S, a)}
      OBVIOUS
    <2>2. PICK depths : depths = {Cardinality(Enclosing(S, a)) : a \in deep}
      OBVIOUS
    <2>3. depths \in SUBSET Nat /\ depths # {}
      <3>1. \A a \in deep : Cardinality(Enclosing(S, a)) \in Nat
        BY <2>1, EnclosingGrows
      <3> QED BY <1>5, <2>1, <2>2, <3>1
    <2>4. PICK n \in depths : \A m \in depths : n <= m
      BY <2>3, LeastOf
    <2>5. PICK a \in deep : n = Cardinality(Enclosing(S, a))
      BY <2>2
    <2>6. a \in Enclosing(S, x) /\ ~Shallow(S, a) /\ a \in S
      BY <2>1 DEF Enclosing
    <2>7. ASSUME NEW b \in Enclosing(S, a) PROVE b \in around
      <3>1. b \in Enclosing(S, x)
        BY <2>6, EnclosingGrows
      <3>2. PICK k : k = Cardinality(Enclosing(S, b))
        OBVIOUS
      <3>3. k \in Nat /\ n \in Nat /\ k < n
        BY <2>5, <2>6, <3>2, EnclosingGrows
      <3>4. k \notin depths
        BY <2>3, <2>4, <3>3
      <3>5. b \notin deep
        BY <2>2, <3>2, <3>4
      <3> QED BY <2>1, <3>1, <3>5
    <2>8. Cardinality(Enclosing(S, a)) <= Cardinality(around)
      BY <1>3, <2>7, FS_Subset
    <2>9. Cardinality(Enclosing(S, a)) \in Nat
      BY <2>6, EnclosingGrows
    <2>10. PICK k, l : k = Cardinality(Enclosing(S, a)) /\ l = Cardinality(around)
      OBVIOUS
    <2>11. k \in Nat /\ l \in Nat /\ k <= l /\ ~(k < MaxDepth)
      BY <1>3, <2>6, <2>8, <2>9, <2>10 DEF Shallow
    <2>12. ~(l < MaxDepth)
      BY ONLY <1>1, <2>11
    <2> QED BY <2>10, <2>12
  <1> QED BY <1>3, <1>4, <1>5 DEF Shallow

(* The symbols as they are visited: none before one it is inside of.        *)
SymbolBefore(symbols, m, n) ==
    \/ symbols[m].open.si < symbols[n].open.si
    \/ symbols[m].open.si = symbols[n].open.si /\ symbols[m].end.si > symbols[n].end.si
    \/ symbols[m].open.si = symbols[n].open.si /\ symbols[m].end.si = symbols[n].end.si /\ m < n

SortOrder(symbols) == InOrder(DOMAIN symbols, LAMBDA m, n : SymbolBefore(symbols, m, n))

LEMMA SortedByOrder ==
    ASSUME NEW symbols
    PROVE  Sorted(symbols) = [k \in DOMAIN symbols |-> symbols[SortOrder(symbols)[k]]]
  BY DEF Sorted, SortOrder, SymbolBefore, InOrder

Distinct(symbols, S) ==
    /\ symbols \in Seq(S) /\ S = ToSet(symbols)
    /\ \A m, n \in 1..Len(symbols) : symbols[m] = symbols[n] => m = n

LEMMA SortedVisits ==
    ASSUME NEW symbols, NEW S, Distinct(symbols, S), Laminar(S), NEW N, N = Len(symbols),
           NEW sorted, sorted = Sorted(symbols)
    PROVE  /\ Distinct(sorted, S) /\ Len(sorted) = N
           /\ \A j, k \in 1..N : j < k => ~Encloses(sorted[k], sorted[j])
                                          /\ sorted[j].open.si <= sorted[k].open.si
  <1>1. N \in Nat /\ DOMAIN symbols = 1..N /\ \A n \in 1..N : symbols[n] \in S
    BY DEF Distinct
  <1>2. PICK before, order : /\ before = [n \in 1..N |-> {m \in 1..N : SymbolBefore(symbols, m, n)}]
                             /\ order = SortOrder(symbols)
    OBVIOUS
  <1>3. sorted = [k \in 1..N |-> symbols[order[k]]]
    BY ONLY <1>1, <1>2, sorted = Sorted(symbols), SortedByOrder
  <1>4. IsFiniteSet(1..N) /\ Cardinality(1..N) = N
    <2>1. N \in Nat
      BY <1>1
    <2> QED BY ONLY <2>1, FS_Interval
  <1>5. \A n \in 1..N : symbols[n].open.si \in Nat /\ symbols[n].end.si \in Nat
    BY <1>1 DEF Laminar
  <1>6. Orders(before, 1..N)
    <2>1. before \in [1..N -> SUBSET (1..N)]
      BY <1>2
    <2>2. \A m, n \in 1..N : m \in before[n] <=> SymbolBefore(symbols, m, n)
      BY <1>2
    <2>3. \A n \in 1..N : ~SymbolBefore(symbols, n, n)
      <3> TAKE n \in 1..N
      <3>1. PICK x, y : x = symbols[n].open.si /\ y = symbols[n].end.si
        OBVIOUS
      <3>2. x \in Nat /\ y \in Nat /\ n \in Nat
        BY <1>1, <1>5, <3>1
      <3>3. ~(x < x \/ (x = x /\ y > y) \/ (x = x /\ y = y /\ n < n))
        BY ONLY <3>2
      <3> QED BY <3>1, <3>3 DEF SymbolBefore
    <2>4. ASSUME NEW a \in 1..N, NEW b \in 1..N, NEW c \in 1..N,
                 SymbolBefore(symbols, a, b), SymbolBefore(symbols, b, c)
          PROVE  SymbolBefore(symbols, a, c)
      <3>1. PICK x, y, z, u, v, w :
               /\ x = symbols[a].open.si /\ y = symbols[b].open.si /\ z = symbols[c].open.si
               /\ u = symbols[a].end.si /\ v = symbols[b].end.si /\ w = symbols[c].end.si
        OBVIOUS
      <3>2. /\ x \in Nat /\ y \in Nat /\ z \in Nat /\ u \in Nat /\ v \in Nat /\ w \in Nat
            /\ a \in Nat /\ b \in Nat /\ c \in Nat
        BY <1>1, <1>5, <3>1
      <3>3. /\ x < y \/ (x = y /\ u > v) \/ (x = y /\ u = v /\ a < b)
            /\ y < z \/ (y = z /\ v > w) \/ (y = z /\ v = w /\ b < c)
        BY <2>4, <3>1 DEF SymbolBefore
      <3>4. x < z \/ (x = z /\ u > w) \/ (x = z /\ u = w /\ a < c)
        BY ONLY <3>2, <3>3
      <3> QED BY <3>1, <3>4 DEF SymbolBefore
    <2>5. \A a, b \in 1..N : a = b \/ SymbolBefore(symbols, a, b) \/ SymbolBefore(symbols, b, a)
      <3> TAKE a, b \in 1..N
      <3>1. PICK x, y, u, v : /\ x = symbols[a].open.si /\ y = symbols[b].open.si
                              /\ u = symbols[a].end.si /\ v = symbols[b].end.si
        OBVIOUS
      <3>2. x \in Nat /\ y \in Nat /\ u \in Nat /\ v \in Nat /\ a \in Nat /\ b \in Nat
        BY <1>1, <1>5, <3>1
      <3>3. \/ a = b
            \/ x < y \/ (x = y /\ u > v) \/ (x = y /\ u = v /\ a < b)
            \/ y < x \/ (y = x /\ v > u) \/ (y = x /\ v = u /\ b < a)
        BY ONLY <3>2
      <3> QED BY <3>1, <3>3 DEF SymbolBefore
    <2>6. ASSUME NEW b \in 1..N, NEW c \in 1..N, b \in before[c] PROVE before[b] \subseteq before[c]
      <3> SUFFICES ASSUME NEW a \in before[b] PROVE a \in before[c]
        OBVIOUS
      <3>1. a \in 1..N
        BY <2>1
      <3> QED BY <2>2, <2>4, <2>6, <3>1
    <2> QED BY <2>1, <2>2, <2>3, <2>5, <2>6 DEF Orders
  <1>7. Ranks(order, 1..N, before)
    <2> DEFINE Chosen(k) == CHOOSE s \in 1..N : Cardinality({r \in 1..N : SymbolBefore(symbols, r, s)}) = k - 1
    <2>1. order = [k \in 1..N |-> Chosen(k)]
      <3>1. DOMAIN symbols = 1..N /\ Cardinality(1..N) = N
        BY <1>1, <1>4
      <3>2. SortOrder(symbols) =
               [k \in 1..Cardinality(DOMAIN symbols) |->
                   CHOOSE s \in DOMAIN symbols :
                       Cardinality({r \in DOMAIN symbols : SymbolBefore(symbols, r, s)}) = k - 1]
        BY ONLY DEF SortOrder, InOrder
      <3> QED BY ONLY <1>2, <3>1, <3>2
    <2>2. ASSUME NEW k \in 1..N, NEW s \in 1..N, Cardinality(before[s]) = k - 1
          PROVE  order[k] \in 1..N /\ Cardinality(before[order[k]]) = k - 1
      <3>1. Cardinality({r \in 1..N : SymbolBefore(symbols, r, s)}) = k - 1
        BY <1>2, <2>2
      <3>2. Chosen(k) \in 1..N /\ Cardinality({r \in 1..N : SymbolBefore(symbols, r, Chosen(k))}) = k - 1
        BY <3>1
      <3>3. order[k] = Chosen(k)
        BY <2>1
      <3> HIDE DEF Chosen
      <3> QED BY <1>2, <3>2, <3>3
    <2> HIDE DEF Chosen
    <2>3. order = [k \in 1..N |-> order[k]]
      BY ONLY <2>1
    <2> QED BY <1>4, <2>2, <2>3 DEF Ranks
  <1>8. /\ order \in Seq(1..N) /\ Len(order) = N /\ ToSet(order) = 1..N
        /\ \A j, k \in 1..N : j < k => order[j] \in before[order[k]]
    BY <1>4, <1>6, <1>7, RanksOrder
  <1>9. \A k \in 1..N : order[k] \in 1..N
    BY <1>1, <1>8
  <1>10. \A n \in 1..N : \E k \in 1..N : order[k] = n
    BY <1>8 DEF ToSet
  <1>11. ASSUME NEW j \in 1..N, NEW k \in 1..N, j < k
         PROVE  /\ sorted[j] # sorted[k] /\ ~Encloses(sorted[k], sorted[j])
                /\ sorted[j].open.si <= sorted[k].open.si
    <2>1. PICK a, b : a = order[j] /\ b = order[k]
      OBVIOUS
    <2>2. a \in 1..N /\ b \in 1..N /\ sorted[j] = symbols[a] /\ sorted[k] = symbols[b]
      BY <1>3, <1>9, <2>1
    <2>3. a \in before[b]
      BY <1>8, <1>11, <2>1
    <2>4. SymbolBefore(symbols, a, b) /\ a # b
      BY <1>2, <1>6, <2>2, <2>3 DEF Orders
    <2>5. symbols[a] # symbols[b]
      BY <2>2, <2>4 DEF Distinct
    <2>6. PICK x, y, u, v : /\ x = symbols[a].open.si /\ y = symbols[b].open.si
                            /\ u = symbols[a].end.si /\ v = symbols[b].end.si
      OBVIOUS
    <2>7. x \in Nat /\ y \in Nat /\ u \in Nat /\ v \in Nat
      BY <1>5, <2>2, <2>6
    <2>8. x < y \/ (x = y /\ u > v) \/ (x = y /\ u = v)
      BY <2>4, <2>6 DEF SymbolBefore
    <2>9. ASSUME Encloses(symbols[b], symbols[a]) PROVE FALSE
      <3>1. y <= x /\ u <= v
        BY <2>6, <2>9 DEF Encloses
      <3>2. x <= y /\ v <= u
        BY ONLY <2>7, <2>8, <3>1
      <3>3. Encloses(symbols[a], symbols[b])
        BY <2>6, <3>2 DEF Encloses
      <3> QED BY <1>1, <2>2, <2>5, <2>9, <3>3 DEF Laminar
    <2>10. x <= y
      BY ONLY <2>7, <2>8
    <2> QED BY <2>2, <2>5, <2>6, <2>9, <2>10
  <1>12. sorted \in Seq(S) /\ Len(sorted) = N /\ DOMAIN sorted = 1..N
    <2>1. sorted \in [1..N -> S]
      BY <1>1, <1>3, <1>9
    <2> QED BY <1>1, <2>1
  <1>13. S = ToSet(sorted)
    <2>1. ASSUME NEW s \in S PROVE \E k \in 1..N : sorted[k] = s
      <3>1. PICK n \in 1..N : symbols[n] = s
        BY <1>1 DEF Distinct, ToSet
      <3>2. PICK k \in 1..N : order[k] = n
        BY <1>10
      <3> QED BY <1>3, <3>1, <3>2
    <2>2. \A k \in 1..N : sorted[k] \in S
      BY <1>1, <1>3, <1>9
    <2>3. ToSet(sorted) = {sorted[k] : k \in 1..N}
      BY <1>12 DEF ToSet
    <2> QED BY ONLY <2>1, <2>2, <2>3
  <1>14. \A j, k \in 1..N : sorted[j] = sorted[k] => j = k
    <2> TAKE j, k \in 1..N
    <2>1. j < k \/ k < j \/ j = k
      BY <1>1
    <2> QED BY <1>11, <2>1
  <1> QED BY <1>11, <1>12, <1>13, <1>14 DEF Distinct

(* As many as there are places, if no two hold the same.                    *)
LEMMA CountOfDistinct ==
    ASSUME NEW s, NEW L \in Nat, DOMAIN s = 1..L, \A j, k \in 1..L : s[j] = s[k] => j = k
    PROVE  IsFiniteSet(ToSet(s)) /\ Cardinality(ToSet(s)) = L
  <1> DEFINE f == [k \in 1..L |-> s[k]]
             T == ToSet(s)
  <1>1. T = {s[k] : k \in 1..L}
    BY DEF ToSet
  <1>2. f \in Injection(1..L, T) /\ f \in Surjection(1..L, T)
    BY <1>1 DEF Injection, IsInjective, Surjection
  <1>3. IsFiniteSet(1..L) /\ Cardinality(1..L) = L
    BY FS_Interval
  <1> HIDE DEF f, T
  <1>4. IsFiniteSet(T) /\ Cardinality(T) = Cardinality(1..L)
    BY <1>2, <1>3, FS_Surjection
  <1> QED BY <1>3, <1>4 DEF T

(* What of the stack is around a symbol.                                    *)
Trimmed(stack, symbol) ==
    LET around == {k \in DOMAIN stack : Encloses(stack[k], symbol)}
    IN  Take(stack, IF around = {} THEN 0 ELSE Max(around))

Chain(stack) == \A j, k \in 1..Len(stack) : j < k => stack[j] # stack[k] /\ Encloses(stack[j], stack[k])

IsTrimmed(trim, stack, x, S) ==
    /\ trim \in Seq(S) /\ Len(trim) <= Len(stack)
    /\ \A k \in 1..Len(trim) : trim[k] = stack[k]
    /\ \A k \in 1..Len(stack) : k <= Len(trim) <=> Encloses(stack[k], x)

LEMMA TrimmedIsAround ==
    ASSUME NEW S, Laminar(S), NEW stack \in Seq(S), Chain(stack), NEW x \in S
    PROVE  IsTrimmed(Trimmed(stack, x), stack, x, S)
  <1>0. Len(stack) \in Nat
    OBVIOUS
  <1>1. PICK N, around : N = Len(stack) /\ around = {k \in 1..N : Encloses(stack[k], x)} /\ N \in Nat
    BY <1>0
  <1>2. PICK m : m = IF around = {} THEN 0 ELSE Max(around)
    OBVIOUS
  <1>3. m \in 0..N /\ \A k \in 1..N : k <= m <=> Encloses(stack[k], x)
    <2>1. CASE around = {}
      <3>1. m = 0
        BY <1>2, <2>1
      <3>2. \A k \in 1..N : ~(k <= 0) /\ ~Encloses(stack[k], x)
        BY <1>1, <2>1
      <3> QED BY <1>1, <3>1, <3>2
    <2>2. CASE around # {}
      <3>1. around \in SUBSET Nat /\ \A k \in around : k <= N
        BY <1>1
      <3>2. PICK g \in around : \A k \in around : k <= g
        BY <1>1, <2>2, <3>1, GreatestOf
      <3>3. Max(around) \in around /\ \A k \in around : Max(around) >= k
        <4>1. \A k \in around : g >= k
          BY <3>1, <3>2
        <4> QED BY <4>1 DEF Max
      <3>4. m \in around /\ \A k \in around : m >= k
        BY <1>2, <2>2, <3>3
      <3>5. m \in 1..N /\ Encloses(stack[m], x)
        BY <1>1, <3>4
      <3>6. ASSUME NEW k \in 1..N, k <= m PROVE Encloses(stack[k], x)
        <4>1. CASE k = m
          BY <3>5, <4>1
        <4>2. CASE k # m
          <5>1. k < m
            BY <1>1, <3>5, <3>6, <4>2
          <5>2. Encloses(stack[k], stack[m])
            BY <1>1, <3>5, <5>1 DEF Chain
          <5>3. stack[k] \in S /\ stack[m] \in S
            BY <1>1, <3>5
          <5> QED BY <3>5, <5>2, <5>3, EnclosingIsTransitive
        <4> QED BY <4>1, <4>2
      <3>7. ASSUME NEW k \in 1..N, Encloses(stack[k], x) PROVE k <= m
        BY <1>1, <3>4, <3>5, <3>7
      <3> QED BY <1>1, <3>5, <3>6, <3>7
    <2> QED BY <2>1, <2>2
  <1>4. Trimmed(stack, x) = SubSeq(stack, 1, m)
    <2>1. DOMAIN stack = 1..N
      BY <1>1
    <2> QED BY <1>1, <1>2, <2>1 DEF Trimmed, Take
  <1>5. PICK trim : trim = SubSeq(stack, 1, m)
    OBVIOUS
  <1>6. trim \in Seq(S) /\ Len(trim) = m /\ \A k \in 1..m : trim[k] = stack[k]
    BY <1>1, <1>3, <1>5
  <1> QED BY <1>1, <1>3, <1>4, <1>5, <1>6 DEF IsTrimmed

(* nest, one symbol: what is listed of those visited, and the stack of what *)
(* may be around those to come.                                             *)
Entries(S)    == [symbol : S, within : Seq(S)]
NestStates(S) == [stack : Seq(S), listed : Seq(Entries(S))]

Walked(done, symbol) ==
    LET stack == Trimmed(done.stack, symbol)
    IN  IF Len(stack) >= MaxDepth THEN [done EXCEPT !.stack = stack]
        ELSE [stack |-> Append(stack, symbol),
              listed |-> Append(done.listed, [symbol |-> symbol, within |-> stack])]

VisitedOf(S, sorted, n) == {x \in S : Shallow(S, x) /\ \E k \in 1..n : x = sorted[k]}

IsListing(S, listed, shown) ==
    /\ listed \in Seq(Entries(S)) /\ IsFiniteSet(shown) /\ Len(listed) = Cardinality(shown)
    /\ {e.symbol : e \in ToSet(listed)} = shown
    /\ \A e \in ToSet(listed) : ToSet(e.within) = Enclosing(S, e.symbol)

IsNested(S, sorted, n, done) ==
    /\ done \in NestStates(S) /\ Chain(done.stack)
    /\ ToSet(done.stack) \subseteq VisitedOf(S, sorted, n)
    /\ \A k \in (n + 1)..Len(sorted) : \A a \in VisitedOf(S, sorted, n) :
          Encloses(a, sorted[k]) => a \in ToSet(done.stack)
    /\ IsListing(S, done.listed, VisitedOf(S, sorted, n))

(* Visited as they are sorted.                                              *)
InVisits(S, sorted, N) ==
    /\ Laminar(S) /\ Distinct(sorted, S) /\ N = Len(sorted)
    /\ \A j, k \in 1..N : j < k => ~Encloses(sorted[k], sorted[j]) /\ sorted[j].open.si <= sorted[k].open.si

LEMMA BetweenIsInside ==
    ASSUME NEW S, NEW sorted, NEW N, InVisits(S, sorted, N),
           NEW i \in 1..N, NEW j \in 1..N, NEW k \in 1..N, i < j, j < k, Encloses(sorted[i], sorted[k])
    PROVE  Encloses(sorted[i], sorted[j])
  <1>1. PICK a, x, y : a = sorted[i] /\ x = sorted[j] /\ y = sorted[k] /\ a \in S /\ x \in S /\ y \in S
    BY DEF InVisits, Distinct
  <1>2. PICK p, q, r, u, v, w : /\ p = a.open.si /\ q = x.open.si /\ r = y.open.si
                                /\ u = a.end.si /\ v = x.end.si /\ w = y.end.si
    OBVIOUS
  <1>3. p \in Nat /\ q \in Nat /\ r \in Nat /\ u \in Nat /\ v \in Nat /\ w \in Nat
    BY <1>1, <1>2 DEF InVisits, Laminar
  <1>4. p <= q /\ q <= r
    BY <1>1, <1>2 DEF InVisits
  <1>5. w <= u
    BY <1>1, <1>2 DEF Encloses
  <1>6. CASE v <= u
    BY <1>1, <1>2, <1>4, <1>6 DEF Encloses
  <1>7. CASE ~(v <= u)
    <2>1. w <= v
      BY ONLY <1>3, <1>5, <1>7
    <2>2. Encloses(x, y) /\ Encloses(a, y)
      BY <1>1, <1>2, <1>4, <2>1 DEF Encloses
    <2>3. ~Encloses(x, a)
      BY <1>1 DEF InVisits
    <2> QED BY <1>1, <2>2, <2>3 DEF InVisits, Laminar
  <1> QED BY <1>6, <1>7

LEMMA WalkKeeps ==
    ASSUME NEW S, NEW sorted, NEW N, InVisits(S, sorted, N), NEW n \in 0..(N - 1), NEW done,
           IsNested(S, sorted, n, done), NEW x, x = sorted[n + 1]
    PROVE  IsNested(S, sorted, n + 1, Walked(done, x))
  <1>1. /\ N \in Nat /\ n \in Nat /\ n + 1 \in 1..N /\ N = Len(sorted) /\ MaxDepth \in Nat
        /\ x \in S /\ Laminar(S) /\ \A k \in 1..N : sorted[k] \in S
    <2>1. sorted \in Seq(S) /\ N = Len(sorted) /\ Laminar(S)
      BY DEF InVisits, Distinct
    <2>2. N \in Nat /\ \A k \in 1..N : sorted[k] \in S
      BY <2>1
    <2>3. n \in Nat /\ n + 1 \in 1..N
      BY <2>2
    <2>4. MaxDepth \in Nat
      BY AnalysisAssumption
    <2> QED BY <2>1, <2>2, <2>3, <2>4
  <1>2. \A j, k \in 1..N : sorted[j] = sorted[k] => j = k
    BY <1>1 DEF InVisits, Distinct
  <1>3. PICK stack, listed, before : stack = done.stack /\ listed = done.listed
                                     /\ before = VisitedOf(S, sorted, n)
    OBVIOUS
  <1>4. /\ done = [stack |-> stack, listed |-> listed] /\ stack \in Seq(S) /\ Chain(stack)
        /\ ToSet(stack) \subseteq before /\ IsListing(S, listed, before)
        /\ \A k \in (n + 1)..N : \A a \in before : Encloses(a, sorted[k]) => a \in ToSet(stack)
    BY <1>1, <1>3 DEF IsNested, NestStates
  <1>5. PICK trim : trim = Trimmed(stack, x)
    OBVIOUS
  <1>6. IsTrimmed(trim, stack, x, S)
    BY <1>1, <1>4, <1>5, TrimmedIsAround
  <1>7. PICK L, M : L = Len(trim) /\ M = Len(stack)
    OBVIOUS
  <1>8. /\ trim \in Seq(S) /\ L \in Nat /\ M \in Nat /\ L <= M /\ DOMAIN trim = 1..L /\ DOMAIN stack = 1..M
        /\ \A k \in 1..L : trim[k] = stack[k] /\ k \in 1..M
        /\ \A k \in 1..M : k <= L <=> Encloses(stack[k], x)
    <2>1. trim \in Seq(S) /\ stack \in Seq(S) /\ L <= M
      BY <1>4, <1>6, <1>7 DEF IsTrimmed
    <2>2. L \in Nat /\ M \in Nat /\ DOMAIN trim = 1..L /\ DOMAIN stack = 1..M
      BY <1>7, <2>1
    <2>3. \A k \in 1..L : k \in 1..M
      BY <2>1, <2>2
    <2> QED BY <1>6, <1>7, <2>1, <2>2, <2>3 DEF IsTrimmed
  <1>9. \A a \in before : a \in S /\ Shallow(S, a) /\ \E k \in 1..n : a = sorted[k]
    BY <1>3 DEF VisitedOf
  <1>10. x \notin before
    <2>1. \A k \in 1..n : k \in 1..N /\ k # n + 1
      BY <1>1
    <2> QED BY <1>1, <1>2, <1>9, <2>1
  <1>11. ToSet(trim) = {a \in before : Encloses(a, x)}
    <2>1. ASSUME NEW a \in ToSet(trim) PROVE a \in before /\ Encloses(a, x)
      <3>1. PICK k \in 1..L : a = trim[k]
        BY <1>8 DEF ToSet
      <3>2. a = stack[k] /\ k \in 1..M /\ k <= L
        BY <1>8, <3>1
      <3>3. a \in ToSet(stack)
        BY <1>8, <3>2 DEF ToSet
      <3> QED BY <1>4, <1>8, <3>2, <3>3
    <2>2. ASSUME NEW a \in before, Encloses(a, x) PROVE a \in ToSet(trim)
      <3>1. n + 1 \in (n + 1)..N
        BY <1>1
      <3>2. a \in ToSet(stack)
        BY <1>4, <2>2, <3>1
      <3>3. PICK k \in 1..M : a = stack[k]
        BY <1>8, <3>2 DEF ToSet
      <3>4. k <= L
        BY <1>8, <2>2, <3>3
      <3>5. k \in 1..L
        BY <1>8, <3>4
      <3> QED BY <1>8, <3>3, <3>5 DEF ToSet
    <2> QED BY <2>1, <2>2
  <1>12. ToSet(trim) = {a \in Enclosing(S, x) : Shallow(S, a)}
    <2>1. ASSUME NEW a \in before, Encloses(a, x) PROVE a \in Enclosing(S, x) /\ Shallow(S, a)
      BY <1>9, <1>10, <2>1 DEF Enclosing
    <2>2. ASSUME NEW a \in Enclosing(S, x), Shallow(S, a) PROVE a \in before /\ Encloses(a, x)
      <3>1. a \in S /\ a # x /\ Encloses(a, x)
        BY DEF Enclosing
      <3>2. PICK k \in 1..N : a = sorted[k]
        BY <3>1 DEF InVisits, Distinct, ToSet
      <3>3. k # n + 1
        BY <3>1, <3>2
      <3>4. ~(n + 1 < k)
        <4>1. n + 1 < k => ~Encloses(sorted[k], sorted[n + 1])
          BY <1>1, <3>2 DEF InVisits
        <4> QED BY <3>1, <3>2, <4>1
      <3>5. k \in 1..n
        BY <1>1, <3>2, <3>3, <3>4
      <3> QED BY <1>3, <2>2, <3>1, <3>2, <3>5 DEF VisitedOf
    <2> QED BY <1>11, <2>1, <2>2
  <1>13. \A j, k \in 1..L : trim[j] = trim[k] => j = k
    <2> SUFFICES ASSUME NEW j \in 1..L, NEW k \in 1..L, trim[j] = trim[k] PROVE j = k
      OBVIOUS
    <2>1. j \in 1..M /\ k \in 1..M /\ stack[j] = stack[k]
      BY <1>8
    <2>2. ~(j < k) /\ ~(k < j)
      BY <1>4, <1>7, <2>1 DEF Chain
    <2> QED BY <1>8, <2>2
  <1>14. PICK around : around = ToSet(trim)
    OBVIOUS
  <1>15. Cardinality(around) = L
    BY <1>8, <1>13, <1>14, CountOfDistinct
  <1>16. /\ L < MaxDepth <=> Shallow(S, x)
         /\ Shallow(S, x) => around = Enclosing(S, x)
    <2>1. around = {a \in Enclosing(S, x) : Shallow(S, a)}
      BY <1>12, <1>14
    <2> QED BY <1>1, <1>15, <2>1, DeepInShallow
  <1>17. PICK after : after = VisitedOf(S, sorted, n + 1)
    OBVIOUS
  <1>18. after = IF Shallow(S, x) THEN before \cup {x} ELSE before
    <2>1. \A k \in 1..(n + 1) : k \in 1..n \/ k = n + 1
      BY <1>1
    <2>2. \A k \in 1..n : k \in 1..(n + 1)
      BY <1>1
    <2>3. n + 1 \in 1..(n + 1)
      BY <1>1
    <2>4. \A a : (\E k \in 1..(n + 1) : a = sorted[k]) <=> (a = x \/ \E k \in 1..n : a = sorted[k])
      BY <2>1, <2>2, <2>3
    <2> QED BY <1>1, <1>3, <1>17, <2>4 DEF VisitedOf
  <1>19. ASSUME NEW k \in (n + 2)..N, NEW a \in before, Encloses(a, sorted[k])
         PROVE  a \in ToSet(trim)
    <2>1. k \in 1..N /\ k \in (n + 1)..N /\ n + 1 < k
      BY <1>1
    <2>2. PICK i \in 1..n : a = sorted[i]
      BY <1>9
    <2>3. i \in 1..N /\ i < n + 1
      BY <1>1
    <2>4. Encloses(a, x)
      BY <1>1, <1>19, <2>1, <2>2, <2>3, BetweenIsInside
    <2> QED BY <1>11, <2>4
  <1>20. \A k \in ((n + 1) + 1)..N : k \in (n + 2)..N
    BY <1>1
  <1>21. Chain(trim)
    <2> SUFFICES ASSUME NEW j \in 1..L, NEW k \in 1..L, j < k
                 PROVE  trim[j] # trim[k] /\ Encloses(trim[j], trim[k])
      BY <1>7 DEF Chain
    <2> QED BY <1>4, <1>7, <1>8 DEF Chain
  <1>22. Walked(done, x) = IF L >= MaxDepth THEN [stack |-> trim, listed |-> listed]
                           ELSE [stack |-> Append(trim, x),
                                 listed |-> Append(listed, [symbol |-> x, within |-> trim])]
    BY <1>3, <1>4, <1>5, <1>7 DEF Walked
  <1>23. listed \in Seq(Entries(S))
    BY <1>4 DEF IsListing
  <1>24. CASE ~Shallow(S, x)
    <2>1. L >= MaxDepth /\ after = before
      BY <1>1, <1>8, <1>16, <1>18, <1>24
    <2>2. PICK next : next = [stack |-> trim, listed |-> listed]
      OBVIOUS
    <2>3. Walked(done, x) = next
      BY <1>22, <2>1, <2>2
    <2>4. next \in NestStates(S)
      BY <1>8, <1>23, <2>2 DEF NestStates
    <2>5. ToSet(trim) \subseteq after
      BY <1>11, <2>1
    <2>6. \A k \in ((n + 1) + 1)..Len(sorted) : \A a \in after : Encloses(a, sorted[k]) => a \in ToSet(trim)
      BY <1>1, <1>19, <1>20, <2>1
    <2>7. IsListing(S, listed, after)
      BY <1>4, <2>1
    <2> QED BY <1>17, <1>21, <2>2, <2>3, <2>4, <2>5, <2>6, <2>7 DEF IsNested
  <1>25. CASE Shallow(S, x)
    <2>1. ~(L >= MaxDepth) /\ after = before \cup {x} /\ around = Enclosing(S, x)
      BY <1>1, <1>8, <1>16, <1>18, <1>25
    <2>2. PICK entry, pushed, longer : /\ entry = [symbol |-> x, within |-> trim]
                                       /\ pushed = Append(trim, x) /\ longer = Append(listed, entry)
      OBVIOUS
    <2>3. PICK next : next = [stack |-> pushed, listed |-> longer]
      OBVIOUS
    <2>4. Walked(done, x) = next
      BY <1>22, <2>1, <2>2, <2>3
    <2>5. /\ pushed \in Seq(S) /\ Len(pushed) = L + 1 /\ DOMAIN pushed = 1..(L + 1)
          /\ \A k \in 1..(L + 1) : pushed[k] = IF k = L + 1 THEN x ELSE trim[k]
      BY <1>1, <1>7, <1>8, <2>2
    <2>6. ToSet(pushed) = ToSet(trim) \cup {x}
      <3>1. \A k \in 1..(L + 1) : k = L + 1 \/ k \in 1..L
        BY <1>8
      <3>2. L + 1 \in 1..(L + 1) /\ \A k \in 1..L : k \in 1..(L + 1) /\ k # L + 1
        BY <1>8
      <3> QED BY <1>8, <2>5, <3>1, <3>2 DEF ToSet
    <2>7. Chain(pushed)
      <3> SUFFICES ASSUME NEW j \in 1..(L + 1), NEW k \in 1..(L + 1), j < k
                   PROVE  pushed[j] # pushed[k] /\ Encloses(pushed[j], pushed[k])
        BY <2>5 DEF Chain
      <3>1. j \in 1..L /\ pushed[j] = trim[j]
        BY <1>8, <2>5
      <3>2. CASE k = L + 1
        <4>1. trim[j] \in ToSet(trim)
          BY <1>8, <3>1 DEF ToSet
        <4>2. trim[j] \in before /\ Encloses(trim[j], x)
          BY <1>11, <4>1
        <4> QED BY <1>10, <2>5, <3>1, <3>2, <4>2
      <3>3. CASE k # L + 1
        <4>1. k \in 1..L /\ pushed[k] = trim[k]
          BY <1>8, <2>5, <3>3
        <4> QED BY <1>7, <1>21, <3>1, <4>1 DEF Chain
      <3> QED BY <3>2, <3>3
    <2>8. entry \in Entries(S)
      BY <1>1, <1>8, <2>2 DEF Entries
    <2>9. /\ longer \in Seq(Entries(S)) /\ Len(longer) = Len(listed) + 1
          /\ ToSet(longer) = ToSet(listed) \cup {entry}
      <3>1. PICK K, X : K = Len(listed) /\ X = Entries(S) /\ K \in Nat
        BY <1>23
      <3>2. listed \in Seq(X) /\ entry \in X /\ longer = Append(listed, entry)
        BY <1>23, <2>2, <2>8, <3>1
      <3>3. /\ longer \in Seq(X) /\ Len(longer) = K + 1 /\ DOMAIN longer = 1..(K + 1) /\ DOMAIN listed = 1..K
            /\ \A k \in 1..(K + 1) : longer[k] = IF k = K + 1 THEN entry ELSE listed[k]
        BY <3>1, <3>2
      <3>4. \A k \in 1..(K + 1) : k = K + 1 \/ k \in 1..K
        BY <3>1
      <3>5. K + 1 \in 1..(K + 1) /\ \A k \in 1..K : k \in 1..(K + 1) /\ k # K + 1
        BY <3>1
      <3> QED BY <3>1, <3>3, <3>4, <3>5 DEF ToSet
    <2>10. next \in NestStates(S)
      BY <2>3, <2>5, <2>9 DEF NestStates
    <2>11. ToSet(pushed) \subseteq after
      BY <1>11, <2>1, <2>6
    <2>12. \A k \in ((n + 1) + 1)..Len(sorted) : \A a \in after : Encloses(a, sorted[k]) => a \in ToSet(pushed)
      BY <1>1, <1>19, <1>20, <2>1, <2>6
    <2>13. IsListing(S, longer, after)
      <3>1. IsFiniteSet(before) /\ Len(listed) = Cardinality(before)
        BY <1>4 DEF IsListing
      <3>2. IsFiniteSet(after) /\ Cardinality(after) = Cardinality(before) + 1
        BY <1>10, <2>1, <3>1, FS_AddElement
      <3>3. {e.symbol : e \in ToSet(longer)} = after
        <4>1. {e.symbol : e \in ToSet(listed)} = before /\ entry.symbol = x
          BY <1>4, <2>2 DEF IsListing
        <4> QED BY <2>1, <2>9, <4>1
      <3>4. \A e \in ToSet(longer) : ToSet(e.within) = Enclosing(S, e.symbol)
        <4>1. ToSet(entry.within) = Enclosing(S, entry.symbol)
          BY <1>14, <2>1, <2>2
        <4>2. \A e \in ToSet(listed) : ToSet(e.within) = Enclosing(S, e.symbol)
          BY <1>4 DEF IsListing
        <4> QED BY <2>9, <4>1, <4>2
      <3> QED BY <2>9, <3>1, <3>2, <3>3, <3>4 DEF IsListing
    <2> QED BY <1>17, <2>3, <2>4, <2>7, <2>10, <2>11, <2>12, <2>13 DEF IsNested
  <1> QED BY <1>24, <1>25

(* The whole outline of such symbols.                                       *)
LEMMA NestLists ==
    ASSUME NEW symbols, NEW S, Distinct(symbols, S), Laminar(S)
    PROVE  IsListing(S, Nest(symbols), {x \in S : Shallow(S, x)})
  <1>1. PICK sorted, N : sorted = Sorted(symbols) /\ N = Len(sorted)
    OBVIOUS
  <1>2. InVisits(S, sorted, N)
    <2>1. PICK K : K = Len(symbols)
      OBVIOUS
    <2>2. /\ Distinct(sorted, S) /\ Len(sorted) = K
          /\ \A j, k \in 1..K : j < k => ~Encloses(sorted[k], sorted[j])
                                         /\ sorted[j].open.si <= sorted[k].open.si
      BY <1>1, <2>1, SortedVisits
    <2> QED BY <1>1, <2>2 DEF InVisits
  <1> DEFINE V == NestStates(S)
             b == [stack |-> <<>>, listed |-> <<>>]
             F(f, n) == IF n = 0 THEN b ELSE Walked(f[n - 1], sorted[n])
             Is(f) == f = [n \in 0..N |-> F(f, n)]
  <1>3. N \in Nat /\ sorted \in Seq(S) /\ \A n \in 1..N : sorted[n] \in S
    BY <1>1, <1>2 DEF InVisits, Distinct
  <1>4. b \in V
    <2>1. <<>> \in Seq(S) /\ <<>> \in Seq(Entries(S))
      OBVIOUS
    <2> QED BY <2>1 DEF NestStates
  <1>5. IsNested(S, sorted, 0, b)
    <2>1. PICK none : none = VisitedOf(S, sorted, 0)
      OBVIOUS
    <2>2. none = {}
      <3>1. ~\E k \in 1..0 : TRUE
        OBVIOUS
      <3> QED BY <2>1, <3>1 DEF VisitedOf
    <2>3. ToSet(<<>>) = {} /\ Len(<<>>) = 0 /\ <<>> \in Seq(Entries(S))
      BY DEF ToSet
    <2>4. IsFiniteSet({}) /\ Cardinality({}) = 0
      BY FS_EmptySet
    <2>5. IsListing(S, <<>>, {})
      BY <2>3, <2>4 DEF IsListing
    <2>6. Chain(<<>>)
      BY DEF Chain
    <2> QED BY <1>4, <2>1, <2>2, <2>3, <2>5, <2>6 DEF IsNested
  <1>6. \A k \in 1..N : k - 1 \in 0..N /\ k - 1 \in Nat /\ k - 1 \in 0..(N - 1) /\ (k - 1) + 1 = k
    BY <1>3
  <1>7. ASSUME NEW n \in 1..N, NEW v, IsNested(S, sorted, n - 1, v)
        PROVE  IsNested(S, sorted, n, Walked(v, sorted[n]))
    <2>1. PICK m : m = n - 1
      OBVIOUS
    <2>2. m \in 0..(N - 1) /\ m + 1 = n /\ IsNested(S, sorted, m, v)
      BY <1>6, <1>7, <2>1
    <2> QED BY <1>2, <2>2, WalkKeeps
  <1>8. ASSUME NEW v \in V, NEW n \in 1..N PROVE Walked(v, sorted[n]) \in V
    <2>1. PICK x, stack, listed, trim :
             /\ x = sorted[n] /\ stack = v.stack /\ listed = v.listed /\ trim = Trimmed(stack, x) /\ x \in S
      BY <1>3
    <2>2. v = [stack |-> stack, listed |-> listed] /\ stack \in Seq(S) /\ listed \in Seq(Entries(S))
      BY <2>1 DEF NestStates
    <2>3. trim \in Seq(S)
      <3>1. PICK K, around, m : /\ K = Len(stack) /\ around = {k \in DOMAIN stack : Encloses(stack[k], x)}
                                /\ m = IF around = {} THEN 0 ELSE Max(around)
        OBVIOUS
      <3>2. K \in Nat /\ around \in SUBSET Nat /\ (\A k \in around : k \in 1..K) /\ \A k \in around : k <= K
        BY <2>2, <3>1
      <3>3. m \in 0..K
        <4>1. CASE around = {}
          BY <3>1, <3>2, <4>1
        <4>2. CASE around # {}
          <5>1. PICK g \in around : \A k \in around : k <= g
            BY <3>2, <4>2, GreatestOf
          <5>2. \A k \in around : g >= k
            BY <3>2, <5>1
          <5>3. Max(around) \in around
            BY <5>2 DEF Max
          <5> QED BY <3>1, <3>2, <4>2, <5>3
        <4> QED BY <4>1, <4>2
      <3>4. trim = SubSeq(stack, 1, m)
        BY <2>1, <3>1 DEF Trimmed, Take
      <3>5. stack \in Seq(S) /\ K = Len(stack) /\ K \in Nat /\ m \in 0..K
        BY <2>2, <3>1, <3>2, <3>3
      <3>6. SubSeq(stack, 1, m) \in Seq(S)
        BY ONLY <3>5
      <3> QED BY <3>4, <3>6
    <2>4. PICK entry : entry = [symbol |-> x, within |-> trim]
      OBVIOUS
    <2>5. entry \in Entries(S)
      BY <2>1, <2>3, <2>4 DEF Entries
    <2>6. Append(trim, x) \in Seq(S)
      BY <2>1, <2>3
    <2>7. Append(listed, entry) \in Seq(Entries(S))
      BY <2>2, <2>5
    <2>8. Walked(v, x) = IF Len(trim) >= MaxDepth THEN [stack |-> trim, listed |-> listed]
                         ELSE [stack |-> Append(trim, x), listed |-> Append(listed, entry)]
      BY <2>1, <2>2, <2>4 DEF Walked
    <2>9. [stack |-> trim, listed |-> listed] \in V
      BY <2>2, <2>3 DEF NestStates
    <2>10. [stack |-> Append(trim, x), listed |-> Append(listed, entry)] \in V
      BY <2>6, <2>7 DEF NestStates
    <2> HIDE DEF V
    <2> QED BY <2>1, <2>8, <2>9, <2>10
  <1>9. Nest(symbols) = (CHOOSE f : Is(f))[N].listed
    BY <1>1 DEF Nest, Walked, Trimmed
  <1> HIDE DEF V
  <1>10. \E h : Is(h)
    <2> DEFINE g == [n \in 1..N |-> [v \in V |-> Walked(v, sorted[n])]]
    <2>1. g \in [1..N -> [V -> V]]
      BY <1>8
    <2>2. PICK f : Follows(f, V, N, b, g)
      <3> HIDE DEF g, b
      <3> QED BY <1>3, <1>4, <2>1, Recursion
    <2>3. /\ f \in [0..N -> V] /\ f[0] = b
          /\ \A n \in 1..N : f[n] = Walked(f[n - 1], sorted[n])
      <3> HIDE DEF b
      <3> QED BY <2>2, <1>6 DEF Follows
    <2>4. \A n \in 0..N : f[n] = F(f, n)
      <3> TAKE n \in 0..N
      <3> HIDE DEF b
      <3>1. n # 0 => n \in 1..N
        BY <1>3
      <3> QED BY <2>3, <3>1
    <2>5. Is(f)
      <3> HIDE DEF F
      <3> QED BY <2>3, <2>4
    <2> HIDE DEF Is
    <2> QED BY <2>5
  <1> DEFINE after == CHOOSE h : Is(h)
  <1>11. Is(after)
    <2> HIDE DEF Is
    <2> QED BY <1>10
  <1>12. \A n \in 0..N : after[n] = F(after, n)
    <2> HIDE DEF F, after
    <2> QED BY <1>11
  <1>13. Nest(symbols) = after[N].listed
    BY <1>9
  <1> DEFINE T == {n \in Nat : n <= N => IsNested(S, sorted, n, after[n])}
  <1> HIDE DEF after, Is
  <1>14. 0 \in T
    <2>1. after[0] = b
      BY <1>3, <1>12
    <2> HIDE DEF b
    <2> QED BY <1>5, <2>1
  <1>15. ASSUME NEW n \in T PROVE n + 1 \in T
    <2> SUFFICES ASSUME n + 1 <= N PROVE IsNested(S, sorted, n + 1, after[n + 1])
      OBVIOUS
    <2>1. n \in Nat /\ n <= N /\ n + 1 \in 1..N /\ n + 1 \in 0..N /\ n + 1 # 0 /\ (n + 1) - 1 = n
      BY <1>3
    <2>2. after[n + 1] = Walked(after[n], sorted[n + 1])
      BY <1>12, <2>1
    <2>3. IsNested(S, sorted, n, after[n])
      BY <2>1
    <2> QED BY <1>7, <2>1, <2>2, <2>3
  <1>16. T = Nat
    <2> HIDE DEF T
    <2>1. T \in SUBSET Nat
      BY DEF T
    <2> QED BY <1>14, <1>15, <2>1, Induction
  <1>17. IsNested(S, sorted, N, after[N])
    <2>1. N \in T
      <3> HIDE DEF T
      <3> QED BY <1>3, <1>16
    <2> QED BY <1>3, <2>1
  <1>18. VisitedOf(S, sorted, N) = {x \in S : Shallow(S, x)}
    <2>1. S = ToSet(sorted) /\ DOMAIN sorted = 1..N
      BY <1>1, <1>2, <1>3 DEF InVisits, Distinct
    <2>2. \A x \in S : \E k \in 1..N : x = sorted[k]
      BY <2>1 DEF ToSet
    <2> QED BY <2>2 DEF VisitedOf
  <1> QED BY <1>13, <1>17, <1>18 DEF IsNested
-----------------------------------------------------------------------------
(* The events of a parse: rules are numbered as they open, close once, the  *)
(* inner first, and match tokens in the order of the text, no rule opening  *)
(* at a token another closed at.                                            *)
OpensOf(events)  == {n \in DOMAIN events : events[n].state = "open"}
ClosesOf(events) == {n \in DOMAIN events : events[n].state = "close"}

Numbered(events) ==
    /\ \A n \in DOMAIN events : events[n].state \in {"open", "close"} /\ events[n].i \in Nat
    /\ \A n \in OpensOf(events) : events[n].i <= Cardinality(OpensOf(events))
    /\ \A m, n \in OpensOf(events) : m < n => events[m].i < events[n].i

Matched(events) ==
    /\ \A c \in ClosesOf(events) : \E o \in OpensOf(events) :
          o < c /\ events[o].i = events[c].i /\ events[o].name = events[c].name
    /\ \A c, d \in ClosesOf(events) : events[c].i = events[d].i => c = d
    /\ \A c \in ClosesOf(events), o \in OpensOf(events) : o < c /\ events[c].i < events[o].i =>
          \E d \in ClosesOf(events) : d < c /\ events[d].i = events[o].i

(* Of two events, the later one's token.                                    *)
Passes(e, f) ==
    e.token # NoToken /\ f.token # NoToken =>
        /\ e.token.si <= f.token.si
        /\ e.state = "close" /\ f.state = "open" => e.token.si < f.token.si

WellNested(events) ==
    /\ events \in Seq(ToSet(events)) /\ Numbered(events) /\ Matched(events)
    /\ \A m, n \in DOMAIN events : m < n => Passes(events[m], events[n])
    /\ \A n \in DOMAIN events : events[n].forced => events[n].token = NoToken

(* An event that may come next.                                             *)
MayOpen(events, e) == e.state = "open" /\ e.i = Cardinality(OpensOf(events)) + 1

MayClose(events, e) ==
    /\ e.state = "close" /\ e.i \in Nat
    /\ \E o \in OpensOf(events) : events[o].i = e.i /\ events[o].name = e.name
    /\ \A c \in ClosesOf(events) : events[c].i # e.i
    /\ \A o \in OpensOf(events) : e.i < events[o].i => \E d \in ClosesOf(events) : events[d].i = events[o].i

LEMMA NextEventNests ==
    ASSUME NEW events, WellNested(events), NEW e, MayOpen(events, e) \/ MayClose(events, e),
           \A n \in DOMAIN events : Passes(events[n], e), e.forced => e.token = NoToken,
           NEW longer, longer = Append(events, e)
    PROVE  WellNested(longer)
  <1>1. PICK N, S : N = Len(events) /\ S = ToSet(events)
    OBVIOUS
  <1>2. events \in Seq(S)
    BY <1>1 DEF WellNested
  <1>3. /\ N \in Nat /\ DOMAIN events = 1..N /\ DOMAIN longer = 1..(N + 1)
        /\ longer \in Seq(S \cup {e}) /\ Len(longer) = N + 1
        /\ \A n \in 1..(N + 1) : longer[n] = IF n = N + 1 THEN e ELSE events[n]
    BY <1>1, <1>2
  <1>4. /\ \A n \in 1..(N + 1) : n = N + 1 \/ n \in 1..N
        /\ \A n \in 1..N : n \in 1..(N + 1) /\ n # N + 1 /\ n < N + 1
        /\ N + 1 \in 1..(N + 1) /\ N + 1 \notin 1..N
    BY <1>3
  <1>5. longer[N + 1] = e /\ \A n \in 1..N : longer[n] = events[n]
    BY <1>3, <1>4
  <1>6. longer \in Seq(ToSet(longer))
    BY <1>3 DEF ToSet
  <1>7. PICK O, C, P, D : O = OpensOf(events) /\ C = ClosesOf(events) /\ P = OpensOf(longer) /\ D = ClosesOf(longer)
    OBVIOUS
  <1>8. /\ P = O \cup (IF e.state = "open" THEN {N + 1} ELSE {})
        /\ D = C \cup (IF e.state = "close" THEN {N + 1} ELSE {})
        /\ O \subseteq 1..N /\ C \subseteq 1..N
    BY <1>3, <1>4, <1>5, <1>7 DEF OpensOf, ClosesOf
  <1>9. PICK k : k = Cardinality(O) /\ k \in Nat /\ IsFiniteSet(O)
    <2>1. IsFiniteSet(1..N)
      BY <1>3, FS_Interval
    <2>2. IsFiniteSet(O)
      BY <1>8, <2>1, FS_Subset
    <2> QED BY <2>2, FS_CardinalityType
  <1>10. /\ \A n \in 1..N : events[n].state \in {"open", "close"} /\ events[n].i \in Nat
         /\ \A n \in O : events[n].i <= k
         /\ \A m, n \in O : m < n => events[m].i < events[n].i
    BY <1>3, <1>7, <1>9 DEF WellNested, Numbered
  <1>11. /\ \A c \in C : \E o \in O : o < c /\ events[o].i = events[c].i /\ events[o].name = events[c].name
         /\ \A c, d \in C : events[c].i = events[d].i => c = d
         /\ \A c \in C, o \in O : o < c /\ events[c].i < events[o].i =>
               \E d \in C : d < c /\ events[d].i = events[o].i
    BY <1>7 DEF WellNested, Matched
  <1>12. \A m, n \in 1..(N + 1) : m < n => Passes(longer[m], longer[n])
    <2> SUFFICES ASSUME NEW m \in 1..(N + 1), NEW n \in 1..(N + 1), m < n
                 PROVE  Passes(longer[m], longer[n])
      OBVIOUS
    <2>1. m \in 1..N
      BY <1>3
    <2>2. CASE n = N + 1
      BY <1>3, <1>5, <2>1, <2>2
    <2>3. CASE n \in 1..N
      <3>1. Passes(events[m], events[n])
        BY <1>3, <2>1, <2>3 DEF WellNested
      <3> QED BY <1>5, <2>1, <2>3, <3>1
    <2> QED BY <1>4, <2>2, <2>3
  <1>13. \A n \in 1..(N + 1) : longer[n].forced => longer[n].token = NoToken
    BY <1>3, <1>4, <1>5 DEF WellNested
  <1>14. CASE MayOpen(events, e)
    <2>1. e.state = "open" /\ e.i = k + 1 /\ e.i \in Nat
      BY <1>7, <1>9, <1>14 DEF MayOpen
    <2>2. P = O \cup {N + 1} /\ D = C /\ N + 1 \notin O
      BY <1>4, <1>8, <2>1
    <2>3. Cardinality(P) = k + 1
      BY <1>9, <2>2, FS_AddElement
    <2>4. Numbered(longer)
      <3>1. \A n \in 1..(N + 1) : longer[n].state \in {"open", "close"} /\ longer[n].i \in Nat
        BY <1>4, <1>5, <1>10, <2>1
      <3>2. ASSUME NEW n \in P PROVE longer[n].i <= k + 1
        <4>1. CASE n = N + 1
          <5>1. longer[n].i = k + 1
            BY <1>5, <2>1, <4>1
          <5>2. k + 1 <= k + 1
            BY <1>9
          <5> QED BY <5>1, <5>2
        <4>2. CASE n \in O
          <5>1. longer[n].i = events[n].i /\ events[n].i <= k /\ events[n].i \in Nat
            BY <1>5, <1>8, <1>10, <4>2
          <5> QED BY <1>9, <5>1
        <4> QED BY <2>2, <4>1, <4>2
      <3>3. ASSUME NEW m \in P, NEW n \in P, m < n PROVE longer[m].i < longer[n].i
        <4>1. m \in 1..(N + 1) /\ n \in 1..(N + 1)
          BY <1>4, <1>8, <2>2
        <4>2. m \in 1..N /\ m \in O
          BY <1>3, <2>2, <3>3, <4>1
        <4>3. longer[m].i = events[m].i /\ events[m].i <= k /\ events[m].i \in Nat
          BY <1>5, <1>10, <4>2
        <4>4. CASE n = N + 1
          <5>1. longer[n].i = k + 1
            BY <1>5, <2>1, <4>4
          <5>2. PICK x : x = events[m].i /\ x \in Nat /\ x <= k
            BY <4>3
          <5>3. x < k + 1
            BY ONLY <1>9, <5>2
          <5> QED BY <4>3, <5>1, <5>2, <5>3
        <4>5. CASE n \in O
          BY <1>5, <1>8, <1>10, <3>3, <4>2, <4>5
        <4> QED BY <2>2, <4>4, <4>5
      <3> QED BY <1>3, <1>7, <2>3, <3>1, <3>2, <3>3 DEF Numbered
    <2>5. Matched(longer)
      <3>1. \A c \in D : \E o \in P : o < c /\ longer[o].i = longer[c].i /\ longer[o].name = longer[c].name
        <4> TAKE c \in D
        <4>1. PICK o \in O : o < c /\ events[o].i = events[c].i /\ events[o].name = events[c].name
          BY <1>11, <2>2
        <4> QED BY <1>5, <1>8, <2>2, <4>1
      <3>2. \A c, d \in D : longer[c].i = longer[d].i => c = d
        <4> TAKE c, d \in D
        <4>1. longer[c] = events[c] /\ longer[d] = events[d] /\ c \in C /\ d \in C
          BY <1>5, <1>8, <2>2
        <4> QED BY <1>11, <4>1
      <3>3. ASSUME NEW c \in D, NEW o \in P, o < c, longer[c].i < longer[o].i
            PROVE  \E d \in D : d < c /\ longer[d].i = longer[o].i
        <4>1. c \in C /\ c \in 1..N
          BY <1>8, <2>2
        <4>2. o \in O
          <5>1. ~(N + 1 < c)
            BY <1>3, <4>1
          <5> QED BY <2>2, <3>3, <5>1
        <4>3. events[c].i < events[o].i
          BY <1>5, <1>8, <3>3, <4>1, <4>2
        <4>4. PICK d \in C : d < c /\ events[d].i = events[o].i
          BY <1>11, <3>3, <4>1, <4>2, <4>3
        <4> QED BY <1>5, <1>8, <2>2, <4>2, <4>4
      <3>4. \A c \in D : \A o \in P : o < c /\ longer[c].i < longer[o].i =>
               \E d \in D : d < c /\ longer[d].i = longer[o].i
        BY <3>3
      <3> QED BY ONLY <1>7, <3>1, <3>2, <3>4 DEF Matched
    <2> QED BY <1>3, <1>6, <1>12, <1>13, <2>4, <2>5 DEF WellNested
  <1>15. CASE MayClose(events, e)
    <2>1. /\ e.state = "close" /\ e.i \in Nat
          /\ \E o \in O : events[o].i = e.i /\ events[o].name = e.name
          /\ \A c \in C : events[c].i # e.i
          /\ \A o \in O : e.i < events[o].i => \E d \in C : events[d].i = events[o].i
      BY <1>7, <1>15 DEF MayClose
    <2>2. P = O /\ D = C \cup {N + 1}
      BY <1>8, <2>1
    <2>3. Numbered(longer)
      <3>1. \A n \in 1..(N + 1) : longer[n].state \in {"open", "close"} /\ longer[n].i \in Nat
        BY <1>4, <1>5, <1>10, <2>1
      <3>2. \A n \in P : longer[n].i <= k
        BY <1>5, <1>8, <1>10, <2>2
      <3>3. \A m, n \in P : m < n => longer[m].i < longer[n].i
        BY <1>5, <1>8, <1>10, <2>2
      <3> QED BY <1>3, <1>7, <1>9, <2>2, <3>1, <3>2, <3>3 DEF Numbered
    <2>4. Matched(longer)
      <3>1. \A c \in D : \E o \in P : o < c /\ longer[o].i = longer[c].i /\ longer[o].name = longer[c].name
        <4> TAKE c \in D
        <4>1. CASE c = N + 1
          <5>1. PICK o \in O : events[o].i = e.i /\ events[o].name = e.name
            BY <2>1
          <5> QED BY <1>4, <1>5, <1>8, <2>2, <4>1, <5>1
        <4>2. CASE c \in C
          <5>1. PICK o \in O : o < c /\ events[o].i = events[c].i /\ events[o].name = events[c].name
            BY <1>11, <4>2
          <5> QED BY <1>5, <1>8, <2>2, <4>2, <5>1
        <4> QED BY <2>2, <4>1, <4>2
      <3>2. \A c, d \in D : longer[c].i = longer[d].i => c = d
        <4> TAKE c, d \in D
        <4>1. \A b \in C : longer[b] = events[b] /\ events[b].i # e.i
          BY <1>5, <1>8, <2>1
        <4>2. (c \in C \/ c = N + 1) /\ (d \in C \/ d = N + 1) /\ longer[N + 1].i = e.i
          BY <1>5, <2>2
        <4>3. ASSUME c \in C, d \in C, longer[c].i = longer[d].i PROVE c = d
          <5>1. events[c].i = events[d].i
            BY <4>1, <4>3
          <5> QED BY <1>11, <4>3, <5>1
        <4> QED BY <4>1, <4>2, <4>3
      <3>3. ASSUME NEW c \in D, NEW o \in P, o < c, longer[c].i < longer[o].i
            PROVE  \E d \in D : d < c /\ longer[d].i = longer[o].i
        <4>1. o \in O /\ longer[o] = events[o]
          BY <1>5, <1>8, <2>2
        <4>2. CASE c = N + 1
          <5>1. PICK d \in C : events[d].i = events[o].i
            BY <1>5, <2>1, <3>3, <4>1, <4>2
          <5> QED BY <1>4, <1>5, <1>8, <2>2, <4>1, <4>2, <5>1
        <4>3. CASE c \in C
          <5>1. PICK d \in C : d < c /\ events[d].i = events[o].i
            BY <1>5, <1>8, <1>11, <3>3, <4>1, <4>3
          <5> QED BY <1>5, <1>8, <2>2, <4>1, <5>1
        <4> QED BY <2>2, <4>2, <4>3
      <3>4. \A c \in D : \A o \in P : o < c /\ longer[c].i < longer[o].i =>
               \E d \in D : d < c /\ longer[d].i = longer[o].i
        BY <3>3
      <3> QED BY ONLY <1>7, <3>1, <3>2, <3>4 DEF Matched
    <2> QED BY <1>3, <1>6, <1>12, <1>13, <2>3, <2>4 DEF WellNested
  <1> QED BY <1>14, <1>15

(* The tokens matched are at the cursor or before it.                       *)
IsBefore(text, e, c, o) ==
    \E p \in 0..Len(text) :
        e.token.si = Bytes(text)[p] /\ p <= c /\ (e.state = "close" => p < o)

NestedInv ==
    /\ WellNested(rules) /\ (rules = <<>> => cursor = Fresh)
    /\ cursor.close <= cursor.open /\ cursor.open <= cursor.close + 1 /\ cursor.close <= Len(buffer)
    /\ \A n \in DOMAIN rules : rules[n].token # NoToken =>
          IsBefore(buffer, rules[n], cursor.close, cursor.open)

(* The cursor moves as the event's token does.                              *)
Advances(e) ==
    \/ e.token = NoToken /\ UNCHANGED cursor
    \/ \E run \in Runs(buffer) :
          /\ e.token = RunToken(buffer, run) /\ ~e.forced
          /\ \/ /\ e.state = "open" /\ cursor.open <= run[1]
                /\ cursor' = [open |-> run[1], close |-> run[1], past |-> run[2]]
             \/ /\ e.state = "close" /\ cursor.close <= run[1]
                /\ cursor' = [open |-> run[1] + 1, close |-> run[1], past |-> run[2]]

LEMMA AnnouncedNests ==
    ASSUME RuledInv, NestedInv, NEW e, Announce(e), MayOpen(rules, e) \/ MayClose(rules, e), Advances(e)
    PROVE  NestedInv'
  <1>1. rules' = Append(rules, e) /\ buffer' = buffer
    BY DEF Announce
  <1>2. PICK K, B : K = Len(buffer) /\ B = Bytes(buffer)
    OBVIOUS
  <1>3. buffer \in Seq(Char) /\ K \in Nat
    BY <1>2 DEF RuledInv, Kept, Sound
  <1>4. \A a, b \in 0..K : B[a] \in Nat /\ (a <= b <=> B[a] <= B[b])
    BY <1>2, <1>3, UnitsGrow DEF Bytes
  <1>5. PICK o, c : o = cursor.open /\ c = cursor.close
    OBVIOUS
  <1>6. o \in Nat /\ c \in 0..K /\ c <= o /\ o <= c + 1
    <2>1. o \in Nat /\ c \in Nat
      BY <1>5 DEF RuledInv
    <2>2. c <= o /\ o <= c + 1 /\ c <= K
      BY <1>2, <1>5 DEF NestedInv
    <2> QED BY <1>3, <2>1, <2>2
  <1>7. PICK ev, N, longer : ev = rules /\ N = Len(rules) /\ longer = rules'
    OBVIOUS
  <1>8. /\ N \in Nat /\ DOMAIN ev = 1..N /\ DOMAIN longer = 1..(N + 1) /\ longer = Append(ev, e)
        /\ \A n \in 1..(N + 1) : longer[n] = IF n = N + 1 THEN e ELSE ev[n]
    <2>1. ev \in Seq(ToSet(ev)) /\ longer = Append(ev, e) /\ N = Len(ev)
      BY <1>1, <1>7 DEF RuledInv
    <2> QED BY <2>1
  <1>9. \A n \in 1..N : ev[n].token # NoToken => IsBefore(buffer, ev[n], c, o)
    BY <1>5, <1>7, <1>8 DEF NestedInv
  <1>10. MayOpen(ev, e) \/ MayClose(ev, e)
    BY <1>7
  <1>11. longer # <<>>
    BY <1>8
  <1>12. CASE e.token = NoToken /\ UNCHANGED cursor
    <2>1. \A n \in DOMAIN ev : Passes(ev[n], e)
      BY <1>12 DEF Passes
    <2>2. WellNested(ev)
      BY <1>7 DEF NestedInv
    <2>3. WellNested(longer)
      BY <1>8, <1>10, <1>12, <2>1, <2>2, NextEventNests
    <2>4. ASSUME NEW n \in DOMAIN longer, longer[n].token # NoToken
          PROVE  IsBefore(buffer, longer[n], c, o)
      <3>1. n # N + 1
        BY <1>8, <1>12, <2>4
      <3>2. n \in 1..N /\ longer[n] = ev[n]
        BY <1>8, <3>1
      <3> QED BY <1>9, <2>4, <3>2
    <2>5. /\ cursor'.close <= cursor'.open /\ cursor'.open <= cursor'.close + 1
          /\ cursor'.close <= Len(buffer')
      BY <1>1, <1>12 DEF NestedInv
    <2>6. cursor'.close = c /\ cursor'.open = o
      BY <1>5, <1>12
    <2> QED BY <1>1, <1>7, <1>11, <2>3, <2>4, <2>5, <2>6 DEF NestedInv
  <1>13. ASSUME NEW run \in Runs(buffer), e.token = RunToken(buffer, run), ~e.forced,
                \/ /\ e.state = "open" /\ cursor.open <= run[1]
                   /\ cursor' = [open |-> run[1], close |-> run[1], past |-> run[2]]
                \/ /\ e.state = "close" /\ cursor.close <= run[1]
                   /\ cursor' = [open |-> run[1] + 1, close |-> run[1], past |-> run[2]]
         PROVE  NestedInv'
    <2>1. PICK m, t : m = run[1] /\ t = e.token
      OBVIOUS
    <2>2. m \in 0..K /\ t.si = B[m] /\ t.si \in Nat
      <3>1. IsFrom(buffer, t, m)
        BY <1>3, <1>13, <2>1, RunIsFrom
      <3> QED BY <1>2, <3>1 DEF IsFrom
    <2>3. PICK r : r = cursor'.open
      OBVIOUS
    <2>4. /\ cursor'.close = m /\ c <= m /\ r \in Nat /\ m <= r /\ r <= m + 1 /\ o <= r
          /\ (e.state = "open" => o <= m) /\ (e.state = "close" => m < r)
      <3>1. CASE e.state = "open" /\ o <= m /\ cursor' = [open |-> m, close |-> m, past |-> run[2]]
        <4>1. r = m /\ cursor'.close = m /\ o <= m /\ e.state # "close"
          BY <2>3, <3>1
        <4> QED BY <1>6, <2>2, <4>1
      <3>2. CASE e.state = "close" /\ c <= m /\ cursor' = [open |-> m + 1, close |-> m, past |-> run[2]]
        <4>1. r = m + 1 /\ cursor'.close = m /\ c <= m /\ e.state # "open"
          BY <2>3, <3>2
        <4> QED BY <1>6, <2>2, <4>1
      <3> QED BY <1>5, <1>13, <2>1, <3>1, <3>2
    <2>5. ASSUME NEW n \in 1..N, ev[n].token # NoToken
          PROVE  /\ ev[n].token.si <= t.si
                 /\ ev[n].state = "close" /\ e.state = "open" => ev[n].token.si < t.si
                 /\ IsBefore(buffer, ev[n], m, r)
      <3>1. PICK p \in 0..K : ev[n].token.si = B[p] /\ p <= c /\ (ev[n].state = "close" => p < o)
        BY <1>2, <1>9, <2>5 DEF IsBefore
      <3>2. p <= m /\ p \in Nat
        BY <1>6, <2>2, <2>4, <3>1
      <3>3. ev[n].state = "close" /\ e.state = "open" => p < m
        BY <1>6, <2>2, <2>4, <3>1
      <3>4. ev[n].state = "close" => p < r
        BY <1>6, <2>4, <3>1, <3>2
      <3>5. B[p] <= B[m] /\ (p < m => B[p] < B[m])
        <4>1. B[p] \in Nat /\ B[m] \in Nat /\ (p <= m <=> B[p] <= B[m]) /\ (m <= p <=> B[m] <= B[p])
          BY <1>4, <2>2, <3>1
        <4>2. PICK x, y : x = B[p] /\ y = B[m]
          OBVIOUS
        <4>3. x \in Nat /\ y \in Nat /\ (p <= m <=> x <= y) /\ (m <= p <=> y <= x) /\ m \in Nat /\ p \in Nat
          BY <2>2, <3>2, <4>1, <4>2
        <4>4. x <= y /\ (p < m => x < y)
          BY <3>2, <4>3
        <4> QED BY <4>2, <4>4
      <3> QED BY <1>2, <2>2, <3>1, <3>2, <3>3, <3>4, <3>5 DEF IsBefore
    <2>6. \A n \in DOMAIN ev : Passes(ev[n], e)
      BY <1>8, <2>1, <2>5 DEF Passes
    <2>7. WellNested(longer)
      <3>1. WellNested(ev)
        BY <1>7 DEF NestedInv
      <3> QED BY <1>8, <1>10, <1>13, <2>6, <3>1, NextEventNests
    <2>8. ASSUME NEW n \in 1..(N + 1), longer[n].token # NoToken
          PROVE  IsBefore(buffer, longer[n], m, r)
      <3>1. CASE n = N + 1
        <4>1. longer[n] = e
          BY <1>8, <3>1
        <4>2. m <= m
          BY <2>2
        <4> QED BY <1>2, <2>1, <2>2, <2>4, <4>1, <4>2 DEF IsBefore
      <3>2. CASE n # N + 1
        <4>1. n \in 1..N /\ longer[n] = ev[n]
          BY <1>8, <3>2
        <4> QED BY <2>5, <2>8, <4>1
      <3> QED BY <3>1, <3>2
    <2>9. /\ cursor'.close <= cursor'.open /\ cursor'.open <= cursor'.close + 1
          /\ cursor'.close <= Len(buffer')
      <3>1. m <= K
        BY <1>3, <2>2
      <3> QED BY <1>1, <1>2, <2>3, <2>4, <3>1
    <2>10. cursor'.close = m /\ cursor'.open = r
      BY <2>3, <2>4
    <2> QED BY <1>1, <1>7, <1>8, <1>11, <2>7, <2>8, <2>9, <2>10 DEF NestedInv
  <1> QED BY <1>5, <1>12, <1>13 DEF Advances

(* The rule that closes is the innermost that stands.                       *)
LEMMA InnermostCloses ==
    ASSUME NestedInv, RuledInv, Standing # {}, NEW i, i = Max(Standing), NEW e,
           e.i = i, e.state = "close", e.name = rules[CHOOSE n \in Opens : rules[n].i = i].name
    PROVE  MayClose(rules, e)
  <1>1. PICK O, C, k : O = Opens /\ C = Closes /\ k = Cardinality(O)
    OBVIOUS
  <1>2. O = OpensOf(rules) /\ C = ClosesOf(rules)
    BY <1>1 DEF Opens, Closes, OpensOf, ClosesOf
  <1>3. O \subseteq DOMAIN rules /\ C \subseteq DOMAIN rules
    BY <1>1 DEF Opens, Closes
  <1>4. k \in Nat
    <2>1. DOMAIN rules = 1..Len(rules) /\ Len(rules) \in Nat
      BY DEF RuledInv
    <2>2. IsFiniteSet(DOMAIN rules)
      BY <2>1, FS_Interval
    <2>3. IsFiniteSet(O)
      BY <1>3, <2>2, FS_Subset
    <2> QED BY <1>1, <2>3, FS_CardinalityType
  <1>5. /\ \A n \in O : rules[n].i \in Nat /\ rules[n].i <= k
        /\ \A m, n \in O : m < n => rules[m].i < rules[n].i
    BY <1>1, <1>2, <1>3 DEF NestedInv, WellNested, Numbered
  <1>6. PICK stand : stand = Standing
    OBVIOUS
  <1>7. stand = {rules[n].i : n \in O} \ {rules[n].i : n \in C}
    BY <1>1, <1>6 DEF Standing
  <1>8. stand \in SUBSET Nat /\ stand # {} /\ \A n \in stand : n <= k
    BY <1>5, <1>6, <1>7
  <1>9. i \in stand /\ \A n \in stand : i >= n
    <2>1. PICK g \in stand : \A n \in stand : n <= g
      BY <1>4, <1>8, GreatestOf
    <2>2. \A n \in stand : g >= n
      BY <1>8, <2>1
    <2>3. Max(stand) \in stand /\ \A n \in stand : Max(stand) >= n
      BY <2>2 DEF Max
    <2> QED BY <1>6, <2>3
  <1>10. PICK o \in O : rules[o].i = i
    BY <1>7, <1>9
  <1>11. \E b \in O : rules[b].i = e.i /\ rules[b].name = e.name
    <2>1. PICK b : b = CHOOSE n \in O : rules[n].i = i
      OBVIOUS
    <2>2. b \in O /\ rules[b].i = i
      BY <1>10, <2>1
    <2> QED BY <1>1, <2>1, <2>2
  <1>12. \A c \in C : rules[c].i # e.i
    BY <1>7, <1>9
  <1>13. \A b \in O : e.i < rules[b].i => \E d \in C : rules[d].i = rules[b].i
    <2> SUFFICES ASSUME NEW b \in O, i < rules[b].i PROVE \E d \in C : rules[d].i = rules[b].i
      OBVIOUS
    <2>1. i \in Nat /\ rules[b].i \in Nat
      BY <1>5, <1>8, <1>9
    <2>2. PICK x : x = rules[b].i
      OBVIOUS
    <2>3. ~(i >= x)
      BY <2>1, <2>2
    <2>4. x \notin stand
      BY <1>9, <2>3
    <2> QED BY <1>7, <2>2, <2>4
  <1>14. e.i \in Nat
    BY <1>8, <1>9
  <1> QED BY <1>2, <1>11, <1>12, <1>13, <1>14 DEF MayClose

LEMMA NestingIsKept == Spec => []NestedInv
  <1>1. Init => NestedInv
    <2> SUFFICES ASSUME Init PROVE NestedInv
      OBVIOUS
    <2>1. rules = <<>> /\ cursor = Fresh /\ buffer \in Seq(Char)
      BY AnalysisAssumption DEF Init
    <2>2. PICK none : none = <<>>
      OBVIOUS
    <2>3. DOMAIN none = {} /\ none \in Seq(ToSet(none))
      BY <2>2 DEF ToSet
    <2>4. WellNested(none)
      BY <2>3 DEF WellNested, Numbered, Matched, OpensOf, ClosesOf
    <2>5. cursor.close = 0 /\ cursor.open = 0 /\ 0 <= 0 /\ 0 <= 0 + 1 /\ 0 <= Len(buffer)
      BY <2>1 DEF Fresh
    <2> QED BY <2>1, <2>2, <2>3, <2>4, <2>5 DEF NestedInv
  <1>2. RuledInv /\ NestedInv /\ RuledInv' /\ [Next]_vars => NestedInv'
    <2> SUFFICES ASSUME RuledInv, NestedInv, RuledInv', [Next]_vars PROVE NestedInv'
      OBVIOUS
    <2>1. CASE rules' = <<>> /\ cursor' = Fresh
      <3>1. PICK none : none = <<>>
        OBVIOUS
      <3>2. DOMAIN none = {} /\ none \in Seq(ToSet(none))
        BY <3>1 DEF ToSet
      <3>3. WellNested(none)
        BY <3>2 DEF WellNested, Numbered, Matched, OpensOf, ClosesOf
      <3>4. buffer' \in Seq(Char)
        BY DEF RuledInv, Kept, Sound
      <3>5. cursor'.close = 0 /\ cursor'.open = 0 /\ 0 <= 0 /\ 0 <= 0 + 1 /\ 0 <= Len(buffer')
        BY <2>1, <3>4 DEF Fresh
      <3> QED BY <2>1, <3>1, <3>2, <3>3, <3>5 DEF NestedInv
    <2>2. CASE UNCHANGED <<buffer, rules, cursor>>
      BY <2>2 DEF NestedInv
    <2>3. ASSUME NEW text \in Inserted, Edit(text) PROVE rules' = <<>> /\ cursor' = Fresh
      BY <2>3 DEF Edit, Still, NestedInv
    <2>4. ASSUME NEW text \in Opened, Replace(text) PROVE rules' = <<>> /\ cursor' = Fresh
      BY <2>4 DEF Replace, Still, NestedInv
    <2>5. CASE Query
      BY <2>2, <2>5 DEF Query
    <2>6. ASSUME NEW name \in DOMAIN Convention, Lex(name) PROVE UNCHANGED <<buffer, rules, cursor>>
      BY <2>6 DEF Lex
    <2>7. ASSUME NEW least \in Nat, NEW run \in TokenFrom(least)
          PROVE  run \in Runs(buffer) /\ least <= run[1] /\ Token(run) = RunToken(buffer, run)
      BY RunsAreTheTexts DEF RuledInv
    <2>8. cursor.open \in Nat /\ cursor.close \in Nat
      BY DEF RuledInv
    <2>9. ASSUME NEW name, OpenRule(name) PROVE NestedInv'
      <3> DEFINE Event(token) == [i |-> Cardinality(Opens) + 1, name |-> name, state |-> "open",
                                  token |-> token, forced |-> FALSE]
      <3>1. \A token : MayOpen(rules, Event(token))
        BY DEF MayOpen, Opens, OpensOf
      <3>2. CASE Announce(Event(NoToken)) /\ UNCHANGED cursor
        <4>1. PICK e : e = Event(NoToken)
          OBVIOUS
        <4>2. Announce(e) /\ MayOpen(rules, e) /\ e.token = NoToken
          BY <3>1, <3>2, <4>1
        <4>3. Advances(e)
          BY <3>2, <4>2 DEF Advances
        <4> QED BY <4>2, <4>3, AnnouncedNests
      <3>3. ASSUME NEW run \in TokenFrom(cursor.open), Announce(Event(Token(run))),
                   cursor' = [open |-> run[1], close |-> run[1], past |-> run[2]]
            PROVE  NestedInv'
        <4>1. PICK e : e = Event(Token(run))
          OBVIOUS
        <4>2. Announce(e) /\ MayOpen(rules, e) /\ e.state = "open" /\ e.token = Token(run) /\ ~e.forced
          BY <3>1, <3>3, <4>1
        <4>3. run \in Runs(buffer) /\ cursor.open <= run[1] /\ Token(run) = RunToken(buffer, run)
          BY <2>7, <2>8
        <4>4. Advances(e)
          BY <3>3, <4>2, <4>3 DEF Advances
        <4> QED BY <4>2, <4>4, AnnouncedNests
      <3> QED BY <2>9, <3>2, <3>3 DEF OpenRule
    <2>10. CASE CloseRule
      <3>1. PICK i, name : i = Max(Standing) /\ name = rules[CHOOSE n \in Opens : rules[n].i = i].name
        OBVIOUS
      <3> DEFINE Event(token, forced) ==
                     [i |-> i, name |-> name, state |-> "close", token |-> token, forced |-> forced]
      <3>2. Standing # {}
        BY <2>10 DEF CloseRule
      <3>3. \/ \E forced \in BOOLEAN : Announce(Event(NoToken, forced)) /\ UNCHANGED cursor
            \/ \E run \in TokenFrom(cursor.close) :
                  /\ Announce(Event(Token(run), FALSE))
                  /\ cursor' = [open |-> run[1] + 1, close |-> run[1], past |-> run[2]]
        BY <2>10, <3>1 DEF CloseRule
      <3>4. ASSUME NEW token, NEW forced PROVE MayClose(rules, Event(token, forced))
        <4>1. PICK e : e = Event(token, forced)
          OBVIOUS
        <4>2. e.i = i /\ e.state = "close" /\ e.name = name
          BY <4>1
        <4>3. MayClose(rules, e)
          BY <3>1, <3>2, <4>2, InnermostCloses
        <4> QED BY <4>1, <4>3
      <3>5. ASSUME NEW forced \in BOOLEAN, Announce(Event(NoToken, forced)), UNCHANGED cursor
            PROVE  NestedInv'
        <4>1. PICK e : e = Event(NoToken, forced)
          OBVIOUS
        <4>2. Announce(e) /\ MayClose(rules, e) /\ e.token = NoToken
          BY <3>4, <3>5, <4>1
        <4>3. Advances(e)
          BY <3>5, <4>2 DEF Advances
        <4> QED BY <4>2, <4>3, AnnouncedNests
      <3>6. ASSUME NEW run \in TokenFrom(cursor.close), Announce(Event(Token(run), FALSE)),
                   cursor' = [open |-> run[1] + 1, close |-> run[1], past |-> run[2]]
            PROVE  NestedInv'
        <4>1. PICK e : e = Event(Token(run), FALSE)
          OBVIOUS
        <4>2. Announce(e) /\ MayClose(rules, e) /\ e.state = "close" /\ e.token = Token(run) /\ ~e.forced
          BY <3>4, <3>6, <4>1
        <4>3. run \in Runs(buffer) /\ cursor.close <= run[1] /\ Token(run) = RunToken(buffer, run)
          BY <2>7, <2>8
        <4>4. Advances(e)
          BY <3>6, <4>2, <4>3 DEF Advances
        <4> QED BY <4>2, <4>4, AnnouncedNests
      <3> QED BY <3>3, <3>5, <3>6
    <2>11. CASE EndParse
      BY <2>1, <2>11 DEF EndParse
    <2>12. CASE UNCHANGED vars
      BY <2>2, <2>12 DEF vars
    <2> QED BY <2>1, <2>2, <2>3, <2>4, <2>5, <2>6, <2>9, <2>10, <2>11, <2>12 DEF Next
  <1> QED BY <1>1, <1>2, RulesAreKept, PTL DEF Spec

(* What the outline makes of such events: what waits for its close, and the *)
(* symbols of what has closed.                                              *)
Visible(events, o) == events[o].name \in Outlined /\ events[o].token # NoToken

Waiting(events, o) == [i |-> events[o].i, token |-> events[o].token]

StandTo(events, n) ==
    {o \in OpensOf(events) : o <= n /\ Visible(events, o)
                             /\ \A c \in ClosesOf(events) : c <= n => events[c].i # events[o].i}

SymbolAt(events, o, c) ==
    [i |-> events[o].i, open |-> events[o].token,
     end |-> IF events[c].token = NoToken THEN events[o].token ELSE events[c].token]

Ends(events, c) == events[c].token # NoToken \/ events[c].forced

Spanning(events, o, c) == events[o].i = events[c].i /\ Visible(events, o) /\ Ends(events, c)

SymbolsTo(events, n) ==
    {SymbolAt(events, p[1], p[2]) : p \in
        {p \in OpensOf(events) \X ClosesOf(events) : p[2] <= n /\ Spanning(events, p[1], p[2])}}

Outlining(events, n, done) ==
    /\ done = [open |-> {Waiting(events, o) : o \in StandTo(events, n)}, closed |-> done.closed]
    /\ done.closed \in Seq(SymbolsTo(events, n)) /\ ToSet(done.closed) = SymbolsTo(events, n)
    /\ \A j, k \in 1..Len(done.closed) : done.closed[j].i = done.closed[k].i => j = k

LEMMA OneOpening ==
    ASSUME NEW events, WellNested(events)
    PROVE  /\ \A a, b \in OpensOf(events) : events[a].i = events[b].i => a = b
           /\ \A o \in OpensOf(events), c \in ClosesOf(events) :
                 events[o].i = events[c].i => o < c /\ events[o].name = events[c].name
  <1>1. \A n \in DOMAIN events : n \in Nat /\ events[n].i \in Nat
    <2>1. \A n \in DOMAIN events : n \in Nat
      BY DEF WellNested
    <2> QED BY <2>1 DEF WellNested, Numbered
  <1>2. ASSUME NEW a \in OpensOf(events), NEW b \in OpensOf(events), events[a].i = events[b].i
        PROVE  a = b
    <2>1. a \in DOMAIN events /\ b \in DOMAIN events
      BY DEF OpensOf
    <2>2. PICK x : x = events[a].i
      OBVIOUS
    <2>3. x \in Nat /\ events[b].i = x /\ ~(x < x) /\ a \in Nat /\ b \in Nat
      BY <1>1, <1>2, <2>1, <2>2
    <2>4. ~(a < b) /\ ~(b < a)
      BY <2>2, <2>3 DEF WellNested, Numbered
    <2> QED BY <2>3, <2>4
  <1>3. ASSUME NEW o \in OpensOf(events), NEW c \in ClosesOf(events), events[o].i = events[c].i
        PROVE  o < c /\ events[o].name = events[c].name
    <2>1. PICK b \in OpensOf(events) : b < c /\ events[b].i = events[c].i /\ events[b].name = events[c].name
      BY DEF WellNested, Matched
    <2>2. b = o
      BY <1>2, <1>3, <2>1
    <2> QED BY <2>1, <2>2
  <1> QED BY <1>2, <1>3

LEMMA FewAsSequence ==
    ASSUME NEW x
    PROVE  SetToSeq({x}) = <<x>> /\ SetToSeq({}) = <<>>
  <1>1. IsFiniteSet({}) /\ Cardinality({}) = 0
    BY FS_EmptySet
  <1>2. Cardinality({x}) = 1
    BY FS_Singleton
  <1>3. SetToSeq({x}) = <<x>>
    <2> DEFINE f == <<x>>
    <2>1. f \in [1..1 -> {x}] /\ IsInjective(f)
      BY DEF IsInjective
    <2>2. \A g \in [1..1 -> {x}] : g = f
      OBVIOUS
    <2>3. SetToSeq({x}) = CHOOSE g \in [1..1 -> {x}] : IsInjective(g)
      BY <1>2 DEF SetToSeq
    <2> HIDE DEF f
    <2>4. SetToSeq({x}) = f
      BY <2>1, <2>2, <2>3
    <2> QED BY <2>4 DEF f
  <1>4. SetToSeq({}) = <<>>
    <2> DEFINE f == <<>>
    <2>1. f \in [1..0 -> {}] /\ IsInjective(f)
      BY DEF IsInjective
    <2>2. \A g \in [1..0 -> {}] : g = f
      OBVIOUS
    <2>3. SetToSeq({}) = CHOOSE g \in [1..0 -> {}] : IsInjective(g)
      BY <1>1 DEF SetToSeq
    <2> HIDE DEF f
    <2>4. SetToSeq({}) = f
      BY <2>1, <2>2, <2>3
    <2> QED BY <2>4 DEF f
  <1> QED BY <1>3, <1>4

LEMMA ListedFollows ==
    ASSUME NEW events, WellNested(events), NEW n \in 0..(Len(events) - 1), NEW done, Outlining(events, n, done),
           NEW e, e = events[n + 1]
    PROVE  Outlining(events, n + 1, Listed(done, e))
  <1>1. PICK N, O, C, m : /\ N = Len(events) /\ O = OpensOf(events) /\ C = ClosesOf(events) /\ m = n + 1
    OBVIOUS
  <1>2. N \in Nat /\ DOMAIN events = 1..N /\ n \in Nat /\ m \in 1..N /\ n < m /\ ~(m <= n) /\ m <= m
    <2>1. events \in Seq(ToSet(events))
      BY DEF WellNested
    <2>2. N \in Nat /\ DOMAIN events = 1..N
      BY <1>1, <2>1
    <2> QED BY <1>1, <2>2
  <1>3. O \subseteq 1..N /\ C \subseteq 1..N /\ O \cap C = {} /\ (m \in O <=> e.state = "open")
        /\ (m \in C <=> e.state = "close") /\ e.state \in {"open", "close"} /\ e = events[m]
    <2>1. e.state \in {"open", "close"}
      BY <1>1, <1>2 DEF WellNested, Numbered
    <2> QED BY <1>1, <1>2, <2>1 DEF OpensOf, ClosesOf
  <1>4. /\ \A a, b \in O : events[a].i = events[b].i => a = b
        /\ \A o \in O, c \in C : events[o].i = events[c].i => o < c /\ events[o].name = events[c].name
    BY <1>1, OneOpening
  <1>5. \A k \in 1..N : k <= m <=> (k <= n \/ k = m)
    BY <1>1, <1>2
  <1>6. PICK open, closed : open = done.open /\ closed = done.closed
    OBVIOUS
  <1>7. PICK stand, stood, spans, spanned :
           /\ stand = StandTo(events, n) /\ stood = StandTo(events, m)
           /\ spans = SymbolsTo(events, n) /\ spanned = SymbolsTo(events, m)
    OBVIOUS
  <1>8. /\ done = [open |-> open, closed |-> closed] /\ open = {Waiting(events, o) : o \in stand}
        /\ closed \in Seq(spans) /\ ToSet(closed) = spans
        /\ \A j, k \in 1..Len(closed) : closed[j].i = closed[k].i => j = k
    BY <1>6, <1>7 DEF Outlining
  <1>9. \A o : o \in stand <=> /\ o \in O /\ o <= n /\ Visible(events, o)
                               /\ \A c \in C : c <= n => events[c].i # events[o].i
    BY <1>1, <1>7 DEF StandTo
  <1>10. \A o : o \in stood <=> /\ o \in O /\ o <= m /\ Visible(events, o)
                                /\ \A c \in C : c <= m => events[c].i # events[o].i
    BY <1>1, <1>7 DEF StandTo
  <1>11. \A s : s \in spans <=> \E o \in O, c \in C : c <= n /\ Spanning(events, o, c) /\ s = SymbolAt(events, o, c)
    <2>1. PICK P : P = {p \in O \X C : p[2] <= n /\ Spanning(events, p[1], p[2])}
      OBVIOUS
    <2>2. spans = {SymbolAt(events, p[1], p[2]) : p \in P}
      BY <1>1, <1>7, <2>1 DEF SymbolsTo
    <2>3. \A p \in P : p[1] \in O /\ p[2] \in C /\ p[2] <= n /\ Spanning(events, p[1], p[2])
      BY <2>1
    <2>4. ASSUME NEW o \in O, NEW c \in C, c <= n, Spanning(events, o, c) PROVE SymbolAt(events, o, c) \in spans
      <3>1. PICK p : p = <<o, c>>
        OBVIOUS
      <3>2. p \in P /\ p[1] = o /\ p[2] = c
        BY <2>1, <2>4, <3>1
      <3> QED BY <2>2, <3>2
    <2> QED BY <2>2, <2>3, <2>4
  <1>12. \A s : s \in spanned <=> \E o \in O, c \in C : c <= m /\ Spanning(events, o, c) /\ s = SymbolAt(events, o, c)
    <2>1. PICK P : P = {p \in O \X C : p[2] <= m /\ Spanning(events, p[1], p[2])}
      OBVIOUS
    <2>2. spanned = {SymbolAt(events, p[1], p[2]) : p \in P}
      BY <1>1, <1>7, <2>1 DEF SymbolsTo
    <2>3. \A p \in P : p[1] \in O /\ p[2] \in C /\ p[2] <= m /\ Spanning(events, p[1], p[2])
      BY <2>1
    <2>4. ASSUME NEW o \in O, NEW c \in C, c <= m, Spanning(events, o, c) PROVE SymbolAt(events, o, c) \in spanned
      <3>1. PICK p : p = <<o, c>>
        OBVIOUS
      <3>2. p \in P /\ p[1] = o /\ p[2] = c
        BY <2>1, <2>4, <3>1
      <3> QED BY <2>2, <3>2
    <2> QED BY <2>2, <2>3, <2>4
  <1>13. PICK begun, rest : begun = {w \in open : w.i = e.i} /\ rest = open \ begun
    OBVIOUS
  <1>14. \A w : w \in open <=> \E o \in stand : w = Waiting(events, o)
    BY <1>8
  <1> DEFINE Result(q, l) == [open |-> q, closed |-> l]
             Good(q, l) == /\ q = {Waiting(events, o) : o \in stood}
                           /\ l \in Seq(spanned) /\ ToSet(l) = spanned
                           /\ \A j, k \in 1..Len(l) : l[j].i = l[k].i => j = k
  <1>15. ASSUME NEW q, NEW l, Good(q, l), Listed(done, e) = Result(q, l)
         PROVE  Outlining(events, n + 1, Listed(done, e))
    BY <1>1, <1>7, <1>15 DEF Outlining
  <1> HIDE DEF Good
  <1>16. ASSUME stood = stand, spanned = spans, Listed(done, e) = done
         PROVE  Outlining(events, n + 1, Listed(done, e))
    <2>1. Good(open, closed)
      BY <1>8, <1>16 DEF Good
    <2> QED BY <1>8, <1>15, <1>16, <2>1
  <1>17. CASE e.name \notin Outlined
    <2>1. Listed(done, e) = done
      BY <1>17 DEF Listed
    <2>2. m \in O => ~Visible(events, m)
      BY <1>3, <1>17 DEF Visible
    <2>3. \A o \in O : Visible(events, o) /\ m \in C => events[m].i # events[o].i
      BY <1>3, <1>4, <1>17 DEF Visible
    <2>4. stood = stand
      BY <1>3, <1>5, <1>9, <1>10, <2>2, <2>3
    <2>5. \A o \in O : m \in C => ~Spanning(events, o, m)
      BY <2>3 DEF Spanning
    <2>6. \A c \in C : c <= m <=> (c <= n \/ (c = m /\ m \in C))
      BY <1>3, <1>5
    <2>7. spanned = spans
      <3>1. \A o \in O, c \in C : c <= m /\ Spanning(events, o, c) <=> c <= n /\ Spanning(events, o, c)
        BY <2>5, <2>6
      <3> QED BY <1>11, <1>12, <3>1
    <2> QED BY <1>16, <2>1, <2>4, <2>7
  <1>18. CASE e.state = "open"
    <2>1. m \in O /\ m \notin C
      BY <1>3, <1>18
    <2>2. \A c \in C : c <= m <=> c <= n
      BY <1>3, <1>5, <2>1
    <2>3. spanned = spans
      BY <1>11, <1>12, <2>2
    <2>4. \A c \in C : c <= n => events[c].i # events[m].i
      <3> SUFFICES ASSUME NEW c \in C, c <= n, events[c].i = events[m].i PROVE FALSE
        OBVIOUS
      <3>1. m < c
        BY <1>4, <2>1
      <3> QED BY <1>2, <1>3, <3>1
    <2>5. \A o : o \in stood <=> o \in stand \/ (o = m /\ Visible(events, m))
      BY <1>2, <1>3, <1>5, <1>9, <1>10, <2>1, <2>2, <2>4
    <2>6. CASE e.token = NoToken
      <3>1. ~Visible(events, m)
        BY <1>3, <2>6 DEF Visible
      <3>2. stood = stand
        BY <2>5, <3>1
      <3>3. Listed(done, e) = done
        BY <1>18, <2>6 DEF Listed
      <3> QED BY <1>16, <2>3, <3>2, <3>3
    <2>7. CASE e.token # NoToken /\ e.name \in Outlined
      <3>1. Visible(events, m)
        BY <1>3, <2>7 DEF Visible
      <3>2. begun = {}
        <4> SUFFICES ASSUME NEW o \in stand, Waiting(events, o).i = e.i PROVE FALSE
          BY <1>13, <1>14
        <4>1. events[o].i = events[m].i /\ o \in O /\ o <= n
          BY <1>3, <1>9 DEF Waiting
        <4>2. o = m
          BY <1>4, <2>1, <4>1
        <4> QED BY <1>2, <4>1, <4>2
      <3>3. Listed(done, e) = Result(open \cup {[i |-> e.i, token |-> e.token]}, closed)
        <4>1. Listed(done, e) = [done EXCEPT !.open = rest \cup {[i |-> e.i, token |-> e.token]}]
          BY <1>6, <1>13, <1>18, <2>7 DEF Listed
        <4>2. rest = open
          BY <1>13, <3>2
        <4> QED BY <1>8, <4>1, <4>2
      <3>4. [i |-> e.i, token |-> e.token] = Waiting(events, m)
        BY <1>3 DEF Waiting
      <3>5. open \cup {[i |-> e.i, token |-> e.token]} = {Waiting(events, o) : o \in stood}
        BY <1>8, <2>5, <3>1, <3>4
      <3>6. Good(open \cup {[i |-> e.i, token |-> e.token]}, closed)
        BY <1>8, <2>3, <3>5 DEF Good
      <3> QED BY <1>15, <3>3, <3>6
    <2> QED BY <1>17, <2>6, <2>7
  <1>19. CASE e.state = "close" /\ e.name \in Outlined
    <2>1. m \in C /\ m \notin O
      BY <1>3, <1>19
    <2>2. PICK o \in O : o < m /\ events[o].i = events[m].i /\ events[o].name = events[m].name
      BY <1>1, <2>1 DEF WellNested, Matched
    <2>3. o <= n /\ o # m /\ events[o].i = e.i /\ events[o].name \in Outlined
      BY <1>1, <1>2, <1>3, <1>19, <2>2
    <2>4. \A c \in C : c <= n => events[c].i # e.i
      <3> SUFFICES ASSUME NEW c \in C, c <= n, events[c].i = events[m].i PROVE FALSE
        BY <1>3
      <3>1. c = m
        BY <1>1, <2>1 DEF WellNested, Matched
      <3> QED BY <1>2, <3>1
    <2>5. o \in stand <=> Visible(events, o)
      BY <1>9, <2>3, <2>4
    <2>6. \A b \in stand : b # o => events[b].i # e.i
      BY <1>4, <1>9, <2>3
    <2>7. stood = stand \ {o}
      <3>1. \A b \in O : b <= m <=> b <= n
        BY <1>3, <1>5, <2>1
      <3>2. \A b \in O : (\A c \in C : c <= m => events[c].i # events[b].i) <=>
                         ((\A c \in C : c <= n => events[c].i # events[b].i) /\ events[b].i # e.i)
        BY <1>3, <1>5, <2>1
      <3>3. o \notin stood
        BY <2>3, <3>2, <1>10
      <3> QED BY <1>9, <1>10, <2>6, <3>1, <3>2, <3>3
    <2>8. begun = IF Visible(events, o) THEN {Waiting(events, o)} ELSE {}
      <3>1. \A b \in stand : Waiting(events, b).i = e.i <=> b = o
        BY <2>3, <2>6 DEF Waiting
      <3> QED BY <1>13, <1>14, <2>5, <3>1
    <2>9. rest = {Waiting(events, b) : b \in stood}
      <3>1. \A b \in stand : Waiting(events, b).i = e.i <=> b = o
        BY <2>3, <2>6 DEF Waiting
      <3>2. \A w : w \in rest <=> w \in open /\ w.i # e.i
        BY <1>13
      <3>3. \A w : w \in rest <=> \E b \in stood : w = Waiting(events, b)
        BY <1>14, <2>7, <3>1, <3>2
      <3> QED BY <3>3
    <2>10. \A s : s \in spanned <=> s \in spans \/ (Spanning(events, o, m) /\ s = SymbolAt(events, o, m))
      <3>1. \A b \in O : Spanning(events, b, m) => b = o
        BY <1>4, <2>2 DEF Spanning
      <3>2. \A c \in C : c <= m <=> c <= n \/ c = m
        BY <1>3, <1>5
      <3> QED BY <1>11, <1>12, <2>1, <3>1, <3>2
    <2>11. Spanning(events, o, m) <=> Visible(events, o) /\ (e.token # NoToken \/ e.forced)
      BY <1>3, <2>2 DEF Spanning, Ends
    <2>12. CASE e.token = NoToken /\ ~e.forced
      <3>1. Listed(done, e) = [done EXCEPT !.open = rest]
        BY <1>6, <1>13, <1>19, <2>12 DEF Listed
      <3>2. Listed(done, e) = Result(rest, closed)
        BY <1>8, <3>1
      <3>3. spanned = spans
        BY <2>10, <2>11, <2>12
      <3>4. Good(rest, closed)
        BY <1>8, <2>9, <3>3 DEF Good
      <3> QED BY <1>15, <3>2, <3>4
    <2>13. CASE e.token # NoToken \/ e.forced
      <3>1. PICK ended : ended = SetToSeq({[i |-> b.i, open |-> b.token, end |-> IF e.token = NoToken THEN b.token ELSE e.token] : b \in begun})
        OBVIOUS
      <3>2. Listed(done, e) = Result(rest, closed \o ended)
        <4>1. ~(e.name \notin Outlined \/ (e.state = "open" /\ e.token = NoToken)) /\ e.state # "open"
              /\ ~(e.token = NoToken /\ ~e.forced)
          BY <1>19, <2>13
        <4> QED BY <1>6, <1>13, <3>1, <4>1 DEF Listed
      <3>3. CASE Visible(events, o)
        <4>1. PICK s : s = SymbolAt(events, o, m)
          OBVIOUS
        <4>2. ended = <<s>>
          <5>1. PICK w : w = Waiting(events, o)
            OBVIOUS
          <5>2. [i |-> w.i, open |-> w.token, end |-> IF e.token = NoToken THEN w.token ELSE e.token] = s
            BY <1>3, <4>1, <5>1 DEF Waiting, SymbolAt
          <5>3. begun = {w}
            BY <2>8, <3>3, <5>1
          <5>4. ended = SetToSeq({s})
            BY <3>1, <5>2, <5>3
          <5> QED BY <5>4, FewAsSequence
        <4>3. \A x : x \in spanned <=> x \in spans \/ x = s
          BY <2>10, <2>11, <2>13, <3>3, <4>1
        <4>4. s \in spanned /\ spans \subseteq spanned /\ s.i = e.i
          BY <2>3, <4>1, <4>3 DEF SymbolAt
        <4>5. \A x \in spans : x.i # e.i
          <5> SUFFICES ASSUME NEW b \in O, NEW c \in C, c <= n, Spanning(events, b, c), events[b].i = e.i PROVE FALSE
            BY <1>11 DEF SymbolAt
          <5>1. events[c].i = e.i
            BY DEF Spanning
          <5> QED BY <2>4, <5>1
        <4>6. PICK K, l : K = Len(closed) /\ l = closed \o <<s>>
          OBVIOUS
        <4>7. /\ K \in Nat /\ l \in Seq(spanned) /\ Len(l) = K + 1 /\ DOMAIN l = 1..(K + 1) /\ DOMAIN closed = 1..K
              /\ \A k \in 1..(K + 1) : l[k] = IF k = K + 1 THEN s ELSE closed[k]
          <5>1. closed \in Seq(spanned)
            BY <1>8, <4>4
          <5> QED BY <4>4, <4>6, <5>1
        <4>8. /\ \A k \in 1..(K + 1) : k = K + 1 \/ k \in 1..K
              /\ \A k \in 1..K : k \in 1..(K + 1) /\ k # K + 1
              /\ K + 1 \in 1..(K + 1)
          BY <4>7
        <4>9. l[K + 1] = s /\ \A k \in 1..K : l[k] = closed[k] /\ closed[k] \in spans
          <5>1. \A k \in 1..K : closed[k] \in spans
            BY <1>8, <4>7 DEF ToSet
          <5> QED BY <4>7, <4>8, <5>1
        <4>10. ToSet(l) = spanned
          <5>1. ToSet(l) = {l[k] : k \in 1..(K + 1)} /\ spans = {closed[k] : k \in 1..K}
            BY <1>8, <4>7 DEF ToSet
          <5>2. \A x : x \in ToSet(l) <=> x \in spans \/ x = s
            BY <4>8, <4>9, <5>1
          <5> QED BY <4>3, <5>2
        <4>11. \A j, k \in 1..(K + 1) : l[j].i = l[k].i => j = k
          <5> SUFFICES ASSUME NEW j \in 1..(K + 1), NEW k \in 1..(K + 1), l[j].i = l[k].i PROVE j = k
            OBVIOUS
          <5>1. CASE j \in 1..K /\ k \in 1..K
            BY <1>8, <4>6, <4>9, <5>1
          <5>2. CASE j = K + 1 /\ k \in 1..K
            BY <4>4, <4>5, <4>9, <5>2
          <5>3. CASE k = K + 1 /\ j \in 1..K
            BY <4>4, <4>5, <4>9, <5>3
          <5> QED BY <4>8, <5>1, <5>2, <5>3
        <4>12. Good(rest, l)
          BY <2>9, <4>7, <4>10, <4>11 DEF Good
        <4> QED BY <1>15, <3>2, <4>2, <4>6, <4>12
      <3>4. CASE ~Visible(events, o)
        <4>1. {[i |-> b.i, open |-> b.token, end |-> IF e.token = NoToken THEN b.token ELSE e.token] : b \in begun} = {}
          BY <2>8, <3>4
        <4>2. ended = <<>>
          BY <3>1, <4>1, FewAsSequence
        <4>3. closed \o ended = closed
          BY <1>8, <4>2
        <4>4. spanned = spans
          BY <2>10, <2>11, <3>4
        <4>5. Good(rest, closed)
          BY <1>8, <2>9, <4>4 DEF Good
        <4> QED BY <1>15, <3>2, <4>3, <4>5
      <3> QED BY <3>3, <3>4
    <2> QED BY <2>12, <2>13
  <1> QED BY <1>3, <1>17, <1>18, <1>19

LEMMA ClosedAreSymbols ==
    ASSUME NEW events, WellNested(events), NEW S, S = SymbolsTo(events, Len(events))
    PROVE  /\ Distinct(Closed(events), S) /\ IsFiniteSet(S)
           /\ \A s, t \in S : s.i = t.i => s = t
  <1>1. PICK N, X, tokens : N = Len(events) /\ X = ToSet(events) /\ tokens = {e.token : e \in X}
    OBVIOUS
  <1>2. events \in Seq(X)
    BY <1>1 DEF WellNested
  <1>3. N \in Nat /\ DOMAIN events = 1..N /\ \A n \in 1..N : n - 1 \in 0..(N - 1) /\ (n - 1) + 1 = n
    <2>1. N \in Nat /\ DOMAIN events = 1..N
      BY <1>1, <1>2
    <2> QED BY <2>1
  <1>4. \A e \in X : e.token \in {NoToken} \cup tokens
    BY <1>1
  <1>5. PICK after : /\ after[0] = [open |-> {}, closed |-> <<>>]
                     /\ \A n \in 1..N : after[n] = Listed(after[n - 1], events[n])
                     /\ Closed(events) = after[N].closed
    BY <1>1, <1>2, <1>4, OutlineFollows
  <1> DEFINE T == {n \in Nat : n <= N => Outlining(events, n, after[n])}
  <1>6. 0 \in T
    <2>1. \A n \in OpensOf(events) \cup ClosesOf(events) : ~(n <= 0)
      BY <1>3 DEF OpensOf, ClosesOf
    <2>2. StandTo(events, 0) = {}
      BY <2>1 DEF StandTo
    <2>3. SymbolsTo(events, 0) = {}
      BY <2>1 DEF SymbolsTo
    <2>4. <<>> \in Seq({}) /\ ToSet(<<>>) = {} /\ Len(<<>>) = 0
      BY DEF ToSet
    <2>5. {Waiting(events, o) : o \in StandTo(events, 0)} = {}
      BY <2>2
    <2>6. PICK done : done = [open |-> {}, closed |-> <<>>]
      OBVIOUS
    <2>7. done.closed = <<>> /\ done = [open |-> {}, closed |-> done.closed]
      BY <2>6
    <2>8. \A j, k \in 1..0 : done.closed[j].i = done.closed[k].i => j = k
      OBVIOUS
    <2>9. Outlining(events, 0, done)
      BY <2>3, <2>4, <2>5, <2>7, <2>8 DEF Outlining
    <2> QED BY <1>5, <2>6, <2>9
  <1>7. ASSUME NEW n \in T PROVE n + 1 \in T
    <2> SUFFICES ASSUME n + 1 <= N PROVE Outlining(events, n + 1, after[n + 1])
      OBVIOUS
    <2>1. n \in 0..(N - 1) /\ n + 1 \in 1..N /\ (n + 1) - 1 = n /\ Outlining(events, n, after[n])
      BY <1>3
    <2>2. after[n + 1] = Listed(after[n], events[n + 1])
      BY <1>5, <2>1
    <2> HIDE DEF T
    <2> QED BY <1>1, <2>1, <2>2, ListedFollows
  <1>8. T = Nat
    <2> HIDE DEF T
    <2>1. T \in SUBSET Nat
      BY DEF T
    <2> QED BY <1>6, <1>7, <2>1, Induction
  <1>9. Outlining(events, N, after[N])
    <2>1. N \in T
      <3> HIDE DEF T
      <3> QED BY <1>3, <1>8
    <2> QED BY <1>3, <2>1
  <1>10. PICK closed, L : closed = Closed(events) /\ L = Len(closed)
    OBVIOUS
  <1>11. /\ closed \in Seq(S) /\ ToSet(closed) = S
         /\ \A j, k \in 1..L : closed[j].i = closed[k].i => j = k
    BY <1>1, <1>5, <1>9, <1>10 DEF Outlining
  <1>12. \A j, k \in 1..L : closed[j] = closed[k] => j = k
    BY <1>11
  <1>13. L \in Nat /\ DOMAIN closed = 1..L
    BY <1>10, <1>11
  <1>14. IsFiniteSet(S)
    BY <1>11, <1>12, <1>13, CountOfDistinct
  <1>15. ASSUME NEW s \in S, NEW t \in S, s.i = t.i PROVE s = t
    <2>1. PICK j \in 1..L, k \in 1..L : s = closed[j] /\ t = closed[k]
      BY <1>11, <1>13 DEF ToSet
    <2> QED BY <1>11, <1>15, <2>1
  <1> QED BY <1>10, <1>11, <1>12, <1>14, <1>15 DEF Distinct

(* Spans tell the nesting of rules that are told apart.                     *)
TokensTold(events) ==
    \A n \in DOMAIN events : events[n].token # NoToken => events[n].token.si \in Nat

IsSpan(events, s, o, c) ==
    /\ o \in OpensOf(events) /\ c \in ClosesOf(events) /\ Spanning(events, o, c)
    /\ s = SymbolAt(events, o, c)

LEMMA SpanEnds ==
    ASSUME NEW events, WellNested(events), TokensTold(events), NEW s, NEW o, NEW c, IsSpan(events, s, o, c)
    PROVE  /\ o \in Nat /\ c \in Nat /\ o < c /\ s.i = events[o].i /\ s.i = events[c].i /\ s.i \in Nat
           /\ s.open.si \in Nat /\ s.end.si \in Nat /\ s.open.si <= s.end.si
           /\ s.open = events[o].token /\ events[o].token # NoToken
           /\ IF events[c].forced THEN s.end = s.open
              ELSE events[c].token # NoToken /\ s.end = events[c].token
  <1>1. o \in DOMAIN events /\ c \in DOMAIN events /\ events[o].state = "open" /\ events[c].state = "close"
    BY DEF IsSpan, OpensOf, ClosesOf
  <1>2. o \in Nat /\ c \in Nat
    <2>1. DOMAIN events \subseteq Nat
      BY DEF WellNested
    <2> QED BY <1>1, <2>1
  <1>3. events[o].i = events[c].i /\ events[o].token # NoToken /\ Ends(events, c)
    BY DEF IsSpan, Spanning, Visible
  <1>4. o < c
    BY <1>3, OneOpening DEF IsSpan
  <1>5. /\ s.i = events[o].i /\ s.open = events[o].token
        /\ s.end = IF events[c].token = NoToken THEN events[o].token ELSE events[c].token
    BY DEF IsSpan, SymbolAt
  <1>6. s.i \in Nat
    BY <1>1, <1>5 DEF WellNested, Numbered
  <1>7. events[c].forced <=> events[c].token = NoToken
    BY <1>1, <1>3 DEF WellNested, Ends
  <1>8. s.open.si \in Nat
    BY <1>1, <1>3, <1>5 DEF TokensTold
  <1>9. s.end.si \in Nat /\ s.open.si <= s.end.si
    <2>1. CASE events[c].token = NoToken
      BY <1>5, <1>8, <2>1
    <2>2. CASE events[c].token # NoToken
      <3>1. Passes(events[o], events[c])
        BY <1>1, <1>4 DEF WellNested
      <3> QED BY <1>1, <1>3, <1>5, <2>2, <3>1 DEF Passes, TokensTold
    <2> QED BY <2>1, <2>2
  <1> QED BY <1>2, <1>3, <1>4, <1>5, <1>6, <1>7, <1>8, <1>9

LEMMA SpansTellNesting ==
    ASSUME NEW events, WellNested(events), TokensTold(events),
           NEW s, NEW o, NEW c, IsSpan(events, s, o, c), NEW t, NEW p, NEW d, IsSpan(events, t, p, d),
           o < p, s.open.si = t.open.si => s.end.si # t.end.si /\ ~events[c].forced
    PROVE  /\ Encloses(s, t) <=> d < c /\ ~events[c].forced
           /\ ~Encloses(t, s) /\ (p < c => d < c)
  <1>1. /\ o \in DOMAIN events /\ c \in DOMAIN events /\ p \in DOMAIN events /\ d \in DOMAIN events
        /\ events[o].state = "open" /\ events[c].state = "close"
        /\ events[p].state = "open" /\ events[d].state = "close"
    BY DEF IsSpan, OpensOf, ClosesOf
  <1>2. /\ o \in Nat /\ c \in Nat /\ o < c /\ s.i = events[o].i /\ s.i = events[c].i /\ s.i \in Nat
        /\ s.open.si \in Nat /\ s.end.si \in Nat /\ s.open.si <= s.end.si
        /\ s.open = events[o].token /\ events[o].token # NoToken
        /\ IF events[c].forced THEN s.end = s.open ELSE events[c].token # NoToken /\ s.end = events[c].token
    BY SpanEnds
  <1>3. /\ p \in Nat /\ d \in Nat /\ p < d /\ t.i = events[p].i /\ t.i = events[d].i /\ t.i \in Nat
        /\ t.open.si \in Nat /\ t.end.si \in Nat /\ t.open.si <= t.end.si
        /\ t.open = events[p].token /\ events[p].token # NoToken
        /\ IF events[d].forced THEN t.end = t.open ELSE events[d].token # NoToken /\ t.end = events[d].token
    BY SpanEnds
  <1>4. p # c
    BY <1>1
  <1>5. PICK a, b, x, y : a = s.open.si /\ b = s.end.si /\ x = t.open.si /\ y = t.end.si
    OBVIOUS
  <1>6. a \in Nat /\ b \in Nat /\ x \in Nat /\ y \in Nat /\ a <= b /\ x <= y
    BY <1>2, <1>3, <1>5
  <1>7. a <= x
    <2>1. Passes(events[o], events[p])
      BY <1>1 DEF WellNested
    <2> QED BY <1>2, <1>3, <1>5, <2>1 DEF Passes
  <1>9. a = x => b # y /\ ~events[c].forced
    BY <1>5
  <1>10. Encloses(s, t) <=> (a <= x /\ y <= b)
    BY <1>5 DEF Encloses
  <1>11. Encloses(t, s) <=> (x <= a /\ b <= y)
    BY <1>5 DEF Encloses
  <1>12. events[c].forced => b = a
    BY <1>2, <1>5
  <1>13. ASSUME p < c PROVE d < c
    <2>1. events[c].i < events[p].i
      BY <1>1 DEF IsSpan, WellNested, Numbered, SymbolAt, Spanning
    <2>2. PICK e \in ClosesOf(events) : e < c /\ events[e].i = events[p].i
      BY <1>13, <2>1 DEF IsSpan, WellNested, Matched
    <2>3. e = d
      BY <1>3, <2>2 DEF IsSpan, WellNested, Matched
    <2> QED BY <2>2, <2>3
  <1>14. CASE p < c
    <2>1. d < c
      BY <1>13, <1>14
    <2>2. ASSUME ~events[c].forced PROVE y <= b
      <3>1. CASE events[d].forced
        <4>1. Passes(events[p], events[c])
          BY <1>1, <1>14 DEF WellNested
        <4> QED BY <1>2, <1>3, <1>5, <2>2, <3>1, <4>1 DEF Passes
      <3>2. CASE ~events[d].forced
        <4>1. Passes(events[d], events[c])
          BY <1>1, <2>1 DEF WellNested
        <4> QED BY <1>2, <1>3, <1>5, <2>2, <3>2, <4>1 DEF Passes
      <3> QED BY <3>1, <3>2
    <2>4. ~events[c].forced => Encloses(s, t)
      BY <1>7, <1>10, <2>2
    <2>5. events[c].forced => ~Encloses(s, t)
      <3>1. a = x => ~events[c].forced
        BY <1>9
      <3>2. b = a /\ y <= b => a = x
        BY ONLY <1>6, <1>7
      <3> QED BY <1>10, <1>12, <3>1, <3>2
    <2>6. ~Encloses(t, s)
      <3> SUFFICES ASSUME x <= a, b <= y PROVE FALSE
        BY <1>11
      <3>1. a = x
        BY <1>6, <1>7
      <3>2. ~events[c].forced /\ b # y
        BY <1>9, <3>1
      <3>3. y <= b
        BY <2>2, <3>2
      <3>4. b = y
        BY <1>6, <3>3
      <3> QED BY <3>2, <3>4
    <2> QED BY <2>1, <2>4, <2>5, <2>6
  <1>15. CASE ~(p < c)
    <2>1. c < p /\ c < d /\ ~(d < c)
      BY <1>2, <1>3, <1>4, <1>15
    <2>2. ~events[c].forced => b < x
      <3>1. Passes(events[c], events[p])
        BY <1>1, <2>1 DEF WellNested
      <3> QED BY <1>1, <1>2, <1>3, <1>5, <3>1 DEF Passes
    <2>3. ~(a <= x /\ y <= b)
      <3>1. CASE events[c].forced
        <4>1. b = a /\ a # x
          BY <1>9, <1>12, <3>1
        <4> QED BY ONLY <1>6, <1>7, <4>1
      <3>2. CASE ~events[c].forced
        <4>1. b < x
          BY <2>2, <3>2
        <4> QED BY ONLY <1>6, <4>1
      <3> QED BY <3>1, <3>2
    <2>4. ~(x <= a /\ b <= y)
      <3>1. CASE a = x
        <4>1. b < x
          BY <1>9, <2>2, <3>1
        <4> QED BY ONLY <1>6, <3>1, <4>1
      <3>2. CASE a # x
        BY ONLY <1>6, <1>7, <3>2
      <3> QED BY <3>1, <3>2
    <2> QED BY <1>10, <1>11, <1>15, <2>1, <2>3, <2>4
  <1> QED BY <1>14, <1>15

(* Where the rule of a symbol opened and where it closed.                   *)
OpeningOf(i) == Min({n \in Opens : rules[n].i = i})
ClosingOf(i) == Max({n \in Closes : rules[n].i = i})

LEMMA OneMember ==
    ASSUME NEW n \in Nat
    PROVE  Min({n}) = n /\ Max({n}) = n
  <1>1. n \in {n} /\ (\A m \in {n} : n <= m) /\ (\A m \in {n} : n >= m)
    OBVIOUS
  <1>2. Min({n}) \in {n}
    BY <1>1 DEF Min
  <1>3. Max({n}) \in {n}
    BY <1>1 DEF Max
  <1> QED BY <1>2, <1>3

LEMMA RulesAreTold ==
    ASSUME RuledInv
    PROVE  TokensTold(rules)
  <1>1. buffer \in Seq(Char)
    BY DEF RuledInv, Kept, Sound
  <1>2. ASSUME NEW t \in RuleTokens(buffer) PROVE t.si \in Nat
    <2>1. PICK run \in Runs(buffer) : t = RunToken(buffer, run)
      BY DEF RuleTokens
    <2>2. PICK n : n = run[1] /\ IsFrom(buffer, t, n)
      BY <1>1, <2>1, RunIsFrom
    <2> QED BY <2>2 DEF IsFrom
  <1>3. \A n \in DOMAIN rules : rules[n].token # NoToken => rules[n].token \in RuleTokens(buffer)
    BY DEF RuledInv, ToSet
  <1> QED BY <1>2, <1>3 DEF TokensTold

LEMMA NestingIsTold ==
    ASSUME RuledInv, NestedInv, ToldApart, NEW S, S = ToSet(Closed(rules))
    PROVE  /\ Distinct(Closed(rules), S) /\ Laminar(S)
           /\ \A s, t \in S : s.i = t.i => s = t
           /\ \A x \in S : Around(x.i) = {a.i : a \in Enclosing(S, x)}
  <1>1. PICK events, O, C : events = rules /\ O = OpensOf(rules) /\ C = ClosesOf(rules)
    OBVIOUS
  <1>2. WellNested(events) /\ TokensTold(events) /\ O = Opens /\ C = Closes
    BY <1>1, RulesAreTold DEF NestedInv, OpensOf, ClosesOf, Opens, Closes
  <1>3. /\ Distinct(Closed(events), S) /\ IsFiniteSet(S) /\ S = SymbolsTo(events, Len(events))
        /\ \A s, t \in S : s.i = t.i => s = t
    <2>1. PICK T : T = SymbolsTo(events, Len(events))
      OBVIOUS
    <2>2. Distinct(Closed(events), T) /\ IsFiniteSet(T) /\ \A s, t \in T : s.i = t.i => s = t
      BY <1>2, <2>1, ClosedAreSymbols
    <2>3. T = S
      BY <1>1, <2>2 DEF Distinct
    <2> QED BY <2>1, <2>2, <2>3
  <1>4. ASSUME NEW s \in S
        PROVE  IsSpan(events, s, OpeningOf(s.i), ClosingOf(s.i))
    <2>1. PICK p \in O \X C : Spanning(events, p[1], p[2]) /\ s = SymbolAt(events, p[1], p[2])
      BY <1>1, <1>3 DEF SymbolsTo
    <2>2. PICK o, c : o = p[1] /\ c = p[2] /\ o \in O /\ c \in C
      BY <2>1
    <2>3. IsSpan(events, s, o, c)
      BY <1>1, <2>1, <2>2 DEF IsSpan
    <2>4. o \in Nat /\ c \in Nat /\ s.i = events[o].i /\ s.i = events[c].i
      BY <1>2, <2>3, SpanEnds
    <2>5. {n \in Opens : rules[n].i = s.i} = {o}
      <3>1. \A d \in O : events[d].i = events[o].i => d = o
        BY <1>1, <1>2, <2>2, OneOpening
      <3> QED BY <1>1, <1>2, <2>2, <2>4, <3>1
    <2>6. {n \in Closes : rules[n].i = s.i} = {c}
      <3>1. \A d \in C : events[d].i = events[c].i => d = c
        BY <1>1, <1>2, <2>2 DEF WellNested, Matched
      <3> QED BY <1>1, <1>2, <2>2, <2>4, <3>1
    <2>7. OpeningOf(s.i) = o /\ ClosingOf(s.i) = c
      BY <2>4, <2>5, <2>6, OneMember DEF OpeningOf, ClosingOf
    <2> QED BY <2>3, <2>7
  <1>5. PICK op, cl : op = [s \in S |-> OpeningOf(s.i)] /\ cl = [s \in S |-> ClosingOf(s.i)]
    OBVIOUS
  <1>6. ASSUME NEW s \in S
        PROVE  /\ IsSpan(events, s, op[s], cl[s]) /\ op[s] \in Nat /\ cl[s] \in Nat /\ op[s] < cl[s]
               /\ s.open.si \in Nat /\ s.end.si \in Nat /\ s.i = events[op[s]].i
               /\ cl[s] \in Closes /\ rules[cl[s]].i = s.i
    <2>1. IsSpan(events, s, op[s], cl[s])
      BY <1>4, <1>5
    <2>2. cl[s] \in Closes
      BY <1>1, <1>2, <2>1 DEF IsSpan
    <2> QED BY <1>1, <1>2, <2>1, <2>2, SpanEnds
  <1>7. ASSUME NEW s \in S, NEW t \in S, s # t, s.open.si = t.open.si
        PROVE  s.end.si # t.end.si /\ ~events[cl[s]].forced
    <2>1. s.end.si # t.end.si /\ ~Forced(s)
      BY <1>7 DEF ToldApart
    <2>2. cl[s] \in Closes /\ rules[cl[s]].i = s.i
      BY <1>6
    <2> QED BY <1>1, <2>1, <2>2 DEF Forced
  <1>8. ASSUME NEW s \in S, NEW t \in S, op[s] < op[t]
        PROVE  /\ Encloses(s, t) <=> cl[t] < cl[s] /\ ~events[cl[s]].forced
               /\ ~Encloses(t, s) /\ (op[t] < cl[s] => cl[t] < cl[s])
    <2>1. s # t
      BY <1>6, <1>8
    <2>2. s.open.si = t.open.si => s.end.si # t.end.si /\ ~events[cl[s]].forced
      BY <1>7, <2>1
    <2>3. IsSpan(events, s, op[s], cl[s]) /\ IsSpan(events, t, op[t], cl[t])
      BY <1>6
    <2> QED BY <1>2, <1>8, <2>2, <2>3, SpansTellNesting
  <1>9. ASSUME NEW s \in S, NEW t \in S, s # t
        PROVE  /\ Encloses(s, t) <=> op[s] < op[t] /\ cl[t] < cl[s] /\ ~events[cl[s]].forced
               /\ op[s] < op[t] \/ op[t] < op[s]
    <2>1. op[s] \in Nat /\ op[t] \in Nat
      BY <1>6
    <2>2. op[s] # op[t]
      <3>1. s.i = events[op[s]].i /\ t.i = events[op[t]].i /\ s.i # t.i
        BY <1>3, <1>6, <1>9
      <3> QED BY <3>1
    <2>3. op[s] < op[t] \/ (op[t] < op[s] /\ ~(op[s] < op[t]))
      BY <2>1, <2>2
    <2> QED BY <1>8, <2>3
  <1>10. Laminar(S)
    <2>1. \A s \in S : s.open.si \in Nat /\ s.end.si \in Nat
      BY <1>6
    <2>2. ASSUME NEW a \in S, NEW b \in S, Encloses(a, b), Encloses(b, a) PROVE a = b
      <3> SUFFICES ASSUME a # b PROVE FALSE
        OBVIOUS
      <3>1. op[a] < op[b] /\ op[b] < op[a] /\ op[a] \in Nat /\ op[b] \in Nat
        BY <1>6, <1>9, <2>2
      <3> QED BY <3>1
    <2>3. ASSUME NEW a \in S, NEW b \in S, NEW x \in S, Encloses(a, x), Encloses(b, x), op[a] < op[b]
          PROVE  Encloses(a, b) \/ Encloses(b, a)
      <3>1. CASE b = x
        BY <2>3, <3>1
      <3>2. CASE b # x /\ a = x
        BY <2>3, <3>2
      <3>3. CASE b # x /\ a # x
        <4>1. op[b] < op[x] /\ cl[x] < cl[a] /\ ~events[cl[a]].forced
          BY <1>9, <2>3, <3>3
        <4>2. op[x] \in Nat /\ cl[x] \in Nat /\ op[x] < cl[x] /\ op[b] \in Nat /\ cl[a] \in Nat
          BY <1>6
        <4>3. op[b] < cl[a]
          BY <4>1, <4>2
        <4> QED BY <1>8, <2>3, <4>1, <4>3
      <3> QED BY <3>1, <3>2, <3>3
    <2>4. ASSUME NEW a \in S, NEW b \in S, NEW x \in S, Encloses(a, x), Encloses(b, x)
          PROVE  Encloses(a, b) \/ Encloses(b, a)
      <3>1. CASE a = b
        <4>1. a.open.si <= a.open.si /\ a.end.si <= a.end.si
          BY <2>1
        <4> QED BY <3>1, <4>1 DEF Encloses
      <3>2. CASE a # b
        BY <1>9, <2>3, <2>4, <3>2
      <3> QED BY <3>1, <3>2
    <2> QED BY <1>3, <2>1, <2>2, <2>4 DEF Laminar
  <1>11. ASSUME NEW x \in S PROVE Around(x.i) = {a.i : a \in Enclosing(S, x)}
    <2>1. Around(x.i) = {s.i : s \in {s \in S : /\ OpeningOf(s.i) < OpeningOf(x.i) /\ ClosingOf(x.i) < ClosingOf(s.i)
                                                /\ ~rules[ClosingOf(s.i)].forced}}
      BY DEF Around, OpeningOf, ClosingOf
    <2>2. \A s \in S : (OpeningOf(s.i) < OpeningOf(x.i) /\ ClosingOf(x.i) < ClosingOf(s.i)
                        /\ ~rules[ClosingOf(s.i)].forced) <=> (s # x /\ Encloses(s, x))
      <3> TAKE s \in S
      <3>1. /\ op[s] = OpeningOf(s.i) /\ cl[s] = ClosingOf(s.i)
            /\ op[x] = OpeningOf(x.i) /\ cl[x] = ClosingOf(x.i)
        BY <1>5
      <3>2. ~(op[x] < op[x])
        BY <1>6
      <3>3. s = x => ~(op[s] < op[x])
        BY <3>2
      <3>4. s # x => (Encloses(s, x) <=> op[s] < op[x] /\ cl[x] < cl[s] /\ ~events[cl[s]].forced)
        BY <1>9
      <3> QED BY <1>1, <3>1, <3>3, <3>4
    <2> QED BY <2>1, <2>2 DEF Enclosing
  <1> QED BY <1>1, <1>3, <1>10, <1>11

(* The outline lists every symbol with room, once, inside of what its rule  *)
(* was open in, whatever the grammar's rules match and however they fail.   *)
THEOREM OutlineIsOfTheRules == Spec => []OutlineIsNesting
  <1>1. RuledInv /\ NestedInv => OutlineIsNesting
    <2> SUFFICES ASSUME RuledInv, NestedInv, ToldApart
                 PROVE  LET symbols == Symbols
                            listed  == {s.symbol : s \in ToSet(symbols)}
                        IN  /\ listed = {s \in ToSet(Closed(rules)) : Cardinality(Around(s.i)) < MaxDepth}
                            /\ Len(symbols) = Cardinality(listed)
                            /\ \A s \in ToSet(symbols) : {w.i : w \in ToSet(s.within)} = Around(s.symbol.i)
      BY DEF OutlineIsNesting
    <2>1. PICK S, symbols : S = ToSet(Closed(rules)) /\ symbols = Symbols
      OBVIOUS
    <2>2. /\ Distinct(Closed(rules), S) /\ Laminar(S)
          /\ \A s, t \in S : s.i = t.i => s = t
          /\ \A x \in S : Around(x.i) = {a.i : a \in Enclosing(S, x)}
      BY <2>1, NestingIsTold
    <2>3. symbols = Nest(Closed(rules))
      BY <2>1 DEF Symbols, OutlineOf
    <2>4. IsListing(S, symbols, {x \in S : Shallow(S, x)})
      BY <2>2, <2>3, NestLists
    <2>5. ASSUME NEW x \in S
          PROVE  Shallow(S, x) <=> Cardinality(Around(x.i)) < MaxDepth
      <3> DEFINE E == Enclosing(S, x)
                 I == {a.i : a \in E}
                 f == [a \in E |-> a.i]
      <3>1. E \subseteq S /\ IsFiniteSet(S)
        BY <2>2 DEF Enclosing, Laminar
      <3>2. IsFiniteSet(E)
        BY <3>1, FS_Subset
      <3> HIDE DEF E
      <3>3. f \in Surjection(E, I) /\ f \in Injection(E, I)
        BY <2>2, <3>1 DEF Surjection, Injection, IsInjective
      <3> HIDE DEF f, I
      <3>4. Cardinality(I) = Cardinality(E)
        BY <3>2, <3>3, FS_Surjection
      <3>5. Around(x.i) = I
        BY <2>2 DEF E, I
      <3> QED BY <3>4, <3>5 DEF Shallow, E
    <2>6. PICK shown : shown = {x \in S : Shallow(S, x)}
      OBVIOUS
    <2>7. /\ {s.symbol : s \in ToSet(symbols)} = shown /\ Len(symbols) = Cardinality(shown)
          /\ \A s \in ToSet(symbols) : ToSet(s.within) = Enclosing(S, s.symbol)
      BY <2>4, <2>6 DEF IsListing
    <2>8. shown = {s \in ToSet(Closed(rules)) : Cardinality(Around(s.i)) < MaxDepth}
      BY <2>1, <2>5, <2>6
    <2>9. ASSUME NEW s \in ToSet(symbols) PROVE {w.i : w \in ToSet(s.within)} = Around(s.symbol.i)
      <3>1. s.symbol \in S
        BY <2>6, <2>7
      <3> QED BY <2>2, <2>7, <3>1
    <2> QED BY <2>1, <2>7, <2>8, <2>9
  <1> QED BY <1>1, RulesAreKept, NestingIsKept, PTL
============================================================================
