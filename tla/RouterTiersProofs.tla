-------------------------- MODULE RouterTiersProofs --------------------------
(* The tiers of the router, for any declarations, host, clients and         *)
(* manifests: what merging keeps of the declarations, the ties that an      *)
(* extension or a media type is reported to have, what serves a document,   *)
(* what a folder's entries may change, and that the workspace tier is what  *)
(* the manifests declare.                                                   *)
EXTENDS RouterTiers, AddressesProofs

(* The merge.                                                               *)
LEMMA TierInit == Init => TierInv
  <1> SUFFICES ASSUME Init PROVE TierInv
    OBVIOUS
  <1>1. global = <<>> /\ declared = <<>> /\ DOMAIN byId = {} /\ incoming \in Seq(Given)
    BY TiersAssumption DEF Init
  <1> QED BY <1>1 DEF TierInv, IsIndexed, KeepsOrder, LastWins

(* An entry appended to what is declared is the last of its id, and the     *)
(* first if the id is new.                                                  *)
LEMMA Appended ==
    ASSUME declared \in Seq(Given), NEW n, n = Len(declared), NEW e \in Given, declared' = Append(declared, e)
    PROVE  /\ n \in Nat /\ DOMAIN declared = 1..n /\ DOMAIN declared' = 1..(n + 1)
           /\ declared' \in Seq(Given) /\ declared'[n + 1] = e /\ \A i \in 1..n : declared'[i] = declared[i]
           /\ \A i \in 1..n : /\ IsFirst(i)' = IsFirst(i)
                              /\ IsLast(i)' => IsLast(i) /\ declared[i].id # e.id
           /\ {declared'[i].id : i \in 1..(n + 1)} = {declared[i].id : i \in 1..n} \cup {e.id}
           /\ IsFirst(n + 1)' => \A i \in 1..n : declared[i].id # e.id
  <1>1. /\ n \in Nat /\ DOMAIN declared = 1..n /\ DOMAIN declared' = 1..(n + 1)
        /\ declared' \in Seq(Given) /\ Len(declared') = n + 1 /\ declared'[n + 1] = e
        /\ \A i \in 1..n : declared'[i] = declared[i]
    OBVIOUS
  <1>2. ASSUME NEW i \in 1..n
        PROVE  IsFirst(i)' = IsFirst(i) /\ (IsLast(i)' => IsLast(i) /\ declared[i].id # e.id)
    <2>1. \A j \in 1..(i - 1) : declared'[j] = declared[j]
      BY <1>1
    <2>2. \A j \in (i + 1)..n : declared'[j] = declared[j] /\ j \in (i + 1)..(n + 1)
      BY <1>1
    <2>3. n + 1 \in (i + 1)..(n + 1)
      BY <1>1
    <2>4. IsFirst(i)' = IsFirst(i)
      BY <1>1, <2>1 DEF IsFirst
    <2>5. IsLast(i)' => IsLast(i) /\ declared[i].id # e.id
      BY <1>1, <2>2, <2>3 DEF IsLast
    <2> QED BY <2>4, <2>5
  <1>3. {declared'[i].id : i \in 1..(n + 1)} = {declared[i].id : i \in 1..n} \cup {e.id}
    <2>1. 1..(n + 1) = 1..n \cup {n + 1}
      BY <1>1
    <2> QED BY <1>1, <2>1
  <1>4. IsFirst(n + 1)' => \A i \in 1..n : declared[i].id # e.id
    <2>1. (n + 1) - 1 = n
      BY <1>1
    <2> QED BY <1>1, <2>1 DEF IsFirst
  <1> QED BY <1>1, <1>2, <1>3, <1>4

(* An entry of a known id takes the place of the old one.                   *)
LEMMA KnownKept ==
    ASSUME TierInv, Merge, Head(incoming).id \in DOMAIN byId
    PROVE  TierInv'
  <1>1. PICK e, n, p : /\ e = Head(incoming) /\ n = Len(declared) /\ p = byId[e.id]
    OBVIOUS
  <1>2. /\ e \in Given /\ declared' = Append(declared, e) /\ incoming' \in Seq(Given)
        /\ global' = [global EXCEPT ![p] = e] /\ byId' = byId /\ e.id \in DOMAIN byId
    BY <1>1 DEF TierInv, IsIndexed, Merge, PutGlobal
  <1>3. declared \in Seq(Given) /\ global \in Seq(Given) /\ p \in DOMAIN global /\ global[p].id = e.id
    BY <1>1, <1>2 DEF TierInv, IsIndexed
  <1>4. /\ n \in Nat /\ DOMAIN declared = 1..n /\ DOMAIN declared' = 1..(n + 1)
        /\ declared' \in Seq(Given) /\ declared'[n + 1] = e /\ \A i \in 1..n : declared'[i] = declared[i]
        /\ \A i \in 1..n : /\ IsFirst(i)' = IsFirst(i)
                           /\ IsLast(i)' => IsLast(i) /\ declared[i].id # e.id
        /\ {declared'[i].id : i \in 1..(n + 1)} = {declared[i].id : i \in 1..n} \cup {e.id}
        /\ IsFirst(n + 1)' => \A i \in 1..n : declared[i].id # e.id
    BY <1>1, <1>2, <1>3, Appended
  <1>5. DOMAIN byId = {declared[i].id : i \in 1..n}
    BY <1>4 DEF TierInv, IsIndexed
  <1>6. /\ global' \in Seq(Given) /\ DOMAIN global' = DOMAIN global
        /\ \A i \in DOMAIN global : global'[i] = IF i = p THEN e ELSE global[i]
    BY <1>2, <1>3
  <1>7. IsIndexed'
    <2>1. /\ \A id \in DOMAIN byId : byId[id] \in DOMAIN global
          /\ \A i \in DOMAIN global : global[i].id \in DOMAIN byId /\ byId[global[i].id] = i
          /\ \A id \in DOMAIN byId : global[byId[id]].id = id
      BY DEF TierInv, IsIndexed
    <2>2. DOMAIN byId' = {declared'[i].id : i \in DOMAIN declared'}
      BY <1>2, <1>4, <1>5
    <2>3. \A i \in DOMAIN global' : global'[i].id = global[i].id
      BY <1>3, <1>6
    <2>4. \A id \in DOMAIN byId' : byId'[id] \in DOMAIN global' /\ global'[byId'[id]].id = id
      BY <1>2, <1>6, <2>1, <2>3
    <2>5. \A i \in DOMAIN global' : global'[i].id \in DOMAIN byId' /\ byId'[global'[i].id] = i
      BY <1>2, <1>6, <2>1, <2>3
    <2> QED BY <1>2, <1>4, <1>6, <2>2, <2>4, <2>5 DEF IsIndexed
  <1>8. KeepsOrder'
    <2>1. ~ IsFirst(n + 1)'
      BY <1>2, <1>4, <1>5
    <2>2. ASSUME NEW i \in DOMAIN declared', NEW j \in DOMAIN declared', IsFirst(i)', IsFirst(j)', i < j
          PROVE  byId'[declared'[i].id] < byId'[declared'[j].id]
      <3>1. i \in 1..n /\ j \in 1..n
        <4>1. i # n + 1
          BY <2>1, <2>2
        <4>2. j # n + 1
          BY <2>1, <2>2
        <4> QED BY <1>4, <4>1, <4>2
      <3>2. IsFirst(i) /\ IsFirst(j) /\ declared'[i] = declared[i] /\ declared'[j] = declared[j]
        BY <1>4, <2>2, <3>1
      <3>3. byId[declared[i].id] < byId[declared[j].id]
        BY <1>4, <2>2, <3>1, <3>2 DEF TierInv, KeepsOrder
      <3> QED BY <1>2, <3>2, <3>3
    <2> QED BY <2>2 DEF KeepsOrder
  <1>9. LastWins'
    <2> SUFFICES ASSUME NEW i \in DOMAIN declared', IsLast(i)'
                 PROVE  global'[byId'[declared'[i].id]] = declared'[i]
      BY DEF LastWins
    <2>1. CASE i = n + 1
      BY <1>1, <1>2, <1>3, <1>4, <1>6, <2>1
    <2>2. CASE i \in 1..n
      <3>1. IsLast(i) /\ declared[i].id # e.id /\ declared'[i] = declared[i]
        BY <1>4, <2>2
      <3>2. declared[i].id \in DOMAIN byId
        BY <1>5, <2>2
      <3>3. byId[declared[i].id] \in DOMAIN global /\ global[byId[declared[i].id]].id = declared[i].id
        BY <3>2 DEF TierInv, IsIndexed
      <3>4. byId[declared[i].id] # p
        BY <1>3, <3>1, <3>3
      <3>5. global[byId[declared[i].id]] = declared[i]
        BY <1>4, <2>2, <3>1 DEF TierInv, LastWins
      <3> QED BY <1>2, <1>6, <3>1, <3>3, <3>4, <3>5
    <2> QED BY <1>4, <2>1, <2>2
  <1> QED BY <1>7, <1>8, <1>9 DEF TierInv

(* One of a new id goes last.                                               *)
LEMMA NewKept ==
    ASSUME TierInv, Merge, Head(incoming).id \notin DOMAIN byId
    PROVE  TierInv'
  <1>1. PICK e, n, p : /\ e = Head(incoming) /\ n = Len(declared) /\ p = Len(global) + 1
    OBVIOUS
  <1>2. /\ e \in Given /\ declared' = Append(declared, e) /\ incoming' \in Seq(Given)
        /\ global' = Append(global, e) /\ e.id \notin DOMAIN byId
        /\ byId' = [id \in DOMAIN byId \cup {e.id} |-> IF id = e.id THEN p ELSE byId[id]]
    BY <1>1 DEF TierInv, IsIndexed, Merge, PutGlobal
  <1>3. declared \in Seq(Given) /\ global \in Seq(Given)
    BY DEF TierInv, IsIndexed
  <1>4. /\ n \in Nat /\ DOMAIN declared = 1..n /\ DOMAIN declared' = 1..(n + 1)
        /\ declared' \in Seq(Given) /\ declared'[n + 1] = e /\ \A i \in 1..n : declared'[i] = declared[i]
        /\ \A i \in 1..n : /\ IsFirst(i)' = IsFirst(i)
                           /\ IsLast(i)' => IsLast(i) /\ declared[i].id # e.id
        /\ {declared'[i].id : i \in 1..(n + 1)} = {declared[i].id : i \in 1..n} \cup {e.id}
        /\ IsFirst(n + 1)' => \A i \in 1..n : declared[i].id # e.id
    BY <1>1, <1>2, <1>3, Appended
  <1>5. DOMAIN byId = {declared[i].id : i \in 1..n}
    BY <1>4 DEF TierInv, IsIndexed
  <1>6. /\ global' \in Seq(Given) /\ p \in Nat \ {0} /\ DOMAIN global = 1..(p - 1) /\ DOMAIN global' = 1..p
        /\ global'[p] = e /\ \A i \in 1..(p - 1) : global'[i] = global[i]
    <2>1. PICK g : g = global
      OBVIOUS
    <2>2. g \in Seq(Given) /\ e \in Given /\ Len(g) \in Nat /\ DOMAIN g = 1..Len(g)
      <3>1. g \in Seq(Given) /\ e \in Given
        BY <1>2, <1>3, <2>1
      <3> QED BY ONLY <3>1
    <2>3. /\ Append(g, e) \in Seq(Given) /\ DOMAIN Append(g, e) = 1..(Len(g) + 1)
          /\ Append(g, e)[Len(g) + 1] = e /\ \A i \in 1..Len(g) : Append(g, e)[i] = g[i]
      BY ONLY <2>2
    <2>4. p = Len(g) + 1 /\ p - 1 = Len(g) /\ p \in Nat \ {0}
      <3>1. p = Len(g) + 1
        BY <1>1, <2>1
      <3> QED BY ONLY <3>1, <2>2
    <2>5. global' = Append(g, e)
      BY <1>2, <2>1
    <2> QED BY <2>1, <2>2, <2>3, <2>4, <2>5
  <1>7. /\ \A id \in DOMAIN byId : byId[id] \in 1..(p - 1) /\ byId'[id] = byId[id]
        /\ byId'[e.id] = p /\ DOMAIN byId' = DOMAIN byId \cup {e.id}
    <2>1. \A id \in DOMAIN byId : byId[id] \in DOMAIN global
      BY DEF TierInv, IsIndexed
    <2>2. e.id \notin DOMAIN byId /\ DOMAIN global = 1..(p - 1)
          /\ byId' = [id \in DOMAIN byId \cup {e.id} |-> IF id = e.id THEN p ELSE byId[id]]
      BY <1>2, <1>6
    <2> QED BY ONLY <2>1, <2>2
  <1>8. IsIndexed'
    <2>1. /\ \A i \in 1..(p - 1) : global[i].id \in DOMAIN byId /\ byId[global[i].id] = i
          /\ \A id \in DOMAIN byId : global[byId[id]].id = id
      BY <1>6 DEF TierInv, IsIndexed
    <2>2. DOMAIN byId' = {declared'[i].id : i \in DOMAIN declared'}
      BY <1>4, <1>5, <1>7
    <2>3. \A i \in 1..p : i = p \/ i \in 1..(p - 1)
      BY <1>6
    <2>4. ASSUME NEW id \in DOMAIN byId'
          PROVE  byId'[id] \in DOMAIN global' /\ global'[byId'[id]].id = id
      <3>1. CASE id = e.id
        BY <1>6, <1>7, <3>1
      <3>2. CASE id \in DOMAIN byId
        <4>1. byId'[id] \in 1..(p - 1) /\ global'[byId'[id]] = global[byId[id]]
          BY <1>6, <1>7, <3>2
        <4>2. global[byId[id]].id = id
          BY <2>1, <3>2
        <4> QED BY <1>6, <4>1, <4>2
      <3> QED BY <1>7, <3>1, <3>2
    <2>5. \A i \in DOMAIN global' : global'[i].id \in DOMAIN byId' /\ byId'[global'[i].id] = i
      BY <1>6, <1>7, <2>1, <2>3
    <2> QED BY <1>2, <1>4, <1>6, <2>2, <2>4, <2>5 DEF IsIndexed
  <1>9. \A i \in 1..n : /\ declared[i].id \in DOMAIN byId
                        /\ byId'[declared'[i].id] = byId[declared[i].id] /\ byId[declared[i].id] \in 1..(p - 1)
    BY <1>4, <1>5, <1>7
  <1>10. KeepsOrder'
    <2> SUFFICES ASSUME NEW i \in DOMAIN declared', NEW j \in DOMAIN declared', IsFirst(i)', IsFirst(j)', i < j
                 PROVE  byId'[declared'[i].id] < byId'[declared'[j].id]
      BY DEF KeepsOrder
    <2>1. i \in 1..n /\ IsFirst(i)
      BY <1>4
    <2>2. CASE j = n + 1
      BY <1>4, <1>6, <1>7, <1>9, <2>1, <2>2
    <2>3. CASE j \in 1..n
      BY <1>4, <1>9, <2>1, <2>3 DEF TierInv, KeepsOrder
    <2> QED BY <1>4, <2>2, <2>3
  <1>11. LastWins'
    <2> SUFFICES ASSUME NEW i \in DOMAIN declared', IsLast(i)'
                 PROVE  global'[byId'[declared'[i].id]] = declared'[i]
      BY DEF LastWins
    <2>1. CASE i = n + 1
      BY <1>4, <1>6, <1>7, <2>1
    <2>2. CASE i \in 1..n
      BY <1>4, <1>6, <1>9, <2>2 DEF TierInv, LastWins
    <2> QED BY <1>4, <2>1, <2>2
  <1> QED BY <1>8, <1>10, <1>11 DEF TierInv

LEMMA TierStep == TierInv /\ [Next]_vars => TierInv'
  <1> SUFFICES ASSUME TierInv, [Next]_vars PROVE TierInv'
    OBVIOUS
  <1>1. CASE Merge
    BY <1>1, KnownKept, NewKept
  <1>2. CASE UNCHANGED <<global, byId, declared, incoming>>
    <2>1. global' = global /\ byId' = byId /\ declared' = declared /\ incoming' = incoming
      BY <1>2
    <2>2. IsIndexed'
      BY <2>1 DEF TierInv, IsIndexed
    <2>3. KeepsOrder'
      BY <2>1 DEF TierInv, KeepsOrder, IsFirst
    <2>4. LastWins'
      BY <2>1 DEF TierInv, LastWins, IsLast
    <2> QED BY <2>2, <2>3, <2>4 DEF TierInv
  <1>3. CASE Initialize
    BY <1>2, <1>3 DEF Initialize
  <1>4. ASSUME NEW folder \in Folder, NEW content \in Contents, EditManifest(folder, content)
        PROVE  TierInv'
    BY <1>2, <1>4 DEF EditManifest, tiers
  <1>5. ASSUME NEW folder \in Folder, NEW how \in Spelling, Report(folder, how)
        PROVE  TierInv'
    BY <1>2, <1>5 DEF Report
  <1>6. CASE UNCHANGED vars
    BY <1>2, <1>6 DEF vars, tiers
  <1> QED BY <1>1, <1>3, <1>4, <1>5, <1>6 DEF Next

(* The index is of the tier, in the order of first declaration, and every   *)
(* entry in it is the last declared of its id.                              *)
THEOREM TiersCorrect == Spec => []TierInv
  BY TierInit, TierStep, PTL DEF Spec

(* What the merge makes of any declarations.                                *)
(* The ids whose entries are among the first k: there are k of them.        *)
LEMMA CountedByIndex ==
    ASSUME IsIndexed, NEW k \in 0..Len(global)
    PROVE  Cardinality({id \in DOMAIN byId : byId[id] <= k}) = k
  <1> DEFINE S == {id \in DOMAIN byId : byId[id] <= k}
             f == [i \in 1..k |-> global[i].id]
  <1>1. k \in Nat /\ DOMAIN global = 1..Len(global) /\ Len(global) \in Nat
    BY DEF IsIndexed
  <1>2. ASSUME NEW i \in 1..k PROVE f[i] \in DOMAIN byId /\ byId[f[i]] = i
    <2>1. i \in DOMAIN global /\ f[i] = global[i].id
      BY <1>1
    <2> HIDE DEF f
    <2> QED BY <2>1 DEF IsIndexed
  <1>3. f \in [1..k -> S]
    BY <1>1, <1>2
  <1>4. \A i, j \in 1..k : f[i] = f[j] => i = j
    BY <1>2
  <1>5. ASSUME NEW id \in S PROVE \E i \in 1..k : f[i] = id
    <2>1. byId[id] \in DOMAIN global /\ global[byId[id]].id = id /\ byId[id] <= k
      BY DEF IsIndexed
    <2>2. byId[id] \in 1..k
      BY <1>1, <2>1
    <2> QED BY <2>1, <2>2
  <1>6. f \in Bijection(1..k, S)
    <2> HIDE DEF f, S
    <2> QED BY <1>3, <1>4, <1>5 DEF Bijection, Injection, IsInjective, Surjection
  <1>7. ExistsBijection(1..k, S)
    BY <1>6 DEF ExistsBijection
  <1> QED BY <1>1, <1>7, FS_CountingElements

(* An id that was declared was declared a first and a last time.            *)
LEMMA FirstAndLast ==
    ASSUME declared \in Seq(Given), NEW i \in DOMAIN declared
    PROVE  /\ \E k \in DOMAIN declared : declared[k].id = declared[i].id /\ IsFirst(k)
           /\ \E k \in DOMAIN declared : declared[k].id = declared[i].id /\ IsLast(k)
  <1> DEFINE n == Len(declared)
             A == {k \in 1..n : declared[k].id = declared[i].id}
             B == {m \in 0..n : n - m \in A}
  <1>1. n \in Nat /\ DOMAIN declared = 1..n /\ i \in 1..n
    OBVIOUS
  <1> HIDE DEF n
  <1>2. A # {} /\ A \in SUBSET Nat
    BY <1>1
  <1>3. B # {} /\ B \in SUBSET Nat
    <2>1. n - i \in 0..n /\ n - (n - i) = i
      BY <1>1
    <2>2. n - i \in B
      BY <1>1, <2>1
    <2> QED BY <1>1, <2>2
  <1>4. PICK k \in A : \A m \in A : k <= m
    BY <1>2, Least
  <1>5. IsFirst(k)
    <2> SUFFICES ASSUME NEW j \in 1..(k - 1) PROVE declared[j].id # declared[k].id
      BY DEF IsFirst
    <2>1. j \in 1..n /\ j < k
      BY <1>1
    <2> QED BY <1>4, <2>1
  <1>6. PICK b \in B : \A m \in B : b <= m
    BY <1>3, Least
  <1>7. n - b \in A
    OBVIOUS
  <1>8. IsLast(n - b)
    <2> SUFFICES ASSUME NEW j \in (n - b + 1)..n PROVE declared[j].id # declared[n - b].id
      BY DEF IsLast, n
    <2>1. n - j \in 0..n /\ n - (n - j) = j /\ n - j < b /\ j \in 1..n
      BY <1>1
    <2>2. ASSUME j \in A PROVE FALSE
      <3>1. n - j \in B
        BY <2>1, <2>2
      <3>2. b <= n - j
        BY <1>6, <3>1
      <3>3. b \in Nat
        BY <1>1
      <3> QED BY <1>1, <2>1, <3>2, <3>3
    <2>3. declared[j].id # declared[i].id
      BY <2>1, <2>2
    <2> QED BY <1>7, <2>3
  <1> QED BY <1>1, <1>5, <1>7, <1>8

LEMMA MergedIfIndexed == TierInv => GlobalIsMerged
  <1> SUFFICES ASSUME TierInv PROVE GlobalIsMerged
    OBVIOUS
  <1> DEFINE FirstOf(id) == CHOOSE i \in DOMAIN declared : declared[i].id = id
                                /\ \A j \in 1..(i - 1) : declared[j].id # id
             LastOf(id)  == CHOOSE i \in DOMAIN declared : declared[i].id = id
                                /\ \A j \in (i + 1)..Len(declared) : declared[j].id # id
             Up(id)      == {other \in DOMAIN byId : FirstOf(other) <= FirstOf(id)}
             Spot(id)    == Cardinality(Up(id))
  <1>1. /\ declared \in Seq(Given) /\ global \in Seq(Given) /\ Len(global) \in Nat
        /\ DOMAIN global = 1..Len(global) /\ DOMAIN declared \subseteq Nat
        /\ DOMAIN byId = {declared[i].id : i \in DOMAIN declared}
        /\ \A id \in DOMAIN byId : byId[id] \in DOMAIN global /\ global[byId[id]].id = id
    BY DEF TierInv, IsIndexed
  <1>2. ASSUME NEW id \in DOMAIN byId
        PROVE  /\ FirstOf(id) \in DOMAIN declared /\ declared[FirstOf(id)].id = id /\ IsFirst(FirstOf(id))
               /\ LastOf(id) \in DOMAIN declared /\ declared[LastOf(id)].id = id /\ IsLast(LastOf(id))
    <2>1. PICK i \in DOMAIN declared : declared[i].id = id
      BY <1>1
    <2>2. \E k \in DOMAIN declared : declared[k].id = id /\ \A j \in 1..(k - 1) : declared[j].id # id
      <3>1. PICK k \in DOMAIN declared : declared[k].id = declared[i].id /\ IsFirst(k)
        BY <1>1, FirstAndLast
      <3>2. declared[k].id = id /\ \A j \in 1..(k - 1) : declared[j].id # id
        BY <2>1, <3>1 DEF IsFirst
      <3> QED BY <3>2
    <2>3. \E k \in DOMAIN declared : declared[k].id = id /\ \A j \in (k + 1)..Len(declared) : declared[j].id # id
      <3>1. PICK k \in DOMAIN declared : declared[k].id = declared[i].id /\ IsLast(k)
        BY <1>1, FirstAndLast
      <3>2. declared[k].id = id /\ \A j \in (k + 1)..Len(declared) : declared[j].id # id
        BY <2>1, <3>1 DEF IsLast
      <3> QED BY <3>2
    <2>4. FirstOf(id) \in DOMAIN declared /\ declared[FirstOf(id)].id = id
          /\ \A j \in 1..(FirstOf(id) - 1) : declared[j].id # id
      BY <2>2
    <2>5. LastOf(id) \in DOMAIN declared /\ declared[LastOf(id)].id = id
          /\ \A j \in (LastOf(id) + 1)..Len(declared) : declared[j].id # id
      BY <2>3
    <2>6. PICK a, b : a = FirstOf(id) /\ b = LastOf(id)
      OBVIOUS
    <2> HIDE DEF FirstOf, LastOf
    <2>7. IsFirst(a)
      BY <2>4, <2>6 DEF IsFirst
    <2>8. IsLast(b)
      BY <2>5, <2>6 DEF IsLast
    <2> QED BY <2>4, <2>5, <2>6, <2>7, <2>8
  <1> HIDE DEF FirstOf, LastOf
  <1>3. ASSUME NEW id \in DOMAIN byId, NEW other \in DOMAIN byId
        PROVE  FirstOf(other) <= FirstOf(id) <=> byId[other] <= byId[id]
    <2>1. PICK a, b : a = FirstOf(other) /\ b = FirstOf(id)
      OBVIOUS
    <2>2. a \in Nat /\ b \in Nat /\ byId[other] \in Nat /\ byId[id] \in Nat
      <3>1. byId[other] \in Nat /\ byId[id] \in Nat
        BY <1>1
      <3>2. a \in Nat /\ b \in Nat
        BY <1>1, <1>2, <2>1
      <3> QED BY <3>1, <3>2
    <2>3. /\ a < b => byId[other] < byId[id]
          /\ b < a => byId[id] < byId[other]
      BY <1>2, <2>1 DEF TierInv, KeepsOrder
    <2>4. a = b => other = id
      BY <1>2, <2>1
    <2> QED BY <2>1, <2>2, <2>3, <2>4
  <1>4. ASSUME NEW id \in DOMAIN byId PROVE Spot(id) = byId[id] /\ global[byId[id]] = declared[LastOf(id)]
    <2>1. Up(id) = {other \in DOMAIN byId : byId[other] <= byId[id]}
      BY <1>3
    <2>2. byId[id] \in 0..Len(global)
      BY <1>1
    <2>3. Spot(id) = byId[id]
      BY <2>1, <2>2, CountedByIndex DEF TierInv
    <2>4. global[byId[id]] = declared[LastOf(id)]
      BY <1>2 DEF TierInv, LastWins
    <2> QED BY <2>3, <2>4
  <1>5. Len(global) = Cardinality(DOMAIN byId)
    <2>1. DOMAIN byId = {id \in DOMAIN byId : byId[id] <= Len(global)}
      BY <1>1
    <2> QED BY <1>1, <2>1, CountedByIndex DEF TierInv
  <1> HIDE DEF Spot
  <1>6. \A id \in DOMAIN byId : byId[id] = Spot(id) /\ global[Spot(id)] = declared[LastOf(id)]
    BY <1>4
  <1> QED BY <1>5, <1>6 DEF GlobalIsMerged, FirstOf, LastOf, Spot

(* The global tier has one entry per language id, the last one declared, at *)
(* the place of the first, and the index finds each where it is: Router::   *)
(* new and put_global of registry.rs.                                       *)
THEOREM GlobalTierIsMerged == Spec => []GlobalIsMerged
  BY TiersCorrect, MergedIfIndexed, PTL
-----------------------------------------------------------------------------
(* Ties.                                                                    *)
Field == {"exts", "media"}

(* An entry claims what it lists.                                           *)
LEMMA ClaimsAreCounted ==
    ASSUME NEW e \in Given, NEW field \in Field, NEW wanted
    PROVE  /\ Claims(e, field, wanted) \in Nat
           /\ Claims(e, field, wanted) > 0 <=>
                 \E k \in DOMAIN e[field] :
                    wanted = IF field = "media" THEN EssenceOf(e[field][k]) ELSE e[field][k]
  <1> DEFINE S == {k \in DOMAIN e[field] :
                     wanted = IF field = "media" THEN EssenceOf(e[field][k]) ELSE e[field][k]}
  <1>1. IsFiniteSet(DOMAIN e[field])
    <2>1. PICK s, T : s = e[field] /\ s \in Seq(T)
      BY TiersAssumption DEF Field
    <2>2. DOMAIN s = 1..Len(s) /\ Len(s) \in Int /\ 1 \in Int
      BY <2>1
    <2> QED BY <2>1, <2>2, FS_Interval
  <1>2. IsFiniteSet(S) /\ Cardinality(S) \in Nat /\ (Cardinality(S) = 0 <=> S = {})
    <2>1. IsFiniteSet(S)
      BY <1>1, FS_Subset
    <2> QED BY <2>1, FS_CardinalityType, FS_EmptySet
  <1>3. Claims(e, field, wanted) = Cardinality(S)
    BY DEF Claims
  <1> HIDE DEF S
  <1>4. Claims(e, field, wanted) \in Nat /\ (Claims(e, field, wanted) > 0 <=> S # {})
    BY <1>2, <1>3
  <1> QED BY <1>4 DEF S

(* Two or more entries are claimants if and only if another than the first  *)
(* is: no entry stands in the tier twice.                                   *)
LEMMA OneOfMany ==
    ASSUME IsIndexed, NEW I \in SUBSET DOMAIN global, NEW m \in I
    PROVE  Cardinality({global[i] : i \in I}) > 1 <=> I # {m}
  <1> DEFINE C == {global[i] : i \in I}
  <1>1. \A i, j \in I : global[i] = global[j] => i = j
    BY DEF IsIndexed
  <1>2. IsFiniteSet(C)
    <2>1. Len(global) \in Int /\ DOMAIN global = 1..Len(global) /\ 1 \in Int
      BY DEF IsIndexed
    <2>2. IsFiniteSet(I)
      BY <2>1, FS_Interval, FS_Subset
    <2>3. PICK f : f = [i \in I |-> global[i]]
      OBVIOUS
    <2>4. f \in Surjection(I, C)
      <3>1. f \in [I -> C] /\ \A c \in C : \E i \in I : f[i] = c
        BY <2>3
      <3> HIDE DEF C
      <3> QED BY <3>1 DEF Surjection
    <2> HIDE DEF C
    <2> QED BY <2>2, <2>4, FS_Surjection
  <1>3. Cardinality(C) \in Nat /\ Cardinality(C) # 0
    <2>1. global[m] \in C
      OBVIOUS
    <2> HIDE DEF C
    <2> QED BY <1>2, <2>1, FS_CardinalityType, FS_EmptySet
  <1>4. Cardinality(C) = 1 <=> \E x : C = {x}
    <2> HIDE DEF C
    <2> QED BY <1>2, FS_Singleton
  <1>5. (\E x : C = {x}) <=> I = {m}
    <2>1. ASSUME I = {m} PROVE \E x : C = {x}
      BY <2>1
    <2>2. ASSUME NEW x, C = {x} PROVE I = {m}
      <3>1. \A i \in I : global[i] = global[m]
        BY <2>2
      <3> QED BY <1>1, <3>1
    <2> QED BY <2>1, <2>2
  <1> HIDE DEF C
  <1>6. Cardinality(C) = 1 <=> I = {m}
    BY <1>4, <1>5
  <1>7. Cardinality(C) > 1 <=> I # {m}
    BY <1>3, <1>6
  <1> QED BY <1>7 DEF C

(* The tie-break finds the first claimant and names them all.               *)
LEMMA TieBreakNamesAll ==
    ASSUME IsIndexed, NEW field \in Field, NEW wanted, NEW via
    PROVE  /\ Claiming(field, wanted) = {} => TieBreak(field, wanted, via) = NotFound
           /\ Claiming(field, wanted) # {} =>
                 /\ TieBreak(field, wanted, via).via = via
                 /\ NamesAll(TieBreak(field, wanted, via), Claiming(field, wanted))
  <1> DEFINE I        == Claimants(field, wanted)
             first    == {i \in I : \A j \in I : i <= j}
             Named(i) == [n \in 1..Claims(global[i], field, wanted) |-> global[i].id]
             ss       == [i \in DOMAIN global |-> IF i \in I \ first THEN Named(i) ELSE <<>>]
             others   == FlattenSeq(ss)
             m        == CHOOSE i \in first : TRUE
             r        == TieBreak(field, wanted, via)
             Ids      == {e.id : e \in Given}
  <1>1. Len(global) \in Nat /\ DOMAIN global = 1..Len(global) /\ \A i \in DOMAIN global : global[i] \in Given
    BY DEF IsIndexed
  <1>2. I \in SUBSET DOMAIN global /\ I \in SUBSET Nat
    BY <1>1 DEF Claimants
  <1>3. Claiming(field, wanted) = {global[i] : i \in I}
    BY DEF Claiming, Claimants, Routable, Range
  <1>4. \A i \in I : Claims(global[i], field, wanted) \in Nat \ {0}
    BY <1>1, ClaimsAreCounted DEF Claimants
  <1>5. r = IF first = {} THEN NotFound
            ELSE [Found(global[m], via) EXCEPT !.ambiguous =
                     IF others = <<>> THEN <<>> ELSE <<global[m].id>> \o others]
    BY DEF TieBreak
  <1>6. CASE I = {}
    BY <1>3, <1>5, <1>6
  <1>7. CASE I # {}
    <2>1. first # {}
      BY <1>2, <1>7, Least
    <2>2. m \in first
      BY <2>1
    <2> HIDE DEF I, m
    <2>3. m \in I /\ first = {m} /\ \A j \in I : m <= j
      BY <1>2, <2>2
    <2> HIDE DEF first
    <2>4. ss \in Seq(Seq(Ids)) /\ DOMAIN ss = DOMAIN global
      <3>1. \A i \in I : Named(i) \in Seq(Ids)
        BY <1>1, <1>2, <1>4
      <3>2. <<>> \in Seq(Ids)
        OBVIOUS
      <3> HIDE DEF Named, Ids
      <3>3. \A i \in 1..Len(global) : ss[i] \in Seq(Ids)
        BY <1>1, <3>1, <3>2
      <3> QED BY <1>1, <3>3
    <2>5. \A i \in DOMAIN global : Range(ss[i]) = IF i \in I \ {m} THEN {global[i].id} ELSE {}
      <3>1. ASSUME NEW i \in I PROVE Range(Named(i)) = {global[i].id}
        <4>1. 1 \in DOMAIN Named(i)
          BY <1>4
        <4>2. \A n \in DOMAIN Named(i) : Named(i)[n] = global[i].id
          OBVIOUS
        <4> HIDE DEF Named
        <4> QED BY <4>1, <4>2 DEF Range
      <3>2. Range(<<>>) = {}
        BY DEF Range
      <3> HIDE DEF Named
      <3> QED BY <2>3, <3>1, <3>2
    <2> HIDE DEF ss
    <2>6. others \in Seq(Ids) /\ Range(others) = UNION {Range(ss[i]) : i \in DOMAIN ss}
      BY <2>4, FlatHasAll
    <2> HIDE DEF others
    <2>7. Range(others) = {global[i].id : i \in I \ {m}}
      <3>1. \A id : id \in Range(others) <=> \E i \in DOMAIN global : id \in Range(ss[i])
        BY ONLY <2>4, <2>6
      <3>2. \A i \in DOMAIN global : \A id : id \in Range(ss[i]) <=> i \in I \ {m} /\ id = global[i].id
        BY ONLY <2>5
      <3>3. I \ {m} \subseteq DOMAIN global
        BY ONLY <1>2
      <3> QED BY ONLY <3>1, <3>2, <3>3
    <2>8. others = <<>> <=> I = {m}
      <3>1. others = <<>> <=> Range(others) = {}
        BY <2>6 DEF Range
      <3> QED BY <2>3, <2>7, <3>1
    <2>9. /\ r.via = via /\ r.entry = global[m]
          /\ r.ambiguous = IF I = {m} THEN <<>> ELSE <<global[m].id>> \o others
      BY <1>5, <2>1, <2>8 DEF Found
    <2>10. ToSet(r.ambiguous) = IF I = {m} THEN {} ELSE {global[i].id : i \in I}
      <3>1. CASE I = {m}
        BY <2>9, <3>1 DEF ToSet
      <3>2. CASE I # {m}
        <4>1. global[m].id \in Ids
          BY <1>1, <1>2, <2>3
        <4> HIDE DEF Ids
        <4>2. <<global[m].id>> \in Seq(Ids) /\ Range(<<global[m].id>>) = {global[m].id}
          BY <4>1 DEF Range
        <4>3. Range(<<global[m].id>> \o others) = {global[m].id} \cup Range(others)
          <5>1. PICK a, b : a = <<global[m].id>> /\ b = others /\ a \in Seq(Ids) /\ b \in Seq(Ids)
            BY <2>6, <4>2
          <5>2. Range(a \o b) = Range(a) \cup Range(b)
            <6>1. a \in Seq(Ids) /\ b \in Seq(Ids)
              BY <5>1
            <6> QED BY <6>1, RangeConcatenation
          <5> QED BY ONLY <4>2, <5>1, <5>2
        <4>4. {global[m].id} \cup {global[i].id : i \in I \ {m}} = {global[i].id : i \in I}
          BY <2>3
        <4>5. ToSet(r.ambiguous) = Range(r.ambiguous)
          BY DEF ToSet, Range
        <4> QED BY <2>7, <2>9, <3>2, <4>3, <4>4, <4>5
      <3> QED BY <3>1, <3>2
    <2>11. \A j \in I : byId[global[j].id] = j
      BY <1>2 DEF IsIndexed
    <2>12. NamesAll(r, {global[i] : i \in I})
      <3>1. r.entry \in {global[i] : i \in I}
        BY <2>3, <2>9
      <3>2. \A e \in {global[i] : i \in I} : byId[r.entry.id] <= byId[e.id]
        BY <2>3, <2>9, <2>11
      <3>3. Cardinality({global[i] : i \in I}) > 1 <=> I # {m}
        BY <1>2, <2>3, OneOfMany
      <3>4. {e.id : e \in {global[i] : i \in I}} = {global[i].id : i \in I}
        OBVIOUS
      <3> HIDE DEF r
      <3> QED BY <2>10, <3>1, <3>2, <3>3, <3>4 DEF NamesAll
    <2>13. {global[i] : i \in I} # {}
      BY <2>3
    <2> QED BY <1>3, <2>9, <2>12, <2>13
  <1> QED BY <1>6, <1>7

(* No entry claims the extension of a document that has none.               *)
LEMMA NoneIsNotClaimed ==
    ASSUME IsIndexed
    PROVE  Claiming("exts", NoExt) = {}
  <1> SUFFICES ASSUME NEW e \in Range(global), Claims(e, "exts", NoExt) > 0 PROVE FALSE
    BY DEF Claiming
  <1>1. e \in Given
    BY DEF IsIndexed, Range
  <1>2. PICK k \in DOMAIN e.exts : NoExt = e.exts[k]
    BY <1>1, ClaimsAreCounted DEF Field
  <1> QED BY <1>1, <1>2, TiersAssumption DEF Range

LEMMA ReportedIfIndexed == IsIndexed => TiesReported
  <1> SUFFICES ASSUME IsIndexed, NEW doc \in Doc, NEW type \in Media
               PROVE  IsReported(ResolveWithMediaType(doc, type), Claiming("exts", ExtOf(doc.uri)),
                         IF type.essence = "" THEN {} ELSE Claiming("media", type.essence))
    BY DEF TiesReported
  <1>1. PICK ext, byExt, byMedia, r, s :
           /\ ext = ExtOf(doc.uri) /\ byExt = Claiming("exts", ext)
           /\ byMedia = IF type.essence = "" THEN {} ELSE Claiming("media", type.essence)
           /\ r = Resolve(doc) /\ s = ResolveMediaType(type)
    OBVIOUS
  <1>2. CASE \E e : r = Found(e, "workspace-languageId") \/ r = Found(e, "workspace-extension")
                    \/ r = Found(e, "languageId")
    <2>1. r.via \notin {"none", "extension", "mediaType"} /\ r.ambiguous = <<>>
      BY <1>2 DEF Found
    <2>2. r # NotFound
      BY <2>1 DEF NotFound
    <2> QED BY <1>1, <2>1, <2>2 DEF ResolveWithMediaType, IsReported
  <1>3. CASE byExt # {} /\ r = TieBreak("exts", ext, "extension")
    <2>1. r.via = "extension" /\ NamesAll(r, byExt)
      BY <1>1, <1>3, TieBreakNamesAll DEF Field
    <2>2. r # NotFound
      BY <2>1 DEF NotFound
    <2> QED BY <1>1, <2>1, <2>2 DEF ResolveWithMediaType, IsReported
  <1>4. CASE byExt = {} /\ r = NotFound
    <2>1. CASE byMedia = {}
      <3>1. s = NotFound
        BY <1>1, <2>1, TieBreakNamesAll DEF ResolveMediaType, EssenceOf, Field
      <3>2. s.via = "none" /\ s.ambiguous = <<>>
        BY <3>1 DEF NotFound
      <3> QED BY <1>1, <1>4, <2>1, <3>2 DEF ResolveWithMediaType, IsReported
    <2>2. CASE byMedia # {}
      <3>1. s.via = "mediaType" /\ NamesAll(s, byMedia)
        BY <1>1, <2>2, TieBreakNamesAll DEF ResolveMediaType, EssenceOf, Field
      <3> QED BY <1>1, <1>4, <3>1 DEF ResolveWithMediaType, IsReported
    <2> QED BY <2>1, <2>2
  <1>5. \/ \E e : r = Found(e, "workspace-languageId") \/ r = Found(e, "workspace-extension")
                  \/ r = Found(e, "languageId")
        \/ ext = NoExt /\ r = NotFound
        \/ r = TieBreak("exts", ext, "extension")
    BY <1>1 DEF Resolve
  <1>6. ext = NoExt => byExt = {}
    BY <1>1, NoneIsNotClaimed
  <1>7. byExt = {} => TieBreak("exts", ext, "extension") = NotFound
    BY <1>1, TieBreakNamesAll DEF Field
  <1> QED BY <1>2, <1>3, <1>4, <1>5, <1>6, <1>7

(* A tie is reported with every claimant exactly when there are several,    *)
(* and the first declared wins it; what is found another way is never       *)
(* ambiguous: tie_break, resolve and resolve_with_media_type.               *)
THEOREM TiesAreReported == Spec => []TiesReported
  <1>1. TierInv => TiesReported
    BY ReportedIfIndexed DEF TierInv
  <1> QED BY <1>1, TiersCorrect, PTL
-----------------------------------------------------------------------------
(* A manifest is in its folder however the folder is spelled: joining and   *)
(* normalizing are one.                                                     *)
LEMMA NormalizedOfManifest ==
    ASSUME NEW S, Range(ManifestName) \subseteq S, NEW path \in Seq(S)
    PROVE  Normalized(path \o ManifestName) = Normalized(path) \o ManifestName
  <1>1. PICK a, b : a = ".tabnas" /\ b = "lsp.json"
    OBVIOUS
  <1>2. ManifestName = <<a, b>> /\ a \in S /\ b \in S
    BY <1>1 DEF ManifestName, Range
  <1>3. \A p \in Seq(S) : p \o <<a, b>> = Append(Append(p, a), b)
    BY <1>2
  <1>4. Normalized(path) \in Seq(S) /\ Append(path, a) \in Seq(S)
    BY <1>2, NormalizedAppend
  <1>5. \A p \in Seq(S) : StepOf(p, a) = Append(p, a) /\ StepOf(p, b) = Append(p, b)
    BY <1>1 DEF StepOf
  <1>6. Normalized(Append(path, a)) = Append(Normalized(path), a)
    BY <1>2, <1>4, <1>5, NormalizedAppend
  <1>7. Normalized(Append(Append(path, a), b)) = StepOf(Normalized(Append(path, a)), b)
    BY <1>2, <1>4, NormalizedAppend
  <1>8. Append(Normalized(path), a) \in Seq(S)
    BY <1>2, <1>4
  <1> QED BY <1>2, <1>3, <1>4, <1>5, <1>6, <1>7, <1>8

(* An entry that applies to a document does by where both are on disk, and  *)
(* one that does so applies if its folder is tidy.                          *)
LEMMA AppliesWhereItIs ==
    ASSUME NEW e, IsServed(e), NEW uri, IsAddress(uri), IsUsual(uri)
    PROVE  /\ Applies(e, FsPathOf(uri)) => e.routable /\ AppliesAt(e, uri)
           /\ (ScopeOf(e) = NoPath \/ IsTidy(ScopeOf(e))) /\ e.routable /\ AppliesAt(e, uri)
                => Applies(e, FsPathOf(uri))
  <1>1. PICK s, p : s = ScopeOf(e) /\ p = Place(uri)
    OBVIOUS
  <1>2. s \in Path \cup {NoPath} /\ FsPathOf(uri) = p /\ (p # NoPath => p \in Path /\ IsPlain(p, 1, Len(p)))
    BY <1>1, UsualDocIs DEF IsServed
  <1>3. Applies(e, p) <=> e.routable /\ (s = NoPath \/ Inside(s, p))
    BY <1>1 DEF Applies, Routable
  <1>4. AppliesAt(e, uri) <=> s = NoPath \/ (p # NoPath /\ IsPrefix(Normalized(s), p))
    BY <1>1 DEF AppliesAt
  <1>5. ASSUME s # NoPath, Inside(s, p) PROVE p # NoPath /\ IsPrefix(Normalized(s), p)
    <2>1. p # NoPath /\ p \in Path /\ IsPlain(p, 1, Len(p)) /\ s \in Path
      BY <1>2, <1>5 DEF Inside
    <2> QED BY <1>5, <2>1, InsideIsNormal
  <1>6. ASSUME s # NoPath, IsTidy(s), p # NoPath, IsPrefix(Normalized(s), p) PROVE Inside(s, p)
    <2>1. s \in Path
      BY <1>2, <1>6
    <2>2. Trimmed(s) = Normalized(s)
      BY <1>6, <2>1, TidyIsNormal
    <2> QED BY <1>6, <2>2 DEF Inside
  <1> QED BY <1>1, <1>2, <1>3, <1>4, <1>5, <1>6

(* Among entries that fit there is one that goes before the others.         *)
LEMMA ForemostIs ==
    ASSUME NEW n \in Nat, NEW fits \in SUBSET (1..n), fits # {}, \A i \in fits : Reach(i) \in Nat
    PROVE  \E i \in fits : Foremost(fits) = {i} /\ \A j \in fits : Reach(j) <= Reach(i)
  <1> DEFINE Is(m) == \A F \in SUBSET (1..m) : F \subseteq fits /\ F # {}
                         => \E i \in F : \A j \in F \ {i} : Precedes(i, j)
             T == {m \in Nat : Is(m)}
  <1>0. \A i \in fits : i \in Nat
    OBVIOUS
  <1>1. Is(0)
    <2>1. 1..0 = {}
      OBVIOUS
    <2>2. \A F \in SUBSET (1..0) : F = {}
      BY <2>1
    <2> QED BY <2>2
  <1>2. ASSUME NEW m \in Nat, Is(m) PROVE Is(m + 1)
    <2> SUFFICES ASSUME NEW F \in SUBSET (1..(m + 1)), F \subseteq fits, F # {}
                 PROVE  \E i \in F : \A j \in F \ {i} : Precedes(i, j)
      OBVIOUS
    <2>0. 1..(m + 1) = 1..m \cup {m + 1} /\ \A j \in 1..m : j < m + 1
      OBVIOUS
    <2>1. F \ {m + 1} \in SUBSET (1..m)
      BY <2>0
    <2>2. CASE m + 1 \notin F
      <3>1. F \in SUBSET (1..m)
        BY <2>0, <2>2
      <3> QED BY <1>2, <3>1
    <2>3. CASE F = {m + 1}
      BY <2>3
    <2>4. CASE m + 1 \in F /\ F \ {m + 1} # {}
      <3>1. PICK i \in F \ {m + 1} : \A j \in (F \ {m + 1}) \ {i} : Precedes(i, j)
        BY <1>2, <2>1, <2>4
      <3>2. i \in fits /\ m + 1 \in fits /\ i < m + 1 /\ Reach(i) \in Nat /\ Reach(m + 1) \in Nat
        BY <2>0, <2>1, <2>4, <3>1
      <3>3. CASE Reach(m + 1) > Reach(i)
        <4>1. ASSUME NEW j \in F \ {m + 1} PROVE Precedes(m + 1, j)
          <5>1. j = i \/ Precedes(i, j)
            BY <3>1
          <5>2. Reach(j) \in Nat /\ Reach(j) <= Reach(i)
            BY <3>2, <5>1 DEF Precedes
          <5> HIDE DEF Reach
          <5>3. Reach(m + 1) > Reach(j)
            BY <3>2, <3>3, <5>2
          <5> QED BY <5>3 DEF Precedes
        <4> QED BY <2>4, <4>1
      <3>4. CASE ~(Reach(m + 1) > Reach(i))
        <4>1. Precedes(i, m + 1)
          BY <3>2, <3>4 DEF Precedes
        <4>2. \A j \in F \ {i} : Precedes(i, j)
          BY <3>1, <4>1
        <4> QED BY <3>1, <4>2
      <3> QED BY <3>3, <3>4
    <2> QED BY <2>2, <2>3, <2>4
  <1> HIDE DEF Is
  <1>3. T = Nat
    <2>1. T \in SUBSET Nat /\ 0 \in T /\ \A m \in T : m + 1 \in T
      BY <1>1, <1>2
    <2> HIDE DEF T
    <2> QED BY <2>1, Induction
  <1>4. Is(n)
    BY <1>3
  <1>5. PICK i \in fits : \A j \in fits \ {i} : Precedes(i, j)
    BY <1>4 DEF Is
  <1>6. i \in Foremost(fits)
    BY <1>5 DEF Foremost
  <1>7. ASSUME NEW k \in Foremost(fits), k # i PROVE FALSE
    <2>1. k \in fits /\ Precedes(k, i) /\ Precedes(i, k)
      BY <1>5, <1>7 DEF Foremost
    <2>2. PICK a, b : a = Reach(i) /\ b = Reach(k) /\ a \in Nat /\ b \in Nat
      BY <2>1
    <2>3. (b > a \/ (b = a /\ k < i)) /\ (a > b \/ (a = b /\ i < k)) /\ i \in Nat /\ k \in Nat
      BY <1>0, <2>1, <2>2 DEF Precedes
    <2> QED BY ONLY <2>2, <2>3
  <1>8. ASSUME NEW j \in fits PROVE Reach(j) <= Reach(i)
    <2>1. Reach(j) \in Nat /\ Reach(i) \in Nat /\ (j = i \/ Precedes(i, j))
      BY <1>5
    <2> HIDE DEF Reach
    <2> QED BY <2>1 DEF Precedes
  <1> QED BY <1>6, <1>7, <1>8

(* An entry claims an extension if it lists it.                             *)
LEMMA ClaimsByExtension ==
    ASSUME NEW e, IsServed(e), NEW ext
    PROVE  Claims(e, "exts", ext) > 0 <=> ext \in Range(e.exts)
  <1>1. PICK s : s = e.exts /\ s \in Seq(Range(s))
    BY DEF IsServed
  <1> DEFINE S == {k \in DOMAIN s : ext = s[k]}
  <1>2. Claims(e, "exts", ext) = Cardinality(S)
    BY <1>1 DEF Claims
  <1>3. IsFiniteSet(DOMAIN s)
    <2>1. DOMAIN s = 1..Len(s) /\ Len(s) \in Int /\ 1 \in Int
      BY <1>1
    <2> QED BY <2>1, FS_Interval
  <1>4. IsFiniteSet(S) /\ Cardinality(S) \in Nat /\ (Cardinality(S) = 0 <=> S = {})
    <2>1. IsFiniteSet(S)
      BY <1>3, FS_Subset
    <2> QED BY <2>1, FS_CardinalityType, FS_EmptySet
  <1>5. Cardinality(S) > 0 <=> S # {}
    BY <1>4
  <1>6. S # {} <=> ext \in Range(s)
    BY DEF Range
  <1> QED BY <1>1, <1>2, <1>5, <1>6

(* What the workspace tier is whenever a document is routed.                *)
TierIsServed == workspace \in Seq(Range(workspace)) /\ \A i \in DOMAIN workspace : IsServed(workspace[i])

ScopesAreTidy ==
    \A i \in DOMAIN workspace : ScopeOf(workspace[i]) = NoPath \/ IsTidy(ScopeOf(workspace[i]))

(* How far an entry reaches is a number.                                    *)
LEMMA ReachIsNat == ASSUME TierIsServed, NEW i \in DOMAIN workspace PROVE Reach(i) \in Nat
  <1>1. CASE IsScoped(i)
    <2>1. ScopeOf(workspace[i]) \in Path
      BY <1>1 DEF IsScoped, TierIsServed, IsServed
    <2>2. PICK l : l = Length(ScopeOf(workspace[i])) /\ l \in Nat
      BY <2>1, LengthIsNat
    <2>3. 1 + l \in Nat
      BY <2>2
    <2> QED BY <1>1, <2>2, <2>3 DEF Reach
  <1>2. CASE ~IsScoped(i)
    BY <1>2 DEF Reach
  <1> QED BY <1>1, <1>2

(* Of the candidates of a document the one whose scope is the longer is of  *)
(* a folder at least as deep.                                               *)
LEMMA ReachesAsDeep ==
    ASSUME TierIsServed, ScopesAreTidy, NEW doc \in UsualDoc, NEW i \in Candidates(doc.uri), NEW j \in Candidates(doc.uri),
           Reach(j) <= Reach(i)
    PROVE  Depth(workspace[j]) <= Depth(workspace[i])
  <1>1. PICK s, t, path : s = ScopeOf(workspace[i]) /\ t = ScopeOf(workspace[j]) /\ path = FsPathOf(doc.uri)
    OBVIOUS
  <1>2. /\ i \in DOMAIN workspace /\ (s = NoPath \/ Inside(s, path))
        /\ j \in DOMAIN workspace /\ (t = NoPath \/ Inside(t, path))
    BY <1>1 DEF Candidates, Applies
  <1>3. (s # NoPath => s \in Path /\ IsTidy(s)) /\ (t # NoPath => t \in Path /\ IsTidy(t))
    BY <1>1, <1>2 DEF TierIsServed, IsServed, ScopesAreTidy
  <1>4. path # NoPath => path \in Path /\ IsPlain(path, 1, Len(path))
    <2>1. IsAddress(doc.uri) /\ IsUsual(doc.uri)
      BY WorkspaceAssumption DEF UsualDoc
    <2> QED BY <1>1, <2>1, UsualDocIs
  <1>5. Depth(workspace[i]) = (IF s = NoPath THEN 0 ELSE 1 + Len(Normalized(s)))
        /\ Depth(workspace[j]) = (IF t = NoPath THEN 0 ELSE 1 + Len(Normalized(t)))
    BY <1>1 DEF Depth
  <1>6. Reach(i) = (IF s = NoPath THEN 0 ELSE 1 + Length(s)) /\ Reach(j) = (IF t = NoPath THEN 0 ELSE 1 + Length(t))
    BY <1>1 DEF Reach, IsScoped
  <1>7. (s # NoPath => Len(Normalized(s)) \in Nat /\ Length(s) \in Nat)
        /\ (t # NoPath => Len(Normalized(t)) \in Nat /\ Length(t) \in Nat)
    <2>1. ASSUME NEW p \in Path PROVE Len(Normalized(p)) \in Nat /\ Length(p) \in Nat
      <3>1. Normalized(p) \in Path
        BY NormalizedIsPlain DEF Path
      <3>2. Len(Normalized(p)) \in Nat
        BY <3>1 DEF Path
      <3> QED BY <3>2, LengthIsNat
    <2> QED BY <1>3, <2>1
  <1>8. CASE t = NoPath
    <2>1. Depth(workspace[j]) = 0
      BY <1>5, <1>8
    <2>2. Depth(workspace[i]) \in Nat
      BY <1>5, <1>7
    <2> QED BY <2>1, <2>2
  <1>9. CASE t # NoPath /\ s = NoPath
    <2>1. Reach(i) = 0 /\ Reach(j) = 1 + Length(t) /\ Length(t) \in Nat
      BY <1>6, <1>7, <1>9
    <2> QED BY <2>1
  <1>10. CASE t # NoPath /\ s # NoPath
    <2>1. Length(t) <= Length(s)
      <3>1. PICK x, y : x = Length(t) /\ y = Length(s) /\ x \in Nat /\ y \in Nat
        BY <1>7, <1>10
      <3>2. 1 + x <= 1 + y
        BY <1>6, <1>10, <3>1
      <3>3. x <= y
        BY <3>1, <3>2
      <3> QED BY <3>1, <3>3
    <2>2. path \in Path /\ IsPlain(path, 1, Len(path)) /\ Inside(s, path) /\ Inside(t, path)
          /\ s \in Path /\ IsTidy(s) /\ t \in Path /\ IsTidy(t)
      BY <1>2, <1>3, <1>4, <1>10 DEF Inside
    <2>3. Len(Normalized(t)) <= Len(Normalized(s))
      BY <2>1, <2>2, LongerIsDeeper
    <2>4. PICK x, y : x = Len(Normalized(t)) /\ y = Len(Normalized(s)) /\ x \in Nat /\ y \in Nat
      BY <1>7, <1>10
    <2>5. 1 + x <= 1 + y
      BY <2>3, <2>4
    <2> QED BY <1>5, <1>10, <2>4, <2>5
  <1> QED BY <1>8, <1>9, <1>10

(* The global tier never answers as the workspace.                          *)
LEMMA TieIsNamed ==
    ASSUME NEW field, NEW wanted, NEW via
    PROVE  TieBreak(field, wanted, via).via \in {via, "none"}
  <1>1. PICK r : r = TieBreak(field, wanted, via)
    OBVIOUS
  <1>2. r = NotFound \/ \E e, named : r = [Found(e, via) EXCEPT !.ambiguous = named]
    BY <1>1 DEF TieBreak
  <1>3. NotFound.via = "none" /\ \A e, named : [Found(e, via) EXCEPT !.ambiguous = named].via = via
    BY DEF NotFound, Found
  <1> QED BY <1>1, <1>2, <1>3

(* The most specific entry serves if every scope in the tier is tidy.       *)
LEMMA TidyMostSpecific ==
    ASSUME TierIsServed, ScopesAreTidy
    PROVE  MostSpecificServes
  <1> SUFFICES ASSUME NEW doc \in UsualDoc
               PROVE  IsBest(Resolve(doc),
                             Fits(doc, {e \in Range(workspace) : e.routable /\ AppliesAt(e, doc.uri)}))
    BY DEF MostSpecificServes
  <1>1. PICK uri, ext, here, H : /\ uri = doc.uri /\ ext = ExtOf(uri) /\ here = Candidates(uri)
                                 /\ H = {e \in Range(workspace) : e.routable /\ AppliesAt(e, uri)}
    OBVIOUS
  <1>2. IsAddress(uri) /\ IsUsual(uri)
    BY <1>1, WorkspaceAssumption DEF UsualDoc
  <1>3. ext = uri.ext.name
    BY <1>1, <1>2 DEF ExtOf, IsUsual
  <1>4. \A i \in DOMAIN workspace : i \in here <=> workspace[i] \in H
    <2> SUFFICES ASSUME NEW i \in DOMAIN workspace PROVE i \in here <=> workspace[i] \in H
      OBVIOUS
    <2>1. PICK e : e = workspace[i]
      OBVIOUS
    <2>2. IsServed(e) /\ e \in Range(workspace) /\ (ScopeOf(e) = NoPath \/ IsTidy(ScopeOf(e)))
      BY <2>1 DEF TierIsServed, ScopesAreTidy, Range
    <2>3. i \in here <=> Applies(e, FsPathOf(uri))
      BY <1>1, <2>1 DEF Candidates
    <2>4. Applies(e, FsPathOf(uri)) <=> e.routable /\ AppliesAt(e, uri)
      <3>1. Applies(e, FsPathOf(uri)) => e.routable
        BY DEF Applies, Routable
      <3> QED BY <1>2, <2>2, <3>1, AppliesWhereItIs
    <2>5. e \in H <=> e.routable /\ AppliesAt(e, uri)
      BY <1>1, <2>2
    <2> QED BY <2>1, <2>3, <2>4, <2>5
  <1>5. here \subseteq DOMAIN workspace /\ H = {workspace[i] : i \in here}
    <2>1. here \subseteq DOMAIN workspace
      BY <1>1 DEF Candidates
    <2>2. H \subseteq Range(workspace) /\ Range(workspace) = {workspace[i] : i \in DOMAIN workspace}
      BY <1>1 DEF Range
    <2> QED BY <1>4, <2>1, <2>2
  <1>6. PICK n : n \in Nat /\ DOMAIN workspace = 1..n
    BY DEF TierIsServed
  <1> DEFINE named  == {i \in here : workspace[i].id = doc.id}
             serves == {i \in here : ext # NoExt /\ Claims(workspace[i], "exts", ext) > 0}
  <1>7. ASSUME NEW fits \in SUBSET here, fits # {}
        PROVE  \E i \in fits : /\ Foremost(fits) = {i}
                               /\ \A j \in fits : Depth(workspace[j]) <= Depth(workspace[i])
    <2>1. fits \in SUBSET (1..n) /\ \A i \in fits : Reach(i) \in Nat
      BY <1>5, <1>6, ReachIsNat
    <2>2. PICK i \in fits : Foremost(fits) = {i} /\ \A j \in fits : Reach(j) <= Reach(i)
      BY <1>6, <1>7, <2>1, ForemostIs
    <2>3. \A j \in fits : Depth(workspace[j]) <= Depth(workspace[i])
      BY <1>1, <2>2, ReachesAsDeep
    <2> QED BY <2>2, <2>3
  <1>8. Foremost({}) = {}
    BY DEF Foremost
  <1>9. {e \in H : e.id = doc.id} = {workspace[i] : i \in named}
    BY <1>5
  <1>10. {e \in H : uri.ext.name \in Range(e.exts)} = {workspace[i] : i \in serves}
    <2>1. ASSUME NEW i \in here
          PROVE  ext \in Range(workspace[i].exts) <=> ext # NoExt /\ Claims(workspace[i], "exts", ext) > 0
      <3>1. PICK e : e = workspace[i] /\ IsServed(e)
        BY <1>5 DEF TierIsServed
      <3>2. NoExt \notin Range(e.exts)
        BY <3>1 DEF IsServed
      <3> QED BY <3>1, <3>2, ClaimsByExtension
    <2> QED BY <1>3, <1>5, <2>1
  <1>11. PICK r, fits : r = Resolve(doc) /\ fits = Fits(doc, H)
    OBVIOUS
  <1>12. fits = IF named # {} THEN {workspace[i] : i \in named} ELSE {workspace[i] : i \in serves}
    <2>1. PICK A, B : A = {workspace[i] : i \in named} /\ B = {workspace[i] : i \in serves}
      OBVIOUS
    <2>2. A # {} <=> named # {}
      BY <2>1
    <2> HIDE DEF named, serves
    <2>3. A = {e \in H : e.id = doc.id} /\ B = {e \in H : doc.uri.ext.name \in Range(e.exts)}
      BY <1>1, <1>9, <1>10, <2>1
    <2>4. fits = IF A # {} THEN A ELSE B
      BY <1>11, <2>3 DEF Fits
    <2> QED BY <2>1, <2>2, <2>4
  <1>13. r = IF Foremost(named) # {} THEN Found(workspace[CHOOSE i \in Foremost(named) : TRUE], "workspace-languageId")
             ELSE IF Foremost(serves) # {}
                  THEN Found(workspace[CHOOSE i \in Foremost(serves) : TRUE], "workspace-extension")
             ELSE IF doc.id \in DOMAIN byId /\ Routable(global[byId[doc.id]])
                  THEN Found(global[byId[doc.id]], "languageId")
             ELSE IF ext = NoExt THEN NotFound ELSE TieBreak("exts", ext, "extension")
    BY <1>1, <1>11 DEF Resolve
  <1>14. named \in SUBSET here /\ serves \in SUBSET here
    OBVIOUS
  <1> HIDE DEF named, serves
  <1>15. CASE named # {}
    <2>1. PICK i \in named : Foremost(named) = {i} /\ \A j \in named : Depth(workspace[j]) <= Depth(workspace[i])
      BY <1>7, <1>14, <1>15
    <2>2. r = Found(workspace[i], "workspace-languageId")
      BY <1>13, <2>1
    <2>3. r.entry = workspace[i] /\ fits # {}
      BY <1>12, <1>15, <2>2 DEF Found
    <2>4. r.entry \in fits /\ \A e \in fits : Depth(e) <= Depth(r.entry)
      BY <1>12, <1>15, <2>1, <2>3
    <2> QED BY <1>1, <1>11, <2>3, <2>4 DEF IsBest
  <1>16. CASE named = {} /\ serves # {}
    <2>1. PICK i \in serves : Foremost(serves) = {i} /\ \A j \in serves : Depth(workspace[j]) <= Depth(workspace[i])
      BY <1>7, <1>14, <1>16
    <2>2. r = Found(workspace[i], "workspace-extension")
      BY <1>8, <1>13, <1>16, <2>1
    <2>3. r.entry = workspace[i] /\ fits # {}
      BY <1>12, <1>16, <2>2 DEF Found
    <2>4. r.entry \in fits /\ \A e \in fits : Depth(e) <= Depth(r.entry)
      BY <1>12, <1>16, <2>1, <2>3
    <2> QED BY <1>1, <1>11, <2>3, <2>4 DEF IsBest
  <1>17. CASE named = {} /\ serves = {}
    <2>1. fits = {}
      BY <1>12, <1>17
    <2>2. r = IF doc.id \in DOMAIN byId /\ Routable(global[byId[doc.id]])
              THEN Found(global[byId[doc.id]], "languageId")
              ELSE IF ext = NoExt THEN NotFound ELSE TieBreak("exts", ext, "extension")
      BY <1>8, <1>13, <1>17
    <2>3. \/ r.via = "languageId" \/ r.via = "none" \/ r = TieBreak("exts", ext, "extension")
      BY <2>2 DEF Found, NotFound
    <2>4. r.via \in {"languageId", "none", "extension"}
      BY <2>3, TieIsNamed
    <2> QED BY <1>1, <1>11, <2>1, <2>4 DEF IsBest
  <1> QED BY <1>15, <1>16, <1>17
-----------------------------------------------------------------------------
(* A scope an entry may have, tidy if what the host, the client and the     *)
(* manifests give is.                                                       *)
IsScope(path) == path \in Path \cup {NoPath} /\ (GivenTidily => IsTidyScope(path))

(* An entry, a tier and the folders a client has open, made of what is      *)
(* given.                                                                   *)
IsGood(e) == IsServed(e) /\ IsScope(ScopeOf(e))
IsTier(s) == s \in Seq(Range(s)) /\ \A i \in DOMAIN s : IsGood(s[i])

(* folder_path_of makes a path, or none, of the address of a folder.        *)
LEMMA FolderPathIs ==
    ASSUME NEW uri, IsFolderAddress(uri)
    PROVE  FolderPathOf(uri) \in Path \cup {NoPath}
  <1>1. Names(uri) \in Path
    BY NamesArePath DEF IsFolderAddress
  <1>2. Normalized(Names(uri)) \in Path
    BY <1>1, NormalizedIsPlain DEF Path
  <1>3. PICK scheme, names, normal : scheme = uri.scheme /\ names = Names(uri) /\ normal = Normalized(names)
    OBVIOUS
  <1>4. CASE scheme = ""
    <2>1. FolderPathOf(uri) \in {NoPath, names}
      <3>1. uri.scheme = ""
        BY <1>3, <1>4
      <3>2. CASE uri.steps = <<>>
        BY <3>1, <3>2 DEF FolderPathOf
      <3>3. CASE uri.steps # <<>>
        BY <1>3, <3>1, <3>3 DEF FolderPathOf
      <3> QED BY <3>2, <3>3
    <2> QED BY <1>1, <1>3, <2>1
  <1>5. CASE scheme = "file"
    <2>1. FolderPathOf(uri) = NoPath \/ FolderPathOf(uri) = normal
      BY <1>3, <1>5 DEF FolderPathOf
    <2> QED BY <1>2, <1>3, <2>1
  <1> QED BY <1>3, <1>4, <1>5 DEF IsFolderAddress

(* InitEntries and ReadManifest make entries of items, with a scope they    *)
(* are given.                                                               *)
LEMMA EntryIsGood ==
    ASSUME NEW fields, IsEntry(fields), {"dir", "scope", "extensions"} \subseteq DOMAIN fields,
           \/ fields.extensions \in {Absent, Null, Wrong}
           \/ fields.extensions \in Seq(Range(fields.extensions)) /\ NoExt \notin Range(fields.extensions),
           fields.scope = Absent => fields.dir \in {Absent, Null} \/ IsScope(fields.dir),
           fields.scope \in {Absent, Null} \/ IsScope(fields.scope)
    PROVE  IsGood(EntryOf(fields))
  <1>0. IsScope(NoPath)
    BY DEF IsScope, IsTidyScope
  <1>1. PICK e : e = EntryOf(fields)
    OBVIOUS
  <1>2. e.exts = (IF fields.extensions \in {Absent, Null} THEN <<>> ELSE fields.extensions)
        /\ e.dir = (IF fields.dir \in {Absent, Null} THEN NoPath ELSE fields.dir)
        /\ e.scope = (IF fields.scope = Absent    THEN [kind |-> "dir", folder |-> NoPath]
                      ELSE IF fields.scope = Null THEN [kind |-> "session", folder |-> NoPath]
                      ELSE [kind |-> "folder", folder |-> fields.scope])
    BY <1>1 DEF EntryOf, ListOf, Silent
  <1>3. fields.extensions # Wrong
    BY DEF IsEntry
  <1>4. e.exts \in Seq(Range(e.exts)) /\ NoExt \notin Range(e.exts)
    <2>1. <<>> \in Seq(Range(<<>>)) /\ NoExt \notin Range(<<>>)
      BY DEF Range
    <2> QED BY <1>2, <1>3, <2>1
  <1>5. fields.scope = Absent => IsScope(e.dir)
    BY <1>0, <1>2
  <1>6. IsScope(ScopeOf(e))
    <2>1. CASE fields.scope = Absent
      <3>1. e.scope.kind = "dir"
        BY <1>2, <2>1
      <3>2. ScopeOf(e) = e.dir
        BY <3>1 DEF ScopeOf
      <3> QED BY <1>5, <2>1, <3>2
    <2>2. CASE fields.scope # Absent /\ fields.scope = Null
      <3>1. e.scope.kind = "session"
        BY <1>2, <2>2
      <3>2. ScopeOf(e) = NoPath
        BY <3>1 DEF ScopeOf
      <3> QED BY <1>0, <3>2
    <2>3. CASE fields.scope # Absent /\ fields.scope # Null
      <3>1. e.scope.kind = "folder" /\ e.scope.folder = fields.scope
        BY <1>2, <2>3
      <3>2. ScopeOf(e) = fields.scope
        BY <3>1 DEF ScopeOf
      <3> QED BY <2>3, <3>2
    <2> QED BY <2>1, <2>2, <2>3
  <1> QED BY <1>1, <1>4, <1>6 DEF IsGood, IsServed, IsScope

(* What is read of a manifest is a tier, whatever the manifest is.          *)
LEMMA ManifestIsTier ==
    ASSUME NEW folder \in Path, IsScope(folder), NEW content \in Contents
    PROVE  IsTier(ReadManifest(folder, content))
  <1>1. PICK items : items = IF content.is = "list" THEN content.languages ELSE <<>>
    OBVIOUS
  <1>2. items \in Seq(Range(items)) /\ \A i \in DOMAIN items : items[i] \in Range(content.languages)
    <2>1. content.languages \in Seq(Range(content.languages))
      BY WorkspaceAssumption
    <2>2. <<>> \in Seq(Range(<<>>)) /\ DOMAIN <<>> = {}
      BY DEF Range
    <2> QED BY <1>1, <2>1, <2>2 DEF Range
  <1>3. PICK tier : tier = ReadManifest(folder, content)
    OBVIOUS
  <1>4. \/ tier = <<>>
        \/ /\ tier = [i \in DOMAIN items |-> EntryOf(Stamped(items[i], folder))]
           /\ \A i \in DOMAIN items : items[i] # Wrong /\ IsEntry(Stamped(items[i], folder))
    BY <1>1, <1>3 DEF ReadManifest
  <1>5. CASE tier = <<>>
    <2>1. <<>> \in Seq(Range(<<>>)) /\ DOMAIN <<>> = {}
      BY DEF Range
    <2> QED BY <1>3, <1>5, <2>1 DEF IsTier
  <1>6. CASE /\ tier = [i \in DOMAIN items |-> EntryOf(Stamped(items[i], folder))]
             /\ \A i \in DOMAIN items : items[i] # Wrong /\ IsEntry(Stamped(items[i], folder))
    <2>1. ASSUME NEW i \in DOMAIN items PROVE IsGood(EntryOf(Stamped(items[i], folder)))
      <3>1. PICK item, fields : item = items[i] /\ fields = Stamped(item, folder)
        OBVIOUS
      <3>2. item # Wrong /\ IsEntry(fields)
        BY <1>6, <3>1
      <3>3. item # Wrong /\ fields = [item EXCEPT !.source = "workspace", !.dir = folder]
        BY <3>1, <3>2 DEF Stamped
      <3>4. IsItem(item) /\ (GivenTidily => item.scope \in {Absent, Null, Wrong} \/ IsTidy(item.scope))
        BY <1>2, <3>1, <3>3, WorkspaceAssumption DEF GivenTidily
      <3>5. /\ {"source", "dir", "scope", "extensions"} \subseteq DOMAIN fields
            /\ fields.dir = folder /\ fields.scope = item.scope /\ fields.extensions = item.extensions
        BY <3>3, <3>4 DEF IsItem
      <3>6. fields.scope # Wrong
        BY <3>2, <3>5 DEF IsEntry
      <3>7. fields.scope \in {Absent, Null} \/ IsScope(fields.scope)
        BY <3>3, <3>4, <3>5, <3>6 DEF IsItem, IsScope, IsTidyScope
      <3>8. IsEntry(fields)
        BY <3>2
      <3>9. \/ fields.extensions \in {Absent, Null, Wrong}
            \/ fields.extensions \in Seq(Range(fields.extensions)) /\ NoExt \notin Range(fields.extensions)
        BY <3>3, <3>4, <3>5 DEF IsItem
      <3> QED BY <3>1, <3>5, <3>7, <3>8, <3>9, EntryIsGood
    <2>2. PICK n : n \in Nat /\ DOMAIN items = 1..n
      BY <1>2
    <2>3. tier \in Seq(Range(tier)) /\ DOMAIN tier = DOMAIN items
      <3>1. \A i \in 1..n : tier[i] \in Range(tier)
        BY <1>6, <2>2 DEF Range
      <3>2. tier = [i \in 1..n |-> tier[i]]
        BY <1>6, <2>2
      <3>3. [i \in 1..n |-> tier[i]] \in Seq(Range(tier))
        BY <2>2, <3>1
      <3> QED BY <2>2, <3>2, <3>3
    <2> QED BY <1>3, <1>6, <2>1, <2>3 DEF IsTier
  <1> QED BY <1>4, <1>5, <1>6

(* The folders of the server.                                               *)
IsFolders(s) == s \in Seq(Path) /\ \A i \in DOMAIN s : IsScope(s[i])

(* workspace_folders of what a client opens.                                *)
LEMMA FoldersAre ==
    ASSUME NEW given \in Setups
    PROVE  IsFolders(WorkspaceFolders(given.opened, given.root))
  <1>1. PICK opened, root, paths, I, folded :
           /\ opened = given.opened /\ root = given.root
           /\ paths = [i \in DOMAIN opened |-> FolderPathOf(opened[i])]
           /\ I = {i \in DOMAIN paths : paths[i] # NoPath} /\ folded = Kept(paths, I)
    OBVIOUS
  <1>2. \A uri \in Range(opened) : IsScope(FolderPathOf(uri))
    BY <1>1, WorkspaceAssumption, FolderPathIs DEF GivenTidily, IsScope
  <1>3. root = Absent \/ IsScope(FolderPathOf(root))
    BY <1>1, WorkspaceAssumption, FolderPathIs DEF GivenTidily, IsScope
  <1>4. PICK n : n \in Nat /\ DOMAIN opened = 1..n /\ \A i \in 1..n : opened[i] \in Range(opened)
    <2>1. opened \in Seq(Range(opened))
      BY <1>1, WorkspaceAssumption
    <2>2. DOMAIN opened = 1..Len(opened) /\ Len(opened) \in Nat /\ \A i \in DOMAIN opened : opened[i] \in Range(opened)
      BY <2>1
    <2> QED BY <2>2
  <1>5. \A i \in 1..n : IsScope(paths[i])
    BY <1>1, <1>2, <1>4
  <1>6. paths \in Seq(Range(paths)) /\ DOMAIN paths = 1..n
    <2>1. DOMAIN paths = 1..n /\ \A i \in 1..n : paths[i] \in Range(paths)
      BY <1>1, <1>4 DEF Range
    <2>2. paths = [i \in 1..n |-> paths[i]]
      BY <1>1, <1>4
    <2>3. [i \in 1..n |-> paths[i]] \in Seq(Range(paths))
      BY <1>4, <2>1
    <2> QED BY <2>1, <2>2, <2>3
  <1>7. /\ folded \in Seq(Range(paths))
        /\ \A k \in DOMAIN folded : \E i \in I : folded[k] = paths[i]
    <2>1. I \in SUBSET DOMAIN paths
      BY <1>1
    <2>2. PICK S : S = Range(paths)
      OBVIOUS
    <2>3. paths \in Seq(S) /\ I \in SUBSET DOMAIN paths
      BY <1>6, <2>1, <2>2
    <2>4. /\ Kept(paths, I) \in Seq(S)
          /\ \A k \in DOMAIN Kept(paths, I) : \E i \in I : Kept(paths, I)[k] = paths[i]
      BY <2>3, KeptHasThose
    <2>5. folded = Kept(paths, I)
      BY <1>1
    <2> QED BY ONLY <2>2, <2>4, <2>5
  <1>8. ASSUME NEW k \in DOMAIN folded PROVE folded[k] \in Path /\ IsScope(folded[k])
    <2>1. PICK i \in I : folded[k] = paths[i]
      BY <1>7
    <2>2. paths[i] # NoPath /\ i \in 1..n
      BY <1>1, <1>6
    <2>3. IsScope(paths[i])
      BY <1>5, <2>2
    <2> QED BY <2>1, <2>2, <2>3 DEF IsScope
  <1>9. IsFolders(folded)
    <2>1. DOMAIN folded = 1..Len(folded) /\ Len(folded) \in Nat
      BY <1>7
    <2>2. folded = [k \in 1..Len(folded) |-> folded[k]]
      BY <1>7
    <2>3. [k \in 1..Len(folded) |-> folded[k]] \in Seq(Path)
      BY <1>8, <2>1
    <2> QED BY <1>8, <2>2, <2>3 DEF IsFolders
  <1>10. IsFolders(<<>>)
    BY DEF IsFolders
  <1>11. ASSUME NEW p \in Path, IsScope(p) PROVE IsFolders(<<p>>)
    BY <1>11 DEF IsFolders
  <1>12. WorkspaceFolders(opened, root) =
            IF folded # <<>> THEN folded
            ELSE IF root = Absent \/ FolderPathOf(root) = NoPath THEN <<>> ELSE <<FolderPathOf(root)>>
    BY <1>1 DEF WorkspaceFolders
  <1> QED BY <1>1, <1>3, <1>9, <1>10, <1>11, <1>12 DEF IsScope

(* The entries of initializationOptions are a tier.                         *)
LEMMA ClientIsTier ==
    ASSUME NEW given \in Setups, NEW s, IsFolders(s)
    PROVE  IsTier(InitEntries(given.languages, s))
  <1>1. PICK items, dir : items = given.languages /\ dir = IF s = <<>> THEN Cwd ELSE s[1]
    OBVIOUS
  <1> DEFINE Own(value, stamp) == IF value = Absent THEN stamp ELSE value
             Made(item) == IF item = Wrong THEN Wrong
                           ELSE [item EXCEPT !.source = Own(@, "workspace"), !.dir = Own(@, dir), !.scope = Null]
  <1>2. PICK stamped, I, good, tier :
           /\ stamped = [i \in DOMAIN items |-> Made(items[i])]
           /\ I = {i \in DOMAIN items : items[i] # Wrong /\ IsEntry(stamped[i])} /\ good = Kept(stamped, I)
           /\ tier = [i \in DOMAIN good |-> EntryOf(good[i])]
    OBVIOUS
  <1>3. InitEntries(items, s) = tier
    BY <1>1, <1>2 DEF InitEntries
  <1>4. PICK n : n \in Nat /\ DOMAIN items = 1..n /\ \A i \in 1..n : items[i] \in Range(items)
    <2>1. items \in Seq(Range(items))
      BY <1>1, WorkspaceAssumption
    <2>2. DOMAIN items = 1..Len(items) /\ Len(items) \in Nat /\ \A i \in DOMAIN items : items[i] \in Range(items)
      BY <2>1
    <2> QED BY <2>2
  <1>5. stamped \in Seq(Range(stamped)) /\ DOMAIN stamped = 1..n
    <2>1. DOMAIN stamped = 1..n /\ \A i \in 1..n : stamped[i] \in Range(stamped)
      BY <1>2, <1>4 DEF Range
    <2>2. stamped = [i \in 1..n |-> stamped[i]]
      BY <1>2, <1>4
    <2>3. [i \in 1..n |-> stamped[i]] \in Seq(Range(stamped))
      BY <1>4, <2>1
    <2> QED BY <2>1, <2>2, <2>3
  <1>6. /\ good \in Seq(Range(stamped))
        /\ \A k \in DOMAIN good : \E i \in I : good[k] = stamped[i]
    <2>1. I \in SUBSET DOMAIN stamped
      BY <1>2, <1>4, <1>5
    <2>2. PICK S : S = Range(stamped)
      OBVIOUS
    <2>3. stamped \in Seq(S) /\ I \in SUBSET DOMAIN stamped
      BY <1>5, <2>1, <2>2
    <2>4. /\ Kept(stamped, I) \in Seq(S)
          /\ \A k \in DOMAIN Kept(stamped, I) : \E i \in I : Kept(stamped, I)[k] = stamped[i]
      BY <2>3, KeptHasThose
    <2>5. good = Kept(stamped, I)
      BY <1>2
    <2> QED BY ONLY <2>2, <2>4, <2>5
  <1>7. ASSUME NEW k \in DOMAIN good PROVE IsGood(EntryOf(good[k]))
    <2>1. PICK i \in I : good[k] = stamped[i]
      BY <1>6
    <2>2. PICK item, fields : item = items[i] /\ fields = good[k]
      OBVIOUS
    <2>3. i \in 1..n /\ item # Wrong /\ IsEntry(fields) /\ fields = Made(item)
      BY <1>2, <1>4, <2>1, <2>2
    <2>4. item # Wrong
      BY <2>3
    <2>5. fields = [item EXCEPT !.source = Own(@, "workspace"), !.dir = Own(@, dir), !.scope = Null]
      BY <2>3, <2>4
    <2>6. IsItem(item)
      BY <1>1, <1>4, <2>2, <2>3, WorkspaceAssumption
    <2>7. /\ {"source", "dir", "scope", "extensions"} \subseteq DOMAIN fields
          /\ fields.dir = Own(item.dir, dir) /\ fields.scope = Null /\ fields.extensions = item.extensions
      BY <2>4, <2>5, <2>6 DEF IsItem
    <2>8. IsEntry(fields)
      BY <2>3
    <2>9. \/ fields.extensions \in {Absent, Null, Wrong}
          \/ fields.extensions \in Seq(Range(fields.extensions)) /\ NoExt \notin Range(fields.extensions)
      BY <2>4, <2>6, <2>7 DEF IsItem
    <2>10. fields.scope # Absent /\ fields.scope \in {Absent, Null}
      BY <2>7, WorkspaceAssumption
    <2>11. IsGood(EntryOf(fields))
      BY <2>7, <2>8, <2>9, <2>10, EntryIsGood
    <2> QED BY <2>2, <2>11
  <1>8. PICK m : m \in Nat /\ DOMAIN good = 1..m
    BY <1>6
  <1>9. tier \in Seq(Range(tier)) /\ DOMAIN tier = DOMAIN good
    <2>1. \A k \in 1..m : tier[k] \in Range(tier)
      BY <1>2, <1>8 DEF Range
    <2>2. tier = [k \in 1..m |-> tier[k]]
      BY <1>2, <1>8
    <2>3. [k \in 1..m |-> tier[k]] \in Seq(Range(tier))
      BY <1>8, <2>1
    <2> QED BY <1>8, <2>2, <2>3
  <1>10. \A k \in DOMAIN tier : IsGood(tier[k])
    BY <1>2, <1>7, <1>9
  <1> QED BY <1>1, <1>3, <1>9, <1>10 DEF IsTier

(* Tiers put one after the other.                                           *)
LEMMA TierOfTiers ==
    ASSUME NEW a, IsTier(a), NEW b, IsTier(b)
    PROVE  IsTier(a \o b)
  <1>1. PICK S, c : S = Range(a) \cup Range(b) /\ c = a \o b
    OBVIOUS
  <1>2. a \in Seq(S) /\ b \in Seq(S)
    <2>1. a \in Seq(Range(a)) /\ b \in Seq(Range(b))
      BY DEF IsTier
    <2>2. Range(a) \subseteq S /\ Range(b) \subseteq S
      BY <1>1
    <2> QED BY <2>1, <2>2
  <1>3. c \in Seq(S) /\ Range(c) = S
    BY <1>1, <1>2, RangeConcatenation
  <1>4. \A e \in S : IsGood(e)
    BY <1>1 DEF IsTier, Range
  <1> QED BY <1>1, <1>3, <1>4 DEF IsTier, Range

(* So are the entries of all manifests.                                     *)
LEMMA TierOfManifests ==
    ASSUME NEW n \in Nat, NEW ss, DOMAIN ss = 1..n, ss = [i \in 1..n |-> ss[i]], \A i \in 1..n : IsTier(ss[i])
    PROVE  IsTier(FlattenSeq(ss))
  <1>1. PICK S, c : S = UNION {Range(ss[i]) : i \in 1..n} /\ c = FlattenSeq(ss)
    OBVIOUS
  <1>2. ASSUME NEW i \in 1..n PROVE ss[i] \in Seq(S)
    <2>1. Range(ss[i]) \subseteq S
      BY <1>1
    <2>2. ss[i] \in Seq(Range(ss[i]))
      BY DEF IsTier
    <2> QED BY <2>1, <2>2
  <1>3. ss \in Seq(Seq(S))
    <2>1. PICK T : T = Seq(S)
      OBVIOUS
    <2>2. [i \in 1..n |-> ss[i]] \in Seq(T)
      BY <1>2, <2>1
    <2> QED BY <2>1, <2>2
  <1>4. c \in Seq(S) /\ Range(c) = S
    BY <1>1, <1>3, FlatHasAll
  <1>5. \A e \in S : IsGood(e)
    <2>1. ASSUME NEW i \in 1..n, NEW e \in Range(ss[i]) PROVE IsGood(e)
      BY DEF IsTier, Range
    <2> QED BY ONLY <1>1, <2>1
  <1> QED BY <1>1, <1>4, <1>5 DEF IsTier, Range

(* What holds of the workspace tier in every state: it is a tier, and so is *)
(* each of the parts that the next change of a manifest builds it of again. *)
ServedInv ==
    /\ manifests \in [Folder -> Contents] /\ IsFolders(folders) /\ IsTier(client) /\ IsTier(workspace)

(* The host's entries are a tier.                                           *)
LEMMA HostIsTier == IsTier(Host)
  <1>1. Host \in Seq(Range(Host)) /\ \A i \in DOMAIN Host : Host[i] \in Range(Host)
    BY WorkspaceAssumption DEF Range
  <1>2. ASSUME NEW e \in Range(Host) PROVE IsGood(e)
    <2>1. IsServed(e)
      BY WorkspaceAssumption
    <2>2. GivenTidily => IsTidyScope(ScopeOf(e))
      BY DEF GivenTidily
    <2> QED BY <2>1, <2>2 DEF IsGood, IsScope, IsServed
  <1> QED BY <1>1, <1>2 DEF IsTier

(* A tier built again is a tier.                                            *)
LEMMA RebuiltIsTier ==
    ASSUME NEW s, IsFolders(s), NEW c, IsTier(c), manifests \in [Folder -> Contents]
    PROVE  IsTier(TierOf(Host, c, s, manifests))
  <1> DEFINE Of(folder) == IF Normalized(folder) \in DOMAIN manifests
                           THEN ReadManifest(folder, manifests[Normalized(folder)]) ELSE <<>>
  <1>1. PICK n, ss : n = Len(s) /\ ss = [i \in DOMAIN s |-> Of(s[i])]
    OBVIOUS
  <1>2. n \in Nat /\ DOMAIN s = 1..n /\ \A i \in 1..n : s[i] \in Path /\ IsScope(s[i])
    BY <1>1 DEF IsFolders
  <1>3. IsTier(<<>>)
    BY DEF IsTier, Range
  <1>4. ASSUME NEW i \in 1..n PROVE IsTier(ss[i])
    <2>1. ss[i] = Of(s[i])
      BY <1>1, <1>2
    <2>2. Normalized(s[i]) \in DOMAIN manifests => manifests[Normalized(s[i])] \in Contents
      OBVIOUS
    <2> QED BY <1>2, <1>3, <2>1, <2>2, ManifestIsTier
  <1>5. DOMAIN ss = 1..n /\ ss = [i \in 1..n |-> ss[i]]
    BY <1>1, <1>2
  <1>6. IsTier(FlattenSeq(ss))
    BY <1>2, <1>4, <1>5, TierOfManifests
  <1>7. IsTier(Host)
    BY HostIsTier
  <1>8. TierOf(Host, c, s, manifests) = (Host \o c) \o FlattenSeq(ss)
    BY <1>1 DEF TierOf
  <1> HIDE DEF Of
  <1> QED BY <1>6, <1>7, <1>8, TierOfTiers

(* The tier of a router that was just made.                                 *)
LEMMA ServedInitially == Init => ServedInv
  <1>1. IsTier(<<>>) /\ IsFolders(<<>>)
    BY DEF IsTier, IsFolders, Range
  <1>2. IsTier(Host)
    BY HostIsTier
  <1> QED BY <1>1, <1>2 DEF Init, ServedInv

(* Every step leaves the tier one: only Initialize and Report change it.    *)
LEMMA ServedAlways == ServedInv /\ [Next]_vars => ServedInv'
  <1> SUFFICES ASSUME ServedInv, [Next]_vars PROVE ServedInv'
    OBVIOUS
  <1>1. CASE UNCHANGED vars
    BY <1>1 DEF ServedInv, vars, session, tiers
  <1>2. CASE Merge
    BY <1>2 DEF ServedInv, Merge, session
  <1>3. CASE Initialize
    <2>1. PICK given \in Setups : setup' = given
      BY <1>3 DEF Initialize
    <2>2. PICK s, c, w : s = folders' /\ c = client' /\ w = workspace'
      OBVIOUS
    <2>3. s = WorkspaceFolders(given.opened, given.root) /\ c = InitEntries(given.languages, s)
          /\ w = TierOf(Host, c, s, manifests) /\ manifests' = manifests
      BY <1>3, <2>1, <2>2 DEF Initialize
    <2>4. IsFolders(s)
      BY <2>3, FoldersAre
    <2>5. IsTier(c)
      BY <2>3, <2>4, ClientIsTier
    <2>6. IsTier(w)
      BY <2>3, <2>4, <2>5, RebuiltIsTier DEF ServedInv
    <2> QED BY <2>2, <2>3, <2>4, <2>5, <2>6 DEF ServedInv
  <1>4. ASSUME NEW folder \in Folder, NEW content \in Contents, EditManifest(folder, content) PROVE ServedInv'
    BY <1>4 DEF ServedInv, EditManifest, tiers, session
  <1>5. ASSUME NEW folder \in Folder, NEW how \in Spelling, Report(folder, how) PROVE ServedInv'
    <2>1. workspace' = workspace \/ workspace' = TierOf(Host, client, folders, manifests)
      BY <1>5 DEF Report
    <2>2. IsTier(TierOf(Host, client, folders, manifests))
      BY RebuiltIsTier DEF ServedInv
    <2>3. PICK w : w = workspace' /\ IsTier(w)
      BY <2>1, <2>2 DEF ServedInv
    <2> QED BY <1>5, <2>3 DEF ServedInv, Report, session
  <1> QED BY <1>1, <1>2, <1>3, <1>4, <1>5 DEF Next

(* In every state the workspace tier is a sequence of entries whose         *)
(* extensions and scopes a document can be routed by: set_workspace of      *)
(* registry.rs, initialize and did_change_watched_files of server.rs.       *)
THEOREM TiersServe == Spec => []ServedInv
  BY ServedInitially, ServedAlways, PTL DEF Spec

(* If no folder is spelled in a roundabout way, the workspace entry that    *)
(* serves a document is of a folder the document is in on disk and no entry *)
(* that fits as well is of a deeper one: resolve, candidates and js_length  *)
(* of registry.rs.                                                          *)
THEOREM MostSpecific == ASSUME GivenTidily PROVE Spec => []MostSpecificServes
  <1>1. ServedInv => MostSpecificServes
    <2> SUFFICES ASSUME ServedInv PROVE MostSpecificServes
      OBVIOUS
    <2>1. TierIsServed
      BY DEF ServedInv, IsTier, IsGood, TierIsServed
    <2>2. ScopesAreTidy
      BY DEF ServedInv, IsTier, IsGood, IsScope, IsTidyScope, ScopesAreTidy
    <2> QED BY <2>1, <2>2, TidyMostSpecific
  <1> QED BY <1>1, TiersServe, PTL
-----------------------------------------------------------------------------
(* Resolving, told of any tier and not of the workspace's.                  *)
ReachOf(e) == IF ScopeOf(e) # NoPath THEN 1 + Length(ScopeOf(e)) ELSE 0

PrecedesIn(tier, k, l) ==
    ReachOf(tier[k]) > ReachOf(tier[l]) \/ (ReachOf(tier[k]) = ReachOf(tier[l]) /\ k < l)
ForemostIn(tier, fits) == {k \in fits : \A l \in fits \ {k} : PrecedesIn(tier, k, l)}

NamedIn(tier, doc) ==
    ForemostIn(tier, {k \in DOMAIN tier : Applies(tier[k], FsPathOf(doc.uri)) /\ tier[k].id = doc.id})

ServesIn(tier, doc) ==
    ForemostIn(tier, {k \in DOMAIN tier : /\ Applies(tier[k], FsPathOf(doc.uri))
                                          /\ ExtOf(doc.uri) # NoExt /\ Claims(tier[k], "exts", ExtOf(doc.uri)) > 0})

Globally(doc) ==
    IF doc.id \in DOMAIN byId /\ Routable(global[byId[doc.id]])
    THEN Found(global[byId[doc.id]], "languageId")
    ELSE IF ExtOf(doc.uri) = NoExt THEN NotFound ELSE TieBreak("exts", ExtOf(doc.uri), "extension")

ResolveIn(tier, doc) ==
    IF NamedIn(tier, doc) # {}
    THEN Found(tier[CHOOSE k \in NamedIn(tier, doc) : TRUE], "workspace-languageId")
    ELSE IF ServesIn(tier, doc) # {}
         THEN Found(tier[CHOOSE k \in ServesIn(tier, doc) : TRUE], "workspace-extension")
    ELSE Globally(doc)

(* The entry that goes before the others in the workspace's tier is the one *)
(* that does in a part of it.                                               *)
Corresponds(fits, tier, part) ==
    /\ Foremost(fits) = {} <=> ForemostIn(tier, part) = {}
    /\ Foremost(fits) # {} =>
          workspace[CHOOSE i \in Foremost(fits) : TRUE] = tier[CHOOSE k \in ForemostIn(tier, part) : TRUE]

(* It is if the part has all the entries that fit: they stand in it in      *)
(* their order.                                                             *)
LEMMA ForemostInPart ==
    ASSUME TierIsServed, NEW t, NEW m \in Nat, m = Len(t), NEW I \in SUBSET DOMAIN workspace, NEW pi, Embeds(pi, t, workspace, I),
           NEW K \in SUBSET (1..m), NEW fits, fits = {pi[k] : k \in K}
    PROVE  Corresponds(fits, t, K)
  <1>0. PICK n : n \in Nat /\ DOMAIN workspace = 1..n
    BY DEF TierIsServed
  <1>1. ASSUME NEW k \in 1..m
        PROVE  pi[k] \in I /\ pi[k] \in Nat /\ t[k] = workspace[pi[k]] /\ Reach(pi[k]) = ReachOf(t[k]) /\ ReachOf(t[k]) \in Nat
    <2>1. pi[k] \in I /\ t[k] = workspace[pi[k]]
      BY DEF Embeds
    <2>2. pi[k] \in 1..n /\ pi[k] \in DOMAIN workspace
      BY <1>0, <2>1
    <2>3. Reach(pi[k]) \in Nat
      BY <2>2, ReachIsNat
    <2>4. Reach(pi[k]) = ReachOf(t[k])
      BY <2>1 DEF Reach, IsScoped, ReachOf
    <2> QED BY <2>1, <2>2, <2>3, <2>4
  <1>2. ASSUME NEW k \in 1..m, NEW l \in 1..m, k # l
        PROVE  pi[k] # pi[l] /\ (k < l <=> pi[k] < pi[l])
    <2>1. \A a, b \in 1..m : a < b => pi[a] < pi[b]
      BY DEF Embeds
    <2>2. k < l \/ l < k
      BY <1>2
    <2>3. pi[k] \in Nat /\ pi[l] \in Nat
      BY <1>1
    <2>4. k < l => pi[k] < pi[l]
      BY <2>1
    <2>5. l < k => pi[l] < pi[k]
      BY <2>1
    <2> QED BY <2>2, <2>3, <2>4, <2>5
  <1>3. ASSUME NEW k \in 1..m, NEW l \in 1..m, k # l
        PROVE  Precedes(pi[k], pi[l]) <=> PrecedesIn(t, k, l)
    BY <1>1, <1>2, <1>3 DEF Precedes, PrecedesIn
  <1>4. ASSUME NEW k \in K PROVE pi[k] \in Foremost(fits) <=> k \in ForemostIn(t, K)
    <2>1. pi[k] \in Foremost(fits) <=> \A j \in fits \ {pi[k]} : Precedes(pi[k], j)
      BY DEF Foremost
    <2>2. k \in ForemostIn(t, K) <=> \A l \in K \ {k} : PrecedesIn(t, k, l)
      BY DEF ForemostIn
    <2>3. \A l \in K : l # k <=> pi[l] # pi[k]
      BY <1>2
    <2>4. \A l \in K \ {k} : Precedes(pi[k], pi[l]) <=> PrecedesIn(t, k, l)
      BY <1>3
    <2>5. fits \ {pi[k]} = {pi[l] : l \in K \ {k}}
      BY <2>3
    <2> QED BY <2>1, <2>2, <2>4, <2>5
  <1>5. CASE K = {}
    BY <1>5 DEF Foremost, ForemostIn, Corresponds
  <1>6. CASE K # {}
    <2>1. fits \in SUBSET (1..n) /\ fits # {} /\ \A i \in fits : Reach(i) \in Nat
      BY <1>0, <1>1, <1>6
    <2>2. PICK i \in fits : Foremost(fits) = {i}
      BY <1>0, <2>1, ForemostIs
    <2>3. PICK k \in K : i = pi[k]
      OBVIOUS
    <2>4. ForemostIn(t, K) = {k}
      <3>1. k \in ForemostIn(t, K)
        BY <1>4, <2>2, <2>3
      <3>2. ASSUME NEW l \in ForemostIn(t, K) PROVE l = k
        <4>1. l \in K
          BY DEF ForemostIn
        <4>2. pi[l] = pi[k]
          BY <1>4, <2>2, <2>3, <4>1
        <4> QED BY <1>2, <4>1, <4>2
      <3> QED BY <3>1, <3>2
    <2> QED BY <1>1, <2>2, <2>3, <2>4 DEF Corresponds
  <1> QED BY <1>5, <1>6

(* A document outside a folder is served by what is left when the folder's  *)
(* own entries are taken away.                                              *)
ServedFromElsewhere ==
    \A folder \in Folder : \A doc \in Outside(folder) :
        Resolve(doc) = ResolveIn(Elsewhere(workspace, folder), doc)

(* None of those entries applies to it: their scope is the folder.          *)
LEMMA ElsewhereServes == ServedInv => ServedFromElsewhere
  <1> SUFFICES ASSUME ServedInv, NEW folder \in Folder, NEW doc \in Outside(folder)
               PROVE  Resolve(doc) = ResolveIn(Elsewhere(workspace, folder), doc)
    BY DEF ServedFromElsewhere
  <1>0. TierIsServed
    BY DEF ServedInv, IsTier, IsGood, TierIsServed
  <1>1. PICK t, I, uri, ext, path :
           /\ t = Elsewhere(workspace, folder) /\ uri = doc.uri /\ ext = ExtOf(uri) /\ path = FsPathOf(uri)
           /\ I = {i \in DOMAIN workspace : ~(/\ workspace[i].scope.kind = "dir" /\ workspace[i].dir # NoPath
                                              /\ Normalized(workspace[i].dir) = folder)}
    OBVIOUS
  <1>2. t = Kept(workspace, I)
    BY <1>1 DEF Elsewhere
  <1>3. t \in Seq(Range(workspace)) /\ \E pi : Embeds(pi, t, workspace, I)
    <2>1. PICK S : S = Range(workspace)
      OBVIOUS
    <2>2. workspace \in Seq(S) /\ I \in SUBSET DOMAIN workspace
      BY <1>0, <1>1, <2>1 DEF TierIsServed
    <2>3. Kept(workspace, I) \in Seq(S) /\ \E pi : Embeds(pi, Kept(workspace, I), workspace, I)
      BY <2>2, KeptEmbeds
    <2> QED BY ONLY <1>2, <2>1, <2>3
  <1>a. PICK pi : Embeds(pi, t, workspace, I)
    BY <1>3
  <1>b. PICK m : m = Len(t) /\ m \in Nat /\ DOMAIN t = 1..m
    BY <1>3
  <1>4. Embeds(pi, t, workspace, I) /\ m = Len(t) /\ m \in Nat /\ DOMAIN t = 1..m
    BY <1>a, <1>b
  <1>5. IsAddress(uri) /\ IsUsual(uri) /\ ~(Place(uri) # NoPath /\ IsPrefix(folder, Place(uri)))
    BY <1>1, WorkspaceAssumption DEF Outside, UsualDoc
  <1>6. ASSUME NEW i \in DOMAIN workspace, Applies(workspace[i], path) PROVE i \in I
    <2> SUFFICES ASSUME workspace[i].scope.kind = "dir", workspace[i].dir # NoPath,
                        Normalized(workspace[i].dir) = folder
                 PROVE  FALSE
      BY <1>1
    <2>1. PICK e : e = workspace[i] /\ IsServed(e)
      BY <1>0 DEF TierIsServed
    <2>2. ScopeOf(e) = e.dir
      BY <2>1 DEF ScopeOf
    <2>3. AppliesAt(e, uri)
      BY <1>1, <1>5, <1>6, <2>1, AppliesWhereItIs
    <2> QED BY <1>5, <2>1, <2>2, <2>3 DEF AppliesAt
  <1>7. \A k \in 1..m : pi[k] \in I /\ pi[k] \in DOMAIN workspace /\ t[k] = workspace[pi[k]]
    BY <1>1, <1>4 DEF Embeds
  <1>8. I = {pi[k] : k \in 1..m}
    BY <1>4 DEF Embeds
  <1>9. PICK here, named, serves, K, L :
           /\ here = Candidates(uri) /\ named = {i \in here : workspace[i].id = doc.id}
           /\ serves = {i \in here : ext # NoExt /\ Claims(workspace[i], "exts", ext) > 0}
           /\ K = {k \in DOMAIN t : Applies(t[k], path) /\ t[k].id = doc.id}
           /\ L = {k \in DOMAIN t : /\ Applies(t[k], path)
                                    /\ ext # NoExt /\ Claims(t[k], "exts", ext) > 0}
    OBVIOUS
  <1>10. here = {i \in DOMAIN workspace : Applies(workspace[i], path)}
    BY <1>1, <1>9 DEF Candidates
  <1>11. \A i \in here : \E k \in 1..m : i = pi[k]
    BY <1>6, <1>8, <1>10
  <1>12. \A k \in 1..m : pi[k] \in here <=> Applies(t[k], path)
    BY <1>7, <1>10
  <1>13. named = {pi[k] : k \in K} /\ K \in SUBSET (1..m)
    <2>1. \A k \in K : pi[k] \in named
      BY <1>4, <1>7, <1>9, <1>12
    <2>2. \A i \in named : \E k \in K : i = pi[k]
      BY <1>4, <1>7, <1>9, <1>11, <1>12
    <2> QED BY <1>4, <1>9, <2>1, <2>2
  <1>14. serves = {pi[k] : k \in L} /\ L \in SUBSET (1..m)
    <2>1. \A k \in L : pi[k] \in serves
      BY <1>4, <1>7, <1>9, <1>12
    <2>2. \A i \in serves : \E k \in L : i = pi[k]
      BY <1>4, <1>7, <1>9, <1>11, <1>12
    <2> QED BY <1>4, <1>9, <2>1, <2>2
  <1>15. I \in SUBSET DOMAIN workspace
    BY <1>1
  <1>16. Corresponds(named, t, K)
    BY ONLY <1>0, <1>4, <1>13, <1>15, ForemostInPart
  <1>17. Corresponds(serves, t, L)
    BY ONLY <1>0, <1>4, <1>14, <1>15, ForemostInPart
  <1>18. NamedIn(t, doc) = ForemostIn(t, K) /\ ServesIn(t, doc) = ForemostIn(t, L)
    BY <1>1, <1>9 DEF NamedIn, ServesIn
  <1>19. Resolve(doc) = IF Foremost(named) # {}
                        THEN Found(workspace[CHOOSE i \in Foremost(named) : TRUE], "workspace-languageId")
                        ELSE IF Foremost(serves) # {}
                             THEN Found(workspace[CHOOSE i \in Foremost(serves) : TRUE], "workspace-extension")
                        ELSE Globally(doc)
    BY <1>1, <1>9 DEF Resolve, Globally
  <1>20. ResolveIn(t, doc) = IF ForemostIn(t, K) # {}
                             THEN Found(t[CHOOSE k \in ForemostIn(t, K) : TRUE], "workspace-languageId")
                             ELSE IF ForemostIn(t, L) # {}
                                  THEN Found(t[CHOOSE k \in ForemostIn(t, L) : TRUE], "workspace-extension")
                             ELSE Globally(doc)
    BY <1>18 DEF ResolveIn
  <1> QED BY <1>1, <1>16, <1>17, <1>19, <1>20 DEF Corresponds

(* Whatever a folder's entries become, unless they choose a scope of their  *)
(* own, a document outside the folder is served as it was: set_workspace,   *)
(* candidates and resolve of registry.rs.                                   *)
THEOREM FoldersAreIsolated == Spec => FolderIsolation
  <1>1. ASSUME ServedFromElsewhere, ServedFromElsewhere', UNCHANGED <<global, byId>>, NEW folder \in Folder,
               Elsewhere(workspace', folder) = Elsewhere(workspace, folder), NEW doc \in Outside(folder)
        PROVE  Resolve(doc)' = Resolve(doc)
    <2>1. Resolve(doc) = ResolveIn(Elsewhere(workspace, folder), doc)
      BY <1>1 DEF ServedFromElsewhere
    <2>2. Resolve(doc)' = ResolveIn(Elsewhere(workspace, folder), doc)'
      BY <1>1 DEF ServedFromElsewhere
    <2>3. Globally(doc)' = Globally(doc)
      BY <1>1 DEF Globally, TieBreak, Claimants
    <2>4. ResolveIn(Elsewhere(workspace, folder), doc)' = ResolveIn(Elsewhere(workspace, folder), doc)
      BY <1>1, <2>3 DEF ResolveIn
    <2> QED BY <2>1, <2>2, <2>4
  <1>2. ServedFromElsewhere /\ ServedFromElsewhere' =>
           (UNCHANGED <<global, byId>> => \A folder \in Folder :
              Elsewhere(workspace', folder) = Elsewhere(workspace, folder)
                  => \A doc \in Outside(folder) : Resolve(doc)' = Resolve(doc))
    BY <1>1
  <1> QED BY <1>2, ElsewhereServes, TiersServe, PTL DEF FolderIsolation
-----------------------------------------------------------------------------
(* What a manifest makes of a folder's entries.                             *)
Seen(e) == [id |-> e.id, exts |-> e.exts]

(* What a folder's name adds to an item does not change what is made of it. *)
LEMMA StampedIsSeen ==
    ASSUME NEW item, IsItem(item), item # Wrong, NEW folder \in Path
    PROVE  LET fields == Stamped(item, folder) IN
           /\ IsEntry(fields) <=> IsEntry([item EXCEPT !.source = "workspace", !.dir = <<>>])
           /\ EntryOf(fields).dir = folder
           /\ EntryOf(fields).id = EntryOf(item).id /\ EntryOf(fields).exts = EntryOf(item).exts
  <1>1. PICK fields, other : /\ fields = [item EXCEPT !.source = "workspace", !.dir = folder]
                             /\ other = [item EXCEPT !.source = "workspace", !.dir = <<>>]
    OBVIOUS
  <1>2. Stamped(item, folder) = fields
    BY <1>1 DEF Stamped
  <1>3. DOMAIN item = {"name", "languageId", "extensions", "mediaTypes", "pluginKind",
                       "enabled", "load", "source", "dir", "scope"}
    BY DEF IsItem
  <1>4. /\ DOMAIN fields = DOMAIN item /\ DOMAIN other = DOMAIN item
        /\ fields.source = "workspace" /\ other.source = "workspace"
        /\ fields.dir = folder /\ other.dir = <<>>
        /\ \A f \in DOMAIN item \ {"source", "dir"} : fields[f] = item[f] /\ other[f] = item[f]
    BY <1>1, <1>3
  <1>5. /\ fields.name = item.name /\ fields.languageId = item.languageId
        /\ fields.extensions = item.extensions /\ fields.load = item.load /\ other.load = item.load
    BY <1>3, <1>4
  <1>6. folder # Wrong /\ <<>> # Wrong /\ folder # Absent /\ folder # Null
    <2>1. <<>> \in Path
      BY DEF Path
    <2> QED BY <2>1, WorkspaceAssumption
  <1>7. (\A f \in DOMAIN fields : fields[f] # Wrong) <=> \A f \in DOMAIN other : other[f] # Wrong
    <2>1. ASSUME NEW f \in DOMAIN item PROVE fields[f] # Wrong <=> other[f] # Wrong
      <3>1. CASE f = "source"
        BY <1>4, <3>1
      <3>2. CASE f = "dir"
        BY <1>4, <1>6, <3>2
      <3>3. CASE f \notin {"source", "dir"}
        BY <1>4, <3>3
      <3> QED BY <3>1, <3>2, <3>3
    <2> QED BY <1>4, <2>1
  <1>8. IsEntry(fields) <=> IsEntry(other)
    BY <1>4, <1>5, <1>7 DEF IsEntry
  <1>9. EntryOf(fields).dir = folder
    BY <1>4, <1>6 DEF EntryOf, Silent
  <1>10. EntryOf(fields).id = EntryOf(item).id /\ EntryOf(fields).exts = EntryOf(item).exts
    BY <1>5 DEF EntryOf
  <1> QED BY <1>1, <1>2, <1>8, <1>9, <1>10

(* What is read of a manifest is what it declares, of the folder it is read *)
(* for.                                                                     *)
LEMMA ManifestSeen ==
    ASSUME NEW folder \in Path, NEW content \in Contents
    PROVE  LET tier == ReadManifest(folder, content) IN
           /\ {Seen(e) : e \in Range(tier)} = DeclaredIn(content)
           /\ \A e \in Range(tier) : e.dir = folder
  <1>1. PICK list, items, tier : /\ list = content.languages /\ tier = ReadManifest(folder, content)
                                 /\ items = IF content.is = "list" THEN list ELSE <<>>
    OBVIOUS
  <1>2. PICK n : n \in Nat /\ DOMAIN list = 1..n /\ \A i \in 1..n : IsItem(list[i])
    <2>1. list \in Seq(Range(list)) /\ \A item \in Range(list) : IsItem(item)
      BY <1>1, WorkspaceAssumption
    <2>2. DOMAIN list = 1..Len(list) /\ Len(list) \in Nat /\ \A i \in DOMAIN list : list[i] \in Range(list)
      BY <2>1
    <2> QED BY <2>1, <2>2
  <1> DEFINE Good(item)   == item # Wrong /\ IsEntry([item EXCEPT !.source = "workspace", !.dir = <<>>])
             Entry(i)     == EntryOf(Stamped(items[i], folder))
  <1>3. tier = IF \A i \in DOMAIN items : items[i] # Wrong /\ IsEntry(Stamped(items[i], folder))
               THEN [i \in DOMAIN items |-> Entry(i)] ELSE <<>>
    BY <1>1 DEF ReadManifest
  <1>4. ASSUME NEW i \in 1..n, NEW item, item = list[i], item # Wrong
        PROVE  /\ IsEntry(Stamped(item, folder)) <=> Good(item)
               /\ EntryOf(Stamped(item, folder)).dir = folder
               /\ Seen(EntryOf(Stamped(item, folder))) = Seen(EntryOf(item))
    <2>1. IsItem(item)
      BY <1>2, <1>4
    <2> QED BY <1>4, <2>1, StampedIsSeen DEF Seen
  <1>5. DeclaredIn(content) = IF content.is = "list" /\ \A item \in Range(list) : Good(item)
                              THEN {Seen(EntryOf(item)) : item \in Range(list)} ELSE {}
    BY <1>1 DEF DeclaredIn, Seen
  <1> HIDE DEF Good
  <1>6. Range(<<>>) = {}
    BY DEF Range
  <1>7. CASE content.is # "list"
    <2>1. items = <<>>
      BY <1>1, <1>7
    <2>2. tier = <<>>
      BY <1>3, <2>1
    <2> QED BY <1>1, <1>5, <1>6, <1>7, <2>2
  <1>8. CASE content.is = "list" /\ ~\A item \in Range(list) : Good(item)
    <2>1. items = list
      BY <1>1, <1>8
    <2>2. \E i \in 1..n : ~Good(list[i])
      BY <1>2, <1>8 DEF Range
    <2>3. \E i \in 1..n : ~(list[i] # Wrong /\ IsEntry(Stamped(list[i], folder)))
      BY <1>4, <2>2
    <2>4. tier = <<>>
      BY <1>2, <1>3, <2>1, <2>3
    <2> QED BY <1>1, <1>5, <1>6, <1>8, <2>4
  <1>9. CASE content.is = "list" /\ \A item \in Range(list) : Good(item)
    <2>1. items = list
      BY <1>1, <1>9
    <2>2. \A i \in 1..n : list[i] # Wrong /\ Good(list[i])
      <3>1. \A i \in 1..n : list[i] \in Range(list)
        BY <1>2 DEF Range
      <3> QED BY <1>9, <3>1 DEF Good
    <2>3. \A i \in 1..n : IsEntry(Stamped(list[i], folder)) /\ Entry(i).dir = folder
                          /\ Seen(Entry(i)) = Seen(EntryOf(list[i]))
      BY <1>4, <2>1, <2>2
    <2>4. tier = [i \in 1..n |-> Entry(i)]
      BY <1>2, <1>3, <2>1, <2>2, <2>3
    <2> HIDE DEF Entry
    <2>5. Range(tier) = {Entry(i) : i \in 1..n} /\ Range(list) = {list[i] : i \in 1..n}
      BY <1>2, <2>4 DEF Range
    <2>6. {Seen(e) : e \in Range(tier)} = {Seen(EntryOf(item)) : item \in Range(list)}
      BY <2>3, <2>5
    <2> QED BY <1>1, <1>5, <1>9, <2>3, <2>5, <2>6
  <1> QED BY <1>7, <1>8, <1>9

(* folder_path_of finds a folder where its address places it.               *)
LEMMA PlaceIs ==
    ASSUME NEW uri, IsFolderAddress(uri)
    PROVE  /\ FolderPathOf(uri) = NoPath => Place(uri) = NoPath
           /\ FolderPathOf(uri) # NoPath => /\ FolderPathOf(uri) \in Path /\ Place(uri) \in Path
                                            /\ Place(uri) = Normalized(FolderPathOf(uri))
  <1>1. PICK scheme, names, normal : scheme = uri.scheme /\ names = Names(uri) /\ normal = Normalized(names)
    OBVIOUS
  <1>2. names \in Path /\ normal \in Path /\ names # NoPath /\ normal # NoPath /\ Normalized(normal) = normal
    <2>1. names \in Path
      BY <1>1, NamesArePath DEF IsFolderAddress
    <2>2. normal \in Path /\ Normalized(normal) = normal
      BY <1>1, <2>1, NormalizedIsPlain, NormalizedTwice DEF Path
    <2> QED BY <2>1, <2>2, NameAssumption
  <1>3. CASE scheme = ""
    <2>1. uri.host = "" /\ uri.steps # <<>> /\ \A i \in DOMAIN uri.steps : uri.steps[i].as \notin {"joined", "broken"}
      BY <1>1, <1>3 DEF IsFolderAddress
    <2>2. ~Has(uri, "joined") /\ ~Has(uri, "broken")
      BY <2>1 DEF Has
    <2>3. FolderPathOf(uri) = names
      BY <1>1, <1>3, <2>1 DEF FolderPathOf
    <2>4. Place(uri) = normal
      BY <1>1, <1>3, <2>1, <2>2 DEF Place
    <2> QED BY <1>1, <1>2, <2>3, <2>4
  <1>4. CASE scheme = "file"
    <2>1. PICK bad : bad = (uri.host \notin {"", "localhost"} \/ Has(uri, "joined") \/ Has(uri, "broken"))
      OBVIOUS
    <2>2. FolderPathOf(uri) = IF bad THEN NoPath ELSE normal
      BY <1>1, <1>4, <2>1 DEF FolderPathOf
    <2>3. Place(uri) = IF bad THEN NoPath ELSE normal
      BY <1>1, <1>4, <2>1 DEF Place
    <2> QED BY <1>2, <2>2, <2>3
  <1> QED BY <1>1, <1>3, <1>4 DEF IsFolderAddress

(* The folders the server keeps are the ones the client has open.           *)
LEMMA OpenedAre ==
    ASSUME NEW given \in Setups, setup = given, folders = WorkspaceFolders(given.opened, given.root)
    PROVE  Opened = {Normalized(folders[i]) : i \in DOMAIN folders}
  <1>1. PICK opened, root, paths, I, folded, named :
           /\ opened = given.opened /\ root = given.root
           /\ paths = [i \in DOMAIN opened |-> FolderPathOf(opened[i])]
           /\ I = {i \in DOMAIN paths : paths[i] # NoPath} /\ folded = Kept(paths, I)
           /\ named = {Place(opened[i]) : i \in DOMAIN opened} \ {NoPath}
    OBVIOUS
  <1>2. \A i \in DOMAIN opened : IsFolderAddress(opened[i])
    BY <1>1, WorkspaceAssumption DEF Range
  <1>3. root = Absent \/ IsFolderAddress(root)
    BY <1>1, WorkspaceAssumption
  <1>4. /\ folders = IF folded # <<>> THEN folded
                     ELSE IF root = Absent \/ FolderPathOf(root) = NoPath THEN <<>> ELSE <<FolderPathOf(root)>>
        /\ Opened = IF named # {} \/ root = Absent THEN named ELSE {Place(root)} \ {NoPath}
    BY <1>1 DEF WorkspaceFolders, Opened
  <1>5. PICK n : n \in Nat /\ DOMAIN opened = 1..n
    <2>1. opened \in Seq(Range(opened))
      BY <1>1, WorkspaceAssumption
    <2>2. DOMAIN opened = 1..Len(opened) /\ Len(opened) \in Nat
      BY <2>1
    <2> QED BY <2>2
  <1>6. PICK S : S = Range(paths)
    OBVIOUS
  <1>7. paths \in Seq(S) /\ DOMAIN paths = 1..n /\ I \in SUBSET DOMAIN paths
    <2>1. DOMAIN paths = 1..n /\ \A i \in 1..n : paths[i] \in S
      BY <1>1, <1>5, <1>6 DEF Range
    <2>2. paths = [i \in 1..n |-> paths[i]]
      BY <1>1, <1>5
    <2>3. [i \in 1..n |-> paths[i]] \in Seq(S)
      BY <1>5, <2>1
    <2> QED BY <1>1, <2>1, <2>2, <2>3
  <1>8. /\ folded \in Seq(S)
        /\ \A k \in DOMAIN folded : \E i \in I : folded[k] = paths[i]
        /\ \A i \in I : \E k \in DOMAIN folded : folded[k] = paths[i]
    <2>1. /\ Kept(paths, I) \in Seq(S)
          /\ \A k \in DOMAIN Kept(paths, I) : \E i \in I : Kept(paths, I)[k] = paths[i]
          /\ \A i \in I : \E k \in DOMAIN Kept(paths, I) : Kept(paths, I)[k] = paths[i]
      BY <1>7, KeptHasThose
    <2>2. folded = Kept(paths, I)
      BY <1>1
    <2> QED BY ONLY <2>1, <2>2
  <1>9. named = {Normalized(paths[i]) : i \in I}
    <2>1. ASSUME NEW i \in DOMAIN opened
          PROVE  /\ i \in I => Place(opened[i]) = Normalized(paths[i]) /\ Place(opened[i]) # NoPath
                 /\ i \notin I => Place(opened[i]) = NoPath
      <3>1. PICK uri : uri = opened[i] /\ paths[i] = FolderPathOf(uri) /\ i \in DOMAIN paths
        BY <1>1
      <3>2. i \in I <=> FolderPathOf(uri) # NoPath
        BY <1>1, <3>1
      <3>3. IsFolderAddress(uri)
        BY <1>2, <3>1
      <3> QED BY <3>1, <3>2, <3>3, PlaceIs, NameAssumption
    <2>2. I \subseteq DOMAIN opened
      BY <1>1
    <2> QED BY <1>1, <2>1, <2>2
  <1>10. named = {Normalized(folded[k]) : k \in DOMAIN folded}
    BY <1>8, <1>9
  <1>11. named # {} <=> folded # <<>>
    <2>1. folded = <<>> <=> DOMAIN folded = {}
      BY <1>8
    <2> QED BY <1>10, <2>1
  <1>12. CASE folded # <<>>
    BY <1>4, <1>10, <1>11, <1>12
  <1>13. CASE folded = <<>> /\ (root = Absent \/ FolderPathOf(root) = NoPath)
    <2>1. folders = <<>> /\ DOMAIN folders = {}
      BY <1>4, <1>13
    <2>2. root # Absent => Place(root) = NoPath
      BY <1>3, <1>13, PlaceIs
    <2>3. Opened = {}
      BY <1>4, <1>11, <1>13, <2>2
    <2> QED BY <2>1, <2>3
  <1>14. CASE folded = <<>> /\ root # Absent /\ FolderPathOf(root) # NoPath
    <2>1. Place(root) = Normalized(FolderPathOf(root)) /\ Place(root) # NoPath
      BY <1>3, <1>14, PlaceIs, NameAssumption
    <2>2. PICK p : p = FolderPathOf(root)
      OBVIOUS
    <2>3. folders = <<p>> /\ Opened = {Normalized(p)}
      BY <1>4, <1>11, <1>14, <2>1, <2>2
    <2>4. DOMAIN <<p>> = {1} /\ <<p>>[1] = p
      OBVIOUS
    <2> QED BY <2>3, <2>4
  <1> QED BY <1>12, <1>13, <1>14

(* What a sequence has after its first k elements.                          *)
Follows(s, k, b) ==
    (k + 1)..Len(s) = {k + j : j \in DOMAIN b} /\ \A j \in DOMAIN b : s[k + j] = b[j]

(* What is put after a sequence follows it.                                 *)
LEMMA TierHas ==
    ASSUME NEW a, NEW b, NEW E, a \in Seq(E), b \in Seq(E)
    PROVE  Follows(a \o b, Len(a), b)
  <1>0. PICK k : k = Len(a)
    OBVIOUS
  <1>1. PICK m, c : m = Len(b) /\ c = a \o b
    OBVIOUS
  <1>2. k \in Nat /\ m \in Nat /\ DOMAIN b = 1..m /\ c \in Seq(E) /\ Len(c) = k + m
    BY <1>0, <1>1
  <1>3. \A j \in 1..m : c[k + j] = b[j]
    BY <1>0, <1>1, <1>2
  <1>4. \A i \in (k + 1)..(k + m) : i - k \in 1..m /\ i = k + (i - k)
    BY <1>2
  <1>5. \A j \in 1..m : k + j \in (k + 1)..(k + m)
    BY <1>2
  <1>6. (k + 1)..(k + m) = {k + j : j \in 1..m}
    BY <1>4, <1>5
  <1> QED BY <1>0, <1>1, <1>2, <1>3, <1>6 DEF Follows

(* What the tier has of a folder.                                           *)
SeenOf(folder) ==
    {Seen(workspace[i]) : i \in {i \in (Len(Host) + Len(client) + 1)..Len(workspace) :
                                    Normalized(workspace[i].dir) = folder}}

(* A tier has of an open folder what its manifest declared when the tier    *)
(* was built, and of no other folder anything.                              *)
LEMMA TierSeen ==
    ASSUME ServedInv, NEW disk \in [Folder -> Contents], workspace = TierOf(Host, client, folders, disk),
           NEW folder \in Folder
    PROVE  SeenOf(folder) = IF folder \in {Normalized(folders[i]) : i \in DOMAIN folders}
                            THEN DeclaredIn(disk[folder]) ELSE {}
  <1> DEFINE Of(f) == IF Normalized(f) \in DOMAIN disk THEN ReadManifest(f, disk[Normalized(f)]) ELSE <<>>
  <1>1. PICK n, ss, flat, a, k :
           /\ n = Len(folders) /\ ss = [i \in DOMAIN folders |-> Of(folders[i])] /\ flat = FlattenSeq(ss)
           /\ a = Host \o client /\ k = Len(a)
    OBVIOUS
  <1>2. n \in Nat /\ DOMAIN folders = 1..n /\ \A i \in 1..n : folders[i] \in Path /\ IsScope(folders[i])
    <2>1. folders \in Seq(Path) /\ \A i \in DOMAIN folders : IsScope(folders[i])
      BY DEF ServedInv, IsFolders
    <2>2. Len(folders) \in Nat /\ DOMAIN folders = 1..Len(folders) /\ \A i \in DOMAIN folders : folders[i] \in Path
      BY ONLY <2>1
    <2> QED BY ONLY <1>1, <2>1, <2>2
  <1>3. workspace = a \o flat
    BY <1>1 DEF TierOf
  <1>4. ASSUME NEW i \in 1..n
        PROVE  /\ ss[i] \in Seq(Range(ss[i]))
               /\ \A e \in Range(ss[i]) : e.dir = folders[i]
               /\ Normalized(folders[i]) \in Folder
                     => {Seen(e) : e \in Range(ss[i])} = DeclaredIn(disk[Normalized(folders[i])])
    <2>1. PICK f, at : f = folders[i] /\ at = Normalized(f) /\ f \in Path /\ IsScope(f) /\ ss[i] = Of(f)
      BY <1>1, <1>2
    <2>2. CASE at \in Folder
      <3>1. disk[at] \in Contents /\ ss[i] = ReadManifest(f, disk[at])
        BY <2>1, <2>2
      <3>2. IsTier(ReadManifest(f, disk[at]))
        BY <2>1, <3>1, ManifestIsTier
      <3> QED BY <2>1, <3>1, <3>2, ManifestSeen DEF IsTier
    <2>3. CASE at \notin Folder
      <3>1. ss[i] = <<>>
        BY <2>1, <2>3
      <3>2. Range(<<>>) = {} /\ <<>> \in Seq(Range(<<>>))
        BY DEF Range
      <3> QED BY <2>1, <2>3, <3>1, <3>2
    <2> QED BY <2>2, <2>3
  <1>5. PICK E : E = UNION {Range(ss[i]) : i \in 1..n}
    OBVIOUS
  <1>6. DOMAIN ss = 1..n /\ ss = [i \in 1..n |-> ss[i]]
    BY <1>1, <1>2
  <1>7. ss \in Seq(Seq(E))
    <2>1. PICK T : T = Seq(E)
      OBVIOUS
    <2>2. ASSUME NEW i \in 1..n PROVE ss[i] \in T
      <3>1. Range(ss[i]) \subseteq E /\ ss[i] \in Seq(Range(ss[i]))
        BY <1>4, <1>5
      <3> QED BY <2>1, <3>1
    <2>3. [i \in 1..n |-> ss[i]] \in Seq(T)
      BY <1>2, <2>2
    <2> QED BY <1>6, <2>1, <2>3
  <1>8. flat \in Seq(E) /\ Range(flat) = E
    <2>1. FlattenSeq(ss) \in Seq(E) /\ Range(FlattenSeq(ss)) = UNION {Range(ss[i]) : i \in DOMAIN ss}
      BY <1>7, FlatHasAll
    <2> QED BY <1>1, <1>5, <1>6, <2>1
  <1> HIDE DEF Of
  <1>9. a \in Seq(Range(a)) /\ k = Len(Host) + Len(client)
    <2>1. PICK h, c : h = Host /\ c = client /\ h \in Seq(Range(h)) /\ c \in Seq(Range(c))
      BY HostIsTier DEF ServedInv, IsTier
    <2>2. IsTier(a)
      BY <1>1, HostIsTier, TierOfTiers DEF ServedInv
    <2>3. Len(h \o c) = Len(h) + Len(c)
      BY <2>1
    <2> QED BY <1>1, <2>1, <2>2, <2>3 DEF IsTier
  <1>10. PICK G : G = Range(a) \cup E
    OBVIOUS
  <1>11. a \in Seq(G) /\ flat \in Seq(G)
    BY <1>8, <1>9, <1>10
  <1>12. Follows(a \o flat, Len(a), flat)
    BY <1>11, TierHas
  <1>13. (k + 1)..Len(workspace) = {k + j : j \in DOMAIN flat} /\ \A j \in DOMAIN flat : workspace[k + j] = flat[j]
    <2>1. workspace = a \o flat /\ k = Len(a) /\ Follows(a \o flat, Len(a), flat)
      BY <1>1, <1>3, <1>12
    <2> QED BY ONLY <2>1 DEF Follows
  <1>14. SeenOf(folder) = {Seen(e) : e \in {e \in E : Normalized(e.dir) = folder}}
    <2>1. PICK own : own = {i \in (k + 1)..Len(workspace) : Normalized(workspace[i].dir) = folder}
      OBVIOUS
    <2>2. \A i \in own : \E j \in DOMAIN flat : i = k + j /\ workspace[i] = flat[j] /\ flat[j] \in E
      BY <1>8, <1>13, <2>1 DEF Range
    <2>3. ASSUME NEW e \in E, Normalized(e.dir) = folder PROVE \E i \in own : workspace[i] = e
      <3>1. PICK j \in DOMAIN flat : flat[j] = e
        BY <1>8 DEF Range
      <3>2. k + j \in (k + 1)..Len(workspace) /\ workspace[k + j] = e
        BY <1>13, <3>1
      <3> QED BY <2>1, <2>3, <3>2
    <2>4. {workspace[i] : i \in own} = {e \in E : Normalized(e.dir) = folder}
      BY <2>1, <2>2, <2>3
    <2>5. SeenOf(folder) = {Seen(workspace[i]) : i \in own}
      BY <1>9, <2>1 DEF SeenOf
    <2>6. {Seen(workspace[i]) : i \in own} = {Seen(e) : e \in {workspace[i] : i \in own}}
      OBVIOUS
    <2> QED BY <2>4, <2>5, <2>6
  <1>15. CASE folder \notin {Normalized(folders[i]) : i \in DOMAIN folders}
    <2>1. \A e \in E : Normalized(e.dir) # folder
      BY <1>2, <1>4, <1>5, <1>15
    <2> QED BY <1>14, <1>15, <2>1
  <1>16. CASE folder \in {Normalized(folders[i]) : i \in DOMAIN folders}
    <2>1. PICK p \in 1..n : Normalized(folders[p]) = folder
      BY <1>2, <1>16
    <2>2. ASSUME NEW i \in 1..n, Normalized(folders[i]) = folder
          PROVE  /\ {Seen(e) : e \in Range(ss[i])} = DeclaredIn(disk[folder])
                 /\ Range(ss[i]) \subseteq {e \in E : Normalized(e.dir) = folder}
      BY <1>4, <1>5, <2>2
    <2>3. ASSUME NEW e \in E, Normalized(e.dir) = folder PROVE Seen(e) \in DeclaredIn(disk[folder])
      <3>1. PICK i \in 1..n : e \in Range(ss[i])
        BY <1>5
      <3>2. Normalized(folders[i]) = folder
        BY <1>4, <2>3, <3>1
      <3> QED BY <2>2, <3>1, <3>2
    <2>4. \A s \in DeclaredIn(disk[folder]) : \E e \in E : Normalized(e.dir) = folder /\ s = Seen(e)
      BY <2>1, <2>2
    <2> QED BY <1>14, <1>16, <2>3, <2>4
  <1> QED BY <1>15, <1>16

(* The tier was built of a disk as it once was; what is not waiting to be   *)
(* reported has not changed since. TakenInv names that disk, which no       *)
(* variable holds.                                                          *)
TakenInv ==
    setup # Absent =>
        /\ setup \in Setups /\ folders = WorkspaceFolders(setup.opened, setup.root)
        /\ \E disk \in [Folder -> Contents] :
              /\ workspace = TierOf(Host, client, folders, disk)
              /\ \A folder \in Folder \ unreported :
                    folder \in {Normalized(folders[i]) : i \in DOMAIN folders} => disk[folder] = manifests[folder]

(* So once a change is reported the tier has what the manifest declares.    *)
LEMMA TakenMeans == ServedInv /\ TakenInv => ManifestsAreTaken
  <1> SUFFICES ASSUME ServedInv, TakenInv, setup # Absent, NEW folder \in Folder \ unreported
               PROVE  SeenOf(folder) = IF folder \in Opened THEN DeclaredIn(manifests[folder]) ELSE {}
    BY DEF ManifestsAreTaken, SeenOf, Seen
  <1>1. setup \in Setups /\ folders = WorkspaceFolders(setup.opened, setup.root)
    BY DEF TakenInv
  <1>2. PICK disk \in [Folder -> Contents] :
              /\ workspace = TierOf(Host, client, folders, disk)
              /\ folder \in {Normalized(folders[i]) : i \in DOMAIN folders} => disk[folder] = manifests[folder]
    BY DEF TakenInv
  <1>3. Opened = {Normalized(folders[i]) : i \in DOMAIN folders}
    BY <1>1, OpenedAre
  <1>4. SeenOf(folder) = IF folder \in {Normalized(folders[i]) : i \in DOMAIN folders}
                         THEN DeclaredIn(disk[folder]) ELSE {}
    BY <1>2, TierSeen
  <1> QED BY <1>2, <1>3, <1>4

(* An address is spelled a step at a time.                                  *)
IsSpelled(steps, path) ==
    /\ DOMAIN steps = DOMAIN path
    /\ \A i \in DOMAIN path : steps[i].name = path[i] /\ steps[i].as \in {"escaped", "plain"}

(* Spelling loses no name of a path.                                        *)
LEMMA SpelledSteps ==
    ASSUME NEW path, NEW how, NEW steps, steps = Spelled(path, how).steps
    PROVE  IsSpelled(steps, path)
  <1>1. PICK as : as = (IF how = "escaped" THEN "escaped" ELSE "plain") /\ as \in {"escaped", "plain"}
    OBVIOUS
  <1>2. steps = [i \in DOMAIN path |-> [name |-> path[i], as |-> as]]
    BY <1>1 DEF Spelled
  <1>3. \A i \in DOMAIN path : steps[i] = [name |-> path[i], as |-> as]
    BY <1>2
  <1>4. DOMAIN steps = DOMAIN path
    BY <1>2
  <1> QED BY ONLY <1>1, <1>3, <1>4 DEF IsSpelled

(* A manifest of an open folder is taken for one, however it is spelled.    *)
LEMMA ReportIsHeard ==
    ASSUME ServedInv, NEW folder \in Folder, NEW how,
           folder \in {Normalized(folders[i]) : i \in DOMAIN folders}
    PROVE  LET changed == FolderPathOf(Spelled(folder \o ManifestName, how))
           IN  changed # NoPath /\ \E i \in DOMAIN folders :
                   Normalized(folders[i] \o ManifestName) = Normalized(changed)
  <1>1. PICK file, uri, changed, normal :
           file = folder \o ManifestName /\ uri = Spelled(file, how) /\ changed = FolderPathOf(uri)
           /\ normal = Normalized(file)
    OBVIOUS
  <1>2. folder \in Path /\ Normalized(folder) = folder /\ Range(ManifestName) \subseteq Name
    BY WorkspaceAssumption
  <1>3. ManifestName \in Path /\ Len(ManifestName) = 2
    <2>1. PICK a, b : a = ".tabnas" /\ b = "lsp.json"
      OBVIOUS
    <2>2. ManifestName = <<a, b>> /\ a \in Name /\ b \in Name
      BY <1>2, <2>1 DEF ManifestName, Range
    <2>3. <<a, b>> \in Seq(Name) /\ Len(<<a, b>>) = 2
      BY ONLY <2>2
    <2> QED BY ONLY <2>2, <2>3 DEF Path
  <1>4. file \in Path /\ file # <<>>
    <2>1. PICK a, b : a = folder /\ b = ManifestName /\ a \in Seq(Name) /\ b \in Seq(Name) /\ Len(b) = 2
      BY <1>2, <1>3 DEF Path
    <2>2. PICK c : c = a \o b
      OBVIOUS
    <2>3. c \in Seq(Name)
      BY ONLY <2>1, <2>2
    <2>4. Len(c) = Len(a) + Len(b) /\ Len(a) \in Nat
      <3>1. \A u, v \in Seq(Name) : Len(u \o v) = Len(u) + Len(v) /\ Len(u) \in Nat
        OBVIOUS
      <3> QED BY ONLY <2>1, <2>2, <3>1
    <2>5. Len(c) # 0
      BY ONLY <2>1, <2>4
    <2>6. c # <<>>
      BY ONLY <2>5
    <2> QED BY ONLY <1>1, <2>1, <2>2, <2>3, <2>6 DEF Path
  <1>5. /\ uri.scheme = (IF how = "bare" THEN "" ELSE "file")
        /\ uri.host = (IF how = "local" THEN "localhost" ELSE "")
    BY <1>1 DEF Spelled
  <1>6. PICK s : s = uri.steps /\ IsSpelled(s, file)
    <2>1. IsSpelled(Spelled(file, how).steps, file)
      BY SpelledSteps
    <2> QED BY <1>1, <2>1
  <1>7. Names(uri) = file /\ ~Has(uri, "joined") /\ ~Has(uri, "broken") /\ uri.steps # <<>>
    <2>1. PICK n : n = Len(file) /\ n \in Nat /\ n # 0 /\ DOMAIN file = 1..n /\ file = [i \in 1..n |-> file[i]]
      BY <1>4 DEF Path
    <2>2. DOMAIN s = 1..n /\ \A i \in 1..n : s[i].name = file[i] /\ s[i].as \in {"escaped", "plain"}
      BY ONLY <1>6, <2>1 DEF IsSpelled
    <2>3. 1 \in 1..n
      BY ONLY <2>1
    <2>4. s # <<>>
      <3>1. 1 \notin DOMAIN <<>>
        OBVIOUS
      <3> QED BY ONLY <2>2, <2>3, <3>1
    <2>5. [i \in DOMAIN s |-> s[i].name] = [i \in 1..n |-> file[i]]
      BY ONLY <2>2
    <2> QED BY <1>6, <2>1, <2>2, <2>4, <2>5 DEF Names, Has
  <1>8. changed \in {file, normal}
    <2>1. CASE how = "bare"
      BY <1>1, <1>5, <1>7, <2>1 DEF FolderPathOf
    <2>2. CASE how # "bare"
      <3>1. uri.scheme = "file" /\ uri.host \in {"", "localhost"}
        BY <1>5, <2>2
      <3> QED BY <1>1, <1>7, <3>1 DEF FolderPathOf
    <2> QED BY <2>1, <2>2
  <1>9. normal \in Path /\ Normalized(normal) = normal
    BY <1>1, <1>4, NormalizedIsPlain, NormalizedTwice DEF Path
  <1>10. changed # NoPath /\ Normalized(changed) = normal
    BY <1>1, <1>4, <1>8, <1>9, NameAssumption
  <1>11. normal = folder \o ManifestName
    BY <1>1, <1>2, NormalizedOfManifest DEF Path
  <1>12. PICK i \in DOMAIN folders : Normalized(folders[i]) = folder
    OBVIOUS
  <1>13. folders[i] \in Path
    BY DEF ServedInv, IsFolders
  <1>14. Normalized(folders[i] \o ManifestName) = folder \o ManifestName
    BY <1>2, <1>12, <1>13, NormalizedOfManifest DEF Path
  <1> QED BY <1>1, <1>10, <1>11, <1>14

(* An edit makes its folder wait; a report of an open folder builds the     *)
(* tier of the disk as it is.                                               *)
LEMMA TakenAlways == ServedInv /\ TakenInv /\ [Next]_vars => TakenInv'
  <1> SUFFICES ASSUME ServedInv, TakenInv, [Next]_vars PROVE TakenInv'
    OBVIOUS
  <1>0. manifests \in [Folder -> Contents]
    BY DEF ServedInv
  <1>1. CASE UNCHANGED vars
    BY <1>1 DEF TakenInv, vars, session, tiers
  <1>2. CASE Merge
    BY <1>2 DEF TakenInv, Merge, session
  <1>3. CASE Initialize
    BY <1>0, <1>3 DEF TakenInv, Initialize
  <1>4. ASSUME NEW folder \in Folder, NEW content \in Contents, EditManifest(folder, content) PROVE TakenInv'
    <2> SUFFICES ASSUME setup # Absent PROVE TakenInv'
      BY <1>4 DEF TakenInv, EditManifest, session
    <2>1. PICK disk \in [Folder -> Contents] :
              /\ workspace = TierOf(Host, client, folders, disk)
              /\ \A f \in Folder \ unreported :
                    f \in {Normalized(folders[i]) : i \in DOMAIN folders} => disk[f] = manifests[f]
      BY DEF TakenInv
    <2>2. /\ UNCHANGED <<workspace, client, folders, setup>> /\ unreported' = unreported \cup {folder}
          /\ \A f \in Folder \ {folder} : manifests'[f] = manifests[f]
      BY <1>0, <1>4 DEF EditManifest, tiers, session
    <2> QED BY <2>1, <2>2 DEF TakenInv
  <1>5. ASSUME NEW folder \in Folder, NEW how \in Spelling, Report(folder, how) PROVE TakenInv'
    <2> SUFFICES ASSUME setup # Absent PROVE TakenInv'
      BY <1>5 DEF TakenInv, Report, session
    <2>1. PICK disk \in [Folder -> Contents] :
              /\ workspace = TierOf(Host, client, folders, disk)
              /\ \A f \in Folder \ unreported :
                    f \in {Normalized(folders[i]) : i \in DOMAIN folders} => disk[f] = manifests[f]
      BY DEF TakenInv
    <2>2. UNCHANGED <<client, folders, setup, manifests>> /\ unreported' = unreported \ {folder}
      BY <1>5 DEF Report, session
    <2>3. CASE workspace' = TierOf(Host, client, folders, manifests)
      BY <1>0, <2>2, <2>3 DEF TakenInv
    <2>4. CASE workspace' # TierOf(Host, client, folders, manifests)
      <3>1. workspace' = workspace /\ folder \notin {Normalized(folders[i]) : i \in DOMAIN folders}
        BY <1>5, <2>4, ReportIsHeard DEF Report
      <3> QED BY <2>1, <2>2, <3>1 DEF TakenInv
    <2> QED BY <2>3, <2>4
  <1> QED BY <1>1, <1>2, <1>3, <1>4, <1>5 DEF Next

(* Both tiers are what has been declared: the global tier by                *)
(* GlobalTierIsMerged, and once a manifest's last change is reported,       *)
(* however the client spells the folder and the file, what the workspace    *)
(* tier has of the folder is what the manifest declares: workspace_entries, *)
(* read_workspace_manifest, initialize and did_change_watched_files of      *)
(* server.rs.                                                               *)
THEOREM TiersAreAsDeclared == Spec => []TiersAreDeclared
  <1>1. Init => TakenInv
    BY DEF Init, TakenInv
  <1>2. ServedInv /\ TakenInv /\ [Next]_vars => TakenInv'
    BY TakenAlways
  <1>3. ServedInv /\ TakenInv /\ GlobalIsMerged => TiersAreDeclared
    BY TakenMeans DEF TiersAreDeclared
  <1> QED BY <1>1, <1>2, <1>3, TiersServe, GlobalTierIsMerged, PTL DEF Spec
==============================================================================
