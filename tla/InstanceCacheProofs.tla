------------------------ MODULE InstanceCacheProofs -------------------------
(* The instance cache, for any entries and any limit: counts stay within    *)
(* the limit because a key in quarantine is left alone, and an instance is  *)
(* served to the entries whose key is that of the entry it was built for,   *)
(* which names the grammar, the options and the folder.                     *)
EXTENDS InstanceCache, TLAPS

Counted == [cache : [Key -> Build \cup {NoInstance}], failures : [Key -> 0..QuarantineLimit]]

(* Instances::get keeps to the types, and to the keys of what it builds.    *)
LEMMA GetTypes ==
    ASSUME NEW I \in Counted, NEW e \in Entry, NEW made \in Outcomes(e)
    PROVE  /\ AfterGet(I, e, made) \in Counted
           /\ \A k \in Key : AfterGet(I, e, made).cache[k] # NoInstance =>
                  \/ AfterGet(I, e, made).cache[k] = I.cache[k]
                  \/ k = KeyOf(e) /\ AfterGet(I, e, made).cache[k].entry = e
           /\ Got(I, e, made) # NoInstance =>
                  AfterGet(I, e, made).failures = I.failures
                  /\ I.failures[KeyOf(e)] < QuarantineLimit
  <1> DEFINE J == AfterGet(I, e, made)
  <1>1. KeyOf(e) \in Key
    BY DEF Key
  <1>2. CASE ~NeedsBuild(I, e)
    <2>1. J = I
      BY <1>2 DEF AfterGet
    <2> QED BY <1>1, <1>2, <2>1, CacheAssumption DEF Got, NeedsBuild, Quarantined, Counted
  <1>3. CASE NeedsBuild(I, e) /\ made = NoInstance
    <2>1. J = [I EXCEPT !.failures[KeyOf(e)] = @ + 1]
      BY <1>3 DEF AfterGet, RecordFailure
    <2>2. I.failures[KeyOf(e)] < QuarantineLimit
      BY <1>1, <1>3, CacheAssumption DEF NeedsBuild, Quarantined, Counted
    <2>3. Got(I, e, made) = NoInstance
      BY <1>3 DEF Got, NeedsBuild
    <2> QED BY <1>1, <2>1, <2>2, <2>3, CacheAssumption DEF Counted
  <1>4. CASE NeedsBuild(I, e) /\ made # NoInstance
    <2>1. J = [I EXCEPT !.cache[KeyOf(e)] = made]
      BY <1>4 DEF AfterGet
    <2>2. made \in Build /\ made.entry = e
      BY <1>4 DEF Outcomes
    <2>3. I.failures[KeyOf(e)] < QuarantineLimit
      BY <1>1, <1>4, CacheAssumption DEF NeedsBuild, Quarantined, Counted
    <2> QED BY <1>1, <2>1, <2>2, <2>3 DEF Counted
  <1> QED BY <1>2, <1>3, <1>4

(* And it leaves alone every other key, and a key in quarantine.            *)
LEMMA GetFrame ==
    ASSUME NEW I \in Counted, NEW e \in Entry, NEW made \in Outcomes(e), NEW k \in Key,
           k # KeyOf(e) \/ I.failures[k] >= QuarantineLimit
    PROVE  /\ AfterGet(I, e, made).cache[k] = I.cache[k]
           /\ AfterGet(I, e, made).failures[k] = I.failures[k]
  <1>1. CASE k # KeyOf(e)
    BY <1>1 DEF AfterGet, RecordFailure, Counted
  <1>2. CASE k = KeyOf(e)
    BY <1>2 DEF AfterGet, NeedsBuild, Quarantined
  <1> QED BY <1>1, <1>2

LEMMA RecordTypes ==
    ASSUME NEW I \in Counted, NEW e \in Entry, I.failures[KeyOf(e)] < QuarantineLimit
    PROVE  RecordFailure(I, e) \in Counted /\ RecordFailure(I, e).cache = I.cache
  <1>1. KeyOf(e) \in Key
    BY DEF Key
  <1> QED BY <1>1, CacheAssumption DEF RecordFailure, Counted

LEMMA InvalidateTypes ==
    ASSUME NEW I \in Counted, NEW es
    PROVE  /\ Invalidate(I, es) \in Counted
           /\ \A k \in Key : IF \E e \in es : k[1] = Prefix(e)
                 THEN /\ Invalidate(I, es).cache[k] = NoInstance
                      /\ Invalidate(I, es).failures[k] = 0
                 ELSE /\ Invalidate(I, es).cache[k] = I.cache[k]
                      /\ Invalidate(I, es).failures[k] = I.failures[k]
  BY CacheAssumption DEF Invalidate, Counted
-----------------------------------------------------------------------------
LEMMA CacheInit == Init => CacheInv
  <1> SUFFICES ASSUME Init PROVE CacheInv
    OBVIOUS
  <1>1. TypeOK
    BY CacheAssumption DEF Init, Empty, TypeOK
  <1>2. UnderOwnKey
    <2>1. \A k \in Key : instances.cache[k] = NoInstance
      BY DEF Init, Empty
    <2> QED BY <2>1 DEF UnderOwnKey, Key
  <1> QED BY <1>1, <1>2 DEF CacheInv

(* By steps: a fetch, a crash, a reload.                                    *)
LEMMA CacheStep == CacheInv /\ [Next]_instances => CacheInv'
  <1> SUFFICES ASSUME CacheInv, [Next]_instances PROVE CacheInv'
    OBVIOUS
  <1>1. instances \in Counted /\ UnderOwnKey
    BY DEF CacheInv, TypeOK, Counted
  <1>2. ASSUME instances' \in Counted,
               \A k \in Key : instances'.cache[k] # NoInstance =>
                   \/ instances'.cache[k] = instances.cache[k]
                   \/ KeyOf(instances'.cache[k].entry) = k
        PROVE  CacheInv'
    <2>1. TypeOK'
      BY <1>2 DEF TypeOK, Counted
    <2>2. UnderOwnKey'
      <3> SUFFICES ASSUME NEW e \in Entry, instances'.cache[KeyOf(e)] # NoInstance
                   PROVE  KeyOf(instances'.cache[KeyOf(e)].entry) = KeyOf(e)
        BY DEF UnderOwnKey
      <3>1. KeyOf(e) \in Key
        BY DEF Key
      <3> QED BY <1>1, <1>2, <3>1 DEF UnderOwnKey
    <2> QED BY <2>1, <2>2 DEF CacheInv
  <1>3. ASSUME NEW e \in Entry, Fetch(e) PROVE CacheInv'
    <2>1. PICK made \in Outcomes(e) : instances' = AfterGet(instances, e, made)
      BY <1>3 DEF Fetch
    <2> QED BY <1>1, <1>2, <2>1, GetTypes
  <1>4. ASSUME NEW e \in Entry, Crash(e) PROVE CacheInv'
    <2>1. PICK made \in Outcomes(e) :
             /\ Got(instances, e, made) # NoInstance
             /\ instances' = RecordFailure(AfterGet(instances, e, made), e)
      BY <1>4 DEF Crash
    <2> DEFINE J == AfterGet(instances, e, made)
    <2>2. J \in Counted /\ J.failures[KeyOf(e)] < QuarantineLimit
      BY <1>1, <2>1, GetTypes
    <2>3. instances' \in Counted /\ instances'.cache = J.cache
      BY <2>1, <2>2, RecordTypes
    <2>4. \A k \in Key : J.cache[k] # NoInstance =>
              J.cache[k] = instances.cache[k] \/ (k = KeyOf(e) /\ J.cache[k].entry = e)
      BY <1>1, GetTypes
    <2> HIDE DEF J
    <2> QED BY <1>2, <2>3, <2>4
  <1>5. ASSUME NEW es \in SUBSET Entry, Reload(es) PROVE CacheInv'
    BY <1>1, <1>2, <1>5, InvalidateTypes DEF Reload
  <1>6. CASE UNCHANGED instances
    BY <1>1, <1>2, <1>6
  <1> QED BY <1>3, <1>4, <1>5, <1>6 DEF Next

(* Whatever is fetched, fails and is reloaded, counts and keys are kept.    *)
THEOREM CacheCorrect == Spec => []CacheInv
  BY CacheInit, CacheStep, PTL DEF Spec

(* Instances::key: what an entry's documents are parsed with was built from *)
(* the entry's own load, options and folder.                                *)
THEOREM OwnGrammarIsServed == Spec => []ServesOwnGrammar
  <1>1. CacheInv => ServesOwnGrammar
    <2> SUFFICES ASSUME UnderOwnKey, NEW e \in Entry, NEW inst,
                        inst = instances.cache[KeyOf(e)], inst # NoInstance
                 PROVE  inst.entry.load = e.load /\ inst.entry.options = e.options
                        /\ inst.entry.dir = e.dir
      BY DEF CacheInv, ServesOwnGrammar
    <2>1. KeyOf(inst.entry) = KeyOf(e)
      BY DEF UnderOwnKey
    <2>2. Prefix(inst.entry) = Prefix(e) /\ inst.entry.dir = e.dir
      BY <2>1 DEF KeyOf
    <2> QED BY <2>2 DEF Prefix
  <1> QED BY CacheCorrect, <1>1, PTL

(* quarantined, get and record_failure: a key that stays in quarantine is   *)
(* neither built for nor counted against.                                   *)
THEOREM QuarantineIsKept == Spec => QuarantineFreezes
  <1> DEFINE Frozen(e) ==
        Quarantined(instances, e) /\ Quarantined(instances, e)' =>
            /\ instances'.failures[KeyOf(e)] = instances.failures[KeyOf(e)]
            /\ instances'.cache[KeyOf(e)] = instances.cache[KeyOf(e)]
  <1>1. CacheInv /\ [Next]_instances => [\A e \in Entry : Frozen(e)]_instances
    <2> SUFFICES ASSUME CacheInv, Next, NEW x \in Entry,
                        Quarantined(instances, x), Quarantined(instances, x)'
                 PROVE  /\ instances'.failures[KeyOf(x)] = instances.failures[KeyOf(x)]
                        /\ instances'.cache[KeyOf(x)] = instances.cache[KeyOf(x)]
      OBVIOUS
    <2>1. instances \in Counted /\ KeyOf(x) \in Key
      BY DEF CacheInv, TypeOK, Counted, Key
    <2>2. instances.failures[KeyOf(x)] >= QuarantineLimit
          /\ instances'.failures[KeyOf(x)] >= QuarantineLimit
      BY DEF Quarantined
    <2>3. ASSUME NEW e \in Entry, Fetch(e)
          PROVE  /\ instances'.failures[KeyOf(x)] = instances.failures[KeyOf(x)]
                 /\ instances'.cache[KeyOf(x)] = instances.cache[KeyOf(x)]
      BY <2>1, <2>2, <2>3, GetFrame DEF Fetch
    <2>4. ASSUME NEW e \in Entry, Crash(e)
          PROVE  /\ instances'.failures[KeyOf(x)] = instances.failures[KeyOf(x)]
                 /\ instances'.cache[KeyOf(x)] = instances.cache[KeyOf(x)]
      <3>1. PICK made \in Outcomes(e) :
               /\ Got(instances, e, made) # NoInstance
               /\ instances' = RecordFailure(AfterGet(instances, e, made), e)
        BY <2>4 DEF Crash
      <3> DEFINE J == AfterGet(instances, e, made)
      <3>2. J \in Counted /\ instances.failures[KeyOf(e)] < QuarantineLimit
        BY <2>1, <3>1, GetTypes
      <3>3. KeyOf(x) # KeyOf(e)
        BY <2>1, <2>2, <3>2, CacheAssumption DEF Counted
      <3>4. J.cache[KeyOf(x)] = instances.cache[KeyOf(x)]
            /\ J.failures[KeyOf(x)] = instances.failures[KeyOf(x)]
        BY <2>1, <3>3, GetFrame
      <3>5. instances' = RecordFailure(J, e)
        BY <3>1
      <3> HIDE DEF J
      <3> QED BY <2>1, <3>2, <3>3, <3>4, <3>5 DEF RecordFailure, Counted
    <2>5. ASSUME NEW es \in SUBSET Entry, Reload(es)
          PROVE  /\ instances'.failures[KeyOf(x)] = instances.failures[KeyOf(x)]
                 /\ instances'.cache[KeyOf(x)] = instances.cache[KeyOf(x)]
      BY <2>1, <2>2, <2>5, InvalidateTypes, CacheAssumption DEF Reload
    <2> QED BY <2>3, <2>4, <2>5 DEF Next
  <1> QED BY CacheCorrect, <1>1, PTL DEF Spec, QuarantineFreezes

(* Instances::invalidate: an entry's reload releases only what the same     *)
(* load serves under the same routing scope.                                *)
THEOREM ReloadReleasesOwn == Spec => ReloadIsNarrow
  <1> DEFINE Narrow(e) ==
        instances' = Invalidate(instances, {e}) =>
            \A x \in Entry : Released(x) =>
                x.load = e.load /\ RoutingScope(x) = RoutingScope(e)
  <1>1. CacheInv /\ [Next]_instances => [\A e \in Entry : Narrow(e)]_instances
    <2> SUFFICES ASSUME CacheInv, NEW e \in Entry, NEW x \in Entry,
                        instances' = Invalidate(instances, {e}), Released(x)
                 PROVE  x.load = e.load /\ RoutingScope(x) = RoutingScope(e)
      OBVIOUS
    <2>1. instances \in Counted /\ KeyOf(x) \in Key
      BY DEF CacheInv, TypeOK, Counted, Key
    <2>2. KeyOf(x)[1] = Prefix(e)
      <3> SUFFICES ASSUME KeyOf(x)[1] # Prefix(e) PROVE FALSE
        OBVIOUS
      <3>1. /\ instances'.cache[KeyOf(x)] = instances.cache[KeyOf(x)]
            /\ instances'.failures[KeyOf(x)] = instances.failures[KeyOf(x)]
        BY <2>1, InvalidateTypes
      <3>2. instances.failures[KeyOf(x)] \in Nat
        BY <2>1, CacheAssumption DEF Counted
      <3> QED BY <3>1, <3>2 DEF Released
    <2>3. Prefix(x) = Prefix(e)
      BY <2>2 DEF KeyOf
    <2> QED BY <2>3 DEF Prefix
  <1> QED BY CacheCorrect, <1>1, PTL DEF Spec, ReloadIsNarrow
=============================================================================
