--------------------------- MODULE InstanceCache ---------------------------
(* The engine instances of rs/src/instances.rs: a cache and a failure count *)
(* under one key per grammar and sandbox folder, a key quarantined once it  *)
(* has failed QuarantineLimit times, and hot reload's release of every key  *)
(* that begins with an entry's prefix.                                      *)
(*                                                                          *)
(* An entry is what its declaration says of how to build it and where it    *)
(* applies: [id, options, load, layers, scope, dir, exts, routable,         *)
(* workspace].  load names the module, grammar file or spec; layers is what *)
(* else the loader composes (base, stack, syncGroups).                      *)
(*                                                                          *)
(* Next to some definitions stands a faulty form no action uses, named for  *)
(* the mistake: what the properties below are there to catch.               *)
EXTENDS Naturals

CONSTANTS
    Entry,              \* the entries in use
    Build,              \* the values a build may yield, any NoInstance excepted
    NoInstance,         \* no instance: nothing cached, a failed or refused build
    NoPath,             \* Option<PathBuf>'s None
    QuarantineLimit

ASSUME CacheAssumption ==
    /\ QuarantineLimit \in Nat \ {0}
    /\ NoInstance \notin Build

VARIABLE instances      \* Instances: [cache, failures], both by key

(* Entry::routing_scope: its own folder, none, or the one it names.         *)
RoutingScope(e) ==
    CASE e.scope.kind = "dir"     -> e.dir
      [] e.scope.kind = "session" -> NoPath
      [] OTHER                    -> e.scope.folder

(* Instances::entry_prefix and Instances::key (no caller in the server      *)
(* names a folder, so the key's is the entry's own).                        *)
PrefixIsId(e) == [id |-> e.id]
Prefix(e)     == [id |-> e.id, options |-> e.options, load |-> e.load, scope |-> RoutingScope(e)]
KeyIsPrefix(e) == <<Prefix(e), NoPath>>
KeyOf(e)       == <<Prefix(e), e.dir>>
Key            == {KeyOf(e) : e \in Entry}

TypeOK == instances \in [cache : [Key -> Build \cup {NoInstance}],
                         failures : [Key -> 0..QuarantineLimit]]

Empty == [cache |-> [k \in Key |-> NoInstance], failures |-> [k \in Key |-> 0]]
----------------------------------------------------------------------------
(* The operations, on an instances value I.                                 *)

Quarantined(I, e) == I.failures[KeyOf(e)] >= QuarantineLimit

RecordFailure(I, e) == [I EXCEPT !.failures[KeyOf(e)] = @ + 1]

(* Instances::get, the build yielding made if one is needed: whether it is, *)
(* what get returns, and what it leaves.                                    *)
BuildsAnyway(I, e) == I.cache[KeyOf(e)] = NoInstance
NeedsBuild(I, e)   == ~Quarantined(I, e) /\ I.cache[KeyOf(e)] = NoInstance

Got(I, e, made) ==
    IF Quarantined(I, e) THEN NoInstance
    ELSE IF NeedsBuild(I, e) THEN made ELSE I.cache[KeyOf(e)]

AfterGet(I, e, made) ==
    IF ~NeedsBuild(I, e) THEN I
    ELSE IF made = NoInstance THEN RecordFailure(I, e)
    ELSE [I EXCEPT !.cache[KeyOf(e)] = made]

(* Instances::invalidate, of each of a set of entries.                      *)
ForgivesOnly(I, es) ==
    [I EXCEPT !.failures = [k \in Key |-> IF \E e \in es : k[1] = Prefix(e) THEN 0 ELSE @[k]]]

Invalidate(I, es) ==
    LET dropped == {k \in Key : \E e \in es : k[1] = Prefix(e)}
    IN  [cache    |-> [k \in Key |-> IF k \in dropped THEN NoInstance ELSE I.cache[k]],
         failures |-> [k \in Key |-> IF k \in dropped THEN 0 ELSE I.failures[k]]]
----------------------------------------------------------------------------
Init == instances = Empty

(* What make_instance may answer for an entry: an instance built for it, or *)
(* none (refused, unreadable, out of budget, a panic).                      *)
Outcomes(e) == {b \in Build : b.entry = e} \cup {NoInstance}

(* A completion: an instance is fetched and nothing recorded against it.    *)
Fetch(e) == \E made \in Outcomes(e) : instances' = AfterGet(instances, e, made)

(* An analysis whose instance's own code fails.                             *)
Crash(e) ==
    \E made \in Outcomes(e) :
        /\ Got(instances, e, made) # NoInstance
        /\ instances' = RecordFailure(AfterGet(instances, e, made), e)

(* A hot reload, of the entries one notification concerns.                  *)
Reload(es) == instances' = Invalidate(instances, es)

Next ==
    \/ \E e \in Entry : Fetch(e) \/ Crash(e)
    \/ \E es \in SUBSET Entry : Reload(es)

Spec == Init /\ [][Next]_instances
----------------------------------------------------------------------------
Released(e) ==
    \/ instances.cache[KeyOf(e)] # NoInstance /\ instances'.cache[KeyOf(e)] = NoInstance
    \/ instances.failures[KeyOf(e)] > instances'.failures[KeyOf(e)]

(* What parses an entry's documents was built from the entry's own grammar  *)
(* and options in the entry's own folder, whichever entries were fetched    *)
(* before it.                                                               *)
ServesOwnGrammar ==
    \A e \in Entry : LET inst == instances.cache[KeyOf(e)] IN
        inst # NoInstance =>
            /\ inst.entry.load = e.load
            /\ inst.entry.options = e.options
            /\ inst.entry.dir = e.dir

(* A key in quarantine stays exactly as it is until it is released: nothing *)
(* more is counted or built under it.                                       *)
QuarantineFreezes ==
    [][\A e \in Entry :
          Quarantined(instances, e) /\ Quarantined(instances, e)' =>
              /\ instances'.failures[KeyOf(e)] = instances.failures[KeyOf(e)]
              /\ instances'.cache[KeyOf(e)] = instances.cache[KeyOf(e)]]_instances

(* Reloading one entry releases no other grammar: a file edited in one      *)
(* folder does not put another's quarantined grammar back into service.     *)
ReloadIsNarrow ==
    [][\A e \in Entry : instances' = Invalidate(instances, {e}) =>
          \A x \in Entry : Released(x) =>
              x.load = e.load /\ RoutingScope(x) = RoutingScope(e)]_instances

(* entry_prefix's comment: a key matches an entry's prefix exactly when it  *)
(* was made for that entry, whatever the folder.                            *)
ReloadIsForOneEntry ==
    [][\A e \in Entry : instances' = Invalidate(instances, {e}) =>
          \A x \in Entry : Released(x) => x.dir = e.dir]_instances

(* entry_prefix's comment: two entries sharing a language id but loading    *)
(* different grammars never share an instance.                              *)
NeverShared ==
    \A e \in Entry : LET inst == instances.cache[KeyOf(e)] IN
        inst # NoInstance => inst.entry.load = e.load /\ inst.entry.layers = e.layers
----------------------------------------------------------------------------
(* What makes ServesOwnGrammar inductive: an instance lies under the key of *)
(* the entry it was built for.                                              *)
UnderOwnKey ==
    \A e \in Entry : LET inst == instances.cache[KeyOf(e)] IN
        inst # NoInstance => KeyOf(inst.entry) = KeyOf(e)

CacheInv == TypeOK /\ UnderOwnKey
============================================================================
