---------------------------- MODULE LoaderProofs ----------------------------
(* The invariants of a build, for any entries, files and texts, any number  *)
(* of builds and of files replaced while they run.  LoaderInv carries, from *)
(* one look at a file to the next, what is known of it: it is where the     *)
(* entry's path led since the build began, the text that was read is that   *)
(* file's, it fits, and it is what the build's own compile compiles.        *)
EXTENDS Loader, TLAPS

(* Where a path leads is a file that is there.                              *)
LEMMA LeadsToFile ==
    ASSUME NEW d \in [Place -> Node], NEW p, Leads(d, p) # NoPath
    PROVE  Leads(d, p) \in Place /\ d[Leads(d, p)].is = "file" /\ d[Leads(d, p)].text \in Text
  <1> DEFINE files == {q \in Passed(d, p) \cap Place : d[q].is = "file"}
  <1>1. files # {} /\ Leads(d, p) = CHOOSE q \in files : TRUE
    BY DEF Leads
  <1>2. Leads(d, p) \in files
    BY <1>1
  <1>3. Leads(d, p) \in Place /\ d[Leads(d, p)].is = "file"
    BY <1>2
  <1> QED BY <1>3, LoaderAssumption

(* What a look finds.                                                       *)
LEMMA SightsAreLooks ==
    ASSUME NEW d \in [Place -> Node]
    PROVE  Sights(d) \subseteq Look
  BY LeadsToFile DEF Sights, Look

LEMMA SeenAt ==
    ASSUME NEW d \in [Place -> Node], NEW p \in Place, Leads(d, p) # NoPath
    PROVE  [at |-> p, file |-> Leads(d, p), text |-> d[Leads(d, p)].text] \in Sights(d)
  BY DEF Sights

(* What the sandbox lets through is where the entry's path leads, in its    *)
(* folder.                                                                  *)
LEMMA SandboxedIsFound ==
    ASSUME disk \in [Place -> Node], NEW e, Sandboxed(e) # NoPath, NEW looks, Sights(disk) \subseteq looks
    PROVE  Sandboxed(e) \in Place /\ LedTo(e, Sandboxed(e), looks)
  <1>1. Sandboxed(e) = Leads(disk, Named(e)) /\ Leads(disk, Named(e)) # NoPath
        /\ IsPrefix(Base(e), Sandboxed(e))
    BY DEF Sandboxed, Real
  <1>2. Named(e) \in Place /\ Sandboxed(e) \in Place
    BY <1>1, LeadsToFile DEF Leads
  <1>3. PICK look \in looks : look.at = Named(e) /\ look.file = Sandboxed(e)
    BY <1>1, <1>2, SeenAt
  <1> QED BY <1>1, <1>2, <1>3 DEF LedTo

(* The text read of a file is what a look at it finds.                      *)
LEMMA NowIsFound ==
    ASSUME disk \in [Place -> Node], Now # Nothing, NEW looks, Sights(disk) \subseteq looks
    PROVE  Now \in Text /\ FoundAt(build.file, Now, looks)
  <1>1. Leads(disk, build.file) # NoPath /\ Now = disk[Leads(disk, build.file)].text
    BY DEF Now, Real
  <1>2. build.file \in Place
    BY <1>1 DEF Leads
  <1>3. PICK look \in looks : look.at = build.file /\ look.text = Now
    BY <1>1, <1>2, SeenAt
  <1> QED BY <1>1, <1>3, LeadsToFile DEF FoundAt

(* The two ways a build ends.                                               *)
LEMMA RefuseEnds ==
    ASSUME TypeOK, Refuse
    PROVE  /\ done' = NotBuilt
           /\ build' = [Idle EXCEPT !.n = build.n]
           /\ build'.pc = "idle" /\ build'.n = build.n
  BY DEF Refuse, End, Idle

LEMMA BuiltEnds ==
    ASSUME TypeOK, Built
    PROVE  /\ done' = [built |-> TRUE, entry |-> build.entry, file |-> build.file,
                       text |-> build.text, spec |-> build.spec, trusted |-> trusted, held |-> held]
           /\ build' = [Idle EXCEPT !.n = build.n]
           /\ build'.pc = "idle" /\ build'.n = build.n
  BY DEF Built, End, Idle

LEMMA EndedTypes ==
    ASSUME TypeOK, Refuse \/ Built
    PROVE  build' \in BuildState /\ done' \in Result
  <1>1. build' = [Idle EXCEPT !.n = build.n]
    BY RefuseEnds, BuiltEnds
  <1>2. build' \in BuildState
    BY <1>1 DEF TypeOK, BuildState, Idle, Steps
  <1>3. CASE Refuse
    <2>1. done' = NotBuilt
      BY <1>3, RefuseEnds
    <2>2. NotBuilt \in Result
      BY DEF NotBuilt, Result
    <2> QED BY <1>2, <2>1, <2>2
  <1>4. CASE Built
    <2>1. done' = [built |-> TRUE, entry |-> build.entry, file |-> build.file,
                   text |-> build.text, spec |-> build.spec, trusted |-> trusted, held |-> held]
      BY <1>4, BuiltEnds
    <2> QED BY <1>2, <2>1 DEF TypeOK, BuildState, Result
  <1> QED BY <1>3, <1>4

(* And what one has that goes on to its next step.                          *)
LEMMA GoingOnTypes ==
    ASSUME build \in BuildState, NEW pc \in Steps
    PROVE  /\ [build EXCEPT !.pc = pc] \in BuildState
           /\ \A file \in Place : [build EXCEPT !.pc = pc, !.file = file] \in BuildState
           /\ \A text \in Text : [build EXCEPT !.pc = pc, !.text = text] \in BuildState
           /\ \A spec \in Doc : [build EXCEPT !.pc = pc, !.spec = spec] \in BuildState
           /\ \A text \in Text, spec \in Doc :
                 [build EXCEPT !.pc = pc, !.text = text, !.spec = spec] \in BuildState
  BY DEF BuildState
-----------------------------------------------------------------------------
LEMMA LoaderInit == Init => LoaderInv
  <1> SUFFICES ASSUME Init PROVE LoaderInv
    OBVIOUS
  <1>1. TypeOK
    BY LoaderAssumption DEF Init, TypeOK, BuildState, Compile, Result, Idle, NoCompile, NotBuilt, Steps
  <1>2. KeepsToLane /\ HoldsItsText
    BY DEF Init, KeepsToLane, HoldsItsText, HasRead, Resolved, Idle, Steps
  <1>3. CompilesAreBounded
    BY DEF Init, CompilesAreBounded, NoCompile
  <1>4. BuiltFromOwnText /\ DataIsVetted /\ ModulesArePermitted
    BY DEF Init, BuiltFromOwnText, DataIsVetted, ModulesArePermitted, NotBuilt
  <1> QED BY <1>1, <1>2, <1>3, <1>4 DEF LoaderInv

(* Every variable keeps its type.                                           *)
LEMMA TypeStep == TypeOK /\ KeepsToLane /\ HoldsItsText /\ [Next]_vars => TypeOK'
  <1> SUFFICES ASSUME TypeOK, KeepsToLane, HoldsItsText, [Next]_vars PROVE TypeOK'
    OBVIOUS
  <1> USE DEF TypeOK
  <1>1. ASSUME LoadModule PROVE TypeOK'
    BY <1>1, EndedTypes DEF LoadModule
  <1>2. ASSUME Resolve PROVE TypeOK'
    <2>1. CASE Sandboxed(build.entry) = NoPath
      BY <1>2, <2>1, EndedTypes DEF Resolve
    <2>2. CASE Sandboxed(build.entry) # NoPath
      <3>1. Sandboxed(build.entry) \in Place /\ "stat" \in Steps
        BY <2>2, SandboxedIsFound DEF Steps
      <3>2. build' \in BuildState
        BY <1>2, <2>2, <3>1, GoingOnTypes DEF Resolve
      <3> QED BY <1>2, <2>2, <3>2 DEF Resolve
    <2> QED BY <2>1, <2>2
  <1>3. ASSUME Stat PROVE TypeOK'
    <2>1. "read" \in Steps
      BY DEF Steps
    <2>2. build' \in BuildState /\ done' \in Result
      BY <1>3, <2>1, EndedTypes, GoingOnTypes DEF Stat, Goto
    <2> QED BY <1>3, <2>2 DEF Stat
  <1>4. ASSUME Read PROVE TypeOK'
    <2>1. CASE Refuse
      BY <1>4, <2>1, EndedTypes DEF Read
    <2>2. CASE ~Refuse
      <3>1. Fits(Now)
        BY <1>4, <2>2 DEF Read
      <3>2. Now \in Text /\ (Facts[Now].gives = "spec" => Facts[Now].spec \in Doc)
        BY <3>1, NowIsFound, LoaderAssumption DEF Fits
      <3>3. "compile" \in Steps /\ "install" \in Steps
        BY DEF Steps
      <3>4. build' \in BuildState /\ UNCHANGED done
        <4>1. CASE build.entry.load = "grammar"
          <5>1. build' = [build EXCEPT !.pc = "compile", !.text = Now] /\ UNCHANGED done
            BY <1>4, <3>1, <4>1 DEF Read
          <5> QED BY <3>2, <3>3, <5>1, GoingOnTypes
        <4>2. CASE build.entry.load # "grammar"
          <5>1. Facts[Now].gives = "spec" /\ UNCHANGED done
                /\ build' = [build EXCEPT !.pc = "install", !.text = Now, !.spec = Facts[Now].spec]
            BY <1>4, <2>2, <3>1, <4>2 DEF Read
          <5> QED BY <3>2, <3>3, <5>1, GoingOnTypes
        <4> QED BY <4>1, <4>2
      <3> QED BY <1>4, <3>4 DEF Read
    <2> QED BY <2>1, <2>2
  <1>5. ASSUME Spawn PROVE TypeOK'
    <2>1. CASE Refuse /\ UNCHANGED compiles
      BY <1>5, <2>1, EndedTypes DEF Spawn
    <2>2. CASE Compilable /\ compiles' = [compiles EXCEPT ![build.n] = Started] /\ Goto("waiting")
      <3>1. Started \in Compile
        BY <2>2 DEF Started, Compilable, Compile, BuildState
      <3>2. "waiting" \in Steps
        BY DEF Steps
      <3>3. build' \in BuildState /\ UNCHANGED done
        BY <2>2, <3>2, GoingOnTypes DEF Goto
      <3> QED BY <1>5, <2>2, <3>1, <3>3 DEF Spawn
    <2> QED BY <1>5, <2>1, <2>2 DEF Spawn
  <1>6. ASSUME Receive PROVE TypeOK'
    <2>1. CASE Refuse
      BY <1>6, <2>1, EndedTypes DEF Receive
    <2>2. CASE ~Refuse
      <3> DEFINE answer == compiles[build.n]
      <3>1. answer.is = "sent" /\ Facts[answer.text].gives = "spec"
            /\ build' = [build EXCEPT !.pc = "install", !.spec = Facts[answer.text].spec]
        BY <1>6, <2>2 DEF Receive, Channel
      <3>2. answer.text = build.text /\ build.text \in Text
        BY <1>6 DEF Receive, HoldsItsText, HasRead, FoundAt, Look
      <3>3. Facts[answer.text].spec \in Doc /\ "install" \in Steps
        BY <3>1, <3>2, LoaderAssumption DEF Steps
      <3>4. build' \in BuildState
        BY <3>1, <3>3, GoingOnTypes
      <3> QED BY <1>6, <2>2, <3>4 DEF Receive
    <2> QED BY <2>1, <2>2
  <1>7. ASSUME Expire PROVE TypeOK'
    BY <1>7, EndedTypes DEF Expire
  <1>8. ASSUME Install PROVE TypeOK'
    BY <1>8, EndedTypes DEF Install
  <1>9. ASSUME NEW e \in Entry, Begin(e) PROVE TypeOK'
    <2>1. build'.spec \in Doc \cup {Nothing}
      BY <1>9, LoaderAssumption DEF Begin, Idle
    <2>2. build'.pc \in Steps /\ build'.n \in 0..MaxBuilds
      BY <1>9, LoaderAssumption DEF Begin, Idle, Steps, BuildState
    <2>3. build' = [n |-> build'.n, pc |-> build'.pc, entry |-> e, file |-> NoPath,
                    text |-> Nothing, spec |-> build'.spec]
      BY <1>9 DEF Begin, Idle
    <2>4. held' \subseteq Look
      BY <1>9, SightsAreLooks DEF Begin
    <2>5. build' \in BuildState
      BY <2>1, <2>2, <2>3 DEF BuildState
    <2>6. done' \in Result
      BY <1>9 DEF Begin, NotBuilt, Result
    <2> QED BY <1>9, <2>4, <2>5, <2>6 DEF Begin
  <1>10. ASSUME NEW n \in 1..MaxBuilds, CompileEnds(n) PROVE TypeOK'
    BY <1>10 DEF CompileEnds, Compile
  <1>11. ASSUME NEW p \in Place, NEW node \in Node, Rewrite(p, node) PROVE TypeOK'
    <2>1. disk' \in [Place -> Node]
      BY <1>11 DEF Rewrite
    <2>2. held' \subseteq Look
      BY <1>11, <2>1, SightsAreLooks DEF Rewrite
    <2>3. rewrites' \in 0..MaxRewrites
      BY <1>11, LoaderAssumption DEF Rewrite
    <2> QED BY <1>11, <2>1, <2>2, <2>3 DEF Rewrite
  <1>12. ASSUME GrantTrust PROVE TypeOK'
    BY <1>12 DEF GrantTrust
  <1>13. CASE UNCHANGED vars
    BY <1>13 DEF vars
  <1> QED BY <1>1, <1>2, <1>3, <1>4, <1>5, <1>6, <1>7, <1>8, <1>9, <1>10, <1>11, <1>12, <1>13
          DEF Next, Building, Over
(* What the steps of a build do to where it is, in the terms of its lanes.  *)
LEMMA LaneStep == TypeOK /\ KeepsToLane /\ [Next]_vars => KeepsToLane'
  <1> SUFFICES ASSUME TypeOK, KeepsToLane, [Next]_vars PROVE KeepsToLane'
    OBVIOUS
  <1> DEFINE Idles  == build'.pc = "idle"
             Goes(pc) == build'.pc = pc /\ build'.n = build.n /\ build'.entry = build.entry
  <1>1. ASSUME Idles PROVE KeepsToLane'
    BY <1>1 DEF KeepsToLane, Steps
  <1>2. ASSUME Refuse \/ Built PROVE Idles
    BY <1>2, RefuseEnds, BuiltEnds
  <1>3. ASSUME UNCHANGED build PROVE KeepsToLane'
    BY <1>3 DEF KeepsToLane, IsModule
  <1>4. ASSUME NEW pc \in {"stat", "read", "compile", "waiting"}, Goes(pc),
               build.pc \in {"resolve", "stat", "read", "compile"}
        PROVE  KeepsToLane'
    BY <1>4 DEF KeepsToLane, Steps, IsModule
  <1>5. ASSUME Goes("install"), build.pc \in {"read", "waiting"} PROVE KeepsToLane'
    BY <1>5 DEF KeepsToLane, Steps, IsModule
  <1> HIDE DEF Idles
  <1>6. ASSUME LoadModule PROVE KeepsToLane'
    BY <1>1, <1>2, <1>6 DEF LoadModule
  <1>7. ASSUME Resolve PROVE KeepsToLane'
    <2>1. CASE Refuse
      BY <1>1, <1>2, <2>1
    <2>2. CASE ~Refuse
      <3>1. Goes("stat")
        BY <1>7, <2>2 DEF Resolve, TypeOK, BuildState
      <3> QED BY <1>4, <1>7, <3>1 DEF Resolve
    <2> QED BY <2>1, <2>2
  <1>8. ASSUME Stat PROVE KeepsToLane'
    <2>1. CASE Refuse
      BY <1>1, <1>2, <2>1
    <2>2. CASE ~Refuse
      <3>1. Goes("read")
        BY <1>8, <2>2 DEF Stat, Goto, TypeOK, BuildState
      <3> QED BY <1>4, <1>8, <3>1 DEF Stat
    <2> QED BY <2>1, <2>2
  <1>9. ASSUME Read PROVE KeepsToLane'
    <2>1. CASE Refuse
      BY <1>1, <1>2, <2>1
    <2>2. CASE ~Refuse
      <3>1. Goes("compile") \/ Goes("install")
        BY <1>9, <2>2 DEF Read, TypeOK, BuildState
      <3> QED BY <1>4, <1>5, <1>9, <3>1 DEF Read
    <2> QED BY <2>1, <2>2
  <1>10. ASSUME Spawn PROVE KeepsToLane'
    <2>1. CASE Refuse
      BY <1>1, <1>2, <2>1
    <2>2. CASE ~Refuse
      <3>1. Goes("waiting")
        BY <1>10, <2>2 DEF Spawn, Goto, TypeOK, BuildState
      <3> QED BY <1>4, <1>10, <3>1 DEF Spawn
    <2> QED BY <2>1, <2>2
  <1>11. ASSUME Receive PROVE KeepsToLane'
    <2>1. CASE Refuse
      BY <1>1, <1>2, <2>1
    <2>2. CASE ~Refuse
      <3>1. Goes("install")
        BY <1>11, <2>2 DEF Receive, TypeOK, BuildState
      <3> QED BY <1>5, <1>11, <3>1 DEF Receive
    <2> QED BY <2>1, <2>2
  <1>12. ASSUME Expire \/ Install PROVE KeepsToLane'
    BY <1>1, <1>2, <1>12 DEF Expire, Install
  <1>13. ASSUME NEW e \in Entry, Begin(e) PROVE KeepsToLane'
    <2>1. build'.n > 0 /\ build'.entry = e
      BY <1>13 DEF Begin, Idle, TypeOK, BuildState
    <2>2. CASE IsModule(e)
      <3>1. build'.pc = "module"
        BY <1>13, <2>2 DEF Begin, Idle, IsModule
      <3> QED BY <2>1, <2>2, <3>1 DEF KeepsToLane, IsModule
    <2>3. CASE ~IsModule(e)
      <3>1. build'.pc = IF e.load = "inline" THEN "install" ELSE "resolve"
        BY <1>13, <2>3 DEF Begin, Idle
      <3> QED BY <2>1, <2>3, <3>1 DEF KeepsToLane, IsModule
    <2> QED BY <2>2, <2>3
  <1> HIDE DEF Goes
  <1>14. ASSUME NEW n \in 1..MaxBuilds, CompileEnds(n) PROVE KeepsToLane'
    BY <1>3, <1>14 DEF CompileEnds
  <1>15. ASSUME NEW p \in Place, NEW node \in Node, Rewrite(p, node) PROVE KeepsToLane'
    BY <1>3, <1>15 DEF Rewrite
  <1>16. ASSUME GrantTrust \/ UNCHANGED vars PROVE KeepsToLane'
    BY <1>3, <1>16 DEF GrantTrust, vars
  <1> QED BY <1>6, <1>7, <1>8, <1>9, <1>10, <1>11, <1>12, <1>13, <1>14, <1>15, <1>16
          DEF Next, Building, Over
(* What is known of the text survives to the install: nothing but its own   *)
(* compile answers a build, and a text once held stays held.                *)
LEMMA LooksKept ==
    ASSUME NEW looks, NEW more, looks \subseteq more
    PROVE  /\ \A e, file : LedTo(e, file, looks) => LedTo(e, file, more)
           /\ \A file, text : FoundAt(file, text, looks) => FoundAt(file, text, more)
  BY DEF LedTo, FoundAt

LEMMA TextStep == TypeOK /\ KeepsToLane /\ HoldsItsText /\ [Next]_vars => HoldsItsText'
  <1> SUFFICES ASSUME TypeOK, KeepsToLane, HoldsItsText, [Next]_vars PROVE HoldsItsText'
    OBVIOUS
  <1> DEFINE Held == build'.pc # "idle" => Sights(disk)' \subseteq held'
  <1>0. disk' = disk => Sights(disk)' = Sights(disk)
    BY DEF Sights, Leads, Passed
  <1>1. ASSUME UNCHANGED <<disk, held>>, build.pc # "idle" PROVE Held
    BY <1>0, <1>1 DEF HoldsItsText
  <1>2. ASSUME Refuse \/ Built PROVE HoldsItsText'
    <2>1. build'.pc = "idle"
      BY <1>2, RefuseEnds, BuiltEnds
    <2> QED BY <2>1 DEF HoldsItsText, HasRead, Resolved
  (* A step that goes on with the same file, in one entry's build.          *)
  <1>3. ASSUME Held, UNCHANGED held, build.entry' = build.entry, build.file' = build.file, Resolved
        PROVE  Resolved' => build'.file \in Place /\ LedTo(build'.entry, build'.file, held')
    BY <1>3 DEF HoldsItsText
  <1> HIDE DEF Held
  <1>4. ASSUME LoadModule \/ Expire \/ Install PROVE HoldsItsText'
    BY <1>2, <1>4 DEF LoadModule, Expire, Install
  <1>5. ASSUME Resolve PROVE HoldsItsText'
    <2>1. CASE Refuse
      BY <1>2, <2>1
    <2>2. CASE ~Refuse
      <3>1. /\ build'.pc = "stat" /\ build'.entry = build.entry
            /\ Sandboxed(build.entry) # NoPath /\ build'.file = Sandboxed(build.entry)
        BY <1>5, <2>2 DEF Resolve, TypeOK, BuildState
      <3>2. UNCHANGED <<disk, held, compiles>> /\ build.pc # "idle"
        BY <1>5 DEF Resolve
      <3>3. build'.file \in Place /\ LedTo(build'.entry, build'.file, held')
        BY <3>1, <3>2, SandboxedIsFound DEF HoldsItsText, TypeOK
      <3>4. ~HasRead'
        BY <3>1 DEF HasRead
      <3> QED BY <1>1, <3>1, <3>2, <3>3, <3>4 DEF HoldsItsText, Held
    <2> QED BY <2>1, <2>2
  <1>6. ASSUME Stat PROVE HoldsItsText'
    <2>1. CASE Refuse
      BY <1>2, <2>1
    <2>2. CASE ~Refuse
      <3>1. build'.pc = "read" /\ build'.entry = build.entry /\ build'.file = build.file
        BY <1>6, <2>2 DEF Stat, Goto, TypeOK, BuildState
      <3>2. UNCHANGED <<disk, held, compiles>> /\ build.pc = "stat"
        BY <1>6 DEF Stat
      <3>3. Resolved /\ ~HasRead' /\ Held
        BY <1>1, <3>1, <3>2 DEF Resolved, HasRead
      <3> QED BY <1>3, <3>1, <3>2, <3>3 DEF HoldsItsText, Held
    <2> QED BY <2>1, <2>2
  <1>7. ASSUME Read PROVE HoldsItsText'
    <2>1. CASE Refuse
      BY <1>2, <2>1
    <2>2. CASE ~Refuse
      <3>1. UNCHANGED <<disk, held, compiles>> /\ build.pc = "read"
        BY <1>7 DEF Read
      <3>2. Fits(Now)
        BY <1>7, <2>2 DEF Read
      <3>3. FoundAt(build.file, Now, held) /\ Facts[Now].bytes <= MaxBytes
        BY <3>1, <3>2, NowIsFound DEF Fits, HoldsItsText, TypeOK
      <3>4. Resolved /\ Held
        BY <1>1, <3>1 DEF Resolved
      <3>5. CASE build.entry.load = "grammar"
        <4>1. build'.pc = "compile" /\ build'.text = Now /\ build'.entry = build.entry
              /\ build'.file = build.file
          BY <1>7, <3>2, <3>5 DEF Read, TypeOK, BuildState
        <4> QED BY <1>3, <3>1, <3>3, <3>4, <4>1 DEF HoldsItsText, Held
      <3>6. CASE build.entry.load # "grammar"
        <4>1. build'.pc = "install" /\ build'.text = Now /\ build'.spec = Facts[Now].spec
              /\ build'.entry = build.entry /\ build'.file = build.file
          BY <1>7, <2>2, <3>2, <3>6 DEF Read, TypeOK, BuildState
        <4> QED BY <1>3, <3>1, <3>3, <3>4, <4>1 DEF HoldsItsText, Held
      <3> QED BY <3>5, <3>6
    <2> QED BY <2>1, <2>2
  <1>8. ASSUME Spawn PROVE HoldsItsText'
    <2>1. CASE Refuse
      BY <1>2, <2>1
    <2>2. CASE ~Refuse
      <3>1. UNCHANGED <<disk, held>> /\ build.pc = "compile"
        BY <1>8 DEF Spawn
      <3>2. compiles' = [compiles EXCEPT ![build.n] = Started]
            /\ build'.pc = "waiting" /\ build'.text = build.text /\ build'.n = build.n
            /\ build'.entry = build.entry /\ build'.file = build.file
        BY <1>8, <2>2 DEF Spawn, Goto, TypeOK, BuildState
      <3>3. build.n \in 1..MaxBuilds
        BY <3>1 DEF KeepsToLane, TypeOK, BuildState
      <3>4. compiles'[build'.n].text = build'.text
        BY <3>2, <3>3 DEF Started, TypeOK
      <3>5. Resolved /\ HasRead /\ Held
        BY <1>1, <3>1 DEF Resolved, HasRead
      <3> QED BY <1>3, <3>1, <3>2, <3>4, <3>5 DEF HoldsItsText, Held
    <2> QED BY <2>1, <2>2
  <1>9. ASSUME Receive PROVE HoldsItsText'
    <2>1. CASE Refuse
      BY <1>2, <2>1
    <2>2. CASE ~Refuse
      <3>1. UNCHANGED <<disk, held>> /\ build.pc = "waiting"
        BY <1>9 DEF Receive
      <3>2. build'.pc = "install" /\ build'.text = build.text
            /\ build'.spec = Facts[compiles[build.n].text].spec
            /\ build'.entry = build.entry /\ build'.file = build.file
        BY <1>9, <2>2 DEF Receive, Channel, TypeOK, BuildState
      <3>3. Resolved /\ HasRead /\ Held
        BY <1>1, <3>1 DEF Resolved, HasRead
      <3> QED BY <1>3, <3>1, <3>2, <3>3 DEF HoldsItsText, Held
    <2> QED BY <2>1, <2>2
  <1>10. ASSUME NEW e \in Entry, Begin(e) PROVE HoldsItsText'
    <2>1. UNCHANGED disk /\ held' = Sights(disk)
      BY <1>10 DEF Begin
    <2>2. build'.pc \in {"module", "install", "resolve"}
      BY <1>10 DEF Begin, Idle
    <2>3. build'.pc = "install" => build'.entry.load = "inline"
      <3>1. CASE IsModule(e)
        BY <1>10, <3>1 DEF Begin, Idle, IsModule
      <3>2. CASE ~IsModule(e)
        BY <1>10, <3>2 DEF Begin, Idle
      <3> QED BY <3>1, <3>2
    <2>4. ~HasRead' /\ ~Resolved'
      BY <2>2, <2>3 DEF HasRead, Resolved
    <2> QED BY <1>0, <2>1, <2>2, <2>3, <2>4 DEF HoldsItsText
  <1>11. ASSUME UNCHANGED build, held \subseteq held', Sights(disk)' \subseteq held' \/ build.pc = "idle",
                \A m \in 1..MaxBuilds : compiles'[m].text = compiles[m].text
         PROVE  HoldsItsText'
    <2>1. build.pc = "waiting" => build.n \in 1..MaxBuilds
      BY DEF KeepsToLane, TypeOK, BuildState
    <2>2. Resolved' = Resolved /\ HasRead' = HasRead
      BY <1>11 DEF Resolved, HasRead
    <2>3. Resolved => LedTo(build.entry, build.file, held')
      BY <1>11, LooksKept DEF HoldsItsText
    <2>4. HasRead => FoundAt(build.file, build.text, held')
      BY <1>11, LooksKept DEF HoldsItsText
    <2> QED BY <1>11, <2>1, <2>2, <2>3, <2>4 DEF HoldsItsText
  <1>12. ASSUME NEW n \in 1..MaxBuilds, CompileEnds(n) PROVE HoldsItsText'
    <2>1. UNCHANGED <<disk, held, build>>
      BY <1>12 DEF CompileEnds
    <2>2. \A m \in 1..MaxBuilds : compiles'[m].text = compiles[m].text
      BY <1>12 DEF CompileEnds, TypeOK, Compile
    <2> QED BY <1>0, <1>11, <2>1, <2>2 DEF HoldsItsText
  <1>13. ASSUME NEW p \in Place, NEW node \in Node, Rewrite(p, node) PROVE HoldsItsText'
    <2>1. UNCHANGED <<build, compiles>> /\ held' = held \cup Sights(disk)'
      BY <1>13 DEF Rewrite, Sights, Leads, Passed
    <2> QED BY <1>11, <2>1
  <1>14. ASSUME GrantTrust \/ UNCHANGED vars PROVE HoldsItsText'
    <2>1. UNCHANGED <<disk, held, build, compiles>>
      BY <1>14 DEF GrantTrust, vars
    <2> QED BY <1>0, <1>11, <2>1 DEF HoldsItsText
  <1> QED BY <1>4, <1>5, <1>6, <1>7, <1>8, <1>9, <1>10, <1>12, <1>13, <1>14 DEF Next, Building, Over

(* Only Spawn starts a compile, of what it has found within the caps.       *)
LEMMA CompileStep ==
    TypeOK /\ KeepsToLane /\ HoldsItsText /\ CompilesAreBounded /\ [Next]_vars
        => CompilesAreBounded'
  <1> SUFFICES ASSUME TypeOK, KeepsToLane, HoldsItsText, CompilesAreBounded, [Next]_vars
               PROVE  CompilesAreBounded'
    OBVIOUS
  <1>1. CASE UNCHANGED compiles
    BY <1>1 DEF CompilesAreBounded, IsBounded
  <1>2. ASSUME Spawn, ~UNCHANGED compiles PROVE CompilesAreBounded'
    <2>1. Compilable /\ compiles' = [compiles EXCEPT ![build.n] = Started]
          /\ build.pc = "compile"
      BY <1>2 DEF Spawn
    <2>2. Facts[build.text].bytes <= MaxBytes
      BY <2>1 DEF HoldsItsText
    <2>3. RepetitionsBounded(Extension[build.file], Facts[build.text].items)
      BY <2>1 DEF Compilable
    <2>4. IsBounded(Started)
      BY <2>2, <2>3 DEF IsBounded, Started, RepetitionsBounded
    <2> QED BY <2>1, <2>4 DEF CompilesAreBounded, TypeOK, IsBounded
  <1>3. ASSUME NEW m \in 1..MaxBuilds, CompileEnds(m) PROVE CompilesAreBounded'
    <2>1. \A n \in 1..MaxBuilds : /\ compiles'[n].text = compiles[n].text
                                  /\ compiles'[n].dialect = compiles[n].dialect
                                  /\ compiles[n].is = "none" => compiles'[n].is = "none"
      BY <1>3 DEF CompileEnds, TypeOK, Compile
    <2> QED BY <2>1 DEF CompilesAreBounded, IsBounded
  <1> QED BY <1>1, <1>2, <1>3
          DEF Next, Building, LoadModule, Resolve, Stat, Read, Receive, Expire, Install,
              Begin, Rewrite, GrantTrust, Over, vars
(* What a build ends with: an instance only from Install or LoadModule.     *)
LEMMA DoneStep ==
    TypeOK /\ KeepsToLane /\ HoldsItsText
    /\ BuiltFromOwnText /\ DataIsVetted /\ ModulesArePermitted /\ [Next]_vars
        => BuiltFromOwnText' /\ DataIsVetted' /\ ModulesArePermitted'
  <1> SUFFICES ASSUME TypeOK, KeepsToLane, HoldsItsText,
                      BuiltFromOwnText, DataIsVetted, ModulesArePermitted, [Next]_vars
               PROVE  BuiltFromOwnText' /\ DataIsVetted' /\ ModulesArePermitted'
    OBVIOUS
  <1> DEFINE Found == /\ LedTo(build.entry, build.file, held)
                      /\ FoundAt(build.file, build.text, held)
                      /\ build.spec = Facts[build.text].spec
  <1>1. CASE UNCHANGED done
    BY <1>1 DEF BuiltFromOwnText, DataIsVetted, ModulesArePermitted, IsModule
  <1>2. CASE done' = NotBuilt
    BY <1>2 DEF BuiltFromOwnText, DataIsVetted, ModulesArePermitted, NotBuilt
  <1>3. ASSUME Refuse PROVE done' = NotBuilt
    BY <1>3, RefuseEnds
  <1>4. ASSUME Built, OptionsApply(build.entry),
               IsModule(build.entry) => Permitted(build.entry),
               ~IsModule(build.entry) =>
                   /\ Firewall(build.spec)
                   /\ build.entry.load # "inline" => Found
        PROVE  BuiltFromOwnText' /\ DataIsVetted' /\ ModulesArePermitted'
    <2>1. done' = [built |-> TRUE, entry |-> build.entry, file |-> build.file,
                   text |-> build.text, spec |-> build.spec, trusted |-> trusted, held |-> held]
      BY <1>4, BuiltEnds
    <2>2. BuiltFromOwnText'
      BY <1>4, <2>1 DEF BuiltFromOwnText, IsModule
    <2>3. DataIsVetted'
      <3>1. done'.entry = build.entry /\ done'.spec = build.spec
        BY <2>1
      <3>2. Firewall(done'.entry.options)
        BY <1>4, <3>1 DEF OptionsApply
      <3>3. ~IsModule(done'.entry) => Firewall(done'.spec)
        BY <1>4, <3>1 DEF IsModule
      <3> QED BY <3>2, <3>3 DEF DataIsVetted, Firewall, IsModule
    <2>4. ModulesArePermitted'
      BY <1>4, <2>1 DEF ModulesArePermitted, Permitted, IsModule
    <2> QED BY <2>2, <2>3, <2>4
  <1>5. ASSUME LoadModule PROVE BuiltFromOwnText' /\ DataIsVetted' /\ ModulesArePermitted'
    <2>1. IsModule(build.entry)
      BY <1>5 DEF LoadModule, KeepsToLane
    <2>2. CASE Refuse
      BY <1>2, <1>3, <2>2
    <2>3. CASE ~Refuse
      BY <1>4, <1>5, <2>1, <2>3 DEF LoadModule
    <2> QED BY <2>2, <2>3
  <1>6. ASSUME Install PROVE BuiltFromOwnText' /\ DataIsVetted' /\ ModulesArePermitted'
    <2>1. ~IsModule(build.entry)
      BY <1>6 DEF Install, KeepsToLane, Steps
    <2>2. CASE Refuse
      BY <1>2, <1>3, <2>2
    <2>3. CASE ~Refuse
      <3>1. Installs(build.entry, build.spec) /\ Built /\ build.pc = "install"
        BY <1>6, <2>3 DEF Install
      <3>2. build.entry.load # "inline" => Found
        BY <3>1 DEF HoldsItsText, HasRead, Resolved
      <3> QED BY <1>4, <2>1, <3>1, <3>2 DEF Installs
    <2> QED BY <2>2, <2>3
  <1>7. ASSUME Resolve \/ Stat \/ Read \/ Spawn \/ Receive \/ Expire
        PROVE  UNCHANGED done \/ done' = NotBuilt
    BY <1>3, <1>7 DEF Resolve, Stat, Read, Spawn, Receive, Expire, Goto
  <1> QED BY <1>1, <1>2, <1>5, <1>6, <1>7
          DEF Next, Building, Begin, CompileEnds, Rewrite, GrantTrust, Over, vars
-----------------------------------------------------------------------------
(* Through any builds, and any files replaced, trust granted and compiles   *)
(* ending meanwhile, every build keeps to its lane and to its own text.     *)
THEOREM LoaderCorrect == Spec => []LoaderInv
  <1>1. LoaderInv /\ [Next]_vars => LoaderInv'
    BY TypeStep, LaneStep, TextStep, CompileStep, DoneStep DEF LoaderInv
  <1> QED BY LoaderInit, <1>1, PTL DEF Spec

(* No compile, an abandoned one included, runs on a text beyond the caps    *)
(* of read_capped and check_repetition_bounds.                              *)
THEOREM AbandonedAreBounded == Spec => []CompilesAreBounded
  <1>1. LoaderInv => CompilesAreBounded
    BY DEF LoaderInv
  <1> QED BY LoaderCorrect, <1>1, PTL

(* Loader::grammar and Loader::spec build from what was read of the file    *)
(* in the entry's folder that its path led to, never from another place's   *)
(* text or from what another build's compile thread sent.                   *)
THEOREM BuildsTakeTheirOwn == Spec => []BuiltFromOwnText
  <1>1. LoaderInv => BuiltFromOwnText
    BY DEF LoaderInv
  <1> QED BY LoaderCorrect, <1>1, PTL

(* Nothing reaches the engine past firewall_spec, by any lane.              *)
THEOREM FirewallIsPassed == Spec => []DataIsVetted
  <1>1. LoaderInv => DataIsVetted
    BY DEF LoaderInv
  <1> QED BY LoaderCorrect, <1>1, PTL

(* gated_make_instance: no module of a workspace entry without trust.       *)
THEOREM TrustIsAsked == Spec => []ModulesArePermitted
  <1>1. LoaderInv => ModulesArePermitted
    BY DEF LoaderInv
  <1> QED BY LoaderCorrect, <1>1, PTL
============================================================================
