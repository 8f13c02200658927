------------------------------- MODULE Loader ------------------------------
(* Grammar builds: Loader::make_instance of rs/src/loaders.rs with the      *)
(* sandbox, the size cap, the repetition bounds, the compile thread and its *)
(* budget, and the firewall, behind the trust gate of rs/src/server.rs.     *)
(* One thread builds; between any two of its calls a file may be replaced,  *)
(* trust may be granted, and the compiles of earlier builds, whose budget   *)
(* ended, run on.                                                           *)
(*                                                                          *)
(* Next to some definitions stands a faulty form no action uses, named for  *)
(* the mistake: what the properties below are there to catch.               *)
EXTENDS Naturals, Sequences, SequencesExt, FiniteSetsExt

CONSTANTS
    Entry,          \* the registry entries built
    Place,          \* the absolute paths where something may be, no folder of them a link
    Home,           \* [folder as declared -> where it really is, or NoPath]
    Node,           \* what may be at a place
    Disk,           \* what is at the places when the server starts
    Text,           \* the contents a file may have
    Facts,          \* of a text: [bytes, items, gives]
    Extension,      \* of a place
    Linked,         \* the modules linked into the server
    Nothing,        \* no text, no spec
    NoPath,         \* no folder, no file
    MaxBytes, MaxBound, MaxTotal, MaxRules, MaxAlts,
    MaxBuilds,      \* bound: builds
    MaxRewrites     \* bound: times a file is replaced

(* A serialized spec, or an entry's options as one, by what the firewall    *)
(* finds in it and whether the engine accepts it.                           *)
Faults == {"notObject", "poisoned", "ref", "plugins", "newer", "unknownRef"}
Doc    == [faults : SUBSET Faults, rules : Nat, alts : Nat, accepted : BOOLEAN]

(* A place holds a file with a text, a link to another place, or nothing.   *)
(* The items of a text are runs of digits, names and the rest.  What a text *)
(* gives, read as a spec or compiled, is a spec or an error; a compile may  *)
(* also panic, or never end.                                                *)
NoNode  == [is |-> "none", text |-> Nothing, to |-> NoPath]

ASSUME LoaderAssumption ==
    /\ Disk \subseteq [Place -> Node]
    /\ IsFiniteSet(Place)
    /\ NoNode \in Node /\ Nothing \notin Text /\ NoPath \notin Place
    /\ \A n \in Node : /\ n.text \in Text \cup {Nothing}
                       /\ n.is = "file" => n.text \in Text
                       /\ n.is = "link" => n.to \in Place
    /\ \A t \in Text : /\ Facts[t].gives \in {"spec", "error", "panic", "never"}
                       /\ Facts[t].gives = "spec" => Facts[t].spec \in Doc
    /\ Nothing \notin Entry
    /\ \A e \in Entry : e.load = "inline" => e.inline \in Doc
    /\ {MaxBytes, MaxBound, MaxTotal, MaxRules, MaxAlts, MaxBuilds, MaxRewrites} \subseteq Nat

VARIABLES
    disk,       \* what is at each place
    trusted,    \* trustWorkspaceModules
    build,      \* the build under way
    compiles,   \* the compile thread of each build and its channel
    done,       \* whether the last build ended in an instance, and from what
    rewrites,   \* history: how often a file was replaced
    held        \* history: what a look at the disk would have found since the
                \* last build began

vars == <<disk, trusted, build, compiles, done, rewrites, held>>

Idle      == [n |-> 0, pc |-> "idle", entry |-> Nothing, file |-> NoPath,
              text |-> Nothing, spec |-> Nothing]
NoCompile == [is |-> "none", text |-> Nothing, dialect |-> "none"]
NotBuilt  == [built |-> FALSE, entry |-> Nothing, file |-> NoPath, text |-> Nothing,
              spec |-> Nothing, trusted |-> FALSE, held |-> {}]

(* The places a path passes as its links are followed, and the file it      *)
(* leads to: nowhere if there is none, or if the links go round.            *)
Passed(d, p) ==
    LET within[hops \in 0..Cardinality(Place)] ==
            IF hops = 0 THEN {p}
            ELSE within[hops - 1]
                 \cup {d[q].to : q \in {x \in within[hops - 1] \cap Place : d[x].is = "link"}}
    IN  within[Cardinality(Place)]

Leads(d, p) ==
    LET files == {q \in Passed(d, p) \cap Place : d[q].is = "file"}
    IN  IF p \notin Place \/ files = {} THEN NoPath ELSE CHOOSE q \in files : TRUE

(* What looking at each place finds: the file it leads to, and its text.    *)
Sights(d) ==
    {[at |-> p, file |-> Leads(d, p), text |-> d[Leads(d, p)].text] :
        p \in {q \in Place : Leads(d, q) # NoPath}}

Init ==
    /\ disk \in Disk
    /\ trusted \in BOOLEAN      \* Config::trust_workspace_modules
    /\ build = Idle
    /\ compiles = [n \in 1..MaxBuilds |-> NoCompile]
    /\ done = NotBuilt
    /\ rewrites = 0
    /\ held = {}

IsModule(e) == e.load \in {"module", "null"}

(* The layers of an entry's instance: its stack if it declares one, over or *)
(* instead of its base and, for a module, itself.                           *)
Layers(e) ==
    LET base == IF e.isGrammar THEN e.base ELSE {}
    IN  IF IsModule(e) THEN (IF e.stack # Nothing THEN e.stack ELSE base \cup {e.name})
        ELSE base \cup (IF e.stack # Nothing THEN e.stack ELSE {})
----------------------------------------------------------------------------
Real(p) == Leads(disk, p)

(* path.resolve: `.` and `..` removed without looking at the disk.          *)
LexicalResolve(base, file) ==
    FoldLeft(LAMBDA out, segment :
                 CASE segment = "."  -> out
                   [] segment = ".." -> IF out = <<>> THEN out ELSE Front(out)
                   [] OTHER          -> Append(out, segment),
             IF file.absolute THEN <<>> ELSE base, file.path)

(* The folder an entry's files are in, where it really is; and the path the *)
(* entry's file is declared at, resolved from there.                        *)
Base(e)  == IF e.dir = NoPath THEN NoPath ELSE Home[e.dir]
Named(e) == LexicalResolve(Base(e), e.file)

(* resolve_sandboxed: the real path of an entry's file, if it is in the     *)
(* entry's folder both as declared and where links lead.                    *)
Sandboxed(e) ==
    IF /\ Base(e) # NoPath
       /\ IsPrefix(Base(e), Named(e))
       /\ Real(Named(e)) # NoPath
       /\ IsPrefix(Base(e), Real(Named(e)))
    THEN Real(Named(e)) ELSE NoPath

(* check_repetition_bounds: the counts of a text are its digits that do not *)
(* continue a name; a count of 0 or 1 unrolls nothing.                      *)
Counts(items) == {i \in DOMAIN items : items[i].is = "digits" /\ (i = 1 \/ items[i - 1].is # "name")}

Unrolled(items) ==
    MapThenSumSet(LAMBDA i : items[i].n, {i \in Counts(items) : items[i].n > 1})

RepetitionsBounded(dialect, items) ==
    \/ dialect = ".ebnf"
    \/ /\ \A i \in Counts(items) : items[i].n <= MaxBound
       /\ Unrolled(items) <= MaxTotal

(* firewall_spec: whether it finds nothing.  What is poisoned is refused    *)
(* before the rest is looked at, and a scan that stops early has refused.   *)
Firewall(doc) ==
    /\ doc.faults = {}
    /\ doc.rules <= MaxRules
    /\ doc.alts <= MaxAlts

(* apply_options: the firewall over the entry's options, and the engine.    *)
OptionsApplyUnchecked(e) == e.options.accepted
OptionsApply(e)          == Firewall(e.options) /\ e.options.accepted

(* install_spec: the firewall over the spec, every layer linked, the        *)
(* options, and the engine's own acceptance.                                *)
Installs(e, doc) ==
    /\ Firewall(doc)
    /\ Layers(e) \subseteq Linked
    /\ OptionsApply(e)
    /\ doc.accepted

(* gated_make_instance and Loader::module: a workspace entry's module only  *)
(* with trust, as it is at the time.                                        *)
PermitsNull(e) == e.workspace /\ e.load = "module" => trusted
Permitted(e)   == e.workspace /\ IsModule(e) => trusted
----------------------------------------------------------------------------
(* How a build ends.                                                        *)
End(result) ==
    /\ done' = result
    /\ build' = [Idle EXCEPT !.n = build.n]

Refuse == End(NotBuilt)

Built == End([built |-> TRUE, entry |-> build.entry, file |-> build.file, text |-> build.text,
              spec |-> build.spec, trusted |-> trusted, held |-> held])

Goto(pc) == build' = [build EXCEPT !.pc = pc] /\ UNCHANGED done

(* make_instance: the lane the entry's load names.                          *)
Begin(e) ==
    /\ build.pc = "idle"
    /\ build.n < MaxBuilds
    /\ build' = [Idle EXCEPT !.n = build.n + 1, !.entry = e,
                    !.pc = CASE IsModule(e)        -> "module"
                             [] e.load = "inline"  -> "install"
                             [] OTHER              -> "resolve",
                    !.spec = IF e.load = "inline" THEN e.inline ELSE Nothing]
    /\ held' = Sights(disk)
    /\ done' = NotBuilt
    /\ UNCHANGED <<disk, trusted, compiles, rewrites>>

(* Loader::module: the trust, the layers, the options.                      *)
LoadModule ==
    /\ build.pc = "module"
    /\ LET e == build.entry IN
       IF Permitted(e) /\ Layers(e) \subseteq Linked /\ OptionsApply(e)
       THEN Built ELSE Refuse
    /\ UNCHANGED <<disk, trusted, compiles, rewrites, held>>

Resolve ==
    /\ build.pc = "resolve"
    /\ LET file == Sandboxed(build.entry) IN
       IF file = NoPath THEN Refuse
       ELSE build' = [build EXCEPT !.pc = "stat", !.file = file] /\ UNCHANGED done
    /\ UNCHANGED <<disk, trusted, compiles, rewrites, held>>

(* The text a file has now; a file no longer there cannot be read.          *)
Now == IF Real(build.file) = NoPath THEN Nothing ELSE disk[Real(build.file)].text

(* read_capped: the size the file says it has, then what is read of it.     *)
Stat ==
    /\ build.pc = "stat"
    /\ IF Now # Nothing /\ Facts[Now].bytes <= MaxBytes THEN Goto("read") ELSE Refuse
    /\ UNCHANGED <<disk, trusted, compiles, rewrites, held>>

FitsAsSaid(text) == text # Nothing
Fits(text)       == text # Nothing /\ Facts[text].bytes <= MaxBytes

(* What was read goes to the compiler, or is the spec itself.               *)
Read ==
    /\ build.pc = "read"
    /\ IF ~Fits(Now) THEN Refuse
       ELSE IF build.entry.load = "grammar"
       THEN build' = [build EXCEPT !.pc = "compile", !.text = Now] /\ UNCHANGED done
       ELSE IF Facts[Now].gives = "spec"
       THEN build' = [build EXCEPT !.pc = "install", !.text = Now, !.spec = Facts[Now].spec]
            /\ UNCHANGED done
       ELSE Refuse
    /\ UNCHANGED <<disk, trusted, compiles, rewrites, held>>

(* The dialect of the file that was read, the repetition bounds, and a      *)
(* compile thread with a channel of its own, if one can be started.         *)
Started == [is |-> "running", text |-> build.text, dialect |-> Extension[build.file]]

Compilable ==
    /\ Extension[build.file] \in {".abnf", ".ebnf", ".gbnf"}
    /\ RepetitionsBounded(Extension[build.file], Facts[build.text].items)

Spawn ==
    /\ build.pc = "compile"
    /\ \/ Compilable /\ compiles' = [compiles EXCEPT ![build.n] = Started] /\ Goto("waiting")
       \/ Refuse /\ UNCHANGED compiles
    /\ UNCHANGED <<disk, trusted, rewrites, held>>

(* A compile ends, wanted or not: its thread sends what it gives, which     *)
(* stays in its channel, or panics and drops its end.                       *)
CompileEnds(n) ==
    /\ compiles[n].is = "running"
    /\ Facts[compiles[n].text].gives # "never"
    /\ compiles' = [compiles EXCEPT ![n].is =
                       IF Facts[compiles[n].text].gives = "panic" THEN "dropped" ELSE "sent"]
    /\ UNCHANGED <<disk, trusted, build, done, rewrites, held>>

(* The channel a waiting build listens to.                                  *)
AnyChannel == CHOOSE n \in 1..MaxBuilds : compiles[n].is \in {"sent", "dropped"} \/ n = build.n
Channel    == build.n

(* recv_timeout, in time: the compile's answer, or that there is none.      *)
Receive ==
    /\ build.pc = "waiting"
    /\ compiles[Channel].is \in {"sent", "dropped"}
    /\ LET answer == compiles[Channel] IN
       IF answer.is = "sent" /\ Facts[answer.text].gives = "spec"
       THEN build' = [build EXCEPT !.pc = "install", !.spec = Facts[answer.text].spec]
            /\ UNCHANGED done
       ELSE Refuse
    /\ UNCHANGED <<disk, trusted, compiles, rewrites, held>>

(* recv_timeout, too late: the compile runs on.                             *)
ExpireIfEnding ==
    /\ build.pc = "waiting"
    /\ Facts[build.text].gives # "never"
    /\ Refuse
    /\ UNCHANGED <<disk, trusted, compiles, rewrites, held>>

Expire ==
    /\ build.pc = "waiting"
    /\ Refuse
    /\ UNCHANGED <<disk, trusted, compiles, rewrites, held>>

Install ==
    /\ build.pc = "install"
    /\ IF Installs(build.entry, build.spec) THEN Built ELSE Refuse
    /\ UNCHANGED <<disk, trusted, compiles, rewrites, held>>

(* Outside the loader: an editor replaces a file, initialize grants trust.  *)
Rewrite(p, node) ==
    /\ rewrites < MaxRewrites
    /\ node # disk[p]
    /\ disk' = [disk EXCEPT ![p] = node]
    /\ held' = held \cup Sights(disk')
    /\ rewrites' = rewrites + 1
    /\ UNCHANGED <<trusted, build, compiles, done>>

GrantTrust ==
    /\ ~trusted
    /\ trusted' = TRUE
    /\ UNCHANGED <<disk, build, compiles, done, rewrites, held>>

Over ==
    /\ build.pc = "idle" /\ build.n = MaxBuilds
    /\ UNCHANGED vars

Building == LoadModule \/ Resolve \/ Stat \/ Read \/ Spawn \/ Receive \/ Expire \/ Install

Next ==
    \/ Building
    \/ \E e \in Entry : Begin(e)
    \/ \E n \in 1..MaxBuilds : CompileEnds(n)
    \/ \E p \in Place, node \in Node : Rewrite(p, node)
    \/ GrantTrust
    \/ Over

Spec == Init /\ [][Next]_vars

(* The building thread runs and time passes.  Nothing is assumed of the     *)
(* compiles: they may never end.                                            *)
FairSpec == Spec /\ WF_vars(Building)
----------------------------------------------------------------------------
(* Whatever becomes of a file between the looks at it, no compile runs on a *)
(* text beyond the caps that keep compiles short, an abandoned one included.*)
IsBounded(compile) ==
    LET items == Facts[compile.text].items
    IN  /\ Facts[compile.text].bytes <= MaxBytes
        /\ \/ compile.dialect = ".ebnf"
           \/ /\ \A i \in Counts(items) : items[i].n > 1 => items[i].n <= MaxBound
              /\ Unrolled(items) <= MaxTotal

CompilesAreBounded ==
    \A n \in 1..MaxBuilds : compiles[n].is # "none" => IsBounded(compiles[n])

(* Whatever is replaced while it runs, a build takes its grammar from the   *)
(* entry's own file: the file is in the entry's folder and is where the     *)
(* path the entry declares led during this build, the text is what a look   *)
(* at that file found during this build, and the spec is what that text     *)
(* gives, not what the compile of an earlier build sent too late.           *)
LedTo(e, file, looks) ==
    IsPrefix(Base(e), file) /\ \E look \in looks : look.at = Named(e) /\ look.file = file

FoundAt(file, text, looks) == \E look \in looks : look.at = file /\ look.text = text

BuiltFromOwnText ==
    done.built /\ done.entry.load \in {"spec", "grammar"} =>
        /\ LedTo(done.entry, done.file, done.held)
        /\ FoundAt(done.file, done.text, done.held)
        /\ done.spec = Facts[done.text].spec

(* Whichever lane it came by, what the engine was given of an entry, its    *)
(* spec and its options, holds nothing the firewall must refuse.            *)
DataIsVetted ==
    done.built =>
        \A doc \in {done.entry.options} \cup (IF IsModule(done.entry) THEN {} ELSE {done.spec}) :
            doc.faults = {} /\ doc.rules <= MaxRules /\ doc.alts <= MaxAlts

(* No manifest gets code run by being opened: a workspace entry's module,   *)
(* however its load is spelled, is built only with trust.                   *)
ModulesArePermitted ==
    done.built /\ done.entry.workspace /\ IsModule(done.entry) => done.trusted

(* A build ends, though its compile never may.                              *)
BuildsEnd == build.pc # "idle" ~> build.pc = "idle"
----------------------------------------------------------------------------
(* What makes the properties above inductive.                               *)

Steps == {"idle", "module", "resolve", "stat", "read", "compile", "waiting", "install"}

BuildState == [n : 0..MaxBuilds, pc : Steps, entry : Entry \cup {Nothing},
               file : Place \cup {NoPath}, text : Text \cup {Nothing}, spec : Doc \cup {Nothing}]
Compile    == [is : {"none", "running", "sent", "dropped"}, text : Text \cup {Nothing},
               dialect : {"none", ".abnf", ".ebnf", ".gbnf"}]
Look       == [at : Place, file : Place, text : Text]
Result     == [built : BOOLEAN, entry : Entry \cup {Nothing}, file : Place \cup {NoPath},
               text : Text \cup {Nothing}, spec : Doc \cup {Nothing}, trusted : BOOLEAN,
               held : SUBSET Look]

TypeOK ==
    /\ disk \in [Place -> Node]
    /\ trusted \in BOOLEAN
    /\ build \in BuildState
    /\ compiles \in [1..MaxBuilds -> Compile]
    /\ done \in Result
    /\ rewrites \in 0..MaxRewrites
    /\ held \subseteq Look

(* A build keeps to the lane its entry names.                               *)
KeepsToLane ==
    /\ build.pc # "idle" => build.n > 0 /\ build.entry \in Entry
    /\ build.pc = "module" => IsModule(build.entry)
    /\ build.pc \in Steps \ {"idle", "module"} => ~IsModule(build.entry)
    /\ build.pc \in {"resolve", "stat", "read", "compile", "waiting"} =>
           build.entry.load # "inline"

(* What a look at the disk finds while a build runs is among what one was   *)
(* held to find; the file it resolved is the entry's, the text it read was  *)
(* that file's, and fits; what it listens to compiles that text; and the    *)
(* spec it will install is that text's.                                     *)
HasRead  ==
    \/ build.pc \in {"compile", "waiting"}
    \/ build.pc = "install" /\ build.entry.load # "inline"
Resolved == HasRead \/ build.pc \in {"stat", "read"}

HoldsItsText ==
    /\ build.pc # "idle" => Sights(disk) \subseteq held
    /\ Resolved => build.file \in Place /\ LedTo(build.entry, build.file, held)
    /\ HasRead => FoundAt(build.file, build.text, held)
    /\ build.pc \in {"compile", "waiting"} => Facts[build.text].bytes <= MaxBytes
    /\ build.pc = "waiting" => compiles[build.n].text = build.text
    /\ build.pc = "install" /\ build.entry.load # "inline" => build.spec = Facts[build.text].spec

LoaderInv ==
    /\ TypeOK /\ KeepsToLane /\ HoldsItsText
    /\ CompilesAreBounded /\ BuiltFromOwnText /\ DataIsVetted /\ ModulesArePermitted
============================================================================
