----------------------------- MODULE LspServer -----------------------------
(* The server loop of rs/src/server.rs: open documents, the debounced queue *)
(* of documents to analyze, the analyses it serves structural results from, *)
(* the diagnostics it has published, the workspace tier it routes by and    *)
(* the instances it parses with.  One thread runs the loop; what changes    *)
(* between two of its steps is the clock, the files on disk and what the    *)
(* client has been told of them.                                            *)
(*                                                                          *)
(* Routing is Router's and the instances are InstanceCache's: both modules  *)
(* are instantiated here, the cache over this module's state.               *)
(*                                                                          *)
(* Next to some definitions stands a faulty form no action uses, named for  *)
(* the mistake: what the properties below are there to catch.               *)
EXTENDS Naturals, Sequences, FiniteSets, SequencesExt

CONSTANTS
    Uri,            \* the documents a client opens
    About,          \* [Uri -> what routing sees of it: id, uri]
    Name,           \* the names their addresses are made of
    Text,           \* the texts a document may have
    Big,            \* those over max_document_bytes
    Global,         \* the global tier, merged
    Session,        \* config.workspace_entries and initializationOptions.languages
    Manifest,       \* the contents the workspace manifest may have on disk
    Languages,      \* [Manifest -> the entries read_workspace_manifest yields]
    File,           \* the grammar files, <<folder, relative path>>
    ManifestFile,   \* the manifest's own path
    QuarantineLimit,
    NoPath, NoExt, NoEntry, NoInstance, Nothing,
    MaxVersion,     \* bound: versions of a document between open and close
    MaxEdits        \* bound: edits of files on disk

VARIABLES
    session,    \* "new", "initialized", "watched": the client reports file changes
    workspace,  \* Router.workspace
    docs,       \* DocumentStore: Nothing, or the version and the text
    analyses,   \* Server.analyses: Nothing, or the version and what was analyzed
    queue,      \* Server.pending, earliest deadline first
    due,        \* how many of the queue have passed their deadline
    phase,      \* the loop is at its "top" or in the middle of a "turn"
    batch,      \* the documents analyze_due found due, and has yet to run
    instances,  \* Server.instances
    published,  \* Server.published
    shown,      \* the last diagnostics the client got for each document
    outcome,    \* how the last analysis of each document ended, and what it was of
    disk,       \* [files : how often each was written, manifest, edits]
    reports,    \* the changed files the client has yet to report
    missed      \* those that changed before it watched, and were not read since

loop    == <<queue, due, phase, batch>>
results == <<analyses, published, shown, outcome>>
client  == <<session, disk, reports, missed>>
vars    == <<workspace, docs, instances, loop, results, client>>

(* Router::new's index of the global tier.                                  *)
ById == [id \in {e.id : e \in Range(Global)} |->
            CHOOSE i \in DOMAIN Global : Global[i].id = id]

Routes == INSTANCE Router WITH global <- Global, byId <- ById

Route(u) == Routes!Resolve(About[u]).entry

(* Every entry that may ever be declared.                                   *)
Entry == Range(Global) \cup Range(Session) \cup UNION {Range(Languages[m]) : m \in Manifest}

(* An instance is known by the entry it was built for and by how often the  *)
(* file it was built from had been written.                                 *)
Build == [entry : Entry, writes : 0..MaxEdits]

Doc      == [version : 1..MaxVersion, text : Text]
Analyzed == [text : Text, inst : Build \cup {NoInstance}]
Analysis == [version : 1..MaxVersion, of : Analyzed]

(* What a manifest declares is stamped as the workspace's.                  *)
ASSUME ServerAssumption ==
    /\ IsFiniteSet(Uri)
    /\ Big \subseteq Text
    /\ QuarantineLimit \in Nat \ {0} /\ MaxVersion \in Nat \ {0} /\ MaxEdits \in Nat
    /\ Session \in Seq(Entry)
    /\ \A m \in Manifest : Languages[m] \in Seq({e \in Entry : e.workspace})
    /\ NoEntry \notin Entry /\ NoInstance \notin Build /\ Nothing \notin Doc \cup Analysis

Cache == INSTANCE InstanceCache

(* watched_file: the grammar file of a workspace entry that has one.        *)
Source(e)    == <<e.dir, e.load>>
IsWatched(e) == e.workspace /\ Source(e) \in File
Writes(e)    == IF Source(e) \in File THEN disk.files[Source(e)] ELSE 0

(* What make_instance may answer now: it reads the file afresh, and it may  *)
(* refuse (an unreadable or unsound grammar, the compile budget, a panic).  *)
Attempt(e) == [entry |-> e, writes |-> Writes(e)]
Made(e)    == {Attempt(e), NoInstance}

Open    == {u \in Uri : docs[u] # Nothing}
Silence == [some |-> FALSE, of |-> Nothing]

(* How an analysis may end, and what it was of: the text, with what that    *)
(* was parsed with, or what was to be built and could not be.  The end of   *)
(* each document's last one is history: no step depends on it.              *)
Ending == {"none", "unserved", "large", "quarantined", "refused", "crashed", "failed", "served"}
Ended(how, of) == [how |-> how, of |-> of]

TypeOK ==
    /\ session \in {"new", "initialized", "watched"}
    /\ workspace \in {<<>>} \cup {Session \o Languages[m] : m \in Manifest}
    /\ docs \in [Uri -> Doc \cup {Nothing}]
    /\ analyses \in [Uri -> Analysis \cup {Nothing}]
    /\ queue \in Seq(Uri) /\ \A i, j \in DOMAIN queue : queue[i] = queue[j] => i = j
    /\ batch \in 0..due /\ due \in 0..Len(queue) /\ phase \in {"top", "turn"}
    /\ Cache!TypeOK
    /\ published \subseteq Uri
    /\ shown \in [Uri -> [some : BOOLEAN, of : Analyzed \cup {Nothing}]]
    /\ outcome \in [Uri -> [how : Ending, of : Analyzed \cup {Nothing}]]
    /\ disk \in [files : [File -> 0..MaxEdits], manifest : Manifest, edits : 0..MaxEdits]
    /\ reports \subseteq File \cup {ManifestFile}
    /\ missed \subseteq File \cup {ManifestFile}

(* Server::new; the client starts the session over whatever is on disk.     *)
Init ==
    /\ session = "new"
    /\ workspace = <<>>
    /\ docs = [u \in Uri |-> Nothing]
    /\ analyses = [u \in Uri |-> Nothing]
    /\ queue = <<>> /\ due = 0 /\ phase = "top" /\ batch = 0
    /\ instances = Cache!Empty
    /\ published = {}
    /\ shown = [u \in Uri |-> Silence]
    /\ outcome = [u \in Uri |-> Ended("none", Nothing)]
    /\ \E m \in Manifest :
          disk = [files |-> [f \in File |-> 0], manifest |-> m, edits |-> 0]
    /\ reports = {}
    /\ missed = {}
----------------------------------------------------------------------------
(* The queue.  schedule restarts the debounce, so what it schedules goes    *)
(* last, in whatever order several are visited.                             *)

(* What is left of each prefix of a queue without some of the documents.    *)
Without(s, us) ==
    LET left[n \in 0..Len(s)] ==
            IF n = 0 THEN <<>>
            ELSE IF s[n] \in us THEN left[n - 1] ELSE Append(left[n - 1], s[n])
    IN  left

Unschedule(us) ==
    /\ queue' = Without(queue, us)[Len(queue)]
    /\ due' = Len(Without(queue, us)[due])

Schedule(us) ==
    \E order \in SetToSeqs(us) :
        /\ queue' = Without(queue, us)[Len(queue)] \o order
        /\ due' = Len(Without(queue, us)[due])

(* One run_analysis of a document that routes to e, by how it ends.         *)

(* No route: what was said about the document is withdrawn.                 *)
UnservedUncounted(u, e) ==
    /\ e = NoEntry
    /\ shown' = IF u \in published THEN [shown EXCEPT ![u] = Silence] ELSE shown
    /\ outcome' = [outcome EXCEPT ![u] = Ended("unserved", Nothing)]
    /\ UNCHANGED <<analyses, instances, published>>

Unserved(u, e) ==
    /\ e = NoEntry
    /\ shown' = IF u \in published THEN [shown EXCEPT ![u] = Silence] ELSE shown
    /\ published' = published \ {u}
    /\ outcome' = [outcome EXCEPT ![u] = Ended("unserved", Nothing)]
    /\ UNCHANGED <<analyses, instances>>

Serves(u, e) == e # NoEntry /\ docs[u].text \notin Big

(* Over max_document_bytes: one diagnostic, and no parse.                   *)
TooLarge(u, e) ==
    /\ e # NoEntry
    /\ docs[u].text \in Big
    /\ analyses' = [analyses EXCEPT ![u] = Nothing]
    /\ published' = published \cup {u}
    /\ \E of \in {[text |-> docs[u].text, inst |-> NoInstance]} :
          /\ shown' = [shown EXCEPT ![u] = [some |-> TRUE, of |-> of]]
          /\ outcome' = [outcome EXCEPT ![u] = Ended("large", of)]
    /\ UNCHANGED instances

(* Quarantined, or the load failed: nothing is published, nothing dropped.  *)
Refused(u, e) == Ended("refused", [text |-> docs[u].text, inst |-> Attempt(e)])

NoGrammarCountedTwice(u, e) ==
    /\ Serves(u, e)
    /\ \E made \in Made(e) :
          /\ Cache!Got(instances, e, made) = NoInstance
          /\ instances' = Cache!RecordFailure(Cache!AfterGet(instances, e, made), e)
    /\ outcome' = [outcome EXCEPT ![u] = Refused(u, e)]
    /\ UNCHANGED <<analyses, published, shown>>

NoGrammar(u, e) ==
    /\ Serves(u, e)
    /\ \E made \in Made(e) :
          /\ Cache!Got(instances, e, made) = NoInstance
          /\ instances' = Cache!AfterGet(instances, e, made)
    /\ outcome' = [outcome EXCEPT ![u] =
          IF Cache!Quarantined(instances, e) THEN Ended("quarantined", Nothing) ELSE Refused(u, e)]
    /\ UNCHANGED <<analyses, published, shown>>

(* What a parse with recovery on yields: the errors it recovered from, and  *)
(* one raised outside the parse loop, with none beside it; with recovery    *)
(* off, the one error it fails with, twice.                                 *)
Recovery ==
    {[errors |-> errors, fatal |-> Nothing] :
        errors \in {<<>>, <<"syntax">>, <<"syntax", "internal">>}}
    \cup {[errors |-> <<>>, fatal |-> code] : code \in {"syntax", "internal"}}
    \cup {[errors |-> <<code>>, fatal |-> code] : code \in {"syntax", "internal"}}

(* errors_of: the terminal error is listed once.                            *)
ErrorsOf(recovery) ==
    IF recovery.fatal = Nothing \/ (recovery.errors # <<>> /\ Last(recovery.errors) = recovery.fatal)
    THEN recovery.errors ELSE Append(recovery.errors, recovery.fatal)

(* internal_failure: among them, the grammar's own code failing.            *)
InternalFailure(errors) == "internal" \in Range(errors)

(* The grammar's own code failed: counted, and nothing is published.        *)
Crashed(u, e) ==
    /\ Serves(u, e)
    /\ \E made \in Made(e), recovery \in Recovery :
          LET inst == Cache!Got(instances, e, made)
          IN  /\ inst # NoInstance
              /\ InternalFailure(ErrorsOf(recovery))
              /\ instances' = Cache!RecordFailure(Cache!AfterGet(instances, e, made), e)
              /\ outcome' = [outcome EXCEPT ![u] =
                               Ended("crashed", [text |-> docs[u].text, inst |-> inst])]
    /\ UNCHANGED <<analyses, published, shown>>

(* A parse: its diagnostics are published, and its structural results kept  *)
(* for the version parsed unless it raised its terminal error.              *)
Parsed(u, e) ==
    /\ Serves(u, e)
    /\ \E made \in Made(e), recovery \in Recovery :
          LET failed == recovery.fatal # Nothing
              inst   == Cache!Got(instances, e, made)
              of     == [text |-> docs[u].text, inst |-> inst]
              errors == ErrorsOf(recovery)
          IN  /\ inst # NoInstance
              /\ ~InternalFailure(errors)
              /\ instances' = Cache!AfterGet(instances, e, made)
              /\ published' = IF errors = <<>> THEN published \ {u} ELSE published \cup {u}
              /\ shown' = [shown EXCEPT ![u] = [some |-> errors # <<>>, of |-> of]]
              /\ analyses' = IF failed THEN analyses
                             ELSE [analyses EXCEPT ![u] = [version |-> docs[u].version, of |-> of]]
              /\ outcome' = [outcome EXCEPT ![u] =
                               Ended(IF failed THEN "failed" ELSE "served", of)]

RunAnalysis(u) ==
    IF docs[u] = Nothing THEN UNCHANGED <<results, instances>>
    ELSE \E e \in {Route(u)} :
            Unserved(u, e) \/ TooLarge(u, e) \/ NoGrammar(u, e) \/ Crashed(u, e) \/ Parsed(u, e)
----------------------------------------------------------------------------
(* The loop: analyze what is due, then one message or a timeout.            *)

BeginTurnLate ==
    /\ phase = "top"
    /\ phase' = "turn"
    /\ batch' = IF due = 0 THEN 0 ELSE due - 1
    /\ UNCHANGED <<workspace, docs, instances, queue, due, results, client>>

BeginTurn ==
    /\ phase = "top"
    /\ phase' = "turn"
    /\ batch' = due
    /\ UNCHANGED <<workspace, docs, instances, queue, due, results, client>>

AnalyzeNext ==
    /\ phase = "turn" /\ batch > 0
    /\ RunAnalysis(Head(queue))
    /\ queue' = Tail(queue) /\ due' = due - 1 /\ batch' = batch - 1
    /\ UNCHANGED <<workspace, docs, phase, client>>

(* recv_timeout: the earliest deadline passed before a message came.        *)
Timeout ==
    /\ phase = "turn" /\ batch = 0 /\ due > 0
    /\ phase' = "top"
    /\ UNCHANGED <<workspace, docs, instances, queue, due, batch, results, client>>

(* A message is taken, handled and answered, and the turn is over.          *)
Handles == phase = "turn" /\ batch = 0 /\ phase' = "top" /\ batch' = 0
----------------------------------------------------------------------------
(* rebuild_registry, reading the manifest as it is on disk now.             *)
RebuildKeepsOld ==
    LET tier  == Session \o Languages[disk.manifest]
        stale == {e \in Range(Global) \cup Range(tier) : e.workspace}
    IN  /\ workspace' = tier
        /\ instances' = Cache!Invalidate(instances, stale)

RebuildRegistry ==
    LET tier  == Session \o Languages[disk.manifest]
        stale == {e \in Range(Global) \cup Range(workspace) \cup Range(tier) : e.workspace}
    IN  /\ workspace' = tier
        /\ instances' = Cache!Invalidate(instances, stale)

Initialize ==
    /\ Handles
    /\ session = "new"
    /\ RebuildRegistry
    /\ session' = "initialized"
    /\ missed' = missed \ {ManifestFile}
    /\ UNCHANGED <<docs, queue, due, results, disk, reports>>

DidOpenReloads(u, text) ==
    /\ Handles
    /\ session # "new"
    /\ docs[u] # Nothing => docs[u].version < MaxVersion
    /\ docs' = [docs EXCEPT ![u] =
          [version |-> IF @ = Nothing THEN 1 ELSE @.version + 1, text |-> text]]
    /\ Schedule({u})
    /\ instances' = Cache!Invalidate(instances, {Route(u)} \ {NoEntry})
    /\ UNCHANGED <<workspace, results, client>>

(* A document the client has open is replaced (no client should open one,   *)
(* but one that does gives it a new version).                               *)
DidOpen(u, text) ==
    /\ Handles
    /\ session # "new"
    /\ docs[u] # Nothing => docs[u].version < MaxVersion
    /\ docs' = [docs EXCEPT ![u] =
          [version |-> IF @ = Nothing THEN 1 ELSE @.version + 1, text |-> text]]
    /\ Schedule({u})
    /\ UNCHANGED <<workspace, instances, results, client>>

(* did_change; it ignores a document that is not open.                      *)
DidChangeQuietly(u, text) ==
    /\ Handles
    /\ docs[u] # Nothing /\ docs[u].version < MaxVersion
    /\ docs' = [docs EXCEPT ![u] = [version |-> @.version + 1, text |-> text]]
    /\ analyses' = [analyses EXCEPT ![u] = Nothing]
    /\ UNCHANGED <<queue, due, workspace, instances, published, shown, outcome, client>>

DidChange(u, text) ==
    /\ Handles
    /\ session # "new"
    /\ docs[u] # Nothing => docs[u].version < MaxVersion
    /\ IF docs[u] = Nothing THEN UNCHANGED <<docs, analyses, queue, due>>
       ELSE /\ docs' = [docs EXCEPT ![u] = [version |-> @.version + 1, text |-> text]]
            /\ analyses' = [analyses EXCEPT ![u] = Nothing]
            /\ Schedule({u})
    /\ UNCHANGED <<workspace, instances, published, shown, outcome, client>>

DidCloseKeepsResults(u) ==
    /\ Handles
    /\ docs[u] # Nothing
    /\ docs' = [docs EXCEPT ![u] = Nothing]
    /\ Unschedule({u})
    /\ published' = published \ {u}
    /\ shown' = [shown EXCEPT ![u] = Silence]
    /\ outcome' = [outcome EXCEPT ![u] = Ended("none", Nothing)]
    /\ UNCHANGED <<workspace, instances, analyses, client>>

DidClose(u) ==
    /\ Handles
    /\ docs[u] # Nothing
    /\ docs' = [docs EXCEPT ![u] = Nothing]
    /\ analyses' = [analyses EXCEPT ![u] = Nothing]
    /\ Unschedule({u})
    /\ published' = published \ {u}
    /\ shown' = [shown EXCEPT ![u] = Silence]
    /\ outcome' = [outcome EXCEPT ![u] = Ended("none", Nothing)]
    /\ UNCHANGED <<workspace, instances, client>>

(* A batch with the manifest in it: the tier is rebuilt, which reloads all  *)
(* its instances, and every open document is analyzed again.                *)
ManifestChanged ==
    /\ RebuildRegistry
    /\ analyses' = [u \in Uri |-> Nothing]
    /\ Schedule(Open)

(* One without it: the entries that load one of the files are reloaded and  *)
(* the documents they serve analyzed again.                                 *)
ReloadsUnseen(files) ==
    LET reloaded == {e \in Range(Global) \cup Range(workspace) : IsWatched(e) /\ Source(e) \in files}
    IN  /\ instances' = Cache!Invalidate(instances, reloaded)
        /\ UNCHANGED <<workspace, analyses, queue, due>>

GrammarsChanged(files) ==
    LET reloaded == {e \in Range(Global) \cup Range(workspace) : IsWatched(e) /\ Source(e) \in files}
    IN  /\ instances' = Cache!Invalidate(instances, reloaded)
        /\ Schedule({u \in Open : Route(u) \in reloaded})
        /\ UNCHANGED <<workspace, analyses>>

DidChangeWatchedFiles(files) ==
    /\ Handles
    /\ files # {}
    /\ IF ManifestFile \in files THEN ManifestChanged ELSE GrammarsChanged(files)
    /\ reports' = reports \ files
    /\ missed' = missed \ files
    /\ UNCHANGED <<docs, published, shown, outcome, session, disk>>

(* A completion request that gets as far as the instance.                   *)
Completion(u) ==
    /\ Handles
    /\ docs[u] # Nothing
    /\ \E e \in {Route(u)} :
          /\ Serves(u, e)
          /\ \E made \in Made(e) : instances' = Cache!AfterGet(instances, e, made)
    /\ UNCHANGED <<workspace, docs, queue, due, results, client>>

(* Any other request is answered from what the server holds.                *)
Answer ==
    /\ Handles
    /\ UNCHANGED <<workspace, docs, instances, queue, due, results, client>>

(* current_analysis.                                                        *)
IsCurrent(u) == docs[u] # Nothing /\ analyses[u] # Nothing
                /\ analyses[u].version = docs[u].version
----------------------------------------------------------------------------
(* What goes on around the loop.                                            *)

Expire ==
    /\ due < Len(queue)
    /\ due' = due + 1
    /\ UNCHANGED <<workspace, docs, instances, queue, phase, batch, results, client>>

(* The client registers the watchers `initialized` asks for.                *)
Watch ==
    /\ session = "initialized"
    /\ session' = "watched"
    /\ UNCHANGED <<workspace, docs, instances, loop, results, disk, reports, missed>>

Written(file) ==
    /\ IF session = "watched"
       THEN reports' = reports \cup {file} /\ UNCHANGED missed
       ELSE missed' = missed \cup {file} /\ UNCHANGED reports
    /\ UNCHANGED <<workspace, docs, instances, loop, results, session>>

EditFile(f) ==
    /\ disk.edits < MaxEdits
    /\ disk' = [disk EXCEPT !.files[f] = @ + 1, !.edits = @ + 1]
    /\ Written(f)

EditManifest(m) ==
    /\ disk.edits < MaxEdits
    /\ m # disk.manifest
    /\ disk' = [disk EXCEPT !.manifest = m, !.edits = @ + 1]
    /\ Written(ManifestFile)

Reported == \E files \in SUBSET reports : DidChangeWatchedFiles(files)

Next ==
    \/ BeginTurn \/ AnalyzeNext \/ Timeout
    \/ Initialize \/ Answer \/ Reported
    \/ \E u \in Uri : DidClose(u) \/ Completion(u)
    \/ \E u \in Uri, text \in Text : DidOpen(u, text) \/ DidChange(u, text)
    \/ Expire \/ Watch
    \/ \E f \in File : EditFile(f)
    \/ \E m \in Manifest : EditManifest(m)

Spec == Init /\ [][Next]_vars

(* The loop runs and time passes.  A report the client sends is handled: a  *)
(* message that has arrived waits only for those before it.                 *)
FairSpec ==
    /\ Spec
    /\ WF_vars(BeginTurn \/ AnalyzeNext \/ Timeout) /\ WF_vars(Expire)
    /\ SF_vars(Reported)
----------------------------------------------------------------------------
(* Structural results are never served against another text than the one    *)
(* they were made from, through any run of opens, edits and closes.         *)
ServedIsCurrent == \A u \in Uri : IsCurrent(u) => analyses[u].of.text = docs[u].text

(* The server knows what the client still shows: published is exactly the   *)
(* documents whose last diagnostics were not empty, and of a closed         *)
(* document nothing is shown, kept or scheduled.                            *)
DiagnosticsAccounted ==
    /\ published = {u \in Uri : shown[u].some}
    /\ \A u \in Uri \ Open : analyses[u] = Nothing /\ u \notin Range(queue) \cup published

(* An open document with nothing left to run.                               *)
Settled(u) == u \in Open \ Range(queue)

(* A file differs from what was built from it only until the client's       *)
(* report of the change arrives (or from before the client was watching).   *)
Unreported(e) == ~IsWatched(e) \/ Source(e) \in reports \cup missed
Stale(inst)   == inst.writes # Writes(inst.entry)

StaleIsReported ==
    \A e \in Entry : LET inst == instances.cache[Cache!KeyOf(e)] IN
        inst # NoInstance =>
            /\ Stale(inst) => Unreported(inst.entry)
            /\ inst.entry \in Range(Global) \cup Range(workspace)

(* An analysis whose text is the document's, and whose grammar is that of   *)
(* the entry that serves it, from the file as it is but for changes no      *)
(* report has told of yet.                                                  *)
IsOfNow(of, u) ==
    /\ of.text = docs[u].text
    /\ of.inst.entry = Route(u)
    /\ Stale(of.inst) => Unreported(Route(u))

HasFailed(I, e) == I.failures[Cache!KeyOf(e)] > 0

(* Nothing is left to do for a settled document: its last analysis was of   *)
(* its present text, by the entry that now serves it, from the present      *)
(* grammar file.  If that parse was published, it is what the client shows, *)
(* and unless it failed what the structure is served from.  If the grammar  *)
(* was refused or its own code failed, the client keeps what it was last    *)
(* shown, whatever a completion has built since, and the failure is still   *)
(* on the entry's count; a quarantine still holds.  One that is too large,  *)
(* or whose language a manifest took away, is served nothing, and the       *)
(* latter shows nothing.                                                    *)
IsFresh(u) ==
    LET how == outcome[u].how
        of  == outcome[u].of
    IN  IF Route(u) = NoEntry THEN ~shown[u].some /\ analyses[u] = Nothing
        ELSE \/ how = "served" /\ IsOfNow(of, u) /\ shown[u].of = of
                /\ IsCurrent(u) /\ analyses[u].of = of
             \/ how = "failed" /\ IsOfNow(of, u) /\ shown[u].of = of
             \/ how \in {"refused", "crashed"} /\ IsOfNow(of, u)
                /\ HasFailed(instances, Route(u))
             \/ how = "quarantined" /\ Cache!Quarantined(instances, Route(u))
             \/ how = "large" /\ docs[u].text \in Big /\ analyses[u] = Nothing
                /\ shown[u].some /\ shown[u].of.text = docs[u].text

SettledIsFresh == \A u \in Uri : Settled(u) => IsFresh(u)

(* Nothing but a reported file change puts a quarantined grammar back into  *)
(* service: no edit of a document, no request, no analysis.                 *)
ReleaseNeedsReport ==
    [][\A e \in Entry :
          Cache!Quarantined(instances, e) /\ ~Cache!Quarantined(instances, e)'
              => reports' # reports \/ session' # session]_vars

(* The instances are used as InstanceCache says.                            *)
ImplementsInstanceCache == Cache!Spec

(* A scheduled document is analyzed (or closed), whatever else the client   *)
(* asks meanwhile.                                                          *)
ScheduledIsAnalyzed == \A u \in Uri : u \in Range(queue) ~> u \notin Range(queue)

(* The developer loop: an open document does not go on showing what an      *)
(* edited grammar file said before the edit, unless the edited grammar was  *)
(* tried and refused, its own code failed, or it is in quarantine.          *)
TriedAndFailed(u) ==
    LET last == outcome[u]
    IN  \/ last.how \in {"refused", "crashed"}
           /\ last.of.inst.entry = Route(u) /\ ~Stale(last.of.inst)
        \/ last.how = "quarantined" /\ Cache!Quarantined(instances, Route(u))
           /\ Source(Route(u)) \notin reports

ShowsOldGrammar(u) ==
    LET of == shown[u].of
    IN  /\ u \in Open /\ Route(u) # NoEntry
        /\ of # Nothing /\ of.inst # NoInstance
        /\ Stale(of.inst) /\ IsWatched(of.inst.entry) /\ Source(of.inst.entry) \notin missed
        /\ ~TriedAndFailed(u)

EditsAreReloaded == \A u \in Uri : ShowsOldGrammar(u) ~> ~ShowsOldGrammar(u)
----------------------------------------------------------------------------
(* What makes the invariants above inductive: an analysis is of a version   *)
(* the document has had, and of the text of that version; no file has been  *)
(* written more often than files have been edited; and an instance lies     *)
(* under the key of its own entry.                                          *)
NeverAhead ==
    \A u \in Open : analyses[u] # Nothing =>
        /\ analyses[u].version <= docs[u].version
        /\ analyses[u].version = docs[u].version => analyses[u].of.text = docs[u].text

WritesAreEdits == \A f \in File : disk.files[f] <= disk.edits

ServerInv ==
    /\ TypeOK
    /\ NeverAhead /\ DiagnosticsAccounted
    /\ WritesAreEdits /\ StaleIsReported /\ Cache!UnderOwnKey

(* And SettledIsFresh: no document is open before the session is, none that *)
(* no entry serves has an analysis.  It takes entries that can be told      *)
(* apart: of those declared at one time, no two agree in all that makes     *)
(* their instances' key, the folder aside.                                  *)
RoutesExplain ==
    /\ session = "new" => Open = {}
    /\ \A u \in Uri : Route(u) = NoEntry => analyses[u] = Nothing

NoneTwice ==
    \A m \in Manifest : \A e, f \in Range(Global) \cup Range(Session) \cup Range(Languages[m]) :
        Cache!Prefix(e) = Cache!Prefix(f) => e = f

FreshInv == RoutesExplain /\ SettledIsFresh
============================================================================
